--------------------------- MODULE MatrixReordering --------------------------
(***************************************************************************)
(* Reordering and ReorderingScaling (src/reorderingscaling.cpp): applied   *)
(* to a stored matrix, undone, and applied to the vectors of a system with *)
(* it; the products of src/blas/matvecs.cpp.                               *)
(***************************************************************************)
EXTENDS StoredMatrix

None == <<>>            \* a vector without elements: its step is left out

InvertPermutation(p) == [v \in DOMAIN p |-> CHOOSE i \in DOMAIN p : p[i] = v]

\* setOrdering; the scalings are set by the class that computes them.
SetOrdering(rord, cord, rowscale, colscale) ==
  [rp |-> rord, irp |-> InvertPermutation(rord),
   cp |-> cord, icp |-> InvertPermutation(cord),
   rowscale |-> rowscale, colscale |-> colscale]

IsPermutation(p, D) ==
  /\ p \in [D -> D]
  /\ \A a, b \in D : p[a] = p[b] => a = b
  /\ \A d \in D : \E a \in D : p[a] = d

\* What the callers of setOrdering have for n block rows and columns.
IsOrdering(o, n) ==
  /\ o = SetOrdering(o.rp, o.cp, o.rowscale, o.colscale)
  /\ \A p \in {o.rp, o.cp} \ {None} : IsPermutation(p, Below(n))
  /\ \A scale \in {o.rowscale, o.colscale} \ {None} : scale \in [Below(n) -> Units]

(***************************************************************************)
(* A matrix as its list of rows, each a sequence of [col, val], and back;  *)
(* the diagonal positions stay as they are.                                *)
(***************************************************************************)
RowList(m) ==
  [i \in Rows(m) |->
     [q \in 1 .. m.browptr[i + 1] - m.browptr[i] |->
        [col |-> m.bcolind[m.browptr[i] + q - 1], val |-> m.vals[m.browptr[i] + q - 1]]]]

Packed(m, rows) ==
  LET ptr == Scan(m.nbrows, [i \in Rows(m) |-> Len(rows[i])])
      Entry(jj) == LET i == CHOOSE i \in Rows(m) : jj \in ptr[i] .. ptr[i + 1] - 1
                   IN rows[i][jj - ptr[i] + 1]
  IN [m EXCEPT !.browptr = ptr,
               !.bcolind = [jj \in Below(ptr[m.nbrows]) |-> Entry(jj).col],
               !.vals = [jj \in Below(ptr[m.nbrows]) |-> Entry(jj).val]]

(***************************************************************************)
(* sortBlockInnerDimension: the largest column that is left is swapped     *)
(* with the last one, until one is left.                                   *)
(***************************************************************************)
SortBlockInnerDimension(row) ==
  LET Exchanged(s, i) ==
        LET last == Len(s) - i
            pos == CHOOSE q \in 1 .. last :
                     /\ \A r \in 1 .. last : s[r].col <= s[q].col
                     /\ \A r \in 1 .. q - 1 : s[r].col < s[q].col
        IN [s EXCEPT ![last] = s[pos], ![pos] = s[last]]
  IN FoldLeft(Exchanged, row, [i \in 1 .. (IF row = <<>> THEN 0 ELSE Len(row) - 1) |-> i - 1])

Renamed(row, names) ==
  SortBlockInnerDimension([q \in DOMAIN row |-> [row[q] EXCEPT !.col = names[@]]])

(***************************************************************************)
(* Forward: row i becomes what row rp[i] was, column cp[j] becomes j.      *)
(***************************************************************************)
OrderedForward(m, o) ==
  LET rows == IF o.rp = None THEN RowList(m) ELSE [i \in Rows(m) |-> RowList(m)[o.rp[i]]]
  IN Packed(m, IF o.cp = None THEN rows
               ELSE [i \in Rows(m) |-> Renamed(rows[i], o.icp)])

\* Inverse: row rp[i] becomes what row i was, column j becomes cp[j].
OrderedInverse(m, o) ==
  LET rows == IF o.rp = None THEN RowList(m)
              ELSE [d \in Rows(m) |-> RowList(m)[CHOOSE i \in Rows(m) : o.rp[i] = d]]
  IN Packed(m, IF o.cp = None THEN rows
               ELSE [i \in Rows(m) |-> Renamed(rows[i], o.cp)])

RowOf(m, jj) == CHOOSE i \in Rows(m) : jj \in Row(m, i)

\* To divide by the factors (mode INVERSE) is to multiply by these.
Inverses(scale) == [i \in DOMAIN scale |-> Reciprocal(scale[i])]

\* applyScaling on a matrix.
ScaledBy(m, rowscale, colscale) ==
  Valued(m, LAMBDA jj, k :
    LET r == IF rowscale = None THEN 1 ELSE rowscale[RowOf(m, jj)]
        c == IF colscale = None THEN 1 ELSE colscale[m.bcolind[jj]]
    IN (m.vals[jj][k] * r * c) % Mod)

Unscaled(m, o) == ScaledBy(m, Inverses(o.rowscale), Inverses(o.colscale))

\* Faulty variant: the scaling is undone before the ordering.
ReorderScaleInverseSwapped(m, o) == OrderedInverse(Unscaled(m, o), o)

ReorderScaleForward(m, o) == OrderedForward(ScaledBy(m, o.rowscale, o.colscale), o)
ReorderScaleInverse(m, o) == Unscaled(OrderedInverse(m, o), o)
-----------------------------------------------------------------------------
(***************************************************************************)
(* Vectors: 0-based functions of scalars.                                  *)
(***************************************************************************)
\* Faulty variant: the other direction.
OrderVectorForwardByInverse(v, p, bs) ==
  IF p = None THEN v
  ELSE [i \in DOMAIN v |->
          v[(CHOOSE b \in DOMAIN p : p[b] = i \div bs) * bs + (i % bs)]]

OrderVectorForward(v, p, bs) ==
  IF p = None THEN v
  ELSE [i \in DOMAIN v |-> v[p[i \div bs] * bs + (i % bs)]]

OrderVectorInverse(v, p, bs) ==
  IF p = None THEN v
  ELSE [i \in DOMAIN v |->
          v[(CHOOSE b \in DOMAIN p : p[b] = i \div bs) * bs + (i % bs)]]

\* applyScaling on a vector: mode FORWARD, or INVERSE with the Inverses.
ScaleVector(v, scale, bs) ==
  IF scale = None THEN v
  ELSE [i \in DOMAIN v |-> (v[i] * scale[i \div bs]) % Mod]

\* z := a m x + b y (gemv3); apply is the case a = 1, b = 0.
Gemv3(m, a, x, b, y) ==
  LET Term(jj, r) == SumFunction([c \in Below(m.bs) |->
                       m.vals[jj][Place(m, r, c)] * x[m.bcolind[jj] * m.bs + c]])
  IN [s \in Below(Dim(m)) |->
        (b * y[s] + a * SumFunction([jj \in Row(m, s \div m.bs) |-> Term(jj, s % m.bs)])) % Mod]

Apply(m, x) == Gemv3(m, 1, x, 0, x)
=============================================================================
