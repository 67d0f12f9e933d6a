---------------------------- MODULE StoredMatrix -----------------------------
(***************************************************************************)
(* Matrices in block-row storage (include/srmatrixdefs.hpp) and what the   *)
(* code computes from them: the methods of BSRMatrix and of its            *)
(* specialization to scalars (src/blockmatrices.ipp), the products         *)
(* (src/blas/matvecs.cpp), reorderings and scalings                        *)
(* (src/reorderingscaling.cpp).  All indices are 0-based, as in the code.  *)
(*                                                                         *)
(* A matrix m has block size m.bs, m.nbrows block rows with the pointers   *)
(* m.browptr, the block columns m.bcolind, the blocks m.vals and the       *)
(* positions of the diagonal blocks m.diagind.  A block is a function of   *)
(* the place k of a scalar in it, which m.stor says how to read.           *)
(***************************************************************************)
EXTENDS Integers, SequencesExt

CONSTANT Mod            \* scalars are taken modulo this prime

Below(n) == 0 .. n - 1

\* inclusive_scan of the numbers count[0], ..., count[n - 1] behind a zero.
Scan(n, count) == [i \in 0 .. n |-> SumFunctionOnSet(count, Below(i))]

\* The k-th of the numbers S from the smallest on, and all of them in order.
Nth(S, k) == CHOOSE x \in S : Cardinality({y \in S : y < x}) = k - 1
Ordered(S) == [k \in 1 .. Cardinality(S) |-> Nth(S, k)]

Scalars == Below(Mod)
Units == Scalars \ {0}

\* Every scalar but 0 can be divided by.
Field == Mod \in Nat \ {0} /\ \A a \in Units : \E b \in Scalars : (a * b) % Mod = 1
ASSUME ModAssumption == Field

Reciprocal(a) == CHOOSE b \in Scalars : (a * b) % Mod = 1

Nnzb(m) == m.browptr[m.nbrows]
Rows(m) == Below(m.nbrows)
Row(m, i) == m.browptr[i] .. m.browptr[i + 1] - 1
Places(m) == Below(m.bs * m.bs)
Dim(m) == m.nbrows * m.bs

\* The place in a block of the scalar in its row r and column c.
Place(m, r, c) == IF m.stor = "rowmajor" THEN r * m.bs + c ELSE c * m.bs + r

\* The scalars that the arrays represent.
Dense(m) ==
  [p \in Below(Dim(m)) \X Below(Dim(m)) |->
     LET here == {jj \in Row(m, p[1] \div m.bs) : m.bcolind[jj] = p[2] \div m.bs}
     IN IF here = {} THEN 0
        ELSE m.vals[CHOOSE jj \in here : TRUE][Place(m, p[1] % m.bs, p[2] % m.bs)]]

\* What callers have to know of a matrix.
SortedRows(m) ==
  \A i \in Rows(m) : \A jj \in Row(m, i) :
    jj + 1 \in Row(m, i) => m.bcolind[jj] < m.bcolind[jj + 1]
StoresDiagonals(m) == \A i \in Rows(m) : \E jj \in Row(m, i) : m.bcolind[jj] = i
DiagonalsFound(m) ==
  \A i \in Rows(m) : m.diagind[i] \in Row(m, i) /\ m.bcolind[m.diagind[i]] = i
-----------------------------------------------------------------------------
(***************************************************************************)
(* Assembly.                                                               *)
(***************************************************************************)
\* s has the arrays that are passed; the values are what the memory holds,
\* numbers that depend on garbage.
Structured(s, bs, garbage) ==
  [nbrows |-> s.nbrows, bs |-> bs, stor |-> "rowmajor",
   browptr |-> s.browptr, bcolind |-> s.bcolind,
   vals |-> [jj \in DOMAIN s.bcolind |-> [k \in Below(bs * bs) |-> (garbage + 2 * jj + k) % Mod]],
   diagind |-> [i \in Below(s.nbrows) |->
                  Min({jj \in s.browptr[i] .. s.browptr[i + 1] - 1 : s.bcolind[jj] = i})]]

(***************************************************************************)
(* The positions that a block at (starti, startj) goes to, in the order in *)
(* which they are visited, with the index of the scalar in the buffer.  A  *)
(* CSR matrix takes in each row of the block the first bsj entries from    *)
(* column startj on; the block is bsi x bsj.                               *)
(***************************************************************************)
Positions(m, i, cols) == Ordered({jj \in Row(m, i) : m.bcolind[jj] \in cols})

RowPlaces(m, starti, startj, bsi, bsj, stride) ==
  FlattenSeq([r \in 1 .. bsi |->
    LET from == Positions(m, starti + r - 1, startj .. m.nbrows - 1)
    IN [k \in 1 .. (IF Len(from) < bsj THEN Len(from) ELSE bsj) |->
          [jj |-> from[k], k |-> 0, from |-> (r - 1) * stride + k - 1]]])

BlockPlaces(m, starti, startj) ==
  FlattenSeq([q \in 1 .. Cardinality({jj \in Row(m, starti \div m.bs) :
                                        m.bcolind[jj] = startj \div m.bs}) |->
    LET found == Positions(m, starti \div m.bs, {startj \div m.bs})
    IN [k \in 1 .. m.bs * m.bs |-> [jj |-> found[q], k |-> k - 1, from |-> k - 1]]])

SubmitPlaces(m, starti, startj, bsi, bsj) ==
  IF m.bs = 1 THEN RowPlaces(m, starti, startj, bsi, bsj, bsj)
  ELSE BlockPlaces(m, starti, startj)

\* Here the buffer is read with another stride: right for square blocks only.
UpdatePlaces(m, starti, startj, bsi, bsj) ==
  IF m.bs = 1 THEN RowPlaces(m, starti, startj, bsi, bsj, bsi)
  ELSE BlockPlaces(m, starti, startj)

\* Faulty variant: the columns start at the diagonal entry of each row.
DiagRowPlacesFromDiagonal(m, starti, b) ==
  [q \in 1 .. b * b |->
     LET r == (q - 1) \div b  c == (q - 1) % b
     IN [jj |-> m.diagind[starti + r] + c, k |-> 0, from |-> r * b + c]]

\* Around the diagonal entries of the rows, whatever the columns are.
DiagRowPlaces(m, starti, b) ==
  [q \in 1 .. b * b |->
     LET r == (q - 1) \div b  c == (q - 1) % b
     IN [jj |-> m.diagind[starti + r] - r + c, k |-> 0, from |-> r * b + c]]

DiagPlaces(m, starti, b) ==
  IF m.bs = 1 THEN DiagRowPlaces(m, starti, b)
  ELSE [q \in 1 .. m.bs * m.bs |->
          [jj |-> m.diagind[starti \div m.bs], k |-> q - 1, from |-> q - 1]]

\* buffer: a sequence of scalars.
Submitted(m, places, buffer) ==
  [m EXCEPT !.vals = [jj \in DOMAIN @ |-> [k \in DOMAIN @[jj] |->
     LET here == {q \in DOMAIN places : places[q].jj = jj /\ places[q].k = k}
     IN IF here = {} THEN @[jj][k] ELSE buffer[places[Max(here)].from + 1]]]]

Valued(m, F(_, _)) ==
  [m EXCEPT !.vals = [jj \in DOMAIN @ |-> [k \in DOMAIN @[jj] |-> F(jj, k)]]]

AllZero(m) == Valued(m, LAMBDA jj, k : 0)
DiagZero(m) ==
  Valued(m, LAMBDA jj, k : IF \E i \in Rows(m) : m.diagind[i] = jj THEN 0
                           ELSE m.vals[jj][k])
Scaled(m, factor) == Valued(m, LAMBDA jj, k : (factor * m.vals[jj][k]) % Mod)

(***************************************************************************)
(* What a CSR matrix tells of its diagonal; scalars have no sign here.     *)
(***************************************************************************)
Diagonal(m) == [i \in Rows(m) |-> m.vals[m.diagind[i]][0]]

ZeroDiagonalRow(m) ==
  LET zeros == {i \in Rows(m) : Diagonal(m)[i] = 0}
  IN IF zeros = {} THEN -1 ELSE Min(zeros)
GetNumZeroDiagonals(m) == Cardinality({i \in Rows(m) : Diagonal(m)[i] = 0})
GetDiagonalProduct(m) ==
  FoldFunction(LAMBDA d, prod : (d * prod) % Mod, 1, Diagonal(m))
GetDiagonalAbsSum(m) == SumFunction(Diagonal(m))
GetAbsMinDiagonalEntry(m) == Min({Diagonal(m)[i] : i \in Rows(m)})
GetAbsMaxDiagonalEntry(m) == Max({Diagonal(m)[i] : i \in Rows(m)})

(***************************************************************************)
(* areEqual: rows, pointers, columns, values, diagonal positions.          *)
(***************************************************************************)
AreEqual(m1, m2) ==
  IF m1.nbrows # m2.nbrows THEN <<FALSE, TRUE, TRUE, TRUE, TRUE>>
  ELSE IF Nnzb(m1) # Nnzb(m2) THEN <<TRUE, FALSE, TRUE, TRUE, TRUE>>
  ELSE <<TRUE, \A i \in Rows(m1) : m1.browptr[i] = m2.browptr[i],
         \A jj \in Below(Nnzb(m1)) : m1.bcolind[jj] = m2.bcolind[jj],
         \A jj \in Below(Nnzb(m1)) : m1.vals[jj] = m2.vals[jj],
         \A i \in Rows(m1) : m1.diagind[i] = m2.diagind[i]>>
=============================================================================
