--------------------------- MODULE ColumnStructures --------------------------
(***************************************************************************)
(* What the code derives from a matrix in row storage column by column:    *)
(* block-column storage (src/scmatrix.cpp) and its product                 *)
(* (src/blas/matvecs.cpp), the rows of every column (src/adjacency.cpp),   *)
(* and the least-squares problems of sparse approximate inverses, one for  *)
(* each row (src/sai.cpp).                                                 *)
(***************************************************************************)
EXTENDS MatrixReordering

\* Whether assertions are compiled in; release builds define NDEBUG.
CONSTANT Assertions

ASSUME AssertionsAssumption == Assertions \in BOOLEAN

Positioned(s) == [q \in Below(Len(s)) |-> s[q + 1]]

\* The positions of the entries of column c, in the order of the rows.
InColumn(m, c) == Ordered({jj \in Below(Nnzb(m)) : m.bcolind[jj] = c})

\* Faulty variant of ColumnPointers: the counts are not shifted by one.
ColumnPointersUnshifted(m) == Scan(m.nbrows, [c \in Rows(m) |-> Len(InColumn(m, c + 1))])

Columns(m) == FlattenSeq([c \in 1 .. m.nbrows |-> InColumn(m, c - 1)])

ColumnPointers(m) == Scan(m.nbrows, [c \in Rows(m) |-> Len(InColumn(m, c))])

ConvertBSRToBSC(m) ==
  LET browind == [q \in Below(Nnzb(m)) |-> RowOf(m, Columns(m)[q + 1])]
      bcolptr == ColumnPointers(m)
      OnDiagonal(c) == {q \in bcolptr[c] .. bcolptr[c + 1] - 1 : browind[q] = c}
  IN [nbcols |-> m.nbrows, bs |-> m.bs, stor |-> m.stor, bcolptr |-> bcolptr,
      browind |-> browind,
      vals |-> [q \in Below(Nnzb(m)) |-> m.vals[Columns(m)[q + 1]]],
      diagind |-> [c \in Rows(m) |-> IF OnDiagonal(c) = {} THEN -1 ELSE Max(OnDiagonal(c))]]

ConvertBSRToBSC1Based(m) ==
  LET s == ConvertBSRToBSC(m)
      Up(f) == [q \in DOMAIN f |-> f[q] + 1]
  IN [s EXCEPT !.bcolptr = Up(@), !.browind = Up(@), !.diagind = Up(@)]

\* bcsc_gemv3: the threads add to z atomically, in any order.
ColumnGemv3(s, a, x, b, y) ==
  LET InRow(i) == {e \in Below(s.nbcols) \X DOMAIN s.browind :
                     e[2] \in s.bcolptr[e[1]] .. s.bcolptr[e[1] + 1] - 1 /\ s.browind[e[2]] = i}
      Term(e, r) == SumFunction([c \in Below(s.bs) |->
                      s.vals[e[2]][Place(s, r, c)] * x[e[1] * s.bs + c]])
  IN [p \in Below(s.nbcols * s.bs) |->
        (b * y[p] + a * SumFunction([e \in InRow(p \div s.bs) |-> Term(e, p % s.bs)])) % Mod]

ColumnAdjacency(m) ==
  [ptrs |-> ColumnPointers(m),
   col_rows |-> [q \in Below(Nnzb(m)) |-> RowOf(m, Columns(m)[q + 1])],
   rows_loc |-> Positioned(Columns(m))]
-----------------------------------------------------------------------------
(***************************************************************************)
(* The least-squares problem of row i of an approximate inverse: unknown   *)
(* are the blocks of the row, one for each jj of Row(m, i); the equations  *)
(* are the columns that the rows m.bcolind[jj] have (full SAI), or those   *)
(* of row i (incomplete).  The entry of unknown jj in an equation is       *)
(* m.vals[bpos], transposed.                                               *)
(***************************************************************************)
ColumnsOf(m, i) == {m.bcolind[jj] : jj \in Row(m, i)}

FullEquations(m, i) == Ordered(UNION {ColumnsOf(m, c) : c \in ColumnsOf(m, i)})
\* In the order of the row, as the local row of an entry is ll - browptr[irow].
IncompleteEquations(m, i) ==
  [q \in 1 .. m.browptr[i + 1] - m.browptr[i] |-> m.bcolind[m.browptr[i] + q - 1]]

\* equations[i]: the columns that are the equations of row i.
SaiPattern(m, equations) ==
  LET At(i, c) == CHOOSE q \in DOMAIN equations[i] : equations[i][q] = c
      nVars == [i \in Rows(m) |-> m.browptr[i + 1] - m.browptr[i]]
      Coefficients(u) == Positions(m, m.bcolind[u], ToSet(equations[RowOf(m, u)]))
      all == FlattenSeq([u \in 1 .. Nnzb(m) |->
               [q \in 1 .. Len(Coefficients(u - 1)) |->
                  [pos |-> Coefficients(u - 1)[q],
                   row |-> At(RowOf(m, u - 1), m.bcolind[Coefficients(u - 1)[q]]) - 1]]])
  IN [nVars |-> nVars, nEqns |-> [i \in Rows(m) |-> Len(equations[i])],
      sairowptr |-> Scan(m.nbrows, nVars),
      bcolptr |-> Scan(Nnzb(m), [u \in Below(Nnzb(m)) |-> Len(Coefficients(u))]),
      bpos |-> [q \in Below(Len(all)) |-> all[q + 1].pos],
      browind |-> [q \in Below(Len(all)) |-> all[q + 1].row],
      localCentralRow |-> [i \in Rows(m) |-> At(i, i) - 1]]

LeftSAIPattern(m) == SaiPattern(m, [i \in Rows(m) |-> FullEquations(m, i)])
LeftIncompleteSAIPattern(m) == SaiPattern(m, [i \in Rows(m) |-> IncompleteEquations(m, i)])

OfUnknown(sp, row, j) ==
  sp.bcolptr[sp.sairowptr[row] + j] .. sp.bcolptr[sp.sairowptr[row] + j + 1] - 1

(***************************************************************************)
(* The assertion of gather_lhs_matrix: every unknown of the row has a      *)
(* block in each of the equations.  A build with assertions ends the       *)
(* program where it is false.                                              *)
(***************************************************************************)
ColumnsFull(sp, row) ==
  \A j \in Below(sp.nVars[row]) :
    sp.bcolptr[sp.sairowptr[row] + j + 1] - sp.bcolptr[sp.sairowptr[row] + j] = sp.nEqns[row]

RunsThrough(sp, row) == Assertions => ColumnsFull(sp, row)
Aborted == <<>>

\* Faulty variant: the blocks are not transposed.
GatherUntransposed(m, sp, row) ==
  IF ~RunsThrough(sp, row) THEN Aborted
  ELSE [p \in Below(sp.nEqns[row] * m.bs) \X Below(sp.nVars[row] * m.bs) |->
        LET here == {q \in OfUnknown(sp, row, p[2] \div m.bs) : sp.browind[q] = p[1] \div m.bs}
        IN IF here = {} THEN 0
           ELSE m.vals[sp.bpos[CHOOSE q \in here : TRUE]][Place(m, p[1] % m.bs, p[2] % m.bs)]]

\* The matrix of the problem of a row: <<row, column>> |-> scalar.
GatherLhs(m, sp, row) ==
  IF ~RunsThrough(sp, row) THEN Aborted
  ELSE [p \in Below(sp.nEqns[row] * m.bs) \X Below(sp.nVars[row] * m.bs) |->
        LET here == {q \in OfUnknown(sp, row, p[2] \div m.bs) : sp.browind[q] = p[1] \div m.bs}
        IN IF here = {} THEN 0
           ELSE m.vals[sp.bpos[CHOOSE q \in here : TRUE]][Place(m, p[2] % m.bs, p[1] % m.bs)]]

\* sol is nVars * bs by bs; its blocks are stored transposed.
ScatterSolution(sol, row, sai) ==
  Valued(sai, LAMBDA jj, k :
    IF jj \notin Row(sai, row) THEN sai.vals[jj][k]
    ELSE LET rc == CHOOSE rc \in Below(sai.bs) \X Below(sai.bs) :
                     Place(sai, rc[1], rc[2]) = k
         IN sol[<<(jj - sai.browptr[row]) * sai.bs + rc[2], rc[1]>>])
=============================================================================
