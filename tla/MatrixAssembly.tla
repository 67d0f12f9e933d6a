---------------------------- MODULE MatrixAssembly ---------------------------
(***************************************************************************)
(* A block matrix (BSRMatrix, src/blockmatrices.ipp) between calls: its    *)
(* structure is set or it is read from a file, blocks are inserted and,    *)
(* by several threads at a time, added to it, scalar by scalar, and it is  *)
(* scaled, reordered and restored.  It implements DenseMatrix.             *)
(*                                                                         *)
(* The caller keeps to what the headers ask of him: the places of a block  *)
(* exist and, in a CSR matrix, its columns are next to each other in rows  *)
(* sorted by columns; only updateBlock and updateDiagBlock are called by   *)
(* several threads at a time.  Nor does he ask for diagonal blocks while   *)
(* the matrix is reordered: no call finds them again.                      *)
(***************************************************************************)
EXTENDS CooConversion, ColumnStructures

CONSTANTS
  Threads,              \* that assemble
  Structures,           \* records [nbrows, browptr, bcolind, bs]
  Files, BlockSizes,    \* what matrices are read from, and as
  Blocks, Factors,      \* arguments, see DenseMatrix
  Orderings,            \* results of SetOrdering for the structures
  MaxCalls              \* bound on the calls

\* There may be any number of threads, but not infinitely many.
ASSUME ThreadsAssumption == IsFiniteSet(Threads)

(***************************************************************************)
(* What is passed: pointers that ascend and, in each row, columns of which *)
(* none is stored twice; entries of a file inside of the matrix, none of   *)
(* them twice; square blocks; permutations, and factors other than 0.      *)
(***************************************************************************)
ASSUME StructuresAssumption ==
  \A s \in Structures :
    /\ s.nbrows \in Nat \ {0} /\ s.bs \in Nat \ {0}
    /\ s.browptr \in [0 .. s.nbrows -> Nat] /\ s.browptr[0] = 0
    /\ \A i \in Below(s.nbrows) : s.browptr[i] <= s.browptr[i + 1]
    /\ s.bcolind \in [Below(s.browptr[s.nbrows]) -> Below(s.nbrows)]
    /\ \A i \in Below(s.nbrows) : \A jj, kk \in s.browptr[i] .. s.browptr[i + 1] - 1 :
         s.bcolind[jj] = s.bcolind[kk] => jj = kk

ASSUME FilesAssumption ==
  \A f \in Files :
    /\ f.n \in Nat \ {0}
    /\ f.entries \in Seq((1 .. f.n) \X (1 .. f.n) \X Scalars)
    /\ \A d, e \in DOMAIN f.entries :
         f.entries[d][1] = f.entries[e][1] /\ f.entries[d][2] = f.entries[e][2] => d = e

ASSUME ArgumentsAssumption ==
  /\ BlockSizes \subseteq Nat \ {0} /\ Factors \subseteq Nat
  /\ \A k \in Blocks : /\ k.i \in Nat /\ k.j \in Nat /\ k.b \in Nat \ {0}
                       /\ k.buf \in [1 .. k.b * k.b -> Scalars]

ASSUME OrderingsAssumption ==
  \A o \in Orderings : \E p \in {o.rp, o.cp} : IsOrdering(o, Cardinality(DOMAIN p))

VARIABLES
  mat,                  \* the matrix
  order,                \* <<the reordering and scaling used last>>, or <<>>
  moved,                \* it is reordered
  saved,                \* <<copy from before the reordering>>, or <<>>
  derived,              \* <<what is derived from its columns>>, or <<>>
  job,                  \* thread |-> additions it has still to make
  call,                 \* the last call that sets or changes the matrix
  calls                 \* made so far

vars == <<mat, order, moved, saved, derived, job, call, calls>>

Idle == \A t \in Threads : job[t] = <<>>
Called(c) == calls < MaxCalls /\ calls' = calls + 1 /\ call' = c

Init ==
  /\ \/ \E s \in Structures, garbage \in {1, 2} :
          mat = Structured(s, s.bs, garbage) /\ call = <<"structure", s.nbrows * s.bs>>
     \/ \E f \in Files, bs \in BlockSizes :
          /\ Readable(f) /\ f.n % bs = 0
          /\ mat = GetSRMatrixFromCOO(ReadMatrixMarket(f), bs, "rowmajor", -1)
          /\ call = <<"load", f>>
  /\ order = <<>>
  /\ moved = FALSE
  /\ saved = <<>>
  /\ derived = <<>>
  /\ job = [t \in Threads |-> <<>>]
  /\ calls = 0

\* The content becomes another one: what was made of it is of no more use.
Becomes(m) == mat' = m /\ saved' = <<>> /\ derived' = <<>>

SetStructure(s, garbage) ==
  /\ Idle /\ Called(<<"structure", s.nbrows * s.bs>>)
  /\ Becomes(Structured(s, s.bs, garbage))
  /\ moved' = FALSE
  /\ order' = <<>>
  /\ UNCHANGED job

Load(f, bs, stor) ==
  /\ Idle /\ Called(<<"load", f>>)
  /\ Readable(f)
  /\ f.n % bs = 0
  /\ Becomes(GetSRMatrixFromCOO(ReadMatrixMarket(f), bs, stor, -1))
  /\ moved' = FALSE
  /\ order' = <<>>
  /\ UNCHANGED job

\* Only matrices stored by rows are assembled; others are viewed.
Assembling(c) == mat.stor = "rowmajor" /\ Called(c)

Fits(k) ==
  /\ k.i + k.b <= Dim(mat)
  /\ IF mat.bs = 1
     THEN /\ SortedRows(mat)
          /\ \A i \in k.i .. k.i + k.b - 1 : k.j .. k.j + k.b - 1 \subseteq ColumnsOf(mat, i)
     ELSE /\ k.b = mat.bs /\ k.i % mat.bs = 0 /\ k.j % mat.bs = 0
          /\ k.j \div mat.bs \in ColumnsOf(mat, k.i \div mat.bs)

SubmitBlock(k) ==
  /\ Idle /\ Assembling(<<"set", k>>) /\ Fits(k)
  /\ Becomes(Submitted(mat, SubmitPlaces(mat, k.i, k.j, k.b, k.b), k.buf))
  /\ UNCHANGED <<order, moved, job>>

Additions(places, k) ==
  [q \in DOMAIN places |-> [jj |-> places[q].jj, k |-> places[q].k,
                            amount |-> k.buf[places[q].from + 1]]]

Updates(t, places, k) ==
  /\ job[t] = <<>>
  /\ job' = [job EXCEPT ![t] = Additions(places, k)]
  /\ saved' = <<>>
  /\ derived' = <<>>
  /\ UNCHANGED <<mat, order, moved>>

UpdateBlock(t, k) ==
  Assembling(<<"add", k>>) /\ Fits(k) /\ Updates(t, UpdatePlaces(mat, k.i, k.j, k.b, k.b), k)

UpdateDiagBlock(t, k) ==
  /\ Assembling(<<"add", k>>) /\ Fits(k) /\ ~moved
  /\ k.i = k.j
  /\ Updates(t, DiagPlaces(mat, k.i, k.b), k)

\* One atomic addition.
Added(m, add) == [m EXCEPT !.vals[add.jj][add.k] = (@ + add.amount) % Mod]

Add(t) ==
  /\ job[t] # <<>>
  /\ mat' = Added(mat, Head(job[t]))
  /\ job' = [job EXCEPT ![t] = Tail(@)]
  /\ UNCHANGED <<order, moved, saved, derived, call, calls>>

SetAllZero ==
  /\ Idle /\ Assembling(<<"zero">>)
  /\ Becomes(AllZero(mat))
  /\ UNCHANGED <<order, moved, job>>

SetDiagZero ==
  /\ Idle /\ Assembling(<<"zero diagonal", mat.bs>>) /\ ~moved /\ StoresDiagonals(mat)
  /\ Becomes(DiagZero(mat))
  /\ UNCHANGED <<order, moved, job>>

ScaleAll(factor) ==
  /\ Idle /\ Assembling(<<"scale", factor>>)
  /\ Becomes(Scaled(mat, factor))
  /\ UNCHANGED <<order, moved, job>>

\* As the tests do it, with a copy made before.
ReorderScale(o) ==
  /\ Idle /\ Assembling(<<"reorder", o, mat.bs>>) /\ ~moved
  /\ mat.nbrows \in {Cardinality(DOMAIN p) : p \in {o.rp, o.cp}}
  /\ SortedRows(mat)
  /\ mat' = ReorderScaleForward(mat, o)
  /\ order' = <<o>>
  /\ saved' = <<mat>>
  /\ moved' = TRUE
  /\ derived' = <<>>
  /\ UNCHANGED job

Restore ==
  /\ Idle /\ moved /\ Assembling(<<"undo", order[1], mat.bs>>)
  /\ mat' = ReorderScaleInverse(mat, order[1])
  /\ moved' = FALSE
  /\ order' = <<>>
  /\ UNCHANGED <<saved, derived, job>>

\* Block columns, adjacency lists and, if there are all diagonal blocks, the
\* patterns of approximate inverses are made from the matrix.
Derive ==
  /\ Idle /\ ~moved /\ Called(call)
  /\ derived' = <<[bsc |-> ConvertBSRToBSC(mat), bsc1 |-> ConvertBSRToBSC1Based(mat),
                   adj |-> ColumnAdjacency(mat),
                   sai |-> IF StoresDiagonals(mat) THEN LeftSAIPattern(mat) ELSE None,
                   isai |-> IF StoresDiagonals(mat) THEN LeftIncompleteSAIPattern(mat)
                            ELSE None]>>
  /\ UNCHANGED <<mat, order, moved, saved, job>>

Next ==
  \/ \E s \in Structures, garbage \in {1, 2} : SetStructure(s, garbage)
  \/ \E f \in Files, bs \in BlockSizes, stor \in {"rowmajor", "colmajor"} : Load(f, bs, stor)
  \/ \E k \in Blocks : SubmitBlock(k)
  \/ \E t \in Threads : \/ \E k \in Blocks : UpdateBlock(t, k) \/ UpdateDiagBlock(t, k)
                        \/ Add(t)
  \/ SetAllZero \/ SetDiagZero
  \/ \E factor \in Factors : ScaleAll(factor)
  \/ \E o \in Orderings : ReorderScale(o)
  \/ Restore
  \/ Derive

-----------------------------------------------------------------------------
(***************************************************************************)
(* The matrix as the caller knows it: what is stored and, at their places, *)
(* the additions still to be made.  It is kept in a variable of its own.   *)
(***************************************************************************)
Completed == FoldSet(LAMBDA t, m : FoldLeft(Added, m, job[t]), mat, Threads)

Spec == Init /\ [][Next]_vars
-----------------------------------------------------------------------------
Matrix == INSTANCE DenseMatrix WITH A <- Dense(Completed)

(***************************************************************************)
(* The matrix implements DenseMatrix: whatever the threads, the block      *)
(* size, the order of the entries and the calls before, a call changes     *)
(* what it names, no addition is lost or lands elsewhere, and INVERSE      *)
(* undoes FORWARD.                                                         *)
(***************************************************************************)
ImplementsDense == Matrix!Spec

(***************************************************************************)
(* Outside of a reordering the positions of the diagonal blocks are right  *)
(* (reorderScale never sets them), what a CSR matrix tells of its diagonal *)
(* is so, and a matrix that was reordered and restored is equal to the     *)
(* copy from before (isEqual), as testMatrixReordering expects.            *)
(***************************************************************************)
Restored ==
  ~moved /\ StoresDiagonals(mat) =>
    /\ DiagonalsFound(mat)
    /\ saved # <<>> => AreEqual(mat, saved[1]) = <<TRUE, TRUE, TRUE, TRUE, TRUE>>
    /\ mat.bs = 1 =>
         LET D == [i \in Rows(mat) |-> Dense(mat)[<<i, i>>]]
             values == {D[i] : i \in Rows(mat)}
         IN /\ ZeroDiagonalRow(mat) =
                 IF 0 \in values THEN Min({i \in Rows(mat) : D[i] = 0}) ELSE -1
            /\ GetNumZeroDiagonals(mat) = Cardinality({i \in Rows(mat) : D[i] = 0})
            /\ (GetDiagonalProduct(mat) = 0) <=> (0 \in values)
            /\ GetDiagonalAbsSum(mat) = SumFunction(D)
            /\ GetAbsMinDiagonalEntry(mat) = Min(values)
            /\ GetAbsMaxDiagonalEntry(mat) = Max(values)

(***************************************************************************)
(* The vectors of a system follow its matrix: with A the matrix before and *)
(* B the one after reorderScale, for x and what becomes of it by columns,  *)
(* y, B y is what becomes of A x by rows, and the inverse by columns gives *)
(* x back, so that a system with A can be solved with B.                   *)
(***************************************************************************)
VectorsFollow ==
  moved /\ saved # <<>> =>
    LET bs == mat.bs
        o == order[1]
        x == [p \in Below(Dim(mat)) |-> (p * p + 1) % Mod]
        y == OrderVectorForward(ScaleVector(x, Inverses(o.colscale), bs), o.cp, bs)
        r == Apply(saved[1], x)
    IN /\ Apply(mat, y) =
            OrderVectorForward(ScaleVector(r, o.rowscale, bs), o.rp, bs)
       /\ ScaleVector(OrderVectorInverse(y, o.cp, bs), o.colscale, bs) = x
       /\ OrderVectorInverse(OrderVectorForward(r, o.rp, bs), o.rp, bs) = r

(***************************************************************************)
(* The block columns are those of the matrix: products by rows and by      *)
(* columns agree, the rows of a column ascend, 0- and 1-based; the         *)
(* adjacency lists name every entry once, at its row and position.         *)
(***************************************************************************)
ColumnsExact ==
  derived # <<>> =>
    LET s == derived[1].bsc  one == derived[1].bsc1  adj == derived[1].adj
        x == [p \in Below(Dim(mat)) |-> (p * p + 1) % Mod]
        y == [p \in Below(Dim(mat)) |-> (p + 2) % Mod]
    IN /\ ColumnGemv3(s, 2, x, 3, y) = Gemv3(mat, 2, x, 3, y)
       /\ \A c \in Rows(mat) :
            /\ IF c \in ColumnsOf(mat, c)
               THEN /\ s.browind[s.diagind[c]] = c
                    /\ one.browind[one.diagind[c] - 1] = c + 1
               ELSE s.diagind[c] = -1
            /\ \A q \in s.bcolptr[c] .. s.bcolptr[c + 1] - 2 : s.browind[q] < s.browind[q + 1]
            /\ {<<adj.col_rows[q], adj.rows_loc[q]>> :
                   q \in adj.ptrs[c] .. adj.ptrs[c + 1] - 1} =
                 {e \in Rows(mat) \X Below(Nnzb(mat)) :
                    e[2] \in Row(mat, e[1]) /\ mat.bcolind[e[2]] = c}

(***************************************************************************)
(* The least-squares problem of a row is that of the approximate inverse,  *)
(* wherever the program goes on to it: the matrix that is gathered times a *)
(* solution sol is row i of S A transposed, where S holds sol as it is     *)
(* scattered - in all columns for the full pattern, in those of the row    *)
(* for the incomplete one - and the right-hand side has its ones in the    *)
(* equations of column i.  TLC is given one solution; EquationIsProduct is *)
(* about all of them.                                                      *)
(***************************************************************************)
SaiIsExact(sp, Equations(_, _)) ==
  \A i \in Rows(mat) :
    LET bs == mat.bs
        eqs == Equations(mat, i)
        lhs == GatherLhs(mat, sp, i)
        sol == [p \in Below(sp.nVars[i] * bs) \X Below(bs) |-> (3 * p[1] + p[2] + 1) % Mod]
        S == Dense(ScatterSolution(sol, i, AllZero(mat)))
        A == Dense(mat)
        Problem(e, a) == SumFunction([u \in Below(sp.nVars[i] * bs) |->
                                        lhs[<<e, u>>] * sol[<<u, a>>]])
        Product(a, c) == SumFunction([p \in Below(Dim(mat)) |->
                                        S[<<i * bs + a, p>>] * A[<<p, c>>]])
    IN /\ eqs[sp.localCentralRow[i] + 1] = i
       /\ RunsThrough(sp, i) =>
            \A q \in DOMAIN eqs, e \in Below(bs), a \in Below(bs) :
              Problem((q - 1) * bs + e, a) = Product(a, eqs[q] * bs + e)

SaiExact ==
  derived # <<>> /\ StoresDiagonals(mat) =>
    /\ SaiIsExact(derived[1].sai, FullEquations)
    /\ SaiIsExact(derived[1].isai, IncompleteEquations)

(***************************************************************************)
(* src/sai.cpp:352: "assert(end-start == sp.nEqns[row]);".  Every row that *)
(* an unknown stands for has a block in each of the equations, and so the  *)
(* matrices of all rows are gathered.                                      *)
(***************************************************************************)
AllRowsGathered ==
  derived # <<>> /\ StoresDiagonals(mat) =>
    \A i \in Rows(mat) : /\ GatherLhs(mat, derived[1].sai, i) # Aborted
                         /\ GatherLhs(mat, derived[1].isai, i) # Aborted
=============================================================================
