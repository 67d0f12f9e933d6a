--------------------------- MODULE SparsityPattern ---------------------------
(***************************************************************************)
(* The sparsity pattern of a square sparse-row matrix (RawBSRMatrix and    *)
(* CRawBSRMatrix in include/srmatrixdefs.hpp) and what the algorithms of   *)
(* the library ask of it.                                                  *)
(*                                                                         *)
(* A pattern maps each (block-)row to the set of its column indices: the   *)
(* slice bcolind[browptr[i] .. browptr[i+1]-1].  Column indices of a row   *)
(* are ordered in the code, so bcolind[browptr[i]] is the smallest member  *)
(* and the entries before (after) diagind[i] are the smaller (larger)      *)
(* ones; the numerical values are not modelled here.                       *)
(***************************************************************************)
EXTENDS Naturals, Sequences

CONSTANT N              \* number of (block-)rows, mat.nbrows

ASSUME NAssumption == N \in Nat

Rows == 0 .. N-1

\* Every row holds its diagonal entry: diagind[i] points at it.
Patterns == {m \in [Rows -> SUBSET Rows] : \A i \in Rows : i \in m[i]}

\* The entries of row i that a lower (upper) triangular kernel reads.
Lower(m, i) == {j \in m[i] : j < i}
Upper(m, i) == {j \in m[i] : j > i}

StructurallySymmetric(m) == \A i, j \in Rows : j \in m[i] => i \in m[j]

(***************************************************************************)
(* A level is an interval of rows s .. e-1.  Its rows can be relaxed       *)
(* concurrently when no row of the interval has an entry in the column of  *)
(* another one.                                                            *)
(***************************************************************************)
Independent(m, s, e) == \A i, j \in s .. e-1 : i # j => j \notin m[i]

\* The level that starts at s cannot be extended past e.
Maximal(m, s, e) == e < N => \E j \in s .. e-1 : j \in m[e]

(***************************************************************************)
(* A schedule lists the first row of each level and then one past the last *)
(* row: level l is lv[l] .. lv[l+1]-1.  IsSchedulePrefix describes a       *)
(* schedule of the rows before lv[Len(lv)] only.                           *)
(***************************************************************************)
Levels(lv) == 1 .. Len(lv) - 1

IsSchedulePrefix(m, lv) ==
  /\ Len(lv) >= 1
  /\ lv[1] = 0
  /\ \A l \in Levels(lv) : /\ lv[l] < lv[l+1]
                           /\ lv[l+1] <= N
                           /\ Independent(m, lv[l], lv[l+1])
                           /\ Maximal(m, lv[l], lv[l+1])

IsSchedule(m, lv) == IsSchedulePrefix(m, lv) /\ lv[Len(lv)] = N
=============================================================================
