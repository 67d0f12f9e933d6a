---------------------------- MODULE GreedyLevels -----------------------------
(***************************************************************************)
(* What computeLevels (src/levelschedule.cpp) promises: the rows of a      *)
(* structurally symmetric matrix are cut, in their order, into levels of   *)
(* mutually independent rows, each as long as it can be.  Nothing is said  *)
(* of the levels of another matrix.  There are no dependency lists here;   *)
(* one step adds one level.                                                *)
(***************************************************************************)
EXTENDS SparsityPattern

CONSTANT Matrices       \* the patterns the function may be called with

VARIABLES
  mat,                  \* the pattern given
  levels                \* the starts of the levels found, the last one open

vars == <<mat, levels>>

Init == /\ mat \in Matrices
        /\ levels = <<0>>

Start == levels[Len(levels)]

\* The rows from the last start up to e may be the next level.
Promised(e) == /\ Start < e
               /\ Independent(mat, Start, e)
               /\ Maximal(mat, Start, e)

AddLevel ==
  /\ \E e \in 0 .. N : /\ StructurallySymmetric(mat) => Promised(e)
                       /\ levels' = Append(levels, e)
  /\ UNCHANGED mat

SafeSpec == Init /\ [][AddLevel]_vars

\* The division of a symmetric matrix ends: a level is added for as long as
\* rows are left.
Spec == SafeSpec /\ WF_vars(StructurallySymmetric(mat) /\ AddLevel)
=============================================================================
