---------------------------- MODULE Substitution -----------------------------
(***************************************************************************)
(* What applying a triangular preconditioner promises: y solves the lower  *)
(* triangular system and z the upper one, each component computed once,    *)
(* from components that already have their final value.  The order among   *)
(* components that do not need each other is free.  The level-scheduled    *)
(* application implements it (LevelSolve); the asynchronous one computes   *)
(* components again and again, from values that need not be final.         *)
(***************************************************************************)
EXTENDS SparsityPattern

CONSTANT Matrices

VARIABLES
  mat,                  \* the pattern of the matrix
  ysolved,              \* rows whose component of y is final
  zsolved               \* rows whose component of z is final

vars == <<mat, ysolved, zsolved>>

Init == mat \in Matrices /\ ysolved = {} /\ zsolved = {}

SolveLower(i) ==
  /\ i \notin ysolved
  /\ Lower(mat, i) \subseteq ysolved
  /\ ysolved' = ysolved \cup {i}
  /\ UNCHANGED <<mat, zsolved>>

SolveUpper(i) ==
  /\ i \notin zsolved
  /\ i \in ysolved
  /\ Upper(mat, i) \subseteq zsolved
  /\ zsolved' = zsolved \cup {i}
  /\ UNCHANGED <<mat, ysolved>>

\* The next application, with another right-hand side, once this one is done.
NewRhs ==
  /\ zsolved = Rows
  /\ ysolved' = {}
  /\ zsolved' = {}
  /\ UNCHANGED mat

Next == NewRhs \/ \E i \in Rows : SolveLower(i) \/ SolveUpper(i)

Spec == Init /\ [][Next]_vars
=============================================================================
