---------------------------- MODULE MCPetscShell -----------------------------
(***************************************************************************)
(* Instance of PetscShell: multigrid with two BLASTed levels.              *)
(***************************************************************************)
EXTENDS PetscShell

CONSTANTS m1, m2

\* Ksp 1 holds multigrid: a smoother, a smoother left alone, the coarse solver
\* behind a block Jacobi PC.
NestedKsps == 1 .. 5
NestedKind == <<"mg", "shell", "other", "bjacobi", "shell">>
NestedKids == <<<<2, 3, 4>>, <<>>, <<>>, <<5>>, <<>>>>
=============================================================================
