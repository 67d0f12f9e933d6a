--------------------------- MODULE MCMatrixStorage ---------------------------
(***************************************************************************)
(* Instances of MatrixStorage; the objects are interchangeable.            *)
(***************************************************************************)
EXTENDS MatrixStorage, TLC

CONSTANTS o1, o2, o3

Symmetric == Permutations(Objects)
=============================================================================
