---------------------------- MODULE MCApplyRounds ----------------------------
(***************************************************************************)
(* Instance of ApplyRounds: a chain of dependences, all the options.       *)
(***************************************************************************)
EXTENDS ApplyRounds

CONSTANTS t1, t2

\* A tridiagonal matrix: the longest chain of dependences.
Tridiagonal == {[i \in Rows |-> {j \in Rows : j <= i + 1 /\ i <= j + 1}]}

AllOptions == [kind : {"ilu", "sgs"}, init : {"zero", "jacobi", "none"},
               threaded : BOOLEAN, chunk : {1, 3}]
=============================================================================
