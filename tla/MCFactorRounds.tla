--------------------------- MODULE MCFactorRounds ----------------------------
(***************************************************************************)
(* Instances of FactorRounds.                                              *)
(***************************************************************************)
EXTENDS FactorRounds

CONSTANTS t1, t2

\* A chain of dependences, and the pattern with every product.
Tridiagonal == [i \in Rows |-> {j \in Rows : j <= i + 1 /\ i <= j + 1}]
Full == [i \in Rows |-> Rows]

Patterns2 == {Tridiagonal, Full}
TridiagonalOnly == {Tridiagonal}

\* On one thread every initialization.
OneThread == [block : BOOLEAN, init : {"zero", "original", "sgs", "none"},
              scaled : BOOLEAN, threaded : {FALSE}, chunk : {2}]

\* On several threads a warm start of the block version, with single rows and with whole sweeps as
\* chunks.
Threaded == [block : {TRUE}, init : {"none"}, scaled : {FALSE},
             threaded : {TRUE}, chunk : {1, N}]

AllOptions == OneThread \cup Threaded
=============================================================================
