---------------------------- MODULE MCRelaxRounds ----------------------------
(***************************************************************************)
(* Instances of RelaxRounds: a chain of three rows, and a matrix in which  *)
(* the first row is coupled with both others, with their levels.           *)
(***************************************************************************)
EXTENDS RelaxRounds

CONSTANTS t1, t2

Chain == <<[i \in Rows |-> {j \in Rows : j <= i + 1 /\ i <= j + 1}], [l \in 1 .. N+1 |-> l - 1]>>
Arrow == <<[i \in Rows |-> {0, i} \cup IF i = 0 THEN Rows ELSE {}], <<0, 1, N>>>>

SmallProblems == {Chain, Arrow}

Opt(k, T, s, c, n) == [kind |-> k, team |-> T, steps |-> s, ctol |-> c, chunk |-> n]

AllOptions ==
  {Opt("jacobi", Threads, 3, c, 1) : c \in BOOLEAN}
  \cup {Opt("levels", Threads, 2, FALSE, 1), Opt("chaotic", Threads, 3, FALSE, 1),
        Opt("sgs", Threads, 1, FALSE, 1), Opt("sgs", Threads, 2, FALSE, 2)}
  \cup {Opt("columns", Threads, s, FALSE, 1) : s \in {1, 2}}
  \cup {Opt(k, {Master}, 2, FALSE, n) : k \in {"sgs", "chaotic", "columns"}, n \in {1, 2}}
=============================================================================
