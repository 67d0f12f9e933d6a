---------------------------- MODULE FactorRounds -----------------------------
(***************************************************************************)
(* The asynchronous factorization seen as a chaotic iteration over the     *)
(* entries of the factors, with its rounds observed.                       *)
(***************************************************************************)
EXTENDS AsyncFactor

VARIABLES front, fresh, ontime

NeedsOf(m) == [e \in Entries(m) |-> Operands(m, e)]

Chaos ==
  INSTANCE ChaoticIteration WITH
    Problems <- {NeedsOf(m) : m \in Matrices},
    needs <- NeedsOf(mat),
    sound <- Entries(mat),
    final <- {e \in Entries(mat) : lu[e] = "exact"},
    doing <- [t \in Threads |-> IF busy[t] THEN {<<Row(t), col[t]>>} ELSE {}]

history == <<front, fresh, ontime>>
hvars == <<vars, history>>

HInit == Init /\ front = {} /\ fresh = {} /\ ontime = {}

HWork(t) ==
  \/ (Claim(t) \/ \E e \in Entries(mat) : Read(t, e)) /\ UNCHANGED history
  \/ (\E j \in Rows : Begin(t, j)) /\ Chaos!Began(t)
  \/ Store(t) /\ Chaos!Stored(t)

HNext == \/ Sequential /\ Chaos!Restarted
         \/ \E t \in Threads : HWork(t)

HSpec == HInit /\ [][HNext]_hvars

\* With the fairness of AsyncFactor.
HFairSpec == /\ HSpec
             /\ WF_vars(Sequential)
             /\ \A t \in Threads : WF_vars(Work(t))
-----------------------------------------------------------------------------
\* The factorization implements the chaotic iteration.
ImplementsChaos == Chaos!RSpec

(***************************************************************************)
(* Convergence of the overlapping sweeps: entries of the factors that the  *)
(* rounds so far must have made exact are exact, for good.                 *)
(***************************************************************************)
Converges == Chaos!Converges

(***************************************************************************)
(* A round keeps the exact entries and adds one, until all are exact.      *)
(***************************************************************************)
RoundsAdvance == Chaos!RoundsAdvance
=============================================================================
