----------------------------- MODULE ApplyRounds -----------------------------
(***************************************************************************)
(* The asynchronous application (AsyncApply) seen as a chaotic iteration   *)
(* over the rows of y and then of z, with its rounds observed.             *)
(***************************************************************************)
EXTENDS AsyncApply

VARIABLES front, fresh, ontime

LowerNeeds(m) == [i \in Rows |-> Lower(m, i)]
UpperNeeds(m) == [i \in Rows |-> Upper(m, i)]

Chaos ==
  INSTANCE ChaoticIteration WITH
    Problems <- {LowerNeeds(m) : m \in Matrices} \cup {UpperNeeds(m) : m \in Matrices},
    needs <- [i \in Rows |-> Needs(i)],
    sound <- {i \in Rows : RhsFinal(i)},
    final <- {i \in Rows : Target[i]},
    doing <- [t \in Threads |-> IF busy[t] THEN {RowOf(job[t].at)} ELSE {}],
    unread <- [t \in Threads |-> IF busy[t] THEN unread[t] ELSE {}],
    good <- [t \in Threads |-> busy[t] /\ good[t]]

history == <<front, fresh, ontime>>
hvars == <<vars, history>>

HInit == Init /\ front = {} /\ fresh = {} /\ ontime = {}

HWork(t) ==
  \/ (Claim(t) \/ \E j \in Rows : Read(t, j)) /\ UNCHANGED history
  \/ Begin(t) /\ Chaos!Began(t)
  \/ Store(t) /\ Chaos!Stored(t)

HNext == \/ Sequential /\ Chaos!Restarted
         \/ \E t \in Threads : HWork(t)
         \/ Finished /\ UNCHANGED history

HSpec == HInit /\ [][HNext]_hvars

\* With the fairness of AsyncApply.
HFairSpec == /\ HSpec
             /\ WF_vars(Sequential)
             /\ \A t \in Threads : WF_vars(Work(t))
-----------------------------------------------------------------------------
(***************************************************************************)
(* The application is a chaotic iteration, on y in the first region and on *)
(* z, with the y that has come out of it, in the second.                   *)
(***************************************************************************)
ImplementsChaos == Chaos!RSpec

(***************************************************************************)
(* Convergence of the overlapping sweeps: the rows that the rounds of a    *)
(* solve so far must have made final are final, for good.                  *)
(***************************************************************************)
Converges == Chaos!Converges

(***************************************************************************)
(* A round keeps the final rows and adds one, until all are final: N       *)
(* rounds are enough for the exact solution of a triangular system.        *)
(***************************************************************************)
RoundsAdvance == Chaos!RoundsAdvance
=============================================================================
