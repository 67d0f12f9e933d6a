----------------------------- MODULE RelaxRounds -----------------------------
(***************************************************************************)
(* The relaxations in place (Relaxation) seen as a chaotic relaxation over *)
(* the rows of x, with its rounds observed.                                *)
(***************************************************************************)
EXTENDS Relaxation

VARIABLES rounds, fresh, ontime

RowNeeds(m) == [i \in Rows |-> m[i] \ {i}]

Working(t) == InPlace /\ busy[t]

(***************************************************************************)
(* What Contraction sees: the generations of the rows, who works on which, *)
(* what he has still to read, and the lowest generation he has read.       *)
(***************************************************************************)
Generation == [i \in Rows |-> IF InPlace THEN x[i].gen ELSE 0]
Doing == [t \in Threads |-> IF Working(t) THEN {Row(t)} ELSE {}]
Unread == [t \in Threads |-> IF Working(t) THEN unread[t] ELSE {}]
Lowest == [t \in Threads |-> IF Working(t) THEN low[t] ELSE MaxGen]

Relax ==
  INSTANCE Contraction WITH
    Problems <- {RowNeeds(p[1]) : p \in Problems},
    needs <- RowNeeds(mat),
    gen <- Generation,
    doing <- Doing,
    unread <- Unread,
    low <- Lowest

history == <<rounds, fresh, ontime>>
hvars == <<vars, history>>

HInit == Init /\ rounds = 0 /\ fresh = {} /\ ontime = {}

Quiet(t) == \/ Claim(t) \/ Proceed(t) \/ CopyBack(t) \/ Reset(t) \/ StoreColumn(t)
            \/ EndColumn(t) \/ \E i \in Rows : Read(t, i) \/ Subtract(t, i)

HWork(t) ==
  \/ Quiet(t) /\ UNCHANGED history
  \/ Begin(t) /\ IF InPlace THEN Relax!Began(t) ELSE UNCHANGED history
  \/ Store(t) /\ IF InPlace THEN Relax!Stored(t) ELSE UNCHANGED history

HNext == \/ Call /\ Relax!Restarted
         \/ (ToleranceMet \/ Return) /\ UNCHANGED history
         \/ \E t \in Threads : HWork(t)

HSpec == HInit /\ [][HNext]_hvars

\* With the fairness of Relaxation.
HFairSpec == HSpec /\ WF_vars(Return) /\ \A t \in Threads : WF_vars(Work(t))
-----------------------------------------------------------------------------
(***************************************************************************)
(* The sweeps of the level-scheduled, asynchronous and chaotic relaxations *)
(* are a chaotic relaxation: nothing is stored that was not computed from  *)
(* components as they were in memory while it was.                         *)
(***************************************************************************)
ImplementsRelaxation == Relax!RSpec

(***************************************************************************)
(* Each round of overlapping sweeps takes a factor off the error, in every *)
(* component and for good, however old the values are that threads store.  *)
(***************************************************************************)
Contracts == Relax!Contracts
=============================================================================
