-------------------------- MODULE ChaoticIteration ---------------------------
(***************************************************************************)
(* What all asynchronous kernels of the library do to the array they work  *)
(* on, whatever the loops around them: some thread picks a component,      *)
(* reads the components that one needs, one by one and while other threads *)
(* store, then stores its own.  The asynchronous application (AsyncApply)  *)
(* and factorization (AsyncFactor) implement this specification.           *)
(*                                                                         *)
(* It carries the argument for their convergence, with history variables.  *)
(* The tests (tests/solverops/async_*_convergence.cpp) expect that enough  *)
(* sweeps give the exact result.  No number of sweeps guarantees it: a     *)
(* thread delayed between its reads and its store can bring back an old    *)
(* value at the very end.  What holds is the theorem on chaotic relaxation:*)
(* cut a computation into rounds, such that in a round every component's   *)
(* last store is by a thread that began it in that round, and no thread    *)
(* still works on one it began before.  Then each round makes final, for   *)
(* good, the components that need only those of the rounds before.         *)
(***************************************************************************)
EXTENDS Naturals

CONSTANTS
  Threads,
  Problems              \* functions: component |-> components its kernel reads

(***************************************************************************)
(* What the theorems assume of the problems, triangular dependence: among  *)
(* any components there is one that needs none of them.                    *)
(***************************************************************************)
ProblemsAssumption ==
  \A p \in Problems :
    /\ \A c \in DOMAIN p : p[c] \subseteq DOMAIN p
    /\ \A S \in SUBSET DOMAIN p : S # {} => \E c \in S : p[c] \cap S = {}

VARIABLES
  needs,                \* the problem worked on
  sound,                \* components whose other operands are final
  final,                \* components that hold their final value
  doing,                \* thread |-> the component it computes, {} if none
  unread,               \* thread |-> what it has still to read for it
  good                  \* thread |-> all that it has read was final

cvars == <<needs, sound, final, doing, unread, good>>

Comps == DOMAIN needs

NoWork ==
  /\ doing = [t \in Threads |-> {}]
  /\ unread = [t \in Threads |-> {}]
  /\ good = [t \in Threads |-> FALSE]

Init ==
  /\ needs \in Problems
  /\ sound \in SUBSET Comps
  /\ final \in SUBSET Comps
  /\ NoWork

\* Between two loops anything may become of the array and of the operands.
NewProblem ==
  /\ NoWork
  /\ needs' \in Problems
  /\ sound' \in SUBSET (DOMAIN needs')
  /\ final' \in SUBSET (DOMAIN needs')
  /\ UNCHANGED <<doing, unread, good>>

Begin(t, c) ==
  /\ doing[t] = {}
  /\ c \in Comps
  /\ doing' = [doing EXCEPT ![t] = {c}]
  /\ unread' = [unread EXCEPT ![t] = needs[c]]
  /\ good' = [good EXCEPT ![t] = c \in sound]
  /\ UNCHANGED <<needs, sound, final>>

Read(t, d) ==
  /\ d \in unread[t]
  /\ unread' = [unread EXCEPT ![t] = @ \ {d}]
  /\ good' = [good EXCEPT ![t] = @ /\ d \in final]
  /\ UNCHANGED <<needs, sound, final, doing>>

\* A component computed from final ones is final; any other is taken not to be.
Store(t) ==
  /\ doing[t] # {}
  /\ unread[t] = {}
  /\ final' = IF good[t] THEN final \cup doing[t] ELSE final \ doing[t]
  /\ doing' = [doing EXCEPT ![t] = {}]
  /\ good' = [good EXCEPT ![t] = FALSE]
  /\ UNCHANGED <<needs, sound, unread>>

Next == \/ NewProblem
        \/ \E t \in Threads : \/ \E c \in Comps : Begin(t, c) \/ Read(t, c)
                              \/ Store(t)

Spec == Init /\ [][Next]_cvars
-----------------------------------------------------------------------------
(***************************************************************************)
(* Rounds, observed.                                                       *)
(***************************************************************************)
VARIABLES
  front,                \* the components made final by the complete rounds
  fresh,                \* components last stored by work begun in this round
  ontime                \* threads that began their component in this round

history == <<front, fresh, ontime>>
rvars == <<cvars, history>>

Restarted == front' = {} /\ fresh' = {} /\ ontime' = {}

\* The components that are final after a round if those of F were before it.
Solvable(F) == {c \in Comps : needs[c] \subseteq F /\ c \in sound}

FreshAfter(t) == IF t \in ontime THEN fresh \cup doing[t] ELSE fresh \ doing[t]

RoundComplete(t) ==
  /\ FreshAfter(t) = Comps
  /\ \A u \in Threads \ {t} : doing[u] # {} => u \in ontime

\* What the observer notes when a thread begins and when it stores.
Began(t) == ontime' = ontime \cup {t} /\ UNCHANGED <<front, fresh>>

RoundEnds(t) ==
  /\ RoundComplete(t)
  /\ front' = Solvable(front)
  /\ fresh' = {}
  /\ ontime' = {}

RoundGoesOn(t) ==
  /\ ~RoundComplete(t)
  /\ front' = front
  /\ fresh' = FreshAfter(t)
  /\ ontime' = ontime \ {t}

Stored(t) == RoundEnds(t) \/ RoundGoesOn(t)

RInit == Init /\ front = {} /\ fresh = {} /\ ontime = {}

RNext == \/ NewProblem /\ Restarted
         \/ \E t \in Threads :
              \/ \E c \in Comps : \/ Begin(t, c) /\ Began(t)
                                  \/ Read(t, c) /\ UNCHANGED history
              \/ Store(t) /\ Stored(t)

RSpec == RInit /\ [][RNext]_rvars
-----------------------------------------------------------------------------
\* Type invariant.
TypeOK ==
  /\ needs \in Problems
  /\ sound \subseteq Comps
  /\ final \subseteq Comps
  /\ doing \in [Threads -> SUBSET Comps]
  /\ unread \in [Threads -> SUBSET Comps]
  /\ good \in [Threads -> BOOLEAN]

(***************************************************************************)
(* Components that are final and are being recomputed, if they are, from   *)
(* final ones only.                                                        *)
(***************************************************************************)
Settled(G) ==
  /\ G \subseteq final \cap sound
  /\ \A t \in Threads : doing[t] \cap G # {} => good[t]

(***************************************************************************)
(* Convergence: the components that the rounds so far must have made final *)
(* are final, and no thread is about to store anything else in them.       *)
(***************************************************************************)
Converges == Settled(front)

(***************************************************************************)
(* A round never loses a component that an earlier one has made final, and *)
(* as long as the other operands are final and components are missing it   *)
(* adds one more: as many rounds as there are components are enough.       *)
(***************************************************************************)
RoundsAdvance ==
  [][\A t \in Threads : RoundEnds(t) /\ Store(t) =>
       /\ front \subseteq front'
       /\ sound = Comps /\ front # Comps => front' # front]_rvars
=============================================================================
