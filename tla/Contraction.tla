----------------------------- MODULE Contraction -----------------------------
(***************************************************************************)
(* What a relaxation in place does to the iterate, whatever the loops      *)
(* around it: some thread picks a component, reads the others, stores its  *)
(* own.  Unlike in a triangular solve (ChaoticIteration) each component    *)
(* may need all others, so none is ever final.  What a sweep gains is a    *)
(* contraction of the error: in the norm of Chazan and Miranker a          *)
(* component computed from others whose errors are at most e has one of at *)
(* most q*e, q < 1.  gen counts these factors: a component of generation g *)
(* has at most q^g times the error of the initial guess.                   *)
(***************************************************************************)
EXTENDS Naturals

CONSTANTS
  Threads,
  Problems,             \* functions: component |-> components its kernel reads
  MaxGen                \* generations are counted to here

(***************************************************************************)
(* What the theorems assume of the constants.                              *)
(***************************************************************************)
WellFormed ==
  /\ MaxGen \in Nat
  /\ \A p \in Problems : \A c \in DOMAIN p : p[c] \subseteq DOMAIN p

VARIABLES
  needs,                \* the problem worked on
  gen,                  \* component |-> its generation
  doing,                \* thread |-> the component it computes, {} if none
  unread,               \* thread |-> what it has still to read for it
  low                   \* thread |-> the lowest generation it has read

rcvars == <<needs, gen, doing, unread, low>>

Comps == DOMAIN needs

\* One more, up to the bound.
Up1(g) == IF g < MaxGen THEN g + 1 ELSE MaxGen

NoWork ==
  /\ doing = [t \in Threads |-> {}]
  /\ unread = [t \in Threads |-> {}]
  /\ low = [t \in Threads |-> MaxGen]

\* The initial guess has generation 0.
Guess == gen = [c \in Comps |-> 0]

Init == needs \in Problems /\ Guess /\ NoWork

NewProblem ==
  /\ NoWork
  /\ needs' \in Problems
  /\ gen' = [c \in DOMAIN needs' |-> 0]
  /\ UNCHANGED <<doing, unread, low>>

Begin(t, c) ==
  /\ doing[t] = {}
  /\ c \in Comps
  /\ doing' = [doing EXCEPT ![t] = {c}]
  /\ unread' = [unread EXCEPT ![t] = needs[c]]
  /\ UNCHANGED <<needs, gen, low>>

Read(t, d) ==
  /\ d \in unread[t]
  /\ unread' = [unread EXCEPT ![t] = @ \ {d}]
  /\ low' = [low EXCEPT ![t] = IF gen[d] < @ THEN gen[d] ELSE @]
  /\ UNCHANGED <<needs, gen, doing>>

Store(t) ==
  /\ doing[t] # {}
  /\ unread[t] = {}
  /\ gen' = [c \in Comps |-> IF c \in doing[t] THEN Up1(low[t]) ELSE gen[c]]
  /\ doing' = [doing EXCEPT ![t] = {}]
  /\ low' = [low EXCEPT ![t] = MaxGen]
  /\ UNCHANGED <<needs, unread>>
-----------------------------------------------------------------------------
(***************************************************************************)
(* Rounds, as in ChaoticIteration: a round is over when the last store to  *)
(* every component was by work begun in it and no older work goes on.      *)
(***************************************************************************)
VARIABLES
  rounds,               \* complete rounds, counted up to MaxGen
  fresh,                \* components last stored by work begun in this round
  ontime                \* threads that began their component in this round

history == <<rounds, fresh, ontime>>
rvars == <<rcvars, history>>

FreshAfter(t) == IF t \in ontime THEN fresh \cup doing[t] ELSE fresh \ doing[t]

RoundComplete(t) ==
  /\ FreshAfter(t) = Comps
  /\ \A u \in Threads \ {t} : doing[u] # {} => u \in ontime

Restarted == rounds' = 0 /\ fresh' = {} /\ ontime' = {}

Began(t) == ontime' = ontime \cup {t} /\ UNCHANGED <<rounds, fresh>>

Stored(t) ==
  \/ /\ RoundComplete(t)
     /\ rounds' = Up1(rounds)
     /\ fresh' = {}
     /\ ontime' = {}
  \/ /\ ~RoundComplete(t)
     /\ rounds' = rounds
     /\ fresh' = FreshAfter(t)
     /\ ontime' = ontime \ {t}

RInit == Init /\ rounds = 0 /\ fresh = {} /\ ontime = {}

RNext == \/ NewProblem /\ Restarted
         \/ \E t \in Threads :
              \/ \E c \in Comps : \/ Begin(t, c) /\ Began(t)
                                  \/ Read(t, c) /\ UNCHANGED history
              \/ Store(t) /\ Stored(t)

RSpec == RInit /\ [][RNext]_rvars
-----------------------------------------------------------------------------
(***************************************************************************)
(* Chaotic relaxation contracts once per round: after r rounds no          *)
(* component is left with an error of an earlier generation than r, and    *)
(* no thread is about to bring one back.                                   *)
(***************************************************************************)
Contracts ==
  /\ \A c \in Comps : rounds <= gen[c]
  /\ \A t \in Threads : doing[t] # {} => rounds <= Up1(low[t])
=============================================================================
