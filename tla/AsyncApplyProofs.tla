-------------------------- MODULE AsyncApplyProofs ---------------------------
(***************************************************************************)
(* Asynchronous application, for any numbers of rows, threads and sweeps,  *)
(* any chunk size, pattern and option: type correctness, that no iteration *)
(* is worked on twice, that settled rows stay settled, that a solve on one *)
(* thread is exact, that rows that need no other are final in the end, and *)
(* that a solve is a chaotic iteration and converges as such.              *)
(***************************************************************************)
EXTENDS ApplyRounds, Integers, TLAPS

\* The chaotic iteration that each solve is, with the theorems about it.
P ==
  INSTANCE ChaoticIterationProofs WITH
    Problems <- {LowerNeeds(m) : m \in Matrices} \cup {UpperNeeds(m) : m \in Matrices},
    needs <- [i \in Rows |-> Needs(i)],
    sound <- {i \in Rows : RhsFinal(i)},
    final <- {i \in Rows : Target[i]},
    doing <- [t \in Threads |-> IF busy[t] THEN {RowOf(job[t].at)} ELSE {}],
    unread <- [t \in Threads |-> IF busy[t] THEN unread[t] ELSE {}],
    good <- [t \in Threads |-> busy[t] /\ good[t]]
-----------------------------------------------------------------------------

\* An iteration of a loop works on a row.
LEMMA RowOfType ==
  ASSUME NEW k \in Nat, k < Total
  PROVE  RowOf(k) \in Rows /\ N \in Nat \ {0}
<1>1. N # 0
  BY NAssumption, SizesAssumption DEF Total
<1>2. k % N \in 0 .. N-1
  BY <1>1, NAssumption, P!DivMod
<1>3. QED BY <1>1, <1>2, NAssumption DEF RowOf, Rows

LEMMA TotalType == Total \in Nat
  BY NAssumption, SizesAssumption DEF Total

LEMMA ChunkType == TypeOK => Chunk \in Nat \ {0}
  BY OptionsAssumption DEF TypeOK, Chunk

LEMMA NeedsType ==
  ASSUME TypeOK, NEW i \in Rows
  PROVE  Needs(i) \subseteq Rows
<1>1. mat \in [Rows -> SUBSET Rows]
  BY MatricesAssumption DEF TypeOK, Patterns
<1>2. QED BY <1>1 DEF Needs, Lower, Upper

(***************************************************************************)
(* The claims in flight: they are of iterations handed out, a thread is    *)
(* inside a kernel only for one of its own, and reads what that needs.     *)
(* Outside the loops no thread holds any.                                  *)
(***************************************************************************)
Claims ==
  /\ \A t \in Threads :
       /\ job[t].at <= job[t].end
       /\ job[t].end <= claimed
       /\ busy[t] => /\ ~Idle(t)
                     /\ InLoop
                     /\ unread[t] \subseteq Needs(RowOf(job[t].at))
  /\ ~InLoop => \A t \in Threads : Idle(t)
  /\ pc \in {"load", "inity", "initz"} => claimed = 0

AInv == TypeOK /\ Claims

\* The bounds of a claim.
LEMMA JobType ==
  ASSUME TypeOK, NEW t \in Threads
  PROVE  /\ job[t].at \in Nat /\ job[t].end \in Nat /\ claimed \in Nat
         /\ job[t].end <= Total
<1>1. job[t] \in [at : 0 .. Total, end : 0 .. Total] /\ claimed \in 0 .. Total
  BY DEF TypeOK
<1>2. QED BY <1>1, TotalType

\* The row a busy thread works on.
LEMMA BusyRow ==
  ASSUME AInv, NEW t \in Threads, ~Idle(t)
  PROVE  /\ job[t].at \in Nat /\ job[t].at < job[t].end /\ job[t].end <= Total
         /\ RowOf(job[t].at) \in Rows
<1>1. /\ job[t].at \in Nat /\ job[t].at < job[t].end /\ job[t].end <= Total
  BY JobType DEF AInv, Claims, Idle
<1>2. job[t].at < Total
  BY <1>1, JobType, TotalType DEF AInv
<1>3. QED BY <1>1, <1>2, RowOfType

LEMMA InitAInv == Init => AInv
<1> SUFFICES ASSUME Init PROVE AInv
  OBVIOUS
<1> USE DEF Init, NoJob
<1>1. TypeOK
  BY TotalType DEF TypeOK
<1>2. Claims
  BY DEF Claims, Idle, InLoop
<1>3. QED BY <1>1, <1>2 DEF AInv

LEMMA ClaimAInv ==
  ASSUME AInv, NEW t \in Threads, Claim(t)
  PROVE  AInv'
<1> DEFINE left == N - (claimed % N)
           size == IF Chunk < left THEN Chunk ELSE left
<1> USE DEF AInv
<1>1. /\ job' = [job EXCEPT ![t] = [at |-> claimed, end |-> claimed + size]]
      /\ claimed' = claimed + size
      /\ UNCHANGED <<opt, mat, pc, y, z, busy, unread, good>>
      /\ Idle(t) /\ InLoop /\ claimed < Total
  BY DEF Claim
<1>2. claimed \in Nat /\ N \in Nat \ {0} /\ Chunk \in Nat \ {0}
  BY <1>1, RowOfType, ChunkType DEF TypeOK
<1>3. claimed % N \in 0 .. N-1
  BY <1>2, P!DivMod
<1>4. size \in Nat \ {0} /\ size <= left
  BY <1>2, <1>3
<1>5. claimed + left <= Total
  BY <1>1, <1>2, P!SweepFits, SizesAssumption DEF Total
<1> HIDE DEF size
<1>6. claimed + size \in 0 .. Total
  BY <1>2, <1>3, <1>4, <1>5, TotalType
<1>7. TypeOK'
  BY <1>1, <1>6, TotalType DEF TypeOK
<1>8. ~busy[t]
  BY <1>1 DEF Claims
<1>9. \A u \in Threads : u # t => job'[u] = job[u]
  BY <1>1 DEF TypeOK
<1>10. job'[t] = [at |-> claimed, end |-> claimed + size]
  BY <1>1 DEF TypeOK
<1>11. ASSUME NEW u \in Threads
       PROVE  /\ job'[u].at <= job'[u].end
              /\ job'[u].end <= claimed'
              /\ busy'[u] => /\ ~Idle(u)'
                             /\ InLoop'
                             /\ unread'[u] \subseteq Needs(RowOf(job[u].at))'
  <2>1. CASE u = t
    BY <1>1, <1>2, <1>4, <1>8, <1>10, <2>1
  <2>2. CASE u # t
    <3>1. job[u].end \in Nat /\ job[u].at \in Nat
      BY JobType
    <3>2. job'[u].at <= job'[u].end /\ job'[u].end <= claimed'
      BY <1>1, <1>2, <1>4, <1>9, <2>2, <3>1 DEF Claims
    <3>3. QED BY <1>1, <1>9, <2>2, <3>2 DEF Claims, Idle, InLoop, Needs, RowOf
  <2>3. QED BY <2>1, <2>2
<1>12. Claims'
  BY <1>1, <1>11 DEF Claims, InLoop
<1>13. QED BY <1>7, <1>12

LEMMA BeginAInv ==
  ASSUME AInv, NEW t \in Threads, Begin(t)
  PROVE  AInv'
<1> USE DEF AInv, Begin
<1>1. RowOf(job[t].at) \in Rows
  BY BusyRow
<1>2. Needs(RowOf(job[t].at)) \subseteq Rows
  BY <1>1, NeedsType
<1>3. RhsFinal(RowOf(job[t].at)) \in BOOLEAN
  BY <1>1 DEF RhsFinal, TypeOK
<1>4. TypeOK'
  BY <1>2, <1>3 DEF TypeOK
<1>5. InLoop
  BY DEF Claims
<1>6. Claims'
  BY <1>5 DEF Claims, TypeOK, Idle, InLoop, Needs, RowOf
<1>7. QED BY <1>4, <1>6

LEMMA ReadAInv ==
  ASSUME AInv, NEW t \in Threads, NEW j \in Rows, Read(t, j)
  PROVE  AInv'
<1> USE DEF AInv, Read
<1>1. Target[j] \in BOOLEAN /\ good[t] \in BOOLEAN
  BY DEF Target, TypeOK
<1>2. (good[t] /\ Target[j]) \in BOOLEAN
  BY <1>1
<1>3. good' \in [Threads -> BOOLEAN]
  BY <1>2 DEF TypeOK
<1>4. TypeOK'
  BY <1>3 DEF TypeOK
<1>5. Claims'
  BY DEF Claims, TypeOK, Idle, InLoop, Needs, RowOf
<1>6. QED BY <1>4, <1>5

\* What a store changes.
LEMMA StoreEffect ==
  ASSUME AInv, NEW t \in Threads, Store(t)
  PROVE  /\ InLoop /\ RowOf(job[t].at) \in Rows
         /\ Target' = [Target EXCEPT ![RowOf(job[t].at)] = good[t]]
         /\ pc = "upper" => y' = y
         /\ pc = "lower" => z' = z
         /\ busy' = [busy EXCEPT ![t] = FALSE]
         /\ job' = [job EXCEPT ![t].at = @ + 1]
         /\ UNCHANGED <<opt, mat, pc, claimed, unread, good>>
<1>1. InLoop /\ ~Idle(t)
  BY DEF AInv, Claims, Store
<1>2. RowOf(job[t].at) \in Rows
  BY <1>1, BusyRow
<1>3. CASE pc = "lower"
  BY <1>1, <1>2, <1>3 DEF Store, Target
<1>4. CASE pc = "upper"
  BY <1>1, <1>2, <1>4 DEF Store, Target
<1>5. QED BY <1>1, <1>3, <1>4 DEF InLoop

LEMMA StoreAInv ==
  ASSUME AInv, NEW t \in Threads, Store(t)
  PROVE  AInv'
<1> USE DEF AInv
<1>1. /\ InLoop /\ RowOf(job[t].at) \in Rows
      /\ busy' = [busy EXCEPT ![t] = FALSE]
      /\ job' = [job EXCEPT ![t].at = @ + 1]
      /\ UNCHANGED <<opt, mat, pc, claimed, unread, good>>
  BY StoreEffect
<1>2. job[t].at \in Nat /\ job[t].at < job[t].end /\ job[t].end <= Total
  BY BusyRow DEF Store, Claims
<1>3. job[t].at + 1 \in 0 .. Total
  BY <1>2, JobType, TotalType
<1>4. job' \in [Threads -> [at : 0 .. Total, end : 0 .. Total]]
  BY <1>1, <1>3 DEF TypeOK
<1>5. y' \in [Rows -> BOOLEAN] /\ z' \in [Rows -> BOOLEAN]
  <2>1. good[t] \in BOOLEAN BY DEF TypeOK
  <2>2. CASE pc = "lower" BY <1>1, <2>1, <2>2 DEF Store, TypeOK
  <2>3. CASE pc = "upper" BY <1>1, <2>1, <2>3 DEF Store, TypeOK
  <2>4. QED BY <1>1, <2>2, <2>3 DEF InLoop
<1>6. TypeOK'
  BY <1>1, <1>4, <1>5 DEF TypeOK
<1>7. /\ job'[t].at = job[t].at + 1 /\ job'[t].end = job[t].end
      /\ ~busy'[t]
      /\ \A u \in Threads : u # t => job'[u] = job[u] /\ busy'[u] = busy[u]
  BY <1>1 DEF TypeOK
<1>8. job'[t].at <= job'[t].end /\ job'[t].end <= claimed'
  BY <1>1, <1>2, <1>7, JobType DEF Claims
<1>9. ASSUME NEW u \in Threads
      PROVE  /\ job'[u].at <= job'[u].end /\ job'[u].end <= claimed'
             /\ busy'[u] => /\ ~Idle(u)' /\ InLoop'
                            /\ unread'[u] \subseteq Needs(RowOf(job[u].at))'
  <2>1. CASE u = t
    BY <1>7, <1>8, <2>1
  <2>2. CASE u # t
    BY <1>1, <1>7, <2>2 DEF Claims, Idle, InLoop, Needs, RowOf
  <2>3. QED BY <2>1, <2>2
<1>10. Claims'
  BY <1>1, <1>9, <1>7 DEF Claims, InLoop, Needs, RowOf
<1>11. QED BY <1>6, <1>10

\* When a region is done nobody is inside a kernel.
LEMMA SequentialAInv ==
  ASSUME AInv, Sequential
  PROVE  AInv'
<1> USE DEF AInv
<1>1. \A t \in Threads : ~busy[t] /\ Idle(t)
  BY DEF Sequential, LoadRhs, InitLower, EndLower, InitUpper, InvalidInit,
         EndUpper, RegionDone, Claims, InLoop
<1>2. TypeOK'
  <2>1. y' \in [Rows -> BOOLEAN] /\ z' \in [Rows -> BOOLEAN]
    <3>1. [i \in Rows |-> FALSE] \in [Rows -> BOOLEAN]
      OBVIOUS
    <3>2. y' \in {y, [i \in Rows |-> FALSE]} /\ z' \in {z, [i \in Rows |-> FALSE]}
      BY Zenon DEF Sequential, LoadRhs, InitLower, EndLower, InitUpper,
                   InvalidInit, EndUpper
    <3>3. QED BY <3>1, <3>2 DEF TypeOK
  <2>2. claimed' \in 0 .. Total /\ job' \in [Threads -> [at : 0 .. Total, end : 0 .. Total]]
    <3>1. [t \in Threads |-> NoJob] \in [Threads -> [at : 0 .. Total, end : 0 .. Total]]
      BY TotalType DEF NoJob
    <3>2. claimed' \in {claimed, 0} /\ job' \in {job, [t \in Threads |-> NoJob]}
      BY DEF Sequential, LoadRhs, InitLower, EndLower, InitUpper, InvalidInit,
             EndUpper, team
    <3>3. QED BY <3>1, <3>2, TotalType DEF TypeOK
  <2>3. /\ pc' \in {"inity", "lower", "initz", "upper", "returned", "thrown"}
        /\ UNCHANGED <<opt, mat, busy, unread, good>>
    BY DEF Sequential, LoadRhs, InitLower, EndLower, InitUpper, InvalidInit,
           EndUpper, team
  <2>4. QED BY <2>1, <2>2, <2>3 DEF TypeOK
<1>3. CASE EndLower
  <2>1. /\ pc' = "initz" /\ claimed' = 0
        /\ \A t \in Threads : job'[t].at = 0 /\ job'[t].end = 0 /\ ~busy'[t]
    BY <1>1, <1>3 DEF EndLower, NoJob
  <2>2. Claims'
    BY <2>1 DEF Claims, Idle, InLoop
  <2>3. QED BY <1>2, <2>2
<1>4. CASE ~EndLower
  <2>1. UNCHANGED team
    BY <1>4 DEF Sequential, LoadRhs, InitLower, InitUpper, InvalidInit, EndUpper
  <2>2. /\ \A t \in Threads : ~busy'[t] /\ Idle(t)'
        /\ \A t \in Threads : job'[t].at <= job'[t].end /\ job'[t].end <= claimed'
    BY <1>1, <2>1 DEF Claims, Idle, team
  <2>3. pc' \in {"load", "inity", "initz"} => claimed' = 0
    BY <1>4, <2>1 DEF Sequential, LoadRhs, InitLower, InitUpper, InvalidInit,
                      EndUpper, Claims, team
  <2>4. Claims'
    BY <2>2, <2>3 DEF Claims
  <2>5. QED BY <1>2, <2>4
<1>5. QED BY <1>2, <1>3, <1>4

LEMMA NextAInv ==
  ASSUME AInv, [Next]_vars
  PROVE  AInv'
<1>1. CASE Sequential BY <1>1, SequentialAInv
<1>2. ASSUME NEW t \in Threads, Work(t) PROVE AInv'
  BY <1>2, ClaimAInv, BeginAInv, ReadAInv, StoreAInv DEF Work
<1>3. CASE UNCHANGED vars
  BY <1>3 DEF vars, AInv, TypeOK, Claims, Idle, InLoop, Needs, RowOf
<1>4. QED BY <1>1, <1>2, <1>3 DEF Next, Finished

\* Type correctness, together with the facts about the claims in flight.
THEOREM TypeCorrect == Spec => [](TypeOK /\ Claims)
<1>1. Init => AInv BY InitAInv
<1>2. AInv /\ [Next]_vars => AInv' BY NextAInv
<1>3. QED BY <1>1, <1>2, PTL DEF Spec, AInv

-----------------------------------------------------------------------------
(***************************************************************************)
(* One step of a loop keeps a closed set of settled rows settled.          *)
(***************************************************************************)
LEMMA StepKeepsSettled ==
  ASSUME AInv, [Next]_vars, InLoop, pc' = pc,
         NEW G \in SUBSET Rows, Closed(G), Settled(G)
  PROVE  Settled(G)'
<1>1. CASE \E t \in Threads : Claim(t)
  <2> PICK t \in Threads : Claim(t)
    BY <1>1
  <2>1. ~busy[t] /\ UNCHANGED <<opt, mat, pc, y, z, busy, unread, good>>
    BY DEF Claim, AInv, Claims
  <2>2. \A u \in Threads : u # t => job'[u] = job[u]
    BY DEF Claim, AInv, TypeOK
  <2>3. QED BY <2>1, <2>2 DEF Settled, Target, RhsFinal, RowOf
<1>2. CASE \E t \in Threads : Begin(t)
  <2> PICK t \in Threads : Begin(t)
    BY <1>2
  <2> DEFINE r == RowOf(job[t].at)
  <2>1. UNCHANGED <<opt, mat, pc, y, z, claimed, job>>
    BY DEF Begin
  <2>2. r \in G => good'[t]
    BY DEF Begin, Settled, AInv, TypeOK
  <2>3. \A u \in Threads : u # t => good'[u] = good[u] /\ busy'[u] = busy[u]
    BY DEF Begin, AInv, TypeOK
  <2>4. QED BY <2>1, <2>2, <2>3 DEF Settled, Target, RhsFinal, RowOf
<1>3. CASE \E t \in Threads : \E j \in Rows : Read(t, j)
  <2> PICK t \in Threads : \E j \in Rows : Read(t, j)
    BY <1>3
  <2> PICK j \in Rows : Read(t, j)
    OBVIOUS
  <2> DEFINE r == RowOf(job[t].at)
  <2>1. UNCHANGED <<opt, mat, pc, y, z, claimed, job, busy>>
    BY DEF Read
  <2>2. r \in G => good'[t]
    <3> SUFFICES ASSUME r \in G PROVE good'[t]
      OBVIOUS
    <3>1. busy[t] /\ j \in Needs(r)
      BY DEF Read, AInv, Claims
    <3>2. Target[j] /\ good[t]
      BY <3>1 DEF Closed, Settled
    <3>3. QED BY <3>2 DEF Read, AInv, TypeOK
  <2>3. \A u \in Threads : u # t => good'[u] = good[u]
    BY DEF Read, AInv, TypeOK
  <2>4. QED BY <2>1, <2>2, <2>3 DEF Settled, Target, RhsFinal, RowOf
<1>4. CASE \E t \in Threads : Store(t)
  <2> PICK t \in Threads : Store(t)
    BY <1>4
  <2> DEFINE r == RowOf(job[t].at)
  <2>1. /\ r \in Rows
        /\ Target' = [Target EXCEPT ![r] = good[t]]
        /\ pc = "upper" => y' = y
        /\ busy' = [busy EXCEPT ![t] = FALSE]
        /\ job' = [job EXCEPT ![t].at = @ + 1]
        /\ UNCHANGED <<opt, mat, pc, claimed, unread, good>>
    BY StoreEffect
  <2>2. busy[t] /\ (r \in G => good[t])
    BY DEF Store, Settled
  <2>3. Target \in [Rows -> BOOLEAN]
    BY DEF Target, AInv, TypeOK
  <2>4. \A i \in G : Target'[i]
    BY <2>1, <2>2, <2>3 DEF Settled
  <2>5. \A i \in G : RhsFinal(i)'
    BY <2>1 DEF Settled, RhsFinal, InLoop
  <2>6. \A u \in Threads : busy'[u] => busy[u] /\ job'[u] = job[u]
    BY <2>1 DEF AInv, TypeOK
  <2>7. QED BY <2>1, <2>4, <2>5, <2>6 DEF Settled, RowOf
<1>5. CASE UNCHANGED vars
  BY <1>5 DEF vars, Settled, Target, RhsFinal, RowOf
<1>6. ~Sequential
  BY DEF Sequential, LoadRhs, InitLower, EndLower, InitUpper, InvalidInit,
         EndUpper, InLoop
<1>7. QED
  BY <1>1, <1>2, <1>3, <1>4, <1>5, <1>6 DEF Next, Work, Finished

(***************************************************************************)
(* The progress of an asynchronous solve is never lost: settled rows that  *)
(* need only each other stay settled, whatever sweeps are in flight.       *)
(***************************************************************************)
THEOREM FrontNeverRetreats == Spec => FrontAdvances
<1>1. Init => AInv BY InitAInv
<1>2. AInv /\ [Next]_vars => AInv' BY NextAInv
<1>3. AInv /\ [Next]_vars =>
        [\A G \in SUBSET Rows :
           InLoop /\ pc' = pc /\ Closed(G) /\ Settled(G) => Settled(G)']_vars
  BY StepKeepsSettled
<1>4. QED BY <1>1, <1>2, <1>3, PTL DEF Spec, FrontAdvances
-----------------------------------------------------------------------------
(***************************************************************************)
(* A solve on one thread.  The rows before the one being worked on are     *)
(* final, and these are all that a kernel reads.                           *)
(***************************************************************************)
InSerial == (pc = "lower" /\ SerialLower) \/ (pc = "upper" /\ SerialUpper)

Order(i) == IF pc = "lower" THEN i ELSE N - 1 - i

SolvedSoFar ==
  /\ \A t \in Threads : t # Master => Idle(t)
  /\ job[Master].end = claimed
  /\ \A i \in Rows : RhsFinal(i) /\ (Order(i) < job[Master].at => Target[i])
  /\ busy[Master] => good[Master]

SerialInv == SerialIsSubstitution /\ (InSerial => SolvedSoFar)

LEMMA SerialTeam == ASSUME InSerial PROVE InLoop /\ Team = {Master}
  BY DEF InSerial, InLoop, SerialLower, SerialUpper, Team

\* What a row needs comes before it, and before every later iteration of it.
LEMMA NeedsComeFirst ==
  ASSUME TypeOK, InLoop, NEW k \in Nat, k < Total, NEW j \in Needs(RowOf(k))
  PROVE  j \in Rows /\ Order(j) < k
<1>1. RowOf(k) \in Rows /\ N \in Nat \ {0}
  BY RowOfType
<1>2. j \in Rows
  BY <1>1, NeedsType
<1>3. j \in 0 .. N-1 /\ RowOf(k) \in 0 .. N-1
  BY <1>1, <1>2 DEF Rows
<1>4. Order(j) < Order(RowOf(k))
  <2>1. CASE pc = "lower"
    BY <2>1 DEF Needs, Lower, Order
  <2>2. CASE pc = "upper"
    <3>1. j > RowOf(k)
      BY <2>2 DEF Needs, Upper
    <3>2. QED BY <1>1, <1>3, <2>2, <3>1 DEF Order
  <2>3. QED BY <2>1, <2>2 DEF InLoop
<1>5. k % N \in 0 .. N-1 /\ k \div N \in Nat /\ k = N * (k \div N) + (k % N)
  BY <1>1, P!DivMod
<1>6. Order(RowOf(k)) = k % N
  BY <1>1, <1>5 DEF Order, RowOf, InLoop
<1>7. N * (k \div N) \in Nat
  BY <1>1, <1>5
<1>8. k % N <= k
  <2> DEFINE p == N * (k \div N)
             r == k % N
  <2>1. p \in Nat /\ r \in Nat /\ k = p + r
    BY <1>5, <1>7
  <2> HIDE DEF p, r
  <2>2. r <= k
    BY <2>1
  <2>3. QED BY <2>2 DEF r
<1>9. Order(j) \in Int
  BY <1>1, <1>3 DEF Order
<1>10. QED BY <1>2, <1>4, <1>5, <1>6, <1>8, <1>9

\* One iteration per row is the least a loop hands out.
LEMMA TotalCoversRows == N <= Total
<1>1. 1 * N <= Sweeps * N
  BY P!MulMonotone, NAssumption, SizesAssumption
<1>2. QED BY <1>1, NAssumption DEF Total

LEMMA SerialWork ==
  ASSUME AInv, SolvedSoFar, InSerial, NEW t \in Threads, Work(t)
  PROVE  SolvedSoFar'
<1>1. InLoop /\ Team = {Master} /\ Master \in Threads
  BY SerialTeam, TeamAssumption
<1>2. t = Master
  BY <1>1 DEF Work, Claim, Begin, Read, Store, SolvedSoFar, AInv, Claims
<1>3. /\ \A u \in Threads : u # Master => job'[u] = job[u]
      /\ UNCHANGED <<pc, opt, mat>>
  BY <1>2 DEF Work, Claim, Begin, Read, Store, AInv, TypeOK
<1>4. \A u \in Threads : u # Master => Idle(u)'
  BY <1>3 DEF SolvedSoFar, Idle
<1>5. \A i : Order(i)' = Order(i)
  BY <1>3 DEF Order
<1>6. job[Master].at \in Nat /\ job[Master].end \in Nat /\ claimed \in Nat
  BY <1>1, JobType DEF AInv
<1>7. CASE Claim(Master)
  <2>1. /\ job'[Master].at = claimed /\ job'[Master].end = claimed'
        /\ job[Master].at = claimed
        /\ UNCHANGED <<y, z, busy, good>>
    BY <1>1, <1>7 DEF Claim, AInv, TypeOK, SolvedSoFar, Idle
  <2>2. QED BY <1>3, <1>4, <1>5, <2>1 DEF SolvedSoFar, RhsFinal, Target
<1>8. CASE Begin(Master)
  <2>1. UNCHANGED <<y, z, job, claimed>>
    BY <1>8 DEF Begin
  <2>2. RowOf(job[Master].at) \in Rows
    BY <1>1, <1>8, BusyRow DEF Begin
  <2>3. good'[Master]
    BY <1>1, <1>8, <2>2 DEF Begin, SolvedSoFar, AInv, TypeOK
  <2>4. QED BY <1>3, <1>4, <1>5, <2>1, <2>3 DEF SolvedSoFar, RhsFinal, Target
<1>9. ASSUME NEW j \in Rows, Read(Master, j) PROVE SolvedSoFar'
  <2>1. UNCHANGED <<y, z, job, claimed, busy>> /\ busy[Master]
    BY <1>9 DEF Read
  <2>2. ~Idle(Master) /\ j \in Needs(RowOf(job[Master].at))
    BY <1>1, <1>9 DEF Read, AInv, Claims
  <2>3. job[Master].at < Total
    BY <1>1, <1>6, <2>2, BusyRow, TotalType
  <2>4. Order(j) < job[Master].at
    BY <1>1, <1>6, <2>2, <2>3, NeedsComeFirst DEF AInv
  <2>5. good[Master] /\ Target[j]
    BY <2>1, <2>4 DEF SolvedSoFar
  <2>6. good'[Master]
    BY <1>1, <1>9, <2>5 DEF Read, AInv, TypeOK
  <2>7. QED BY <1>3, <1>4, <1>5, <2>1, <2>6 DEF SolvedSoFar, RhsFinal, Target
<1>10. CASE Store(Master)
  <2> DEFINE r == RowOf(job[Master].at)
  <2>1. /\ r \in Rows
        /\ Target' = [Target EXCEPT ![r] = good[Master]]
        /\ pc = "upper" => y' = y
        /\ busy' = [busy EXCEPT ![Master] = FALSE]
        /\ job' = [job EXCEPT ![Master].at = @ + 1]
        /\ claimed' = claimed
    BY <1>1, <1>10, StoreEffect
  <2>2. /\ job'[Master].at = job[Master].at + 1
        /\ job'[Master].end = job[Master].end
        /\ ~busy'[Master]
    BY <1>1, <2>1 DEF AInv, TypeOK
  <2>3. good[Master] /\ job[Master].at < Total
    BY <1>1, <1>6, <1>10, BusyRow, TotalType DEF Store, SolvedSoFar, AInv, Claims
  <2>4. Target \in [Rows -> BOOLEAN]
    BY DEF Target, AInv, TypeOK
  <2>5. \A i \in Rows : i # r => Target'[i] = Target[i]
    BY <2>1, <2>4
  <2>6. Target'[r]
    BY <2>1, <2>3, <2>4
  <2>7. \A i \in Rows : Order(i) = job[Master].at => i = r
    <3>1. N \in Nat \ {0} /\ job[Master].at % N \in 0 .. N-1
      BY <1>6, <2>3, RowOfType, P!DivMod
    <3>2. \A k \in 0 .. N-1 : k % N = k
      BY <3>1
    <3>3. QED BY <1>1, <3>1, <3>2 DEF Order, RowOf, Rows, InLoop
  <2>8. ASSUME NEW i \in Rows, Order(i)' < job'[Master].at PROVE Target'[i]
    <3>1. Order(i) \in Int
      BY NAssumption DEF Order, Rows
    <3>2. Order(i) < job[Master].at \/ Order(i) = job[Master].at
      BY <1>5, <1>6, <2>2, <2>8, <3>1
    <3>3. QED BY <2>5, <2>6, <2>7, <3>2 DEF SolvedSoFar
  <2>9. \A i \in Rows : RhsFinal(i)'
    BY <1>1, <1>3, <2>1 DEF SolvedSoFar, RhsFinal, InLoop
  <2>10. QED BY <1>4, <2>1, <2>2, <2>8, <2>9 DEF SolvedSoFar
<1>11. QED BY <1>2, <1>7, <1>8, <1>9, <1>10 DEF Work

\* At the start of a serial loop nothing has been solved, or handed out.
LEMMA SerialStart ==
  ASSUME AInv, SerialInv, InitLower \/ InitUpper
  PROVE  InSerial' => SolvedSoFar'
<1> SUFFICES ASSUME InSerial' PROVE SolvedSoFar'
  OBVIOUS
<1>1. /\ \A t \in Threads : Idle(t) /\ job[t].end <= 0 /\ ~busy[t]
      /\ claimed = 0
  BY DEF InitLower, InitUpper, AInv, Claims, InLoop
<1>2. \A t \in Threads : job[t].at = 0 /\ job[t].end = 0
  BY <1>1, JobType DEF AInv, Idle
<1>3. UNCHANGED <<claimed, job, busy, opt, mat>>
  BY DEF InitLower, InitUpper, team
<1>4. \A i \in Rows : RhsFinal(i)'
  <2>1. CASE InitLower
    BY <2>1 DEF InitLower, RhsFinal
  <2>2. CASE InitUpper
    <3>1. SerialLower /\ pc = "initz" /\ y' = y
      BY <1>3, <2>2 DEF InitUpper, InSerial, SerialUpper, SerialLower
    <3>2. QED BY <3>1 DEF SerialInv, SerialIsSubstitution, SolvedForY, RhsFinal
  <2>3. QED BY <2>1, <2>2
<1>5. \A i \in Rows : ~(Order(i)' < 0)
  BY NAssumption DEF Order, Rows
<1>6. QED BY <1>1, <1>2, <1>3, <1>4, <1>5, TeamAssumption DEF SolvedSoFar, Idle

\* At the end of a serial loop every row has been solved.
LEMMA SerialEnd ==
  ASSUME AInv, SerialInv, InSerial, RegionDone
  PROVE  \A i \in Rows : Target[i]
<1>1. job[Master].at = Total
  BY TeamAssumption DEF RegionDone, Idle, SerialInv, SolvedSoFar
<1>2. \A i \in Rows : Order(i) < Total
  BY TotalCoversRows, TotalType, NAssumption DEF Order, Rows
<1>3. QED BY <1>1, <1>2 DEF SerialInv, SolvedSoFar

LEMMA NextSerialInv ==
  ASSUME AInv, SerialInv, [Next]_vars
  PROVE  SerialInv'
<1>1. ASSUME NEW t \in Threads, Work(t) PROVE SerialInv'
  <2>1. pc' = pc /\ opt' = opt /\ InLoop
    BY <1>1 DEF Work, Claim, Begin, Read, Store, AInv, Claims
  <2>2. pc = "upper" => y' = y
    BY <1>1 DEF Work, Claim, Begin, Read, Store
  <2>3. SerialIsSubstitution'
    BY <2>1, <2>2 DEF SerialInv, SerialIsSubstitution, SolvedForY, SerialLower, SerialUpper, InLoop
  <2>4. InSerial' => SolvedSoFar'
    BY <1>1, <2>1, SerialWork DEF SerialInv, InSerial, SerialLower, SerialUpper
  <2>5. QED BY <2>3, <2>4 DEF SerialInv
<1>2. CASE UNCHANGED vars
  BY <1>2 DEF vars, SerialInv, SerialIsSubstitution, SolvedForY, SerialLower, SerialUpper,
              InSerial, SolvedSoFar, Order, RhsFinal, Target, Idle
<1>3. CASE LoadRhs
  BY <1>3 DEF LoadRhs, SerialInv, SerialIsSubstitution, SolvedForY, SerialLower, SerialUpper,
              InSerial
<1>4. CASE InitLower
  <2>1. pc' = "lower" BY <1>4 DEF InitLower
  <2>2. SerialIsSubstitution' BY <2>1 DEF SerialIsSubstitution, SolvedForY
  <2>3. QED BY <1>4, <2>2, SerialStart DEF SerialInv
<1>5. CASE EndLower
  <2>1. pc = "lower" /\ pc' = "initz" /\ UNCHANGED <<y, opt>> /\ RegionDone
    BY <1>5 DEF EndLower
  <2>2. SerialLower => \A i \in Rows : y[i]
    BY <2>1, SerialEnd DEF InSerial, Target
  <2>3. QED
    BY <2>1, <2>2 DEF SerialInv, SerialIsSubstitution, SolvedForY, SerialLower, SerialUpper, InSerial
<1>6. CASE InitUpper
  <2>1. pc = "initz" /\ pc' = "upper" /\ y' = y /\ opt' = opt
    BY <1>6 DEF InitUpper
  <2>2. SerialIsSubstitution'
    BY <2>1 DEF SerialInv, SerialIsSubstitution, SolvedForY, SerialLower, SerialUpper
  <2>3. QED BY <1>6, <2>2, SerialStart DEF SerialInv
<1>7. CASE InvalidInit
  BY <1>7 DEF InvalidInit, SerialInv, SerialIsSubstitution, SolvedForY, SerialLower, SerialUpper, InSerial
<1>8. CASE EndUpper
  <2>1. pc = "upper" /\ pc' = "returned" /\ UNCHANGED <<y, z, opt>> /\ RegionDone
    BY <1>8 DEF EndUpper
  <2>2. SerialUpper => \A i \in Rows : z[i]
    BY <2>1, SerialEnd DEF InSerial, Target
  <2>3. QED
    BY <2>1, <2>2 DEF SerialInv, SerialIsSubstitution, SolvedForY, SerialLower, SerialUpper, InSerial
<1>9. QED
  BY <1>1, <1>2, <1>3, <1>4, <1>5, <1>6, <1>7, <1>8 DEF Next, Sequential, Finished

(***************************************************************************)
(* A solve on one thread is an exact substitution, for any number of       *)
(* sweeps and any initial guess.                                           *)
(***************************************************************************)
THEOREM SerialSolveIsExact == Spec => []SerialIsSubstitution
<1>1. Init => AInv BY InitAInv
<1>2. AInv /\ [Next]_vars => AInv' BY NextAInv
<1>3. Init => SerialInv
  BY DEF Init, SerialInv, SerialIsSubstitution, SolvedForY, InSerial
<1>4. AInv /\ SerialInv /\ [Next]_vars => SerialInv'
  BY NextSerialInv
<1>5. SerialInv => SerialIsSubstitution BY DEF SerialInv
<1>6. QED BY <1>1, <1>2, <1>3, <1>4, <1>5, PTL DEF Spec
-----------------------------------------------------------------------------
(***************************************************************************)
(* The rows that need no other one.  Whoever works on one of them has read *)
(* nothing but its right-hand side, which is final; and until it is final  *)
(* itself, its iteration of the first sweep is still to be done.           *)
(***************************************************************************)
Root(i) == Needs(i) = {} /\ RhsFinal(i)

ToDo(k) == claimed <= k \/ \E t \in Threads : k \in job[t].at .. job[t].end - 1

RootsSound ==
  \A i \in Rows : Root(i) =>
    /\ \A t \in Threads : busy[t] /\ RowOf(job[t].at) = i => good[t]
    /\ Target[i] \/ ToDo(Order(i))

RootInv == RootsFinal /\ (InLoop => RootsSound)

\* A row's iteration in the first sweep.
LEMMA OrderFacts ==
  ASSUME InLoop, NEW i \in Rows
  PROVE  Order(i) \in 0 .. N-1 /\ \A k \in 0 .. N-1 : Order(i) = k => RowOf(k) = i
<1>1. N \in Nat \ {0} /\ i \in 0 .. N-1 BY NAssumption DEF Rows
<1>2. \A k \in 0 .. N-1 : k % N = k BY <1>1
<1>3. QED BY <1>1, <1>2 DEF InLoop, Order, RowOf

LEMMA WorkRootsSound ==
  ASSUME AInv, RootsSound, InLoop, NEW t \in Threads, Work(t)
  PROVE  RootsSound'
<1>1. /\ UNCHANGED <<pc, opt, mat>>
      /\ pc = "upper" => y' = y
  BY DEF Work, Claim, Begin, Read, Store
<1>2. \A i \in Rows : Root(i)' <=> Root(i)
  BY <1>1 DEF Root, Needs, Lower, Upper, RhsFinal, InLoop
<1>3. /\ \A i \in Rows : Order(i)' = Order(i)
      /\ \A u \in Threads : RowOf(job[u].at)' = RowOf(job'[u].at)
  BY <1>1 DEF Order, RowOf
<1> SUFFICES ASSUME NEW i \in Rows, Root(i), NEW k, k = Order(i)
             PROVE  /\ \A u \in Threads : busy'[u] /\ RowOf(job'[u].at) = i => good'[u]
                    /\ Target'[i] \/ ToDo(k)'
  BY <1>2, <1>3 DEF RootsSound, ToDo
<1>4. /\ \A u \in Threads : busy[u] /\ RowOf(job[u].at) = i => good[u]
      /\ Target[i] \/ ToDo(k)
  BY DEF RootsSound
<1>5. /\ k \in 0 .. N-1 /\ claimed \in Nat
      /\ \A u \in Threads : job[u].at \in Nat /\ job[u].end \in Nat
  BY OrderFacts, JobType DEF AInv
<1>6. CASE Claim(t)
  <2> DEFINE left == N - (claimed % N)
             size == IF Chunk < left THEN Chunk ELSE left
  <2>1. /\ Idle(t) /\ ~busy[t] /\ UNCHANGED <<y, z, busy, good>>
        /\ job' = [job EXCEPT ![t] = [at |-> claimed, end |-> claimed + size]]
        /\ claimed' = claimed + size
    BY <1>6 DEF Claim, AInv, Claims
  <2>2. size \in Nat
    <3>1. claimed % N \in 0 .. N-1 BY <1>5, NAssumption, P!DivMod DEF Rows
    <3>2. Chunk \in Nat BY ChunkType DEF AInv
    <3> QED BY <3>1, <3>2, NAssumption
  <2> HIDE DEF size
  <2>3. /\ job'[t].at = claimed /\ job'[t].end = claimed + size
        /\ \A u \in Threads : u # t => job'[u] = job[u]
    BY <2>1 DEF AInv, TypeOK
  <2>4. Target' = Target BY <1>1, <2>1 DEF Target
  <2>5. ToDo(k) => ToDo(k)'
    <3>1. CASE claimed <= k
      <4>1. k \in job'[t].at .. job'[t].end - 1 \/ claimed' <= k
        BY <1>5, <2>1, <2>2, <2>3, <3>1
      <4> QED BY <4>1 DEF ToDo
    <3>2. ASSUME NEW u \in Threads, k \in job[u].at .. job[u].end - 1
          PROVE  ToDo(k)'
      <4>1. u # t BY <1>5, <2>1, <3>2 DEF Idle
      <4> QED BY <2>3, <3>2, <4>1 DEF ToDo
    <3> QED BY <3>1, <3>2 DEF ToDo
  <2> QED BY <1>4, <2>1, <2>3, <2>4, <2>5
<1>7. CASE Begin(t)
  <2>1. UNCHANGED <<y, z, job, claimed>> /\ \A u \in Threads : u # t =>
          busy'[u] = busy[u] /\ good'[u] = good[u]
    BY <1>7 DEF Begin, AInv, TypeOK
  <2>2. good'[t] = RhsFinal(RowOf(job[t].at)) BY <1>7 DEF Begin, AInv, TypeOK
  <2>3. Target' = Target /\ (ToDo(k)' <=> ToDo(k))
    BY <1>1, <2>1 DEF Target, ToDo
  <2> QED BY <1>4, <2>1, <2>2, <2>3 DEF Root
<1>8. ASSUME NEW j \in Rows, Read(t, j)
      PROVE  /\ \A u \in Threads : busy'[u] /\ RowOf(job'[u].at) = i => good'[u]
             /\ Target'[i] \/ ToDo(k)'
  <2>1. UNCHANGED <<y, z, job, claimed, busy>> /\ \A u \in Threads : u # t => good'[u] = good[u]
    BY <1>8 DEF Read, AInv, TypeOK
  <2>2. RowOf(job[t].at) # i BY <1>8 DEF Read, AInv, Claims, Root
  <2>3. Target' = Target /\ (ToDo(k)' <=> ToDo(k))
    BY <1>1, <2>1 DEF Target, ToDo
  <2> QED BY <1>4, <2>1, <2>2, <2>3
<1>9. CASE Store(t)
  <2> DEFINE r == RowOf(job[t].at)
  <2>1. /\ r \in Rows
        /\ Target' = [Target EXCEPT ![r] = good[t]]
        /\ busy' = [busy EXCEPT ![t] = FALSE]
        /\ job' = [job EXCEPT ![t].at = @ + 1]
        /\ UNCHANGED <<claimed, good>> /\ busy[t]
    BY <1>9, StoreEffect DEF Store
  <2>2. /\ job'[t].at = job[t].at + 1 /\ job'[t].end = job[t].end /\ ~busy'[t]
        /\ \A u \in Threads : u # t => job'[u] = job[u] /\ busy'[u] = busy[u]
    BY <2>1 DEF AInv, TypeOK
  <2>3. Target \in [Rows -> BOOLEAN] BY DEF Target, AInv, TypeOK
  <2>4. CASE i = r
    <3>1. Target'[i] BY <1>4, <2>1, <2>3, <2>4
    <3> QED BY <1>4, <2>1, <2>2, <3>1
  <2>5. CASE i # r
    <3>1. Target'[i] = Target[i] BY <2>1, <2>3, <2>5
    <3>2. k # job[t].at BY <1>5, <2>5, OrderFacts
    <3>3. ToDo(k) => ToDo(k)'
      <4>1. ASSUME NEW u \in Threads, k \in job[u].at .. job[u].end - 1
            PROVE  k \in job'[u].at .. job'[u].end - 1
        BY <1>5, <2>2, <3>2, <4>1
      <4> QED BY <2>1, <4>1 DEF ToDo
    <3> QED BY <1>4, <2>1, <2>2, <3>1, <3>3
  <2> QED BY <2>4, <2>5
<1>10. QED BY <1>6, <1>7, <1>8, <1>9 DEF Work

\* At the start of a loop everything is to be done.
LEMMA LoopStarts ==
  ASSUME AInv, InitLower \/ InitUpper
  PROVE  RootsSound' /\ InLoop'
<1>1. InLoop' /\ UNCHANGED team /\ claimed = 0 /\ \A t \in Threads : ~busy[t]
  BY DEF InitLower, InitUpper, AInv, Claims, InLoop
<1>2. \A i \in Rows : 0 <= Order(i)' BY NAssumption DEF Order, Rows
<1>3. QED BY <1>1, <1>2 DEF RootsSound, ToDo, team

\* At its end the roots are final.
LEMMA LoopEnds ==
  ASSUME AInv, RootsSound, InLoop, RegionDone, NEW i \in Rows, Root(i)
  PROVE  Target[i]
<1>1. Order(i) \in 0 .. N-1 /\ claimed = Total /\ N <= Total /\ Total \in Nat
  BY OrderFacts, TotalCoversRows, TotalType DEF RegionDone
<1>2. \A t \in Threads : Order(i) \notin job[t].at .. job[t].end - 1
  BY <1>1, JobType DEF RegionDone, Idle, AInv
<1>3. ~(claimed <= Order(i)) BY <1>1, NAssumption
<1>4. QED BY <1>2, <1>3 DEF RootsSound, ToDo

LEMMA NextRootInv ==
  ASSUME AInv, RootInv, [Next]_vars
  PROVE  RootInv'
<1>1. ASSUME NEW t \in Threads, Work(t) PROVE RootInv'
  <2>1. pc' = pc /\ mat' = mat /\ InLoop /\ (pc = "upper" => y' = y)
    BY <1>1 DEF Work, Claim, Begin, Read, Store, AInv, Claims
  <2>2. RootsFinal' BY <2>1 DEF RootInv, RootsFinal, SolvedForY, InLoop, Lower, Upper
  <2>3. RootsSound' BY <1>1, <2>1, WorkRootsSound DEF RootInv
  <2> QED BY <2>2, <2>3 DEF RootInv
<1>2. CASE UNCHANGED vars
  <2>1. RootsFinal' <=> RootsFinal BY <1>2 DEF vars, RootsFinal, SolvedForY, Lower, Upper
  <2>2. InLoop' <=> InLoop BY <1>2 DEF vars, InLoop
  <2>3. RootsSound' <=> RootsSound
    BY <1>2 DEF vars, RootsSound, Root, Needs, Lower, Upper, RhsFinal, ToDo, Order, Target, RowOf
  <2> QED BY <2>1, <2>2, <2>3 DEF RootInv
<1>3. CASE LoadRhs BY <1>3 DEF LoadRhs, RootInv, RootsFinal, SolvedForY, InLoop
<1>4. CASE InitLower
  <2>1. RootsFinal' BY <1>4 DEF InitLower, RootsFinal, SolvedForY
  <2> QED BY <1>4, <2>1, LoopStarts DEF RootInv
<1>5. CASE EndLower
  <2>1. pc = "lower" /\ pc' = "initz" /\ UNCHANGED <<y, mat>> /\ RegionDone
    BY <1>5 DEF EndLower
  <2>2. \A i \in Rows : Lower(mat, i) = {} => y[i]
    BY <2>1, LoopEnds DEF RootInv, InLoop, Root, Needs, RhsFinal, Target
  <2> QED BY <2>1, <2>2 DEF RootInv, RootsFinal, SolvedForY, InLoop, Lower
<1>6. CASE InitUpper
  <2>1. pc = "initz" /\ pc' = "upper" /\ UNCHANGED <<y, mat>> BY <1>6 DEF InitUpper
  <2>2. RootsFinal' BY <2>1 DEF RootInv, RootsFinal, SolvedForY, Lower
  <2> QED BY <1>6, <2>2, LoopStarts DEF RootInv
<1>7. CASE InvalidInit BY <1>7 DEF InvalidInit, RootInv, RootsFinal, SolvedForY, InLoop
<1>8. CASE EndUpper
  <2>1. pc = "upper" /\ pc' = "returned" /\ UNCHANGED <<y, z, mat>> /\ RegionDone
    BY <1>8 DEF EndUpper
  <2>2. \A i \in Rows : Upper(mat, i) = {} /\ y[i] => z[i]
    BY <2>1, LoopEnds DEF RootInv, InLoop, Root, Needs, RhsFinal, Target
  <2> QED BY <2>1, <2>2 DEF RootInv, RootsFinal, SolvedForY, InLoop, Lower, Upper
<1>9. QED
  BY <1>1, <1>2, <1>3, <1>4, <1>5, <1>6, <1>7, <1>8 DEF Next, Sequential, Finished

(***************************************************************************)
(* However many threads there are and however the sweeps overlap, the rows *)
(* that need no other are final when a solve is over.                      *)
(***************************************************************************)
THEOREM RootsAreFinal == Spec => []RootsFinal
<1>1. Init => AInv BY InitAInv
<1>2. AInv /\ [Next]_vars => AInv' BY NextAInv
<1>3. Init => RootInv BY DEF Init, RootInv, RootsFinal, SolvedForY, InLoop
<1>4. AInv /\ RootInv /\ [Next]_vars => RootInv' BY NextRootInv
<1>5. RootInv => RootsFinal BY DEF RootInv
<1>6. QED BY <1>1, <1>2, <1>3, <1>4, <1>5, PTL DEF Spec
-----------------------------------------------------------------------------
(***************************************************************************)
(* Convergence: the observed application implements the chaotic iteration, *)
(* and so has what is proved of that.                                      *)
(***************************************************************************)
\* The lower and the upper part of a pattern are triangular dependences.
LEMMA LowerTriangular ==
  ASSUME NEW m \in Matrices, NEW S \in SUBSET Rows, S # {}
  PROVE  \E i \in S : Lower(m, i) \cap S = {}
<1>1. S \in SUBSET Nat BY DEF Rows
<1>2. PICK i \in S : \A k \in S : i <= k BY <1>1, P!LeastNumber
<1>3. \A k \in S : k \in Nat BY <1>1
<1>4. \A k \in S : ~(k < i) BY <1>2, <1>3
<1>5. QED BY <1>4 DEF Lower

LEMMA UpperTriangular ==
  ASSUME NEW m \in Matrices, NEW S \in SUBSET Rows, S # {}
  PROVE  \E i \in S : Upper(m, i) \cap S = {}
<1> DEFINE D == {N - 1 - i : i \in S}
<1>0. \A i \in Rows : N - 1 - i \in Nat BY NAssumption DEF Rows
<1>1. D \in SUBSET Nat /\ D # {} BY <1>0
<1>2. PICK d \in D : \A k \in D : d <= k BY <1>1, P!LeastNumber
<1>3. PICK i \in S : d = N - 1 - i BY <1>2
<1>4. \A j \in S : N - 1 - i <= N - 1 - j BY <1>2, <1>3
<1>5. \A j \in S : ~(j > i) BY <1>4, NAssumption DEF Rows
<1>6. QED BY <1>5 DEF Upper

LEMMA ProblemsTriangular == P!ProblemsAssumption
<1> DEFINE L == {LowerNeeds(m) : m \in Matrices}
           U == {UpperNeeds(m) : m \in Matrices}
<1>1. ASSUME NEW p \in L \cup U
      PROVE  /\ \A c \in DOMAIN p : p[c] \subseteq DOMAIN p
             /\ \A S \in SUBSET DOMAIN p : S # {} => \E c \in S : p[c] \cap S = {}
  <2>1. ASSUME NEW m \in Matrices, p = LowerNeeds(m)
        PROVE  /\ \A c \in DOMAIN p : p[c] \subseteq DOMAIN p
               /\ \A S \in SUBSET DOMAIN p : S # {} => \E c \in S : p[c] \cap S = {}
    <3>1. DOMAIN p = Rows /\ \A c \in Rows : p[c] = Lower(m, c)
      BY <2>1 DEF LowerNeeds
    <3>2. \A c \in Rows : Lower(m, c) \subseteq Rows
      BY MatricesAssumption DEF Patterns, Lower
    <3>3. QED BY <3>1, <3>2, LowerTriangular
  <2>2. ASSUME NEW m \in Matrices, p = UpperNeeds(m)
        PROVE  /\ \A c \in DOMAIN p : p[c] \subseteq DOMAIN p
               /\ \A S \in SUBSET DOMAIN p : S # {} => \E c \in S : p[c] \cap S = {}
    <3>1. DOMAIN p = Rows /\ \A c \in Rows : p[c] = Upper(m, c)
      BY <2>2 DEF UpperNeeds
    <3>2. \A c \in Rows : Upper(m, c) \subseteq Rows
      BY MatricesAssumption DEF Patterns, Upper
    <3>3. QED BY <3>1, <3>2, UpperTriangular
  <2>3. QED BY <2>1, <2>2
<1>2. QED BY <1>1 DEF P!ProblemsAssumption
-----------------------------------------------------------------------------
LEMMA InitChaos ==
  ASSUME HInit
  PROVE  P!RInit
<1> USE DEF HInit, Init
<1>1. [i \in Rows |-> Needs(i)] = UpperNeeds(mat)
  BY DEF Needs, UpperNeeds
<1>2. P!NoWork BY DEF P!NoWork
<1>3. DOMAIN [i \in Rows |-> Needs(i)] = Rows OBVIOUS
<1>4. P!Init BY <1>1, <1>2, <1>3 DEF P!Init, P!Comps
<1>5. QED BY <1>4 DEF P!RInit

\* Between the loops nobody works, and afterwards anything may be final.
LEMMA SequentialChaos ==
  ASSUME AInv, Sequential, Chaos!Restarted
  PROVE  P!NewProblem /\ P!Restarted
<1>1. \A t \in Threads : ~busy[t] /\ ~busy'[t]
  BY DEF Sequential, LoadRhs, InitLower, EndLower, InitUpper, InvalidInit,
         EndUpper, RegionDone, AInv, Claims, InLoop, team
<1>2. mat' \in Matrices
  BY DEF Sequential, LoadRhs, InitLower, EndLower, InitUpper, InvalidInit,
         EndUpper, AInv, TypeOK
<1>3. [i \in Rows |-> Needs(i)]' \in {LowerNeeds(mat'), UpperNeeds(mat')}
  BY DEF Needs, LowerNeeds, UpperNeeds
<1>4. P!NoWork BY <1>1 DEF P!NoWork
<1>5. DOMAIN [i \in Rows |-> Needs(i)]' = Rows OBVIOUS
<1>6. /\ [t \in Threads |-> IF busy[t] THEN {RowOf(job[t].at)} ELSE {}]'
           = [t \in Threads |-> IF busy[t] THEN {RowOf(job[t].at)} ELSE {}]
      /\ [t \in Threads |-> IF busy[t] THEN unread[t] ELSE {}]'
           = [t \in Threads |-> IF busy[t] THEN unread[t] ELSE {}]
      /\ [t \in Threads |-> busy[t] /\ good[t]]' = [t \in Threads |-> busy[t] /\ good[t]]
  BY <1>1
<1>7. P!NewProblem BY <1>2, <1>3, <1>4, <1>5, <1>6 DEF P!NewProblem
<1>8. QED BY <1>7 DEF Chaos!Restarted, P!Restarted

LEMMA ClaimChaos ==
  ASSUME AInv, NEW t \in Threads, Claim(t), UNCHANGED history
  PROVE  UNCHANGED P!rvars
<1>1. ~busy[t] /\ UNCHANGED <<opt, mat, pc, y, z, busy, unread, good>>
  BY DEF Claim, AInv, Claims
<1>2. \A u \in Threads : u # t => job'[u] = job[u]
  BY DEF Claim, AInv, TypeOK
<1>3. [u \in Threads |-> IF busy[u] THEN {RowOf(job[u].at)} ELSE {}]'
        = [u \in Threads |-> IF busy[u] THEN {RowOf(job[u].at)} ELSE {}]
  BY <1>1, <1>2 DEF RowOf
<1>4. QED BY <1>1, <1>3 DEF history, P!rvars, P!cvars, P!history, Needs, RhsFinal, Target

LEMMA BeginChaos ==
  ASSUME AInv, NEW t \in Threads, NEW c \in Rows, c = RowOf(job[t].at),
         Begin(t), Chaos!Began(t)
  PROVE  P!Begin(t, c) /\ P!Began(t)
<1>2. /\ ~busy[t]
      /\ busy' = [busy EXCEPT ![t] = TRUE]
      /\ unread' = [unread EXCEPT ![t] = Needs(c)]
      /\ good' = [good EXCEPT ![t] = RhsFinal(c)]
      /\ UNCHANGED <<opt, mat, pc, y, z, claimed, job>>
  BY DEF Begin
<1>3. /\ busy'[t] /\ unread'[t] = Needs(c) /\ good'[t] = RhsFinal(c)
      /\ \A u \in Threads : u # t =>
           busy'[u] = busy[u] /\ unread'[u] = unread[u] /\ good'[u] = good[u]
  BY <1>2 DEF AInv, TypeOK
<1>4. \A k : RowOf(k)' = RowOf(k) BY <1>2 DEF RowOf
<1>5. /\ \A i : Needs(i)' = Needs(i)
      /\ \A i \in Rows : RhsFinal(i)' = RhsFinal(i)
      /\ Target' = Target
  BY <1>2 DEF Needs, RhsFinal, Target
<1>6. [u \in Threads |-> IF busy[u] THEN {RowOf(job[u].at)} ELSE {}]'
        = [[u \in Threads |-> IF busy[u] THEN {RowOf(job[u].at)} ELSE {}]
             EXCEPT ![t] = {c}]
  BY <1>2, <1>3, <1>4
<1>7. [u \in Threads |-> IF busy[u] THEN unread[u] ELSE {}]'
        = [[u \in Threads |-> IF busy[u] THEN unread[u] ELSE {}] EXCEPT ![t] = Needs(c)]
  BY <1>2, <1>3
<1>8. [u \in Threads |-> busy[u] /\ good[u]]'
        = [[u \in Threads |-> busy[u] /\ good[u]]
             EXCEPT ![t] = c \in {i \in Rows : RhsFinal(i)}]
  <2> DEFINE S == {i \in Rows : RhsFinal(i)}
  <2>1. RhsFinal(c) <=> c \in S OBVIOUS
  <2> HIDE DEF S
  <2>2. good'[t] <=> c \in S BY <1>3, <2>1
  <2>3. \A u \in Threads : (busy'[u] /\ good'[u])
          = [[v \in Threads |-> busy[v] /\ good[v]] EXCEPT ![t] = c \in S][u]
    <3> SUFFICES ASSUME NEW u \in Threads
                 PROVE  (busy'[u] /\ good'[u])
                          = IF u = t THEN c \in S ELSE busy[u] /\ good[u]
      OBVIOUS
    <3>1. CASE u = t
      <4>1. (busy'[t] /\ good'[t]) <=> c \in S BY <1>3, <2>2
      <4>2. QED BY <3>1, <4>1
    <3>2. CASE u # t
      BY <1>3, <3>2
    <3>3. QED BY <3>1, <3>2
  <2>4. QED BY <2>3 DEF S
<1>9. [i \in Rows |-> Needs(i)][c] = Needs(c)
  OBVIOUS
<1>10. P!Begin(t, c)
  BY <1>2, <1>5, <1>6, <1>7, <1>8, <1>9 DEF P!Begin, P!Comps
<1>11. P!Began(t) BY DEF Chaos!Began, P!Began
<1>12. QED BY <1>10, <1>11

LEMMA ReadChaos ==
  ASSUME AInv, NEW t \in Threads, NEW j \in Rows, Read(t, j), UNCHANGED history
  PROVE  P!Read(t, j) /\ UNCHANGED P!history
<1>1. /\ busy[t] /\ j \in unread[t]
      /\ unread' = [unread EXCEPT ![t] = @ \ {j}]
      /\ good' = [good EXCEPT ![t] = @ /\ Target[j]]
      /\ UNCHANGED <<opt, mat, pc, y, z, claimed, job, busy>>
  BY DEF Read
<1>2. /\ unread'[t] = unread[t] \ {j} /\ good'[t] = (good[t] /\ Target[j])
      /\ \A u \in Threads : u # t => unread'[u] = unread[u] /\ good'[u] = good[u]
  BY <1>1 DEF AInv, TypeOK
<1>3. \A k : RowOf(k)' = RowOf(k) BY <1>1 DEF RowOf
<1>4. P!Read(t, j)
  BY <1>1, <1>2, <1>3 DEF P!Read, Needs, RhsFinal, Target
<1>5. QED BY <1>4 DEF history, P!history

LEMMA StoreChaos ==
  ASSUME AInv, NEW t \in Threads, Store(t), Chaos!Stored(t)
  PROVE  P!Store(t) /\ P!Stored(t)
<1> DEFINE c == RowOf(job[t].at)
<1>1. /\ c \in Rows /\ busy[t] /\ unread[t] = {}
      /\ Target' = [Target EXCEPT ![c] = good[t]]
      /\ pc = "upper" => y' = y
      /\ busy' = [busy EXCEPT ![t] = FALSE]
      /\ job' = [job EXCEPT ![t].at = @ + 1]
      /\ UNCHANGED <<opt, mat, pc, claimed, unread, good>>
      /\ InLoop
  BY StoreEffect DEF Store
<1>2. /\ ~busy'[t]
      /\ \A u \in Threads : u # t => busy'[u] = busy[u] /\ job'[u] = job[u]
  BY <1>1 DEF AInv, TypeOK
<1>3. \A k : RowOf(k)' = RowOf(k) /\ Needs(k)' = Needs(k)
  BY <1>1 DEF RowOf, Needs
<1>4. \A i \in Rows : RhsFinal(i)' = RhsFinal(i)
  BY <1>1 DEF RhsFinal, InLoop
<1>5. Target \in [Rows -> BOOLEAN] /\ good[t] \in BOOLEAN
  BY DEF Target, AInv, TypeOK
<1>6. {i \in Rows : Target'[i]} = IF good[t] THEN {i \in Rows : Target[i]} \cup {c}
                                  ELSE {i \in Rows : Target[i]} \ {c}
  BY <1>1, <1>5
<1>7. P!Store(t)
  BY <1>1, <1>2, <1>3, <1>4, <1>6 DEF P!Store
<1>8. QED
  BY <1>7 DEF Chaos!Stored, Chaos!RoundEnds, Chaos!RoundGoesOn, Chaos!RoundComplete,
     Chaos!FreshAfter, Chaos!Solvable, Chaos!Comps, P!Stored, P!RoundEnds,
     P!RoundGoesOn, P!RoundComplete, P!FreshAfter, P!Solvable, P!Comps

LEMMA StepChaos ==
  ASSUME AInv, [HNext]_hvars
  PROVE  [P!RNext]_P!rvars
<1>1. CASE Sequential /\ Chaos!Restarted
  BY <1>1, SequentialChaos DEF P!RNext
<1>2. ASSUME NEW t \in Threads, HWork(t) PROVE [P!RNext]_P!rvars
  <2>1. P!Comps = Rows BY DEF P!Comps
  <2>2. CASE Claim(t) /\ UNCHANGED history
    BY <2>2, ClaimChaos
  <2>3. CASE Begin(t) /\ Chaos!Began(t)
    <3>1. PICK c \in Rows : c = RowOf(job[t].at)
      BY <2>3, BusyRow DEF Begin
    <3>2. P!Begin(t, c) /\ P!Began(t)
      BY <2>3, <3>1, BeginChaos
    <3>3. QED BY <2>1, <3>2 DEF P!RNext
  <2>4. ASSUME NEW j \in Rows, Read(t, j) /\ UNCHANGED history
        PROVE  P!RNext
    BY <2>1, <2>4, ReadChaos DEF P!RNext
  <2>5. CASE Store(t) /\ Chaos!Stored(t)
    BY <2>5, StoreChaos DEF P!RNext
  <2>6. QED BY <1>2, <2>2, <2>3, <2>4, <2>5 DEF HWork
<1>3. CASE UNCHANGED hvars
  BY <1>3 DEF hvars, vars, history, P!rvars, P!cvars, P!history, Needs, RhsFinal,
              Target, RowOf
<1>4. CASE Finished /\ UNCHANGED history
  BY <1>3, <1>4 DEF Finished, hvars
<1>5. QED BY <1>1, <1>2, <1>3, <1>4 DEF HNext

LEMMA StepIsNext ==
  ASSUME [HNext]_hvars
  PROVE  [Next]_vars
BY DEF HNext, HWork, Next, Work, hvars

LEMMA ImplementsP == HSpec => P!RSpec
<1>1. HInit => AInv BY InitAInv DEF HInit
<1>2. AInv /\ [HNext]_hvars => AInv' BY NextAInv, StepIsNext
<1>3. HInit => P!RInit BY InitChaos
<1>4. AInv /\ [HNext]_hvars => [P!RNext]_P!rvars BY StepChaos
<1>5. QED BY <1>1, <1>2, <1>3, <1>4, PTL DEF HSpec, P!RSpec
-----------------------------------------------------------------------------
(***************************************************************************)
(* The overlapping sweeps of an application are a chaotic iteration, on    *)
(* the rows of y in the first solve and on those of z in the second.       *)
(***************************************************************************)
THEOREM AppliesChaotically == HSpec => ImplementsChaos
<1>1. P!RInit => Chaos!RInit
  BY DEF P!RInit, P!Init, P!NoWork, P!Comps,
         Chaos!RInit, Chaos!Init, Chaos!NoWork, Chaos!Comps
<1>2. [P!RNext]_P!rvars => [Chaos!RNext]_Chaos!rvars
  BY DEF P!RNext, P!NewProblem, P!NoWork, P!Restarted, P!Comps, P!Begin, P!Began,
         P!Read, P!history, P!Store, P!Stored, P!RoundEnds, P!RoundGoesOn,
         P!RoundComplete, P!FreshAfter, P!Solvable, P!rvars, P!cvars,
         Chaos!RNext, Chaos!NewProblem, Chaos!NoWork, Chaos!Restarted, Chaos!Comps,
         Chaos!Begin, Chaos!Began, Chaos!Read, Chaos!history, Chaos!Store,
         Chaos!Stored, Chaos!RoundEnds, Chaos!RoundGoesOn, Chaos!RoundComplete,
         Chaos!FreshAfter, Chaos!Solvable, Chaos!rvars, Chaos!cvars
<1>3. QED
  BY <1>1, <1>2, ImplementsP, PTL DEF ImplementsChaos, P!RSpec, Chaos!RSpec

(***************************************************************************)
(* What the rounds of a solve so far must have made final is final, for    *)
(* good.                                                                   *)
(***************************************************************************)
THEOREM SolveConverges == HSpec => []Converges
<1>1. P!RSpec => []P!Converges BY ProblemsTriangular, P!Convergence
<1>2. P!Converges => Converges
  BY DEF P!Converges, P!Settled, Converges, Chaos!Converges, Chaos!Settled
<1>3. QED BY <1>1, <1>2, ImplementsP, PTL

(***************************************************************************)
(* Every round of a solve keeps the final rows and adds one to them.       *)
(***************************************************************************)
THEOREM SolveAdvances == HSpec => RoundsAdvance
<1>1. P!RSpec => P!RoundsAdvance BY ProblemsTriangular, P!EveryRoundAdvances
<1> DEFINE PA == \A t \in Threads : P!RoundEnds(t) /\ P!Store(t) =>
                   /\ front \subseteq front'
                   /\ {i \in Rows : RhsFinal(i)} = P!Comps /\ front # P!Comps
                        => front' # front
           CA == \A t \in Threads : Chaos!RoundEnds(t) /\ Chaos!Store(t) =>
                   /\ front \subseteq front'
                   /\ {i \in Rows : RhsFinal(i)} = Chaos!Comps /\ front # Chaos!Comps
                        => front' # front
<1>2. [PA]_P!rvars => [CA]_Chaos!rvars
  BY DEF P!RoundEnds, P!RoundComplete, P!FreshAfter, P!Solvable, P!Comps, P!Store,
         P!rvars, P!cvars, P!history, Chaos!RoundEnds, Chaos!RoundComplete,
         Chaos!FreshAfter, Chaos!Solvable, Chaos!Comps, Chaos!Store,
         Chaos!rvars, Chaos!cvars, Chaos!history
<1>3. QED BY <1>1, <1>2, ImplementsP, PTL DEF P!RoundsAdvance, RoundsAdvance, Chaos!RoundsAdvance
=============================================================================
