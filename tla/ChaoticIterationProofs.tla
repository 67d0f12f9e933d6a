----------------------- MODULE ChaoticIterationProofs ------------------------
(***************************************************************************)
(* Convergence of chaotic iterations, for any set of threads and any       *)
(* triangular dependence.                                                  *)
(***************************************************************************)
EXTENDS ChaoticIteration, Integers, WellFoundedInduction, TLAPS

(***************************************************************************)
(* A thread computes at most one component and reads what that needs.  The *)
(* front is solvable from itself and settled; work begun in this round     *)
(* computes a final value if the front suffices for its component, and so  *)
(* the fresh components of that kind are final.                            *)
(***************************************************************************)
Working ==
  \A t \in Threads : \/ doing[t] = {} /\ unread[t] = {}
                     \/ \E c \in Comps : doing[t] = {c} /\ unread[t] \subseteq needs[c]

HistoryOK == front \subseteq Comps /\ fresh \subseteq Comps /\ ontime \subseteq Threads

RoundInv ==
  /\ front \subseteq Solvable(front)
  /\ Settled(front)
  /\ \A t \in ontime : doing[t] \cap Solvable(front) # {} => good[t]
  /\ fresh \cap Solvable(front) \subseteq final

CInv == TypeOK /\ Working /\ HistoryOK /\ RoundInv

LEMMA NeedsType ==
  ASSUME ProblemsAssumption, TypeOK, NEW c \in Comps
  PROVE  needs[c] \subseteq Comps
BY DEF ProblemsAssumption, TypeOK, Comps

LEMMA InitCInv == RInit => CInv
<1> SUFFICES ASSUME RInit PROVE CInv
  OBVIOUS
<1> USE DEF RInit, Init, NoWork
<1>0. TypeOK BY DEF TypeOK
<1>1. Working BY DEF Working
<1>2. HistoryOK BY DEF HistoryOK
<1>3. RoundInv BY DEF RoundInv, Settled
<1>4. QED BY <1>0, <1>1, <1>2, <1>3 DEF CInv

LEMMA NewProblemCInv ==
  ASSUME CInv, NewProblem, Restarted
  PROVE  CInv'
<1> USE DEF NewProblem, Restarted, NoWork
<1>0. TypeOK' BY DEF TypeOK, Comps
<1>1. Working' BY DEF Working, Comps
<1>2. HistoryOK' BY DEF HistoryOK
<1>3. RoundInv' BY DEF RoundInv, Settled
<1>4. QED BY <1>0, <1>1, <1>2, <1>3 DEF CInv

\* Work begun on a component of the front knows its other operands to be final.
LEMMA BeginCInv ==
  ASSUME ProblemsAssumption, CInv, NEW t \in Threads, NEW c \in Comps,
         Begin(t, c), Began(t)
  PROVE  CInv'
<1> USE DEF CInv
<1>1. /\ doing[t] = {}
      /\ doing' = [doing EXCEPT ![t] = {c}]
      /\ unread' = [unread EXCEPT ![t] = needs[c]]
      /\ good' = [good EXCEPT ![t] = c \in sound]
      /\ UNCHANGED <<needs, sound, final, front, fresh>>
      /\ ontime' = ontime \cup {t}
  BY DEF Begin, Began
<1>2. needs[c] \subseteq Comps BY NeedsType
<1>3. (c \in sound) \in BOOLEAN OBVIOUS
<1>4. TypeOK' BY <1>1, <1>2, <1>3 DEF TypeOK, Comps
<1>5. Comps' = Comps /\ Solvable(front)' = Solvable(front)
  BY <1>1 DEF Comps, Solvable
<1>6. /\ doing'[t] = {c} /\ unread'[t] = needs[c] /\ good'[t] = (c \in sound)
      /\ \A u \in Threads : u # t =>
           doing'[u] = doing[u] /\ unread'[u] = unread[u] /\ good'[u] = good[u]
  BY <1>1 DEF TypeOK
<1>7. Working' BY <1>1, <1>5, <1>6 DEF Working
<1>8. HistoryOK' BY <1>1, <1>5 DEF HistoryOK
<1>9. \A d \in Solvable(front) : d \in sound
  BY DEF Solvable
<1>10. Settled(front)' BY <1>1, <1>6, <1>9 DEF Settled, RoundInv
<1>11. \A u \in ontime' : doing'[u] \cap Solvable(front)' # {} => good'[u]
  BY <1>1, <1>5, <1>6, <1>9 DEF RoundInv, HistoryOK
<1>12. RoundInv' BY <1>1, <1>5, <1>10, <1>11 DEF RoundInv
<1>13. QED BY <1>4, <1>7, <1>8, <1>12

\* What is read for a component that the front suffices for is final.
LEMMA ReadCInv ==
  ASSUME CInv, NEW t \in Threads, NEW d \in Comps, Read(t, d), UNCHANGED history
  PROVE  CInv'
<1> USE DEF CInv
<1>1. /\ d \in unread[t]
      /\ unread' = [unread EXCEPT ![t] = @ \ {d}]
      /\ good' = [good EXCEPT ![t] = @ /\ d \in final]
      /\ UNCHANGED <<needs, sound, final, doing, front, fresh, ontime>>
  BY DEF Read, history
<1>2. (good[t] /\ d \in final) \in BOOLEAN BY DEF TypeOK
<1>3. TypeOK' BY <1>1, <1>2 DEF TypeOK, Comps
<1>4. Comps' = Comps /\ Solvable(front)' = Solvable(front)
  BY <1>1 DEF Comps, Solvable
<1>5. /\ unread'[t] = unread[t] \ {d} /\ good'[t] = (good[t] /\ d \in final)
      /\ \A u \in Threads : u # t => unread'[u] = unread[u] /\ good'[u] = good[u]
  BY <1>1 DEF TypeOK
<1>6. PICK c \in Comps : doing[t] = {c} /\ unread[t] \subseteq needs[c]
  BY <1>1 DEF Working
<1>7. Working' BY <1>1, <1>4, <1>5, <1>6 DEF Working
<1>8. HistoryOK' BY <1>1, <1>4 DEF HistoryOK
<1>9. c \in Solvable(front) => d \in final
  BY <1>1, <1>6 DEF Solvable, RoundInv, Settled
<1>10. front \subseteq Solvable(front) BY DEF RoundInv
<1>11. \A u \in Threads : doing[u] \cap front # {} => good'[u]
  BY <1>5, <1>6, <1>9, <1>10 DEF RoundInv, Settled
<1>12. \A u \in ontime : doing[u] \cap Solvable(front) # {} => good'[u]
  BY <1>5, <1>6, <1>9 DEF RoundInv, HistoryOK
<1>13. RoundInv'
  BY <1>1, <1>4, <1>11, <1>12 DEF RoundInv, Settled
<1>14. QED BY <1>3, <1>7, <1>8, <1>13

\* A store of t cannot take a component of the front back, and the fresh
\* components that the front suffices for are final after it.
LEMMA StoreFinal ==
  ASSUME CInv, NEW t \in Threads, Store(t)
  PROVE  /\ front \subseteq final'
         /\ FreshAfter(t) \cap Solvable(front) \subseteq final'
<1> USE DEF CInv
<1>1. PICK c \in Comps : doing[t] = {c}
  BY DEF Store, Working
<1>2. final' = IF good[t] THEN final \cup {c} ELSE final \ {c}
  BY <1>1 DEF Store
<1>3. c \in front => good[t]
  BY <1>1 DEF RoundInv, Settled
<1>4. front \subseteq final'
  BY <1>2, <1>3 DEF RoundInv, Settled
<1>5. ASSUME NEW x \in FreshAfter(t), x \in Solvable(front)
      PROVE  x \in final'
  <2>1. CASE x = c
    <3>1. t \in ontime BY <1>1, <1>5, <2>1 DEF FreshAfter
    <3>2. good[t] BY <1>1, <1>5, <2>1, <3>1 DEF RoundInv
    <3>3. QED BY <1>2, <2>1, <3>2
  <2>2. CASE x # c
    <3>1. x \in fresh BY <1>1, <1>5, <2>2 DEF FreshAfter
    <3>2. x \in final BY <1>5, <3>1 DEF RoundInv
    <3>3. QED BY <1>2, <2>2, <3>2
  <2>3. QED BY <2>1, <2>2
<1>6. QED BY <1>4, <1>5

LEMMA StoreCInv ==
  ASSUME CInv, NEW t \in Threads, Store(t), Stored(t)
  PROVE  CInv'
<1> USE DEF CInv
<1>1. /\ doing' = [doing EXCEPT ![t] = {}]
      /\ good' = [good EXCEPT ![t] = FALSE]
      /\ unread[t] = {}
      /\ UNCHANGED <<needs, sound, unread>>
  BY DEF Store
<1>2. final' \subseteq Comps
  BY DEF Store, TypeOK
<1>3. TypeOK' BY <1>1, <1>2 DEF TypeOK, Comps
<1>4. Comps' = Comps /\ \A F : Solvable(F)' = Solvable(F)
  BY <1>1 DEF Comps, Solvable
<1>5. /\ doing'[t] = {}
      /\ \A u \in Threads : u # t => doing'[u] = doing[u] /\ good'[u] = good[u]
  BY <1>1 DEF TypeOK
<1>6. Working' BY <1>1, <1>4, <1>5 DEF Working
<1>7. /\ front \subseteq final'
      /\ FreshAfter(t) \cap Solvable(front) \subseteq final'
  BY StoreFinal
<1>8. front \subseteq Solvable(front) /\ Solvable(front) \subseteq sound \cap Comps
  BY DEF RoundInv, Solvable
<1>9. CASE RoundEnds(t)
  <2>1. /\ FreshAfter(t) = Comps
        /\ \A u \in Threads \ {t} : doing[u] # {} => u \in ontime
        /\ front' = Solvable(front) /\ fresh' = {} /\ ontime' = {}
    BY <1>9 DEF RoundEnds, RoundComplete
  <2>2. HistoryOK' BY <1>4, <1>8, <2>1 DEF HistoryOK
  <2>3. Solvable(front)' = Solvable(front')
    BY <1>1 DEF Solvable, Comps
  <2>4. front' \subseteq Solvable(front)'
    BY <1>8, <2>1, <2>3 DEF Solvable
  <2>5. \A u \in Threads : doing'[u] \cap front' # {} => good'[u]
    BY <1>5, <2>1 DEF RoundInv
  <2>6. front' \subseteq final' \cap sound'
    BY <1>1, <1>7, <1>8, <2>1
  <2>7. RoundInv' BY <2>1, <2>4, <2>5, <2>6 DEF RoundInv, Settled
  <2>8. QED BY <1>3, <1>6, <2>2, <2>7
<1>10. CASE RoundGoesOn(t)
  <2>1. front' = front /\ fresh' = FreshAfter(t) /\ ontime' = ontime \ {t}
    BY <1>10 DEF RoundGoesOn
  <2>2. FreshAfter(t) \subseteq Comps
    BY DEF FreshAfter, HistoryOK, TypeOK
  <2>3. HistoryOK' BY <1>4, <2>1, <2>2 DEF HistoryOK
  <2>4. Solvable(front)' = Solvable(front)
    BY <1>1, <2>1 DEF Solvable, Comps
  <2>5. \A u \in Threads : doing'[u] \cap front' # {} => good'[u]
    BY <1>5, <2>1 DEF RoundInv, Settled
  <2>6. \A u \in ontime' : doing'[u] \cap Solvable(front)' # {} => good'[u]
    BY <1>5, <2>1, <2>4 DEF RoundInv, HistoryOK
  <2>7. front' \subseteq final' \cap sound'
    BY <1>1, <1>7, <1>8, <2>1
  <2>8. fresh' \cap Solvable(front)' \subseteq final'
    BY <1>7, <2>1, <2>4
  <2>9. RoundInv' BY <1>8, <2>1, <2>4, <2>5, <2>6, <2>7, <2>8 DEF RoundInv, Settled
  <2>10. QED BY <1>3, <1>6, <2>3, <2>9
<1>11. QED BY <1>9, <1>10 DEF Stored

LEMMA NextCInv ==
  ASSUME ProblemsAssumption, CInv, [RNext]_rvars
  PROVE  CInv'
<1>1. CASE NewProblem /\ Restarted
  BY <1>1, NewProblemCInv
<1>2. ASSUME NEW t \in Threads, NEW c \in Comps, Begin(t, c) /\ Began(t) PROVE CInv'
  BY <1>2, BeginCInv
<1>3. ASSUME NEW t \in Threads, NEW c \in Comps, Read(t, c) /\ UNCHANGED history PROVE CInv'
  BY <1>3, ReadCInv
<1>4. ASSUME NEW t \in Threads, Store(t) /\ Stored(t) PROVE CInv'
  BY <1>4, StoreCInv
<1>5. CASE UNCHANGED rvars
  BY <1>5 DEF rvars, cvars, history, CInv, TypeOK, Working, HistoryOK, RoundInv,
              Settled, Solvable, Comps
<1>6. QED BY <1>1, <1>2, <1>3, <1>4, <1>5 DEF RNext

(***************************************************************************)
(* Whatever the threads do, the components that the complete rounds must   *)
(* have made final are final, and no thread can take them back.            *)
(***************************************************************************)
THEOREM Convergence == ASSUME ProblemsAssumption PROVE RSpec => []Converges
<1>1. RInit => CInv BY InitCInv
<1>2. CInv /\ [RNext]_rvars => CInv' BY NextCInv
<1>3. CInv => Converges BY DEF CInv, RoundInv, Converges
<1>4. QED BY <1>1, <1>2, <1>3, PTL DEF RSpec
-----------------------------------------------------------------------------
\* A set of components that holds every one it suffices for holds them all.
LEMMA SolvableGrows ==
  ASSUME ProblemsAssumption, TypeOK, sound = Comps,
         NEW F \in SUBSET Comps, Solvable(F) \subseteq F
  PROVE  F = Comps
<1> SUFFICES ASSUME F # Comps PROVE FALSE
  OBVIOUS
<1>1. PICK c \in Comps \ F : needs[c] \cap (Comps \ F) = {}
  BY DEF ProblemsAssumption, TypeOK, Comps
<1>2. needs[c] \subseteq F
  BY <1>1, NeedsType
<1>3. QED BY <1>1, <1>2 DEF Solvable

(***************************************************************************)
(* Every round keeps what is final and adds one component, until it has    *)
(* them all.                                                               *)
(***************************************************************************)
THEOREM EveryRoundAdvances == ASSUME ProblemsAssumption PROVE RSpec => RoundsAdvance
<1>1. RInit => CInv BY InitCInv
<1>2. CInv /\ [RNext]_rvars => CInv' BY NextCInv
<1>3. ASSUME CInv, NEW t \in Threads, RoundEnds(t)
      PROVE  /\ front \subseteq front'
             /\ sound = Comps /\ front # Comps => front' # front
  BY <1>3, SolvableGrows DEF CInv, RoundInv, RoundEnds, HistoryOK
<1>4. CInv /\ [RNext]_rvars =>
        [\A t \in Threads : RoundEnds(t) /\ Store(t) =>
           /\ front \subseteq front'
           /\ sound = Comps /\ front # Comps => front' # front]_rvars
  BY <1>3
<1>5. QED BY <1>1, <1>2, <1>4, PTL DEF RSpec, RoundsAdvance
-----------------------------------------------------------------------------
(***************************************************************************)
(* What the implementations need: the counter of an iteration that runs    *)
(* through the rows again and again, and least rows.                       *)
(***************************************************************************)
\* Division with remainder, for the iteration counters.
LEMMA DivMod ==
  ASSUME NEW k \in Nat, NEW n \in Nat \ {0}
  PROVE  /\ k % n \in 0 .. n-1
         /\ k \div n \in Nat
         /\ k = n * (k \div n) + (k % n)
<1>1. k = n * (k \div n) + (k % n)
  <2>1. k \in Int /\ n \in Int /\ n > 0
    OBVIOUS
  <2>2. QED BY <2>1, SMTT(30)
<1>2. QED BY <1>1

LEMMA MulMonotone == \A a, b, c \in Nat : a <= b => a * c <= b * c
  OBVIOUS

\* A number is divided with remainder in one way only.
LEMMA ModUnique ==
  ASSUME NEW n \in Nat \ {0}, NEW q \in Nat, NEW r \in 0 .. n-1
  PROVE  (n * q + r) % n = r
<1> DEFINE k == n * q + r
           p == k \div n
           s == k % n
<1>1. k \in Nat OBVIOUS
<1>2. p \in Nat /\ s \in 0 .. n-1 /\ k = n * p + s
  BY <1>1, DivMod
<1> HIDE DEF p, s
<1>3. n * q \in Nat /\ n * p \in Nat /\ n * q + r = n * p + s
  BY <1>2
<1>4. ~(p < q)
  <2> SUFFICES ASSUME p < q PROVE FALSE OBVIOUS
  <2>1. (p + 1) * n <= q * n BY <1>2, MulMonotone
  <2>2. (p + 1) * n = n * p + n /\ q * n = n * q BY <1>2
  <2>3. QED BY <1>2, <1>3, <2>1, <2>2
<1>5. ~(q < p)
  <2> SUFFICES ASSUME q < p PROVE FALSE OBVIOUS
  <2>1. (q + 1) * n <= p * n BY <1>2, MulMonotone
  <2>2. (q + 1) * n = n * q + n /\ p * n = n * p BY <1>2
  <2>3. QED BY <1>2, <1>3, <2>1, <2>2
<1>6. p = q BY <1>2, <1>4, <1>5
<1>7. s = r BY <1>2, <1>3, <1>6
<1>8. QED BY <1>7 DEF s

\* In the first sweep the row is the iteration.
LEMMA ModSmall ==
  ASSUME NEW n \in Nat \ {0}, NEW k \in 0 .. n-1
  PROVE  k % n = k
<1>1. (n * 0 + k) % n = k BY ModUnique
<1>2. QED BY <1>1

\* The next iteration is on the next row, or on the first one.
LEMMA ModNext ==
  ASSUME NEW n \in Nat \ {0}, NEW k \in Nat
  PROVE  (k + 1) % n = 0 \/ (k + 1) % n = (k % n) + 1
<1> DEFINE q == k \div n
           r == k % n
<1>1. q \in Nat /\ r \in 0 .. n-1 /\ k = n * q + r
  BY DivMod
<1> HIDE DEF q, r
<1>2. CASE r = n - 1
  <2>1. (n * (q + 1) + 0) % n = 0 BY <1>1, ModUnique
  <2>2. n * (q + 1) + 0 = n * q + n BY <1>1
  <2>3. k + 1 = n * q + n BY <1>1, <1>2
  <2>4. QED BY <2>1, <2>2, <2>3
<1>3. CASE r # n - 1
  <2>1. (n * q + (r + 1)) % n = r + 1 BY <1>1, <1>3, ModUnique
  <2>2. n * q + (r + 1) = k + 1 BY <1>1
  <2>3. QED BY <2>1, <2>2 DEF r
<1>4. QED BY <1>2, <1>3

\* A sweep that is filled up is followed by the first row of the next one.
LEMMA ModFill ==
  ASSUME NEW n \in Nat \ {0}, NEW k \in Nat
  PROVE  (k + (n - (k % n))) % n = 0
<1> DEFINE q == k \div n
           r == k % n
<1>1. q \in Nat /\ r \in 0 .. n-1 /\ k = n * q + r
  BY DivMod
<1> HIDE DEF q, r
<1>2. (n * (q + 1) + 0) % n = 0 BY <1>1, ModUnique
<1>3. n * (q + 1) + 0 = n * q + n BY <1>1
<1>4. k + (n - r) = n * q + n BY <1>1
<1>5. QED BY <1>2, <1>3, <1>4 DEF r

\* The last iteration of all is on the last row.
LEMMA ModLast ==
  ASSUME NEW n \in Nat \ {0}, NEW s \in Nat \ {0}
  PROVE  (s * n - 1) % n = n - 1 /\ n <= s * n
<1>1. (n * (s - 1) + (n - 1)) % n = n - 1 BY ModUnique
<1>2. n * (s - 1) + (n - 1) = s * n - 1 OBVIOUS
<1>3. 1 * n <= s * n BY MulMonotone
<1>4. QED BY <1>1, <1>2, <1>3

\* The rest of a sweep still fits when the sweep has begun.
LEMMA SweepFits ==
  ASSUME NEW s \in Nat, NEW n \in Nat \ {0}, NEW k \in Nat, k < s * n
  PROVE  k + (n - (k % n)) <= s * n
<1> DEFINE q == k \div n
<1>1. q \in Nat /\ k = n * q + (k % n) /\ k % n \in 0 .. n-1
  BY DivMod
<1> HIDE DEF q
<1>2. n * q = q * n /\ q * n \in Nat /\ s * n \in Nat
  BY <1>1
<1>3. q < s
  <2> SUFFICES ASSUME s <= q PROVE FALSE
    BY <1>1
  <2>1. s * n <= q * n
    BY <1>1, MulMonotone
  <2>2. q * n <= k
    BY <1>1, <1>2
  <2>3. s * n <= k
    BY <1>2, <2>1, <2>2
  <2>4. QED BY <1>2, <2>3
<1>4. (q + 1) * n <= s * n
  BY <1>1, <1>3, MulMonotone
<1>5. (q + 1) * n = q * n + n
  BY <1>1
<1>6. QED BY <1>1, <1>2, <1>4, <1>5

\* A set of numbers has a least one.
LEMMA LeastNumber ==
  ASSUME NEW S \in SUBSET Nat, S # {}
  PROVE  \E n \in S : \A k \in S : n <= k
<1> DEFINE R == {ss \in Nat \X Nat : ss[1] < ss[2]}
<1>1. OpToRel(<, Nat) = R BY Zenon DEF OpToRel
<1>2. IsWellFoundedOn(R, Nat) BY <1>1, NatLessThanWellFounded
<1>3. PICK n \in S : \A k \in S : ~(<<k, n>> \in R)
  <2> HIDE DEF R
  <2>1. QED BY <1>2, WFMin, Zenon
<1>4. ASSUME NEW k \in S PROVE n <= k
  <2>1. k \in Nat /\ n \in Nat OBVIOUS
  <2>2. <<k, n>> \in R <=> k < n BY <2>1
  <2>3. ~(k < n) BY <1>3, <2>2
  <2>4. QED BY <2>1, <2>3
<1>5. QED BY <1>4
=============================================================================
