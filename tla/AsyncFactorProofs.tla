-------------------------- MODULE AsyncFactorProofs --------------------------
(***************************************************************************)
(* Asynchronous factorization, for any numbers of rows, threads and        *)
(* sweeps, any chunk size, pattern and option: type correctness, what      *)
(* every finished factorization has right, when it is exact, and that it   *)
(* is a chaotic iteration and converges as such.                           *)
(***************************************************************************)
EXTENDS FactorRounds, Integers, TLAPS

\* The chaotic iteration that the sweeps are, with the theorems about it.
P ==
  INSTANCE ChaoticIterationProofs WITH
    Problems <- {NeedsOf(m) : m \in Matrices},
    needs <- NeedsOf(mat),
    sound <- Entries(mat),
    final <- {e \in Entries(mat) : lu[e] = "exact"},
    doing <- [t \in Threads |-> IF busy[t] THEN {<<Row(t), col[t]>>} ELSE {}]
-----------------------------------------------------------------------------

LEMMA TotalType == Total \in Nat
  BY NAssumption, SizesAssumption DEF Total

LEMMA ChunkType == TypeOK => Chunk \in Nat \ {0}
  BY OptionsAssumption DEF TypeOK, Chunk

LEMMA RowsType == Rows \subseteq Nat
  BY DEF Rows

LEMMA PatternType ==
  ASSUME NEW m \in Matrices
  PROVE  m \in [Rows -> SUBSET Rows] /\ \A i \in Rows : i \in m[i]
  BY MatricesAssumption DEF Patterns

\* The iteration of a sweep works on a row.
LEMMA IterationRow ==
  ASSUME NEW k \in Nat, k < Total
  PROVE  k % N \in Rows /\ N \in Nat \ {0}
<1>1. N \in Nat \ {0}
  BY NAssumption, SizesAssumption DEF Total
<1>2. QED BY <1>1, P!DivMod DEF Rows

\* Entries are pairs of a row and a column.
LEMMA EntryType ==
  ASSUME NEW m \in Matrices, NEW e \in Entries(m)
  PROVE  /\ e = <<e[1], e[2]>> /\ e[1] \in Rows /\ e[2] \in Rows
         /\ e[2] \in m[e[1]]
  BY PatternType DEF Entries

LEMMA EntryOf ==
  ASSUME NEW m \in Matrices, NEW i \in Rows, NEW j \in m[i]
  PROVE  <<i, j>> \in Entries(m) /\ j \in Rows
  BY PatternType DEF Entries

\* The operands of an entry are entries, of rows before it or before it in its row.
LEMMA OperandsType ==
  ASSUME NEW m \in Matrices, NEW e \in Entries(m), NEW d \in Operands(m, e)
  PROVE  /\ d \in Entries(m)
         /\ d[1] < e[1] \/ (d[1] = e[1] /\ d[2] < e[2])
<1>1. e[1] \in Rows /\ e[2] \in Rows /\ e[2] \in m[e[1]]
  BY EntryType
<1>2. ASSUME NEW k \in Products(m, e[1], e[2])
      PROVE  k \in Rows /\ k \in m[e[1]] /\ k < e[1] /\ k < e[2] /\ e[2] \in m[k]
  BY <1>1, <1>2, PatternType DEF Products
<1>3. CASE \E k \in Products(m, e[1], e[2]) : d = <<e[1], k>>
  BY <1>1, <1>2, <1>3, EntryOf
<1>4. CASE \E k \in Products(m, e[1], e[2]) : d = <<k, e[2]>>
  BY <1>1, <1>2, <1>4, EntryOf
<1>5. CASE e[2] < e[1] /\ d = <<e[2], e[2]>>
  BY <1>1, <1>5, EntryOf, PatternType
<1>6. QED BY <1>3, <1>4, <1>5 DEF Operands
-----------------------------------------------------------------------------
(***************************************************************************)
(* The work in flight: claims are of iterations handed out, a thread has   *)
(* entries of its row to store, computes the first of them, and reads what *)
(* that needs.  Outside the sweeps no thread has any.                      *)
(***************************************************************************)
Sane(t) ==
  /\ job[t].at <= job[t].end
  /\ job[t].end <= claimed
  /\ ~Idle(t) => /\ pc = "sweep"
                 /\ left[t] # {}
                 /\ left[t] \subseteq mat[Row(t)]
  /\ busy[t] => /\ ~Idle(t)
                /\ col[t] \in left[t]
                /\ \A k \in left[t] : col[t] <= k
                /\ unread[t] \subseteq Operands(mat, <<Row(t), col[t]>>)
  /\ ~busy[t] => unread[t] = {} /\ ~good[t]

FInv == TypeOK /\ \A t \in Threads : Sane(t)

LEMMA JobType ==
  ASSUME TypeOK, NEW t \in Threads
  PROVE  /\ job[t].at \in Nat /\ job[t].end \in Nat /\ claimed \in Nat
         /\ job[t].end <= Total /\ claimed <= Total
<1>1. job[t] \in [at : 0 .. Total, end : 0 .. Total] /\ claimed \in 0 .. Total
  BY DEF TypeOK
<1>2. QED BY <1>1, TotalType

\* A thread with work is at an iteration of its claim, on a row.
LEMMA WorkingRow ==
  ASSUME FInv, NEW t \in Threads, ~Idle(t)
  PROVE  /\ job[t].at \in Nat /\ job[t].end \in Nat
         /\ job[t].at < job[t].end /\ job[t].end <= claimed
         /\ job[t].at < Total
         /\ Row(t) \in Rows /\ N \in Nat \ {0}
         /\ pc = "sweep"
<1>1. /\ job[t].at \in Nat /\ job[t].end \in Nat /\ claimed \in Nat
      /\ job[t].end <= Total
  BY JobType DEF FInv
<1>2. job[t].at < job[t].end /\ job[t].end <= claimed /\ pc = "sweep"
  <2>1. Sane(t) /\ job[t].at # job[t].end BY DEF FInv, Idle
  <2>2. QED BY <1>1, <2>1 DEF Sane
<1>3. job[t].at < Total
  BY <1>1, <1>2, TotalType
<1>4. QED BY <1>1, <1>2, <1>3, IterationRow DEF Row

LEMMA InitFInv == Init => FInv
<1> SUFFICES ASSUME Init PROVE FInv
  OBVIOUS
<1>0. /\ [e \in Entries(mat) |-> "other"] \in [Entries(mat) -> Values]
      /\ [t \in Threads |-> NoJob] \in [Threads -> [at : 0 .. Total, end : 0 .. Total]]
      /\ [t \in Threads |-> 0] \in [Threads -> Nat]
  BY TotalType DEF Values, NoJob
<1>1. TypeOK
  BY <1>0, TotalType DEF Init, TypeOK
<1>2. \A t \in Threads : Sane(t)
  BY DEF Init, NoJob, Sane, Idle
<1>3. QED BY <1>1, <1>2 DEF FInv

LEMMA ClaimFInv ==
  ASSUME FInv, NEW t \in Threads, Claim(t)
  PROVE  FInv'
<1> DEFINE rest == N - (claimed % N)
           size == IF Chunk < rest THEN Chunk ELSE rest
<1>1. /\ job' = [job EXCEPT ![t] = [at |-> claimed, end |-> claimed + size]]
      /\ left' = [left EXCEPT ![t] = mat[claimed % N]]
      /\ claimed' = claimed + size
      /\ UNCHANGED <<opt, mat, pc, lu, col, busy, unread, good>>
      /\ Idle(t) /\ pc = "sweep" /\ claimed < Total
  BY DEF Claim
<1>2. claimed \in Nat /\ N \in Nat \ {0} /\ Chunk \in Nat \ {0} /\ claimed % N \in Rows
  BY <1>1, IterationRow, ChunkType, JobType DEF FInv
<1>3. claimed % N \in 0 .. N-1
  BY <1>2, P!DivMod
<1>4. size \in Nat \ {0} /\ size <= rest
  BY <1>2, <1>3
<1>5. claimed + rest <= Total
  BY <1>1, <1>2, P!SweepFits, SizesAssumption DEF Total
<1>6. mat \in [Rows -> SUBSET Rows] /\ mat[claimed % N] # {} /\ mat[claimed % N] \subseteq Rows
  BY <1>2, PatternType DEF FInv, TypeOK
<1> HIDE DEF size
<1>7. /\ claimed + size \in 0 .. Total /\ claimed < claimed + size
      /\ claimed + size \in Nat
  BY <1>2, <1>3, <1>4, <1>5, TotalType
<1>8. TypeOK'
  BY <1>1, <1>6, <1>7, TotalType DEF FInv, TypeOK
<1>9. /\ job'[t] = [at |-> claimed, end |-> claimed + size]
      /\ left'[t] = mat[claimed % N] /\ ~busy[t]
      /\ \A u \in Threads : u # t => job'[u] = job[u] /\ left'[u] = left[u]
  BY <1>1 DEF FInv, TypeOK, Sane
<1>10. Sane(t)'
  <2>1. job'[t].at = claimed /\ job'[t].end = claimed' /\ Row(t)' = claimed % N
    BY <1>1, <1>9 DEF Row
  <2>2. ~busy'[t] /\ unread'[t] = {} /\ ~good'[t]
    BY <1>1, <1>9 DEF FInv, Sane
  <2>3. claimed <= claimed' /\ claimed' <= claimed'
    BY <1>1, <1>2, <1>7
  <2>4. QED BY <1>1, <1>6, <1>9, <2>1, <2>2, <2>3 DEF Sane
<1>11. ASSUME NEW u \in Threads, u # t PROVE Sane(u)'
  <2>0. Sane(u) BY DEF FInv
  <2>1. job[u].end \in Nat /\ job[u].end <= claimed /\ claimed <= claimed'
    BY <1>1, <1>2, <1>7, <2>0, JobType DEF FInv, Sane
  <2>2. job'[u].end <= claimed'
    BY <1>1, <1>2, <1>7, <1>9, <1>11, <2>1
  <2>3. Row(u)' = Row(u) /\ Idle(u)' = Idle(u)
    BY <1>9, <1>11 DEF Row, Idle
  <2>4. QED BY <1>1, <1>9, <1>11, <2>0, <2>2, <2>3 DEF Sane
<1>12. QED BY <1>8, <1>10, <1>11 DEF FInv

LEMMA BeginFInv ==
  ASSUME FInv, NEW t \in Threads, NEW j \in Rows, Begin(t, j)
  PROVE  FInv'
<1>1. /\ ~Idle(t) /\ j \in left[t] /\ \A k \in left[t] : j <= k
      /\ busy' = [busy EXCEPT ![t] = TRUE]
      /\ col' = [col EXCEPT ![t] = j]
      /\ unread' = [unread EXCEPT ![t] = Operands(mat, <<Row(t), j>>)]
      /\ good' = [good EXCEPT ![t] = TRUE]
      /\ UNCHANGED <<opt, mat, pc, lu, claimed, job, left>>
  BY DEF Begin
<1>2. Row(t) \in Rows /\ mat \in Matrices
  BY <1>1, WorkingRow DEF FInv, TypeOK
<1>3. j \in mat[Row(t)]
  BY <1>1 DEF FInv, Sane
<1>4. Operands(mat, <<Row(t), j>>) \subseteq Entries(mat)
  BY <1>2, <1>3, EntryOf, OperandsType
<1>5. TypeOK'
  <2>1. j \in Nat BY RowsType
  <2>2. col' \in [Threads -> Nat] BY <1>1, <2>1 DEF FInv, TypeOK
  <2>3. unread' \in [Threads -> SUBSET Entries(mat)] BY <1>1, <1>4 DEF FInv, TypeOK
  <2>4. QED BY <1>1, <2>2, <2>3 DEF FInv, TypeOK
<1>6. /\ busy'[t] /\ col'[t] = j /\ good'[t]
      /\ unread'[t] = Operands(mat, <<Row(t), j>>)
      /\ \A u \in Threads : u # t =>
           /\ busy'[u] = busy[u] /\ col'[u] = col[u]
           /\ unread'[u] = unread[u] /\ good'[u] = good[u]
  BY <1>1 DEF FInv, TypeOK
<1>7. Sane(t)'
  <2>1. Sane(t) BY DEF FInv
  <2>2. Row(t)' = Row(t) /\ Idle(t)' = Idle(t) BY <1>1 DEF Row, Idle
  <2>3. QED BY <1>1, <1>6, <2>1, <2>2 DEF Sane
<1>8. \A u \in Threads : u # t => Sane(u)'
  BY <1>1, <1>6 DEF FInv, Sane, Row, Idle
<1>9. QED BY <1>5, <1>7, <1>8 DEF FInv

LEMMA ReadFInv ==
  ASSUME FInv, NEW t \in Threads, NEW e \in Entries(mat), Read(t, e)
  PROVE  FInv'
<1>1. /\ busy[t] /\ e \in unread[t]
      /\ unread' = [unread EXCEPT ![t] = @ \ {e}]
      /\ good' = [good EXCEPT ![t] = @ /\ lu[e] = "exact"]
      /\ UNCHANGED <<opt, mat, pc, lu, claimed, job, left, col, busy>>
  BY DEF Read
<1>2. (good[t] /\ lu[e] = "exact") \in BOOLEAN
  BY DEF FInv, TypeOK
<1>3. TypeOK'
  BY <1>1, <1>2 DEF FInv, TypeOK
<1>4. /\ unread'[t] = unread[t] \ {e}
      /\ \A u \in Threads : u # t => unread'[u] = unread[u] /\ good'[u] = good[u]
  BY <1>1 DEF FInv, TypeOK
<1>5. Sane(t)'
  BY <1>1, <1>4 DEF FInv, Sane, Row, Idle
<1>6. \A u \in Threads : u # t => Sane(u)'
  BY <1>1, <1>4 DEF FInv, Sane, Row, Idle
<1>7. QED BY <1>3, <1>5, <1>6 DEF FInv

\* What a store changes.
LEMMA StoreEffect ==
  ASSUME FInv, NEW t \in Threads, NEW i, NEW j, i = Row(t), j = col[t], Store(t)
  PROVE  /\ i \in Rows /\ j \in left[t] /\ j \in mat[i] /\ <<i, j>> \in Entries(mat)
         /\ \A k \in left[t] : j <= k
         /\ busy[t] /\ unread[t] = {} /\ ~Idle(t)
         /\ lu' = [lu EXCEPT ![<<i, j>>] = IF good[t] THEN "exact" ELSE "other"]
         /\ ~busy'[t] /\ ~good'[t]
         /\ \/ /\ left[t] # {j} /\ left'[t] = left[t] \ {j}
               /\ job'[t] = job[t]
            \/ /\ left[t] = {j}
               /\ left'[t] = IF job[t].at + 1 = job[t].end THEN {}
                             ELSE mat[(job[t].at + 1) % N]
               /\ job'[t].at = job[t].at + 1 /\ job'[t].end = job[t].end
         /\ \A u \in Threads : u # t =>
              job'[u] = job[u] /\ left'[u] = left[u] /\ busy'[u] = busy[u] /\ good'[u] = good[u]
         /\ UNCHANGED <<opt, mat, pc, claimed, col, unread>>
<1>1. Sane(t) /\ busy[t] /\ unread[t] = {}
  BY DEF FInv, Store
<1>2. /\ ~Idle(t) /\ j \in left[t] /\ j \in mat[i] /\ \A k \in left[t] : j <= k
  BY <1>1 DEF Sane
<1>3. i \in Rows /\ mat \in Matrices
  BY <1>2, WorkingRow DEF FInv, TypeOK
<1>4. <<i, j>> \in Entries(mat)
  BY <1>2, <1>3, EntryOf
<1>5. /\ lu' = [lu EXCEPT ![<<i, j>>] = IF good[t] THEN "exact" ELSE "other"]
      /\ busy' = [busy EXCEPT ![t] = FALSE]
      /\ good' = [good EXCEPT ![t] = FALSE]
      /\ UNCHANGED <<opt, mat, pc, claimed, col, unread>>
  BY DEF Store
<1>6. /\ ~busy'[t] /\ ~good'[t]
      /\ \A u \in Threads : u # t => busy'[u] = busy[u] /\ good'[u] = good[u]
  BY <1>5 DEF FInv, TypeOK
<1>7. CASE left[t] \ {j} # {}
  <2>1. left' = [left EXCEPT ![t] = left[t] \ {j}] /\ job' = job
    BY <1>7 DEF Store, Advance
  <2>2. /\ left'[t] = left[t] \ {j}
        /\ \A u \in Threads : u # t => left'[u] = left[u]
    BY <2>1 DEF FInv, TypeOK
  <2>3. QED BY <1>1, <1>2, <1>3, <1>4, <1>5, <1>6, <1>7, <2>1, <2>2
<1>8. CASE left[t] \ {j} = {}
  <2>1. /\ job' = [job EXCEPT ![t].at = job[t].at + 1]
        /\ left' = [left EXCEPT ![t] = IF job[t].at + 1 = job[t].end THEN {}
                                       ELSE mat[(job[t].at + 1) % N]]
    BY <1>8 DEF Store, Advance
  <2>2. /\ left'[t] = IF job[t].at + 1 = job[t].end THEN {}
                      ELSE mat[(job[t].at + 1) % N]
        /\ job'[t].at = job[t].at + 1 /\ job'[t].end = job[t].end
        /\ \A u \in Threads : u # t => left'[u] = left[u] /\ job'[u] = job[u]
    BY <2>1 DEF FInv, TypeOK
  <2>3. left[t] = {j} BY <1>2, <1>8
  <2>4. QED BY <1>1, <1>2, <1>3, <1>4, <1>5, <1>6, <2>2, <2>3
<1>9. QED BY <1>7, <1>8

LEMMA StoreFInv ==
  ASSUME FInv, NEW t \in Threads, Store(t)
  PROVE  FInv'
<1> PICK i, j : i = Row(t) /\ j = col[t]
  OBVIOUS
<1> DEFINE next == job[t].at + 1
<1>1. /\ i \in Rows /\ j \in left[t] /\ <<i, j>> \in Entries(mat)
      /\ unread[t] = {} /\ ~Idle(t)
      /\ lu' = [lu EXCEPT ![<<i, j>>] = IF good[t] THEN "exact" ELSE "other"]
      /\ ~busy'[t] /\ ~good'[t]
      /\ \/ /\ left[t] # {j} /\ left'[t] = left[t] \ {j}
            /\ job'[t] = job[t]
         \/ /\ left[t] = {j}
            /\ left'[t] = IF next = job[t].end THEN {} ELSE mat[next % N]
            /\ job'[t].at = next /\ job'[t].end = job[t].end
      /\ \A u \in Threads : u # t =>
           job'[u] = job[u] /\ left'[u] = left[u] /\ busy'[u] = busy[u] /\ good'[u] = good[u]
      /\ UNCHANGED <<opt, mat, pc, claimed, col, unread>>
  BY StoreEffect
<1>2. /\ job[t].at \in Nat /\ job[t].end \in Nat
      /\ job[t].at < job[t].end /\ job[t].end <= claimed /\ claimed <= Total
      /\ claimed \in Nat /\ pc = "sweep"
  BY <1>1, WorkingRow, JobType DEF FInv
<1>3. next \in 0 .. Total /\ next \in Nat /\ next <= job[t].end
  BY <1>2, TotalType
<1>4. next # job[t].end =>
        /\ next % N \in Rows /\ mat[next % N] # {} /\ mat[next % N] \subseteq Rows
  <2>1. next # job[t].end => next < Total
    BY <1>2, <1>3, TotalType
  <2>2. QED BY <1>3, <2>1, IterationRow, PatternType DEF FInv, TypeOK
<1>5. Sane(t) /\ \A u \in Threads : Sane(u)
  BY DEF FInv
<1>6. TypeOK'
  <2>1. lu' \in [Entries(mat) -> Values]
    BY <1>1 DEF FInv, TypeOK, Values
  <2>2. job' \in [Threads -> [at : 0 .. Total, end : 0 .. Total]]
    <3>1. job' \in {job, [job EXCEPT ![t].at = next]}
      BY DEF Store, Advance
    <3>2. QED BY <1>3, <3>1 DEF FInv, TypeOK
  <2>3. left' \in [Threads -> SUBSET Rows]
    <3>1. left' = [left EXCEPT ![t] = left[t] \ {j}] \/
          left' = [left EXCEPT ![t] = IF next = job[t].end THEN {} ELSE mat[next % N]]
      BY DEF Store, Advance
    <3>2. left[t] \ {j} \subseteq Rows /\
          (IF next = job[t].end THEN {} ELSE mat[next % N]) \subseteq Rows
      BY <1>4 DEF FInv, TypeOK
    <3> HIDE DEF next
    <3>3. QED BY <3>1, <3>2 DEF FInv, TypeOK
  <2>4. busy' \in [Threads -> BOOLEAN] /\ good' \in [Threads -> BOOLEAN]
    BY DEF Store, FInv, TypeOK
  <2>5. QED BY <1>1, <2>1, <2>2, <2>3, <2>4 DEF FInv, TypeOK
<1> HIDE DEF next
<1>7. Sane(t)'
  <2>1. CASE left[t] # {j} /\ left'[t] = left[t] \ {j} /\ job'[t] = job[t]
    <3>1. Row(t)' = Row(t) /\ ~Idle(t)' BY <1>1, <2>1 DEF Row, Idle
    <3>2. left[t] \ {j} # {} BY <1>1, <2>1
    <3>3. QED BY <1>1, <1>5, <2>1, <3>1, <3>2 DEF Sane
  <2>2. CASE /\ left'[t] = IF next = job[t].end THEN {} ELSE mat[next % N]
             /\ job'[t].at = next /\ job'[t].end = job[t].end
    <3>1. Row(t)' = next % N /\ (Idle(t)' <=> next = job[t].end)
      BY <1>1, <2>2 DEF Row, Idle
    <3>2. QED BY <1>1, <1>2, <1>3, <1>4, <2>2, <3>1 DEF Sane
  <2>3. QED BY <1>1, <2>1, <2>2
<1>8. ASSUME NEW u \in Threads, u # t PROVE Sane(u)'
  <2>1. Row(u)' = Row(u) /\ Idle(u)' = Idle(u)
    BY <1>1, <1>8 DEF Row, Idle
  <2>2. QED BY <1>1, <1>5, <1>8, <2>1 DEF Sane
<1>9. QED BY <1>6, <1>7, <1>8 DEF FInv

\* What the calling thread does alone: nobody is at work before or after it.
LEMMA SequentialFInv ==
  ASSUME FInv, Sequential
  PROVE  FInv' /\ \A t \in Threads : ~busy[t] /\ Idle(t) /\ ~busy'[t] /\ Idle(t)'
<1>1. \A t \in Threads : Sane(t)
  BY DEF FInv
<1>2. \A t \in Threads : Idle(t)
  BY <1>1 DEF Sequential, SetupStorage, ComputeAgain, ComputeNew, InitFactors,
             EndSweeps, InvertDiagonal, RegionDone, Sane
<1>3. \A t \in Threads : ~busy[t]
  BY <1>1, <1>2 DEF Sane
<1>4. /\ UNCHANGED <<opt, mat, left, col, busy, unread, good>>
      /\ pc' \in {"init", "sweep", "invert", "ready"}
  BY DEF Sequential, SetupStorage, ComputeAgain, ComputeNew, InitFactors,
         EndSweeps, InvertDiagonal, team
<1>5. /\ claimed' \in {claimed, 0}
      /\ \/ claimed' = claimed /\ job' = job
         \/ claimed' = 0 /\ job' = [t \in Threads |-> NoJob]
  BY DEF Sequential, SetupStorage, ComputeAgain, ComputeNew, InitFactors,
         EndSweeps, InvertDiagonal, team
<1>6. lu' \in [Entries(mat) -> Values]
  <2>1. ASSUME NEW e \in Entries(mat) PROVE InitialValue(e) \in Values
    <3>1. opt.init \in {"zero", "original", "sgs", "none"}
      BY OptionsAssumption DEF FInv, TypeOK
    <3>2. lu[e] \in Values BY DEF FInv, TypeOK
    <3>3. CASE InitWith = "none" BY <3>2, <3>3 DEF InitialValue
    <3>4. CASE InitWith = "sgs"
      <4>1. InitialValue(e) \in {"sgs", "other", "original"}
        <5>1. e[1] \in Nat /\ e[2] \in Nat
          BY EntryType, RowsType DEF FInv, TypeOK
        <5>2. e[2] < e[1] \/ e[2] >= e[1] BY <5>1
        <5>3. CASE e[2] < e[1]
          BY <3>4, <5>1, <5>3 DEF InitialValue
        <5>4. CASE e[2] >= e[1]
          BY <3>4, <5>1, <5>4 DEF InitialValue
        <5>5. QED BY <5>2, <5>3, <5>4
      <4>2. QED BY <4>1 DEF Values
    <3>5. CASE InitWith \in {"zero", "original"}
      BY <3>5 DEF InitialValue, Values
    <3>6. QED BY <3>1, <3>3, <3>4, <3>5 DEF InitWith
  <2>2. CASE InitFactors
    BY <2>1, <2>2 DEF InitFactors
  <2>3. CASE SetupStorage
    BY <2>3 DEF SetupStorage, Values
  <2>4. CASE ComputeNew
    BY <2>4 DEF ComputeNew, Values
  <2>5. CASE InvertDiagonal
    <3>1. \A e \in Entries(mat) : lu[e] \in Values BY DEF FInv, TypeOK
    <3>2. QED BY <2>5, <3>1 DEF InvertDiagonal, Values
  <2>6. CASE EndSweeps \/ ComputeAgain
    BY <2>6 DEF EndSweeps, ComputeAgain, FInv, TypeOK
  <2>7. QED BY <2>2, <2>3, <2>4, <2>5, <2>6 DEF Sequential
<1>7. TypeOK'
  <2>1. claimed' \in 0 .. Total
    BY <1>5, TotalType DEF FInv, TypeOK
  <2>2. job' \in [Threads -> [at : 0 .. Total, end : 0 .. Total]]
    BY <1>5, TotalType DEF FInv, TypeOK, NoJob
  <2>3. QED BY <1>4, <1>6, <2>1, <2>2 DEF FInv, TypeOK
<1>8. ASSUME NEW t \in Threads
      PROVE  /\ job'[t].at = job'[t].end /\ job'[t].end <= claimed'
  <2>1. Sane(t) /\ Idle(t) BY <1>1, <1>2
  <2>2. CASE claimed' = claimed /\ job' = job
    BY <2>1, <2>2 DEF Sane, Idle
  <2>3. CASE claimed' = 0 /\ job' = [u \in Threads |-> NoJob]
    <3>1. job'[t] = [at |-> 0, end |-> 0] BY <2>3 DEF NoJob
    <3>2. QED BY <2>3, <3>1
  <2>4. QED BY <1>5, <2>2, <2>3
<1>9. \A t \in Threads : Idle(t)' /\ ~busy'[t]
  BY <1>3, <1>4, <1>8 DEF Idle
<1>10. ASSUME NEW t \in Threads PROVE Sane(t)'
  <2>1. unread'[t] = {} /\ ~good'[t]
    BY <1>1, <1>3, <1>4 DEF Sane
  <2>2. job'[t].at <= job'[t].end
    <3>1. job'[t].at \in Nat /\ job'[t].end \in Nat
      BY <1>7, TotalType DEF TypeOK
    <3>2. QED BY <1>8, <3>1
  <2>3. QED BY <1>8, <1>9, <2>1, <2>2 DEF Sane
<1>11. QED BY <1>2, <1>3, <1>7, <1>9, <1>10 DEF FInv

LEMMA NextFInv ==
  ASSUME FInv, [Next]_vars
  PROVE  FInv'
<1>1. CASE Sequential BY <1>1, SequentialFInv
<1>2. ASSUME NEW t \in Threads, Work(t) PROVE FInv'
  BY <1>2, ClaimFInv, BeginFInv, ReadFInv, StoreFInv DEF Work
<1>3. CASE UNCHANGED vars
  BY <1>3 DEF vars, FInv, TypeOK, Sane, Row, Idle
<1>4. QED BY <1>1, <1>2, <1>3 DEF Next

\* Type correctness.
THEOREM TypeCorrect == Spec => []TypeOK
<1>1. Init => FInv BY InitFInv
<1>2. FInv /\ [Next]_vars => FInv' BY NextFInv
<1>3. FInv => TypeOK BY DEF FInv
<1>4. QED BY <1>1, <1>2, <1>3, PTL DEF Spec
-----------------------------------------------------------------------------
(***************************************************************************)
(* Entries without operands.  Whoever computes one stores its exact value; *)
(* once its row has been handed out it is exact or still to be stored.     *)
(***************************************************************************)
IsRoot(e) == Operands(mat, e) = {}

ToStore(t, e) ==
  /\ job[t].at <= e[1] /\ e[1] < job[t].end
  /\ e[1] = job[t].at => e[2] \in left[t]

RootInv ==
  /\ \A t \in Threads : busy[t] /\ IsRoot(<<Row(t), col[t]>>) => good[t]
  /\ pc = "sweep" => \A e \in Entries(mat) :
       IsRoot(e) /\ e[1] < claimed => lu[e] = "exact" \/ \E t \in Threads : ToStore(t, e)
  /\ pc = "invert" =>
       opt.block /\ \A e \in Entries(mat) : IsRoot(e) => lu[e] = "exact"
  /\ RootsExact

LEMMA ClaimRootInv ==
  ASSUME FInv, RootInv, NEW t \in Threads, Claim(t)
  PROVE  RootInv'
<1> PICK c, size : /\ c = claimed
                   /\ size = IF Chunk < N - (c % N) THEN Chunk ELSE N - (c % N)
  OBVIOUS
<1>1. /\ job' = [job EXCEPT ![t] = [at |-> c, end |-> c + size]]
      /\ left' = [left EXCEPT ![t] = mat[c % N]]
      /\ claimed' = c + size
      /\ UNCHANGED <<opt, mat, pc, lu, col, busy, unread, good>>
      /\ Idle(t) /\ pc = "sweep" /\ claimed < Total
  BY DEF Claim
<1>2. c \in Nat /\ N \in Nat \ {0} /\ Chunk \in Nat \ {0}
  BY <1>1, IterationRow, ChunkType, JobType DEF FInv
<1>3. c % N \in 0 .. N-1 BY <1>2, P!DivMod
<1>4. size \in Nat \ {0} BY <1>2, <1>3
<1>5. /\ job'[t].at = c /\ job'[t].end = c + size /\ left'[t] = mat[c % N] /\ ~busy[t]
      /\ \A u \in Threads : u # t => job'[u] = job[u] /\ left'[u] = left[u]
  BY <1>1 DEF FInv, TypeOK, Sane
<1>6. ASSUME NEW u \in Threads, busy'[u], IsRoot(<<Row(u), col[u]>>)' PROVE good'[u]
  <2>1. u # t /\ busy[u] BY <1>1, <1>5, <1>6
  <2>2. Row(u)' = Row(u) BY <1>5, <2>1 DEF Row
  <2>3. QED BY <1>1, <1>6, <2>1, <2>2 DEF RootInv, IsRoot
<1>7. ASSUME NEW e \in Entries(mat), IsRoot(e), e[1] < claimed'
      PROVE  lu[e] = "exact" \/ \E u \in Threads : ToStore(u, e)'
  <2>1. e[1] \in 0 .. N-1 /\ e[2] \in mat[e[1]]
    BY EntryType DEF Rows, FInv, TypeOK
  <2>2. CASE e[1] < c
    <3>1. SUFFICES ASSUME lu[e] # "exact" PROVE \E u \in Threads : ToStore(u, e)'
      OBVIOUS
    <3>2. PICK u \in Threads : ToStore(u, e)
      BY <1>1, <1>7, <2>2, <3>1 DEF RootInv
    <3>3. u # t
      <4>1. job[t].at = job[t].end /\ job[t].end \in Nat
        BY <1>1, JobType DEF Idle, FInv
      <4>2. QED BY <2>1, <3>2, <4>1 DEF ToStore
    <3>4. ToStore(u, e)' BY <1>5, <3>2, <3>3 DEF ToStore
    <3>5. QED BY <3>4
  <2>3. CASE ~(e[1] < c)
    <3>1. e[1] = c => e[2] \in mat[c % N]
      BY <1>2, <2>1, P!ModSmall
    <3>2. ToStore(t, e)'
      BY <1>1, <1>2, <1>5, <1>7, <2>1, <2>3, <3>1 DEF ToStore
    <3>3. QED BY <3>2
  <2>4. QED BY <2>2, <2>3
<1>8. QED BY <1>1, <1>6, <1>7 DEF RootInv, IsRoot, RootsExact

LEMMA BeginRootInv ==
  ASSUME FInv, RootInv, NEW t \in Threads, NEW j \in Rows, Begin(t, j)
  PROVE  RootInv'
<1>1. /\ good' = [good EXCEPT ![t] = TRUE]
      /\ busy' = [busy EXCEPT ![t] = TRUE]
      /\ col' = [col EXCEPT ![t] = j]
      /\ UNCHANGED <<opt, mat, pc, lu, claimed, job, left>>
      /\ ~Idle(t)
  BY DEF Begin
<1>2. /\ good'[t]
      /\ \A u \in Threads : u # t =>
           good'[u] = good[u] /\ busy'[u] = busy[u] /\ col'[u] = col[u]
  BY <1>1 DEF FInv, TypeOK
<1>3. pc = "sweep" BY <1>1, WorkingRow
<1>4. \A u \in Threads : busy'[u] /\ IsRoot(<<Row(u), col[u]>>)' => good'[u]
  BY <1>1, <1>2 DEF RootInv, IsRoot, Row
<1>5. \A u \in Threads, e \in Entries(mat) : ToStore(u, e)' <=> ToStore(u, e)
  BY <1>1 DEF ToStore
<1>6. QED BY <1>1, <1>3, <1>4, <1>5 DEF RootInv, IsRoot, RootsExact

LEMMA ReadRootInv ==
  ASSUME FInv, RootInv, NEW t \in Threads, NEW d \in Entries(mat), Read(t, d)
  PROVE  RootInv'
<1>1. /\ busy[t] /\ d \in unread[t]
      /\ good' = [good EXCEPT ![t] = @ /\ lu[d] = "exact"]
      /\ UNCHANGED <<opt, mat, pc, lu, claimed, job, left, col, busy>>
  BY DEF Read
<1>2. Sane(t) BY DEF FInv
<1>3. ~IsRoot(<<Row(t), col[t]>>) /\ pc = "sweep"
  BY <1>1, <1>2 DEF Sane, IsRoot
<1>4. \A u \in Threads : u # t => good'[u] = good[u]
  BY <1>1 DEF FInv, TypeOK
<1>5. \A u \in Threads : busy'[u] /\ IsRoot(<<Row(u), col[u]>>)' => good'[u]
  BY <1>1, <1>3, <1>4 DEF RootInv, IsRoot, Row
<1>6. \A u \in Threads, e \in Entries(mat) : ToStore(u, e)' <=> ToStore(u, e)
  BY <1>1 DEF ToStore
<1>7. QED BY <1>1, <1>3, <1>5, <1>6 DEF RootInv, IsRoot, RootsExact

LEMMA StoreRootInv ==
  ASSUME FInv, RootInv, NEW t \in Threads, Store(t)
  PROVE  RootInv'
<1> PICK i, j, next : i = Row(t) /\ j = col[t] /\ next = job[t].at + 1
  OBVIOUS
<1>1. /\ i \in Rows /\ j \in left[t] /\ <<i, j>> \in Entries(mat)
      /\ busy[t] /\ ~Idle(t)
      /\ lu' = [lu EXCEPT ![<<i, j>>] = IF good[t] THEN "exact" ELSE "other"]
      /\ ~busy'[t]
      /\ \/ /\ left[t] # {j} /\ left'[t] = left[t] \ {j}
            /\ job'[t] = job[t]
         \/ /\ left[t] = {j}
            /\ left'[t] = IF next = job[t].end THEN {} ELSE mat[next % N]
            /\ job'[t].at = next /\ job'[t].end = job[t].end
      /\ \A u \in Threads : u # t =>
           job'[u] = job[u] /\ left'[u] = left[u] /\ busy'[u] = busy[u] /\ good'[u] = good[u]
      /\ UNCHANGED <<opt, mat, pc, claimed, col, unread>>
  BY StoreEffect
<1>2. /\ job[t].at \in Nat /\ job[t].end \in Nat /\ N \in Nat \ {0} /\ pc = "sweep"
  BY <1>1, WorkingRow
<1>3. IsRoot(<<i, j>>) => good[t]
  BY <1>1 DEF RootInv
<1>4. \A e \in Entries(mat) : IsRoot(e) /\ (lu[e] = "exact" \/ e = <<i, j>>) => lu'[e] = "exact"
  BY <1>1, <1>3 DEF FInv, TypeOK
<1>5. \A u \in Threads : busy'[u] /\ IsRoot(<<Row(u), col[u]>>)' => good'[u]
  BY <1>1 DEF RootInv, IsRoot, Row
<1>6. ASSUME NEW e \in Entries(mat), IsRoot(e), e[1] < claimed, lu'[e] # "exact"
      PROVE  \E u \in Threads : ToStore(u, e)'
  <2>1. PICK u \in Threads : ToStore(u, e)
    BY <1>2, <1>4, <1>6 DEF RootInv
  <2>2. CASE u # t
    <3>1. ToStore(u, e)' BY <1>1, <2>1, <2>2 DEF ToStore
    <3>2. QED BY <3>1
  <2>3. CASE u = t
    <3>1. /\ e = <<e[1], e[2]>> /\ e[1] \in 0 .. N-1 /\ e[2] \in mat[e[1]]
      BY EntryType DEF Rows, FInv, TypeOK
    <3>2. /\ job[t].at <= e[1] /\ e[1] < job[t].end
          /\ e[1] = job[t].at => e[2] \in left[t]
      BY <2>1, <2>3 DEF ToStore
    <3>3. e[1] = job[t].at => e[1] = i
      BY <1>2, <3>1, P!ModSmall DEF Row
    <3>4. e # <<i, j>> BY <1>4, <1>6
    <3>5. e[1] = job[t].at => e[2] # j
      BY <3>1, <3>3, <3>4
    <3>6. CASE left[t] # {j} /\ left'[t] = left[t] \ {j} /\ job'[t] = job[t]
      <4>1. ToStore(t, e)' BY <3>2, <3>5, <3>6 DEF ToStore
      <4>2. QED BY <4>1
    <3>7. CASE /\ left[t] = {j}
               /\ left'[t] = IF next = job[t].end THEN {} ELSE mat[next % N]
               /\ job'[t].at = next /\ job'[t].end = job[t].end
      <4>1. e[1] # job[t].at BY <3>2, <3>5, <3>7
      <4>2. next <= e[1] /\ next # job[t].end
        BY <1>2, <3>1, <3>2, <4>1
      <4>3. e[1] = next => e[2] \in left'[t]
        BY <1>2, <3>1, <3>7, <4>2, P!ModSmall
      <4>4. ToStore(t, e)' BY <3>2, <3>7, <4>2, <4>3 DEF ToStore
      <4>5. QED BY <4>4
    <3>8. QED BY <1>1, <3>6, <3>7
  <2>4. QED BY <2>2, <2>3
<1>7. QED BY <1>1, <1>2, <1>5, <1>6 DEF RootInv, IsRoot, RootsExact

LEMMA SequentialRootInv ==
  ASSUME FInv, RootInv, Sequential
  PROVE  RootInv'
<1>1. \A t \in Threads : ~busy[t] /\ Idle(t) /\ ~busy'[t]
  BY SequentialFInv
<1>2. \A t \in Threads : busy'[t] /\ IsRoot(<<Row(t), col[t]>>)' => good'[t]
  BY <1>1
<1>3. CASE SetupStorage \/ ComputeAgain \/ ComputeNew
  BY <1>2, <1>3 DEF SetupStorage, ComputeAgain, ComputeNew, RootInv, RootsExact
<1>4. CASE InitFactors
  <2>1. \A e \in Entries(mat) : ~(e[1] < 0)
    BY EntryType DEF Rows, FInv, TypeOK
  <2>2. mat' = mat /\ claimed' = 0 /\ pc' = "sweep"
    BY <1>4 DEF InitFactors
  <2>3. QED BY <1>2, <2>1, <2>2 DEF RootInv, RootsExact
<1>5. CASE EndSweeps
  <2>1. /\ UNCHANGED <<opt, mat, lu, team>> /\ pc = "sweep" /\ claimed = Total
        /\ pc' = IF opt.block THEN "invert" ELSE "ready"
    BY <1>5 DEF EndSweeps, RegionDone
  <2>2. ASSUME NEW e \in Entries(mat), IsRoot(e) PROVE lu[e] = "exact"
    <3>1. e[1] \in 0 .. N-1
      BY EntryType DEF Rows, FInv, TypeOK
    <3>2. N \in Nat \ {0} BY <3>1, NAssumption
    <3>3. N <= Total /\ Total \in Nat
      BY <3>2, P!ModLast, SizesAssumption, TotalType DEF Total
    <3>4. e[1] < claimed BY <2>1, <3>1, <3>2, <3>3
    <3>5. \A t \in Threads : ~ToStore(t, e)
      <4>1. \A t \in Threads : job[t].at = job[t].end /\ job[t].end \in Nat
        BY <1>1, JobType DEF Idle, FInv
      <4>2. QED BY <3>1, <4>1 DEF ToStore
    <3>6. QED BY <2>1, <2>2, <3>4, <3>5 DEF RootInv
  <2>3. \A e \in Entries(mat) : IsRoot(e)' <=> IsRoot(e)
    BY <2>1 DEF IsRoot
  <2>4. ~opt.block => \A e \in Entries(mat) : IsRoot(e) => Factored(e)'
    BY <2>1, <2>2 DEF Factored
  <2>5. QED
    BY <1>2, <2>1, <2>2, <2>3, <2>4 DEF RootInv, RootsExact, IsRoot
<1>6. CASE InvertDiagonal
  <2>1. /\ UNCHANGED <<opt, mat, team>> /\ pc = "invert" /\ pc' = "ready"
        /\ lu' = [e \in Entries(mat) |-> IF e[1] # e[2] THEN lu[e]
                                   ELSE IF lu[e] = "exact" THEN "inverse" ELSE "other"]
    BY <1>6 DEF InvertDiagonal
  <2>2. opt.block
    BY <2>1 DEF RootInv
  <2>3. ASSUME NEW e \in Entries(mat), IsRoot(e) PROVE Factored(e)'
    BY <2>1, <2>2, <2>3 DEF RootInv, Factored
  <2>4. QED BY <1>2, <2>1, <2>3 DEF RootInv, RootsExact, IsRoot
<1>7. QED BY <1>3, <1>4, <1>5, <1>6 DEF Sequential

LEMMA NextRootInv ==
  ASSUME FInv, RootInv, [Next]_vars
  PROVE  RootInv'
<1>1. CASE Sequential BY <1>1, SequentialRootInv
<1>2. ASSUME NEW t \in Threads, Work(t) PROVE RootInv'
  BY <1>2, ClaimRootInv, BeginRootInv, ReadRootInv, StoreRootInv DEF Work
<1>3. CASE UNCHANGED vars
  BY <1>3 DEF vars, RootInv, RootsExact, IsRoot, ToStore, Factored, Row
<1>4. QED BY <1>1, <1>2, <1>3 DEF Next

(***************************************************************************)
(* However sweeps overlap, the entries without operands end up exact.      *)
(***************************************************************************)
THEOREM RootsAreExact == Spec => []RootsExact
<1>1. Init => FInv /\ RootInv
  BY InitFInv DEF Init, RootInv, RootsExact
<1>2. FInv /\ RootInv /\ [Next]_vars => FInv' /\ RootInv'
  BY NextFInv, NextRootInv
<1>3. RootInv => RootsExact BY DEF RootInv
<1>4. QED BY <1>1, <1>2, <1>3, PTL DEF Spec
-----------------------------------------------------------------------------
(***************************************************************************)
(* Sweeps in order: a single thread, or one whole sweep to a chunk.  Then  *)
(* all that comes before the entry a thread is at is exact, whoever stored *)
(* it, and so is all up to the last row of a claim that is done.           *)
(***************************************************************************)
Before(t, e) == e[1] < Row(t) \/ (e[1] = Row(t) /\ ~(e[2] \in left[t]))

UpTo(i) == \A e \in Entries(mat) : e[1] <= i => lu[e] = "exact"

SweepsInOrder ==
  /\ \A t \in Threads : ~Idle(t) =>
       \A e \in Entries(mat) : Before(t, e) => lu[e] = "exact"
  /\ \A t \in Threads : busy[t] => good[t]
  /\ \A t \in Threads : Idle(t) /\ job[t].end > 0 => UpTo((job[t].end - 1) % N)
  /\ claimed > 0 => \E t \in Threads : job[t].end = claimed
  /\ \A t \in Threads : job[t].end > 0 => t \in Team
  /\ opt.threaded /\ claimed > 0 => claimed % N = 0

OrderInv ==
  /\ InOrder /\ pc = "sweep" => SweepsInOrder
  /\ InOrder /\ pc = "invert" => \A e \in Entries(mat) : lu[e] = "exact"
  /\ InOrderIsExact

\* All before the iteration that is claimed next is exact, for its thread.
LEMMA ClaimsInOrder ==
  ASSUME FInv, SweepsInOrder, InOrder, NEW t \in Threads, Idle(t), t \in Team,
         claimed < Total, NEW e \in Entries(mat), e[1] < claimed % N
  PROVE  lu[e] = "exact"
<1>1. claimed \in Nat /\ N \in Nat \ {0} /\ e[1] \in 0 .. N-1
  BY IterationRow, JobType, EntryType DEF FInv, TypeOK, Rows
<1>2. claimed # 0
  <2>1. 0 % N = 0 BY <1>1, P!ModSmall
  <2>2. QED BY <1>1, <2>1
<1>3. ~opt.threaded
  BY <1>1, <1>2 DEF SweepsInOrder
<1>4. job[t].end = claimed
  BY <1>1, <1>2, <1>3 DEF SweepsInOrder, Team
<1>5. UpTo((claimed - 1) % N)
  BY <1>1, <1>2, <1>4 DEF SweepsInOrder
<1>6. claimed % N = 0 \/ claimed % N = ((claimed - 1) % N) + 1
  <2>1. claimed - 1 \in Nat /\ (claimed - 1) + 1 = claimed BY <1>1, <1>2
  <2>2. QED BY <1>1, <2>1, P!ModNext
<1>7. (claimed - 1) % N \in 0 .. N-1
  <2>1. claimed - 1 \in Nat BY <1>1, <1>2
  <2>2. QED BY <1>1, <2>1, P!DivMod
<1>8. e[1] <= (claimed - 1) % N
  BY <1>1, <1>6, <1>7
<1>9. QED BY <1>5, <1>8 DEF UpTo

LEMMA ClaimOrderInv ==
  ASSUME FInv, OrderInv, NEW t \in Threads, Claim(t)
  PROVE  OrderInv'
<1> PICK c, size : /\ c = claimed
                   /\ size = IF Chunk < N - (c % N) THEN Chunk ELSE N - (c % N)
  OBVIOUS
<1>1. /\ job' = [job EXCEPT ![t] = [at |-> c, end |-> c + size]]
      /\ left' = [left EXCEPT ![t] = mat[c % N]]
      /\ claimed' = c + size
      /\ UNCHANGED <<opt, mat, pc, lu, col, busy, unread, good>>
      /\ Idle(t) /\ t \in Team /\ pc = "sweep" /\ claimed < Total
  BY DEF Claim
<1>2. c \in Nat /\ N \in Nat \ {0} /\ Chunk \in Nat \ {0}
  BY <1>1, IterationRow, ChunkType, JobType DEF FInv
<1>3. c % N \in 0 .. N-1 BY <1>2, P!DivMod
<1>4. size \in Nat \ {0} /\ c + size > 0 BY <1>2, <1>3
<1>5. /\ job'[t].at = c /\ job'[t].end = c + size /\ left'[t] = mat[c % N] /\ ~busy[t]
      /\ \A u \in Threads : u # t => job'[u] = job[u] /\ left'[u] = left[u]
  BY <1>1 DEF FInv, TypeOK, Sane
<1>6. SUFFICES ASSUME InOrder PROVE SweepsInOrder'
  BY <1>1 DEF OrderInv, InOrder, InOrderIsExact, Chunk
<1>7. SweepsInOrder BY <1>1, <1>6 DEF OrderInv
<1>8. ~Idle(t)' /\ Row(t)' = c % N
  BY <1>2, <1>4, <1>5 DEF Idle, Row
<1>9. ASSUME NEW u \in Threads, u # t
      PROVE  /\ Idle(u)' <=> Idle(u)
             /\ Row(u)' = Row(u) /\ left'[u] = left[u] /\ job'[u] = job[u]
  BY <1>5, <1>9 DEF Idle, Row
<1>10. ASSUME NEW u \in Threads, ~Idle(u)', NEW e \in Entries(mat), Before(u, e)'
       PROVE  lu[e] = "exact"
  <2>1. CASE u = t
    <3>1. e[1] < c % N
      BY <1>5, <1>8, <1>10, <2>1, EntryType DEF Before, FInv, TypeOK
    <3>2. QED BY <1>1, <1>6, <1>7, <3>1, ClaimsInOrder
  <2>2. CASE u # t
    <3>1. ~Idle(u) /\ Before(u, e) BY <1>9, <1>10, <2>2 DEF Before
    <3>2. QED BY <1>7, <3>1 DEF SweepsInOrder
  <2>3. QED BY <2>1, <2>2
<1>11. ASSUME NEW u \in Threads, Idle(u)', job'[u].end > 0
       PROVE  UpTo((job[u].end - 1) % N)'
  <2>1. u # t BY <1>8, <1>11
  <2>2. UpTo((job[u].end - 1) % N)
    BY <1>7, <1>9, <1>11, <2>1 DEF SweepsInOrder
  <2>3. job'[u] = job[u] BY <1>9, <2>1
  <2>4. QED BY <1>1, <2>2, <2>3 DEF UpTo
<1>12. opt.threaded => claimed' % N = 0
  <2>1. SUFFICES ASSUME opt.threaded PROVE claimed' % N = 0
    OBVIOUS
  <2>2. size = N - (c % N)
    BY <1>2, <1>3, <1>6, <2>1 DEF InOrder
  <2>3. QED BY <1>1, <1>2, <2>2, P!ModFill
<1>13. \A u \in Threads : job'[u].end > 0 => u \in Team'
  BY <1>1, <1>5, <1>7 DEF SweepsInOrder, Team
<1>14. QED
  BY <1>1, <1>5, <1>7, <1>10, <1>11, <1>12, <1>13 DEF SweepsInOrder

LEMMA BeginOrderInv ==
  ASSUME FInv, OrderInv, NEW t \in Threads, NEW j \in Rows, Begin(t, j)
  PROVE  OrderInv'
<1>1. /\ good' = [good EXCEPT ![t] = TRUE]
      /\ busy' = [busy EXCEPT ![t] = TRUE]
      /\ UNCHANGED <<opt, mat, pc, lu, claimed, job, left>>
      /\ ~Idle(t)
  BY DEF Begin
<1>2. /\ good'[t] /\ \A u \in Threads : u # t => good'[u] = good[u] /\ busy'[u] = busy[u]
  BY <1>1 DEF FInv, TypeOK
<1>3. pc = "sweep" BY <1>1, WorkingRow
<1>4. SUFFICES ASSUME InOrder PROVE SweepsInOrder'
  BY <1>1, <1>3 DEF OrderInv, InOrder, InOrderIsExact, Chunk
<1>5. SweepsInOrder BY <1>3, <1>4 DEF OrderInv
<1>6. QED
  BY <1>1, <1>2, <1>5 DEF SweepsInOrder, Before, UpTo, Idle, Row, Team

LEMMA ReadOrderInv ==
  ASSUME FInv, OrderInv, NEW t \in Threads, NEW d \in Entries(mat), Read(t, d)
  PROVE  OrderInv'
<1> PICK i, j : i = Row(t) /\ j = col[t]
  OBVIOUS
<1>1. /\ busy[t] /\ d \in unread[t]
      /\ good' = [good EXCEPT ![t] = @ /\ lu[d] = "exact"]
      /\ UNCHANGED <<opt, mat, pc, lu, claimed, job, left, col, busy>>
  BY DEF Read
<1>2. /\ ~Idle(t) /\ j \in left[t] /\ \A k \in left[t] : j <= k
      /\ d \in Operands(mat, <<i, j>>) /\ j \in mat[i]
  <2>1. Sane(t) BY DEF FInv
  <2>2. QED BY <1>1, <2>1 DEF Sane
<1>3. pc = "sweep" /\ i \in Rows /\ mat \in Matrices
  BY <1>2, WorkingRow DEF FInv, TypeOK
<1>4. SUFFICES ASSUME InOrder PROVE SweepsInOrder'
  BY <1>1, <1>3 DEF OrderInv, InOrder, InOrderIsExact, Chunk
<1>5. SweepsInOrder BY <1>3, <1>4 DEF OrderInv
<1>6. lu[d] = "exact"
  <2>1. <<i, j>> \in Entries(mat) BY <1>2, <1>3, EntryOf
  <2>2. d[1] < i \/ (d[1] = i /\ d[2] < j)
    BY <1>2, <1>3, <2>1, OperandsType
  <2>3. \A k \in left[t] : k \in Nat BY RowsType DEF FInv, TypeOK
  <2>4. d[2] \in Nat BY <1>3, EntryType, RowsType
  <2>5. d[2] < j => ~(d[2] \in left[t]) BY <1>2, <2>3, <2>4
  <2>6. Before(t, d) BY <2>2, <2>5 DEF Before
  <2>7. QED BY <1>2, <1>5, <2>6 DEF SweepsInOrder
<1>7. good[t] BY <1>1, <1>5 DEF SweepsInOrder
<1>8. \A u \in Threads : busy'[u] => good'[u]
  <2>1. good'[t] /\ \A u \in Threads : u # t => good'[u] = good[u]
    BY <1>1, <1>6, <1>7 DEF FInv, TypeOK
  <2>2. QED BY <1>1, <1>5, <2>1 DEF SweepsInOrder
<1>9. QED
  BY <1>1, <1>5, <1>8 DEF SweepsInOrder, Before, UpTo, Idle, Row, Team

LEMMA StoreOrderInv ==
  ASSUME FInv, OrderInv, NEW t \in Threads, Store(t)
  PROVE  OrderInv'
<1> PICK i, j, at, next, end :
      i = Row(t) /\ j = col[t] /\ at = job[t].at /\ next = at + 1 /\ end = job[t].end
  OBVIOUS
<1>1. /\ i \in Rows /\ j \in left[t] /\ <<i, j>> \in Entries(mat)
      /\ busy[t] /\ ~Idle(t)
      /\ lu' = [lu EXCEPT ![<<i, j>>] = IF good[t] THEN "exact" ELSE "other"]
      /\ ~busy'[t]
      /\ \/ /\ left[t] # {j} /\ left'[t] = left[t] \ {j}
            /\ job'[t] = job[t]
         \/ /\ left[t] = {j}
            /\ left'[t] = IF next = end THEN {} ELSE mat[next % N]
            /\ job'[t].at = next /\ job'[t].end = end
      /\ \A u \in Threads : u # t =>
           job'[u] = job[u] /\ left'[u] = left[u] /\ busy'[u] = busy[u] /\ good'[u] = good[u]
      /\ UNCHANGED <<opt, mat, pc, claimed, col, unread>>
  BY StoreEffect
<1>2. /\ at \in Nat /\ end \in Nat /\ at < end /\ N \in Nat \ {0} /\ pc = "sweep"
      /\ i = at % N
  BY <1>1, WorkingRow DEF Row
<1>3. SUFFICES ASSUME InOrder PROVE SweepsInOrder'
  BY <1>1, <1>2 DEF OrderInv, InOrder, InOrderIsExact, Chunk
<1>4. SweepsInOrder BY <1>2, <1>3 DEF OrderInv
<1>5. /\ lu'[<<i, j>>] = "exact"
      /\ \A e \in Entries(mat) : lu[e] = "exact" => lu'[e] = "exact"
  <2>1. good[t] BY <1>1, <1>4 DEF SweepsInOrder
  <2>2. QED BY <1>1, <2>1 DEF FInv, TypeOK
<1>6. ASSUME NEW e \in Entries(mat), e[1] < i \/ (e[1] = i /\ ~(e[2] \in left[t] \ {j}))
      PROVE  lu'[e] = "exact"
  <2>1. e = <<e[1], e[2]>> BY EntryType DEF FInv, TypeOK
  <2>2. CASE e = <<i, j>> BY <1>5, <2>2
  <2>3. CASE e # <<i, j>>
    <3>1. e[1] = i => e[2] # j BY <2>1, <2>3
    <3>2. Before(t, e) BY <1>6, <3>1 DEF Before
    <3>3. QED BY <1>1, <1>4, <1>5, <3>2 DEF SweepsInOrder
  <2>4. QED BY <2>2, <2>3
<1>7. ASSUME NEW u \in Threads, u # t
      PROVE  /\ Idle(u)' <=> Idle(u)
             /\ Row(u)' = Row(u) /\ left'[u] = left[u] /\ job'[u] = job[u]
  BY <1>1, <1>7 DEF Idle, Row
<1>8. ASSUME NEW u \in Threads, ~Idle(u)', NEW e \in Entries(mat), Before(u, e)'
      PROVE  lu'[e] = "exact"
  <2>1. CASE u # t
    <3>1. ~Idle(u) /\ Before(u, e) BY <1>7, <1>8, <2>1 DEF Before
    <3>2. QED BY <1>4, <1>5, <3>1 DEF SweepsInOrder
  <2>2. CASE u = t /\ left'[t] = left[t] \ {j} /\ job'[t] = job[t]
    <3>1. Row(t)' = i BY <1>1, <2>2 DEF Row
    <3>2. QED BY <1>6, <1>8, <2>2, <3>1 DEF Before
  <2>3. CASE /\ u = t /\ left[t] = {j}
             /\ left'[t] = IF next = end THEN {} ELSE mat[next % N]
             /\ job'[t].at = next /\ job'[t].end = end
    <3>1. Row(t)' = next % N /\ left'[t] = mat[next % N]
      BY <1>1, <1>8, <2>3 DEF Row, Idle
    <3>2. e[1] \in 0 .. N-1 /\ e[2] \in mat[e[1]]
      BY EntryType DEF Rows, FInv, TypeOK
    <3>3. e[1] < next % N
      BY <1>8, <2>3, <3>1, <3>2 DEF Before
    <3>4. next % N = 0 \/ next % N = i + 1
      BY <1>2, P!ModNext
    <3>5. i \in Nat BY <1>1, RowsType
    <3>6. e[1] <= i BY <3>2, <3>3, <3>4, <3>5
    <3>7. e[1] < i \/ e[1] = i BY <3>2, <3>5, <3>6
    <3>8. QED BY <1>6, <2>3, <3>7
  <2>4. QED BY <1>1, <2>1, <2>2, <2>3
<1>9. ASSUME NEW u \in Threads, Idle(u)', job'[u].end > 0
      PROVE  UpTo((job[u].end - 1) % N)'
  <2>1. CASE u # t
    <3>1. UpTo((job[u].end - 1) % N) BY <1>4, <1>7, <1>9, <2>1 DEF SweepsInOrder
    <3>2. job'[u] = job[u] BY <1>7, <2>1
    <3>3. QED BY <1>1, <1>5, <3>1, <3>2 DEF UpTo
  <2>2. CASE u = t
    <3>1. left[t] = {j} /\ job'[t].at = next /\ job'[t].end = end
      BY <1>1, <1>9, <2>2 DEF Idle
    <3>2. end - 1 = at
      <4>1. next = end BY <1>9, <2>2, <3>1 DEF Idle
      <4>2. QED BY <1>2, <4>1
    <3>3. (job'[t].end - 1) % N = i BY <1>2, <3>1, <3>2
    <3>4. ASSUME NEW e \in Entries(mat), e[1] <= i PROVE lu'[e] = "exact"
      <4>1. e[1] \in Nat /\ i \in Nat
        BY <1>1, EntryType, RowsType DEF FInv, TypeOK
      <4>2. e[1] < i \/ e[1] = i BY <3>4, <4>1
      <4>3. QED BY <1>6, <3>1, <4>2
    <3>5. QED BY <1>1, <2>2, <3>3, <3>4 DEF UpTo
  <2>3. QED BY <2>1, <2>2
<1>10. \A u \in Threads : job'[u].end = job[u].end
  BY <1>1
<1>11. QED
  BY <1>1, <1>4, <1>8, <1>9, <1>10 DEF SweepsInOrder, Team

LEMMA SequentialOrderInv ==
  ASSUME FInv, RootInv, OrderInv, Sequential
  PROVE  OrderInv'
<1>1. \A t \in Threads : ~busy[t] /\ Idle(t) /\ ~busy'[t] /\ Idle(t)'
  BY SequentialFInv
<1>2. CASE SetupStorage \/ ComputeAgain \/ ComputeNew
  BY <1>2 DEF SetupStorage, ComputeAgain, ComputeNew, OrderInv, InOrderIsExact
<1>3. CASE InitFactors
  <2>1. /\ claimed' = 0 /\ pc' = "sweep" /\ job' = [t \in Threads |-> NoJob]
    BY <1>3 DEF InitFactors
  <2>2. \A t \in Threads : job'[t].end = 0
    BY <2>1 DEF NoJob
  <2>3. SweepsInOrder'
    BY <1>1, <2>1, <2>2 DEF SweepsInOrder
  <2>4. QED BY <2>1, <2>3 DEF OrderInv, InOrderIsExact
<1>4. CASE EndSweeps
  <2>1. /\ UNCHANGED <<opt, mat, lu, team>> /\ pc = "sweep" /\ claimed = Total
        /\ pc' = IF opt.block THEN "invert" ELSE "ready"
    BY <1>4 DEF EndSweeps, RegionDone
  <2>2. ASSUME InOrder, NEW e \in Entries(mat) PROVE lu[e] = "exact"
    <3>1. SweepsInOrder BY <2>1, <2>2 DEF OrderInv
    <3>2. e[1] \in 0 .. N-1
      BY EntryType DEF Rows, FInv, TypeOK
    <3>3. N \in Nat \ {0} BY <3>2, NAssumption
    <3>4. N <= Total /\ Total \in Nat /\ (Total - 1) % N = N - 1
      BY <3>3, P!ModLast, SizesAssumption, TotalType DEF Total
    <3>5. Total > 0 BY <3>3, <3>4
    <3>6. PICK t \in Threads : job[t].end = Total
      BY <2>1, <3>1, <3>5 DEF SweepsInOrder
    <3>7. UpTo(N - 1)
      BY <1>1, <3>1, <3>4, <3>5, <3>6 DEF SweepsInOrder
    <3>8. e[1] <= N - 1 BY <3>2, <3>3
    <3>9. QED BY <3>7, <3>8 DEF UpTo
  <2>3. InOrder' <=> InOrder BY <2>1 DEF InOrder, Chunk
  <2>4. QED
    BY <2>1, <2>2, <2>3 DEF OrderInv, InOrderIsExact, Factored
<1>5. CASE InvertDiagonal
  <2>1. /\ UNCHANGED <<opt, mat, team>> /\ pc = "invert" /\ pc' = "ready"
        /\ lu' = [e \in Entries(mat) |-> IF e[1] # e[2] THEN lu[e]
                                   ELSE IF lu[e] = "exact" THEN "inverse" ELSE "other"]
    BY <1>5 DEF InvertDiagonal
  <2>2. opt.block BY <2>1 DEF RootInv
  <2>3. ASSUME InOrder, NEW e \in Entries(mat) PROVE Factored(e)'
    BY <2>1, <2>2, <2>3 DEF OrderInv, Factored
  <2>4. QED BY <2>1, <2>3 DEF OrderInv, InOrderIsExact, InOrder, Chunk
<1>6. QED BY <1>2, <1>3, <1>4, <1>5 DEF Sequential

LEMMA NextOrderInv ==
  ASSUME FInv, RootInv, OrderInv, [Next]_vars
  PROVE  OrderInv'
<1>1. CASE Sequential BY <1>1, SequentialOrderInv
<1>2. ASSUME NEW t \in Threads, Work(t) PROVE OrderInv'
  BY <1>2, ClaimOrderInv, BeginOrderInv, ReadOrderInv, StoreOrderInv DEF Work
<1>3. CASE UNCHANGED vars
  BY <1>3 DEF vars, OrderInv, SweepsInOrder, InOrderIsExact, InOrder, Chunk, Factored,
              Before, UpTo, Idle, Row, Team
<1>4. QED BY <1>1, <1>2, <1>3 DEF Next

(***************************************************************************)
(* On one thread, or with whole sweeps as chunks, a factorization is exact *)
(* whatever it starts from.                                                *)
(***************************************************************************)
THEOREM InOrderExact == Spec => []InOrderIsExact
<1>1. Init => FInv /\ RootInv /\ OrderInv
  BY InitFInv DEF Init, RootInv, RootsExact, OrderInv, InOrderIsExact
<1>2. FInv /\ RootInv /\ OrderInv /\ [Next]_vars => FInv' /\ RootInv' /\ OrderInv'
  BY NextFInv, NextRootInv, NextOrderInv
<1>3. OrderInv => InOrderIsExact BY DEF OrderInv
<1>4. QED BY <1>1, <1>2, <1>3, PTL DEF Spec
-----------------------------------------------------------------------------
(***************************************************************************)
(* The factorization as a chaotic iteration over its entries.              *)
(***************************************************************************)
\* Among any entries one has no operand: the first one of the first row.
LEMMA OperandsTriangular ==
  ASSUME NEW m \in Matrices, NEW S \in SUBSET Entries(m), S # {}
  PROVE  \E e \in S : Operands(m, e) \cap S = {}
<1> DEFINE I == {e[1] : e \in S}
<1>1. \A e \in S : e[1] \in Nat /\ e[2] \in Nat
  BY EntryType, RowsType
<1>2. I \in SUBSET Nat /\ I # {} BY <1>1
<1>3. PICK i \in I : \A k \in I : i <= k BY <1>2, P!LeastNumber
<1> DEFINE J == {e[2] : e \in {f \in S : f[1] = i}}
<1>4. J \in SUBSET Nat /\ J # {} BY <1>1
<1>5. PICK j \in J : \A k \in J : j <= k BY <1>4, P!LeastNumber
<1>6. PICK e \in S : e[1] = i /\ e[2] = j OBVIOUS
<1>7. ASSUME NEW d \in Operands(m, e), d \in S PROVE FALSE
  <2>1. d[1] < i \/ (d[1] = i /\ d[2] < j) BY <1>6, OperandsType
  <2>2. i <= d[1] /\ (d[1] = i => j <= d[2]) BY <1>3, <1>5, <1>7
  <2>3. d[1] \in Nat /\ d[2] \in Nat /\ i \in Nat /\ j \in Nat BY <1>1, <1>6, <1>7
  <2>4. QED BY <2>1, <2>2, <2>3
<1>8. QED BY <1>7

LEMMA ProblemsTriangular == P!ProblemsAssumption
<1>1. ASSUME NEW m \in Matrices, NEW p, p = NeedsOf(m)
      PROVE  /\ \A c \in DOMAIN p : p[c] \subseteq DOMAIN p
             /\ \A S \in SUBSET DOMAIN p : S # {} => \E c \in S : p[c] \cap S = {}
  <2>1. DOMAIN p = Entries(m) /\ \A c \in Entries(m) : p[c] = Operands(m, c)
    BY <1>1 DEF NeedsOf
  <2>2. \A c \in Entries(m) : Operands(m, c) \subseteq Entries(m)
    BY OperandsType
  <2>3. QED BY <2>1, <2>2, OperandsTriangular
<1>2. QED BY <1>1 DEF P!ProblemsAssumption

LEMMA InitChaos ==
  ASSUME HInit
  PROVE  P!RInit
<1> USE DEF HInit, Init
<1>1. P!NoWork BY DEF P!NoWork
<1>2. DOMAIN NeedsOf(mat) = Entries(mat) BY DEF NeedsOf
<1>3. P!Init BY <1>1, <1>2 DEF P!Init, P!Comps
<1>4. QED BY <1>3 DEF P!RInit

LEMMA SequentialChaos ==
  ASSUME FInv, Sequential, Chaos!Restarted
  PROVE  P!NewProblem /\ P!Restarted
<1>1. \A t \in Threads : ~busy[t] /\ ~busy'[t]
  BY SequentialFInv
<1>2. \A t \in Threads : unread[t] = {} /\ ~good[t]
  BY <1>1 DEF FInv, Sane
<1>3. UNCHANGED <<mat, unread, good>> /\ mat \in Matrices
  BY DEF Sequential, SetupStorage, ComputeAgain, ComputeNew, InitFactors,
         EndSweeps, InvertDiagonal, team, FInv, TypeOK
<1>4. P!NoWork
  <2>1. unread = [t \in Threads |-> {}] BY <1>2 DEF FInv, TypeOK
  <2>2. good = [t \in Threads |-> FALSE] BY <1>2 DEF FInv, TypeOK
  <2>3. [t \in Threads |-> IF busy[t] THEN {<<Row(t), col[t]>>} ELSE {}]
          = [t \in Threads |-> {}]
    BY <1>1
  <2>4. QED BY <2>1, <2>2, <2>3 DEF P!NoWork
<1>5. DOMAIN NeedsOf(mat') = Entries(mat') BY DEF NeedsOf
<1>6. [t \in Threads |-> IF busy[t] THEN {<<Row(t), col[t]>>} ELSE {}]'
        = [t \in Threads |-> IF busy[t] THEN {<<Row(t), col[t]>>} ELSE {}]
  BY <1>1
<1>7. P!NewProblem BY <1>3, <1>4, <1>5, <1>6 DEF P!NewProblem
<1>8. QED BY <1>7 DEF Chaos!Restarted, P!Restarted

LEMMA ClaimChaos ==
  ASSUME FInv, NEW t \in Threads, Claim(t), UNCHANGED history
  PROVE  UNCHANGED P!rvars
<1>1. ~busy[t] /\ UNCHANGED <<opt, mat, pc, lu, col, busy, unread, good>>
  BY DEF Claim, FInv, Sane
<1>2. \A u \in Threads : u # t => job'[u] = job[u]
  BY DEF Claim, FInv, TypeOK
<1>3. [u \in Threads |-> IF busy[u] THEN {<<Row(u), col[u]>>} ELSE {}]'
        = [u \in Threads |-> IF busy[u] THEN {<<Row(u), col[u]>>} ELSE {}]
  BY <1>1, <1>2 DEF Row
<1>4. QED BY <1>1, <1>3 DEF history, P!rvars, P!cvars, P!history

LEMMA BeginChaos ==
  ASSUME FInv, NEW t \in Threads, NEW j \in Rows, NEW c, c = <<Row(t), j>>,
         Begin(t, j), Chaos!Began(t)
  PROVE  c \in Entries(mat) /\ P!Begin(t, c) /\ P!Began(t)
<1>1. /\ ~Idle(t) /\ ~busy[t] /\ j \in left[t]
      /\ busy' = [busy EXCEPT ![t] = TRUE]
      /\ col' = [col EXCEPT ![t] = j]
      /\ unread' = [unread EXCEPT ![t] = Operands(mat, c)]
      /\ good' = [good EXCEPT ![t] = TRUE]
      /\ UNCHANGED <<opt, mat, pc, lu, claimed, job, left>>
  BY DEF Begin
<1>2. c \in Entries(mat)
  <2>1. j \in mat[Row(t)] BY <1>1 DEF FInv, Sane
  <2>2. QED BY <1>1, <2>1, WorkingRow, EntryOf DEF FInv, TypeOK
<1>3. /\ busy'[t] /\ col'[t] = j
      /\ \A u \in Threads : u # t => busy'[u] = busy[u] /\ col'[u] = col[u]
  BY <1>1 DEF FInv, TypeOK
<1>4. [u \in Threads |-> IF busy[u] THEN {<<Row(u), col[u]>>} ELSE {}]'
        = [[u \in Threads |-> IF busy[u] THEN {<<Row(u), col[u]>>} ELSE {}]
             EXCEPT ![t] = {c}]
  BY <1>1, <1>3 DEF Row
<1>5. DOMAIN NeedsOf(mat) = Entries(mat) /\ NeedsOf(mat)[c] = Operands(mat, c)
  BY <1>2 DEF NeedsOf
<1>6. good' = [good EXCEPT ![t] = c \in Entries(mat)]
  <2>1. (c \in Entries(mat)) = TRUE BY <1>2
  <2>2. QED BY <1>1, <2>1
<1>7. [u \in Threads |-> IF busy[u] THEN {<<Row(u), col[u]>>} ELSE {}][t] = {}
  BY <1>1
<1>8. P!Begin(t, c)
  BY <1>1, <1>2, <1>4, <1>5, <1>6, <1>7 DEF P!Begin, P!Comps
<1>9. P!Began(t) BY DEF Chaos!Began, P!Began
<1>10. QED BY <1>2, <1>8, <1>9

LEMMA ReadChaos ==
  ASSUME FInv, NEW t \in Threads, NEW e \in Entries(mat), Read(t, e), UNCHANGED history
  PROVE  P!Read(t, e) /\ UNCHANGED P!history
<1>1. /\ busy[t] /\ e \in unread[t]
      /\ unread' = [unread EXCEPT ![t] = @ \ {e}]
      /\ good' = [good EXCEPT ![t] = @ /\ lu[e] = "exact"]
      /\ UNCHANGED <<opt, mat, pc, lu, claimed, job, left, col, busy>>
  BY DEF Read
<1>2. e \in {d \in Entries(mat) : lu[d] = "exact"} <=> lu[e] = "exact"
  OBVIOUS
<1>3. P!Read(t, e)
  BY <1>1, <1>2 DEF P!Read, Row
<1>4. QED BY <1>3 DEF history, P!history

LEMMA StoreChaos ==
  ASSUME FInv, NEW t \in Threads, Store(t), Chaos!Stored(t)
  PROVE  P!Store(t) /\ P!Stored(t)
<1> PICK i, j : i = Row(t) /\ j = col[t]
  OBVIOUS
<1> DEFINE c == <<i, j>>
           doing == [u \in Threads |-> IF busy[u] THEN {<<Row(u), col[u]>>} ELSE {}]
<1>1. /\ c \in Entries(mat) /\ busy[t] /\ unread[t] = {}
      /\ lu' = [lu EXCEPT ![c] = IF good[t] THEN "exact" ELSE "other"]
      /\ busy' = [busy EXCEPT ![t] = FALSE]
      /\ good' = [good EXCEPT ![t] = FALSE]
      /\ \A u \in Threads : u # t => job'[u] = job[u]
      /\ UNCHANGED <<opt, mat, pc, claimed, col, unread>>
  BY StoreEffect DEF Store
<1>2. ~busy'[t] /\ \A u \in Threads : u # t => busy'[u] = busy[u]
  BY <1>1 DEF FInv, TypeOK
<1>3. doing' = [doing EXCEPT ![t] = {}]
  BY <1>1, <1>2 DEF Row
<1>4. doing[t] = {c} BY <1>1
<1>5. {e \in Entries(mat) : lu[e] = "exact"}'
        = IF good[t] THEN {e \in Entries(mat) : lu[e] = "exact"} \cup {c}
          ELSE {e \in Entries(mat) : lu[e] = "exact"} \ {c}
  BY <1>1 DEF FInv, TypeOK
<1>6. P!Store(t)
  BY <1>1, <1>3, <1>4, <1>5 DEF P!Store
<1>7. QED
  BY <1>6 DEF Chaos!Stored, Chaos!RoundEnds, Chaos!RoundGoesOn, Chaos!RoundComplete,
     Chaos!FreshAfter, Chaos!Solvable, Chaos!Comps, P!Stored, P!RoundEnds,
     P!RoundGoesOn, P!RoundComplete, P!FreshAfter, P!Solvable, P!Comps

LEMMA StepChaos ==
  ASSUME FInv, [HNext]_hvars
  PROVE  [P!RNext]_P!rvars
<1>0. P!Comps = Entries(mat) BY DEF P!Comps, NeedsOf
<1>1. CASE Sequential /\ Chaos!Restarted
  BY <1>1, SequentialChaos DEF P!RNext
<1>2. ASSUME NEW t \in Threads, HWork(t) PROVE [P!RNext]_P!rvars
  <2>1. CASE Claim(t) /\ UNCHANGED history
    BY <2>1, ClaimChaos
  <2>2. ASSUME NEW j \in Rows, Begin(t, j) /\ Chaos!Began(t)
        PROVE  P!RNext
    <3>1. PICK c : c = <<Row(t), j>> OBVIOUS
    <3>2. c \in Entries(mat) /\ P!Begin(t, c) /\ P!Began(t)
      BY <2>2, <3>1, BeginChaos
    <3>3. QED BY <1>0, <3>2 DEF P!RNext
  <2>3. ASSUME NEW e \in Entries(mat), Read(t, e) /\ UNCHANGED history
        PROVE  P!RNext
    BY <1>0, <2>3, ReadChaos DEF P!RNext
  <2>4. CASE Store(t) /\ Chaos!Stored(t)
    BY <2>4, StoreChaos DEF P!RNext
  <2>5. QED BY <1>2, <2>1, <2>2, <2>3, <2>4 DEF HWork
<1>3. CASE UNCHANGED hvars
  BY <1>3 DEF hvars, vars, history, P!rvars, P!cvars, P!history, Row
<1>4. QED BY <1>1, <1>2, <1>3 DEF HNext

LEMMA StepIsNext ==
  ASSUME [HNext]_hvars
  PROVE  [Next]_vars
BY DEF HNext, HWork, Next, Work, hvars

LEMMA ImplementsP == HSpec => P!RSpec
<1>1. HInit => FInv BY InitFInv DEF HInit
<1>2. FInv /\ [HNext]_hvars => FInv' BY NextFInv, StepIsNext
<1>3. HInit => P!RInit BY InitChaos
<1>4. FInv /\ [HNext]_hvars => [P!RNext]_P!rvars BY StepChaos
<1>5. QED BY <1>1, <1>2, <1>3, <1>4, PTL DEF HSpec, P!RSpec

(***************************************************************************)
(* The overlapping sweeps of a factorization are a chaotic iteration over  *)
(* the entries of the factors.                                             *)
(***************************************************************************)
THEOREM FactorsChaotically == HSpec => ImplementsChaos
<1>1. P!RInit => Chaos!RInit
  BY DEF P!RInit, P!Init, P!NoWork, P!Comps,
         Chaos!RInit, Chaos!Init, Chaos!NoWork, Chaos!Comps
<1>2. [P!RNext]_P!rvars => [Chaos!RNext]_Chaos!rvars
  BY DEF P!RNext, P!NewProblem, P!NoWork, P!Restarted, P!Comps, P!Begin, P!Began,
         P!Read, P!history, P!Store, P!Stored, P!RoundEnds, P!RoundGoesOn,
         P!RoundComplete, P!FreshAfter, P!Solvable, P!rvars, P!cvars,
         Chaos!RNext, Chaos!NewProblem, Chaos!NoWork, Chaos!Restarted, Chaos!Comps,
         Chaos!Begin, Chaos!Began, Chaos!Read, Chaos!history, Chaos!Store,
         Chaos!Stored, Chaos!RoundEnds, Chaos!RoundGoesOn, Chaos!RoundComplete,
         Chaos!FreshAfter, Chaos!Solvable, Chaos!rvars, Chaos!cvars
<1>3. QED
  BY <1>1, <1>2, ImplementsP, PTL DEF ImplementsChaos, P!RSpec, Chaos!RSpec

(***************************************************************************)
(* The entries that the rounds of a factorization so far must have made    *)
(* exact are exact, for good.                                              *)
(***************************************************************************)
THEOREM FactorizationConverges == HSpec => []Converges
<1>1. P!RSpec => []P!Converges BY ProblemsTriangular, P!Convergence
<1>2. P!Converges => Converges
  BY DEF P!Converges, P!Settled, Converges, Chaos!Converges, Chaos!Settled
<1>3. QED BY <1>1, <1>2, ImplementsP, PTL

(***************************************************************************)
(* Every round of a factorization keeps the exact entries and adds one.    *)
(***************************************************************************)
THEOREM FactorizationAdvances == HSpec => RoundsAdvance
<1>1. P!RSpec => P!RoundsAdvance BY ProblemsTriangular, P!EveryRoundAdvances
<1> DEFINE PA == \A t \in Threads : P!RoundEnds(t) /\ P!Store(t) =>
                   /\ front \subseteq front'
                   /\ Entries(mat) = P!Comps /\ front # P!Comps => front' # front
           CA == \A t \in Threads : Chaos!RoundEnds(t) /\ Chaos!Store(t) =>
                   /\ front \subseteq front'
                   /\ Entries(mat) = Chaos!Comps /\ front # Chaos!Comps => front' # front
<1>2. [PA]_P!rvars => [CA]_Chaos!rvars
  BY DEF P!RoundEnds, P!RoundComplete, P!FreshAfter, P!Solvable, P!Comps, P!Store,
         P!rvars, P!cvars, P!history, Chaos!RoundEnds, Chaos!RoundComplete,
         Chaos!FreshAfter, Chaos!Solvable, Chaos!Comps, Chaos!Store,
         Chaos!rvars, Chaos!cvars, Chaos!history
<1>3. QED BY <1>1, <1>2, ImplementsP, PTL DEF P!RoundsAdvance, RoundsAdvance, Chaos!RoundsAdvance
=============================================================================
