------------------------- MODULE RelaxRoundsProofs --------------------------
(***************************************************************************)
(* The relaxations, for any number of rows and threads, any patterns,      *)
(* numbers of steps and chunk sizes: type correctness, that those in place *)
(* are a chaotic relaxation and contract as one, that the column sweeps    *)
(* lose no subtraction, and that loops which wait, and all loops on one    *)
(* thread, read what the serial methods read.                              *)
(***************************************************************************)
EXTENDS RelaxRounds, Integers, SequenceTheorems, TLAPS
-----------------------------------------------------------------------------
(***************************************************************************)
(* The loops.                                                              *)
(***************************************************************************)
LEMMA UpDownType == Up \in Seq(Rows) /\ Down \in Seq(Rows)
BY NAssumption DEF Up, Down, Rows

\* A level consists of rows.
LEMMA LevelRowsType ==
  ASSUME prob \in Problems, NEW l \in 1 .. nlevels
  PROVE  LevelRows(l) \in Seq(Rows)
<1>1. levels \in Seq(Nat) /\ IsSchedule(mat, levels)
  BY RelaxProblems DEF mat, levels
<1>2. levels[l] \in Nat /\ levels[l+1] \in Nat /\ levels[l+1] <= N
  <2>1. l \in Levels(levels) /\ l \in 1 .. Len(levels) /\ l + 1 \in 1 .. Len(levels)
    BY <1>1 DEF nlevels, Levels
  <2>2. levels[l+1] <= N BY <1>1, <2>1 DEF IsSchedule, IsSchedulePrefix
  <2>3. QED BY <1>1, <2>1, <2>2, ElementOfSeq
<1> DEFINE n == levels[l+1] - levels[l]
<1>3. n \in Int /\ \A k \in 1 .. n : levels[l] + k - 1 \in Rows
  BY <1>2, NAssumption DEF Rows
<1>4. CASE n \in Nat
  BY <1>3, <1>4 DEF LevelRows
<1>5. CASE n < 0
  <2>1. 1 .. n = 1 .. 0 BY <1>3, <1>5
  <2>2. LevelRows(l) = [k \in 1 .. 0 |-> levels[l] + k - 1] BY <2>1 DEF LevelRows
  <2>3. [k \in 1 .. 0 |-> levels[l] + k - 1] \in Seq(Rows) OBVIOUS
  <2> QED BY <2>2, <2>3
<1>6. n \in Nat \/ n < 0 BY <1>3
<1> QED BY <1>4, <1>5, <1>6

\* Division with remainder.
LEMMA DivMod ==
  ASSUME NEW k \in Nat, NEW n \in Nat \ {0}
  PROVE  k % n \in 0 .. n - 1 /\ k \div n \in Nat
BY SMTT(30)

\* Where a loop exists, it is one of the step's, and its iterations are rows.
LEMMA LoopsType ==
  ASSUME opt \in Options, prob \in Problems
  PROVE  /\ NLoops \in Nat
         /\ \A l \in 1 .. NLoops : /\ Loop(l).rows \in Seq(Rows)
                                   /\ InPlace => Loop(l).body = "relax"
                                   /\ Sweep(l) \in Nat
<1>0. /\ opt.kind \in {"jacobi", "levels", "sgs", "chaotic", "columns"}
      /\ opt.steps \in Nat
  BY RelaxOptions
<1>1. nlevels \in Nat
  <2>1. levels \in Seq(Nat) /\ Len(levels) >= 1
    BY RelaxProblems DEF mat, levels, IsSchedule, IsSchedulePrefix
  <2>2. QED BY <2>1 DEF nlevels
<1> DEFINE L == Len(StepLoops)
<1>2. /\ L \in Nat
      /\ \A k \in 1 .. L : /\ StepLoops[k].rows \in Seq(Rows)
                           /\ InPlace => StepLoops[k].body = "relax"
      /\ LoopsPerSweep \in Nat
      /\ L # 0 => LoopsPerSweep # 0
  <2>1. CASE opt.kind = "jacobi"
    BY <2>1, UpDownType DEF StepLoops, JacobiLoops, Static, InPlace, LoopsPerSweep
  <2>2. CASE opt.kind = "levels"
    <3>1. StepLoops = LevelLoops /\ LoopsPerSweep = nlevels
      BY <2>2 DEF StepLoops, LoopsPerSweep
    <3>2. L = 2 * nlevels
      BY <3>1, <1>1 DEF LevelLoops
    <3>3. ASSUME NEW k \in 1 .. L
          PROVE  StepLoops[k].rows \in Seq(Rows) /\ StepLoops[k].body = "relax"
      <4> DEFINE r == IF k <= nlevels THEN k ELSE 2 * nlevels + 1 - k
      <4>1. r \in 1 .. nlevels BY <3>2, <1>1
      <4>2. StepLoops[k] = Static("relax", LevelRows(r))
        BY <3>1, <3>2 DEF LevelLoops
      <4>3. QED BY <4>1, <4>2, LevelRowsType DEF Static
    <3>4. QED BY <1>1, <3>1, <3>2, <3>3
  <2>3. CASE opt.kind = "sgs"
    BY <2>3, UpDownType DEF StepLoops, SgsLoops, Nowait, InPlace, LoopsPerSweep
  <2>4. CASE opt.kind = "chaotic"
    BY <2>4, UpDownType DEF StepLoops, ChaoticLoops, Nowait, InPlace, LoopsPerSweep
  <2>5. CASE opt.kind = "columns"
    BY <2>5, UpDownType DEF StepLoops, ColumnLoops, Static, Nowait, InPlace, LoopsPerSweep
  <2> QED BY <1>0, <2>1, <2>2, <2>3, <2>4, <2>5
<1> HIDE DEF L
<1>3. NLoops = opt.steps * L /\ NLoops \in Nat
  BY <1>0, <1>2 DEF NLoops, L
<1>4. ASSUME NEW l \in 1 .. NLoops
      PROVE  /\ Loop(l).rows \in Seq(Rows)
             /\ InPlace => Loop(l).body = "relax"
             /\ Sweep(l) \in Nat
  <2>1. L \in Nat \ {0} BY <1>0, <1>2, <1>3
  <2>2. l - 1 \in Nat BY <1>3
  <2>3. 1 + ((l - 1) % L) \in 1 .. L
    BY <2>1, <2>2, DivMod
  <2>4. Loop(l) = StepLoops[1 + ((l - 1) % L)] BY DEF Loop, L
  <2>5. LoopsPerSweep \in Nat \ {0} BY <1>2, <2>1
  <2>6. (l - 1) \div LoopsPerSweep \in Nat BY <2>2, <2>5, DivMod
  <2>7. Sweep(l) \in Nat BY <2>6 DEF Sweep
  <2>8. QED BY <1>2, <2>3, <2>4, <2>7
<1> QED BY <1>3, <1>4

LEMMA RowsOfType ==
  ASSUME TypeOK, NEW l \in Nat, l # 0
  PROVE  RowsOf(l) \in Seq(Rows)
BY LoopsType DEF TypeOK, RowsOf

\* The loops depend on the preconditioner and its matrix only.
LEMMA Steady ==
  ASSUME opt' = opt, prob' = prob
  PROVE  /\ NLoops' = NLoops
         /\ \A l : Loop(l)' = Loop(l) /\ Sweep(l)' = Sweep(l)
         /\ InPlace' = InPlace
         /\ RowNeeds(mat)' = RowNeeds(mat)
<1>1. levels' = levels /\ nlevels' = nlevels /\ mat' = mat
  BY DEF levels, nlevels, mat
<1>2. LevelLoops' = LevelLoops
  BY <1>1 DEF LevelLoops, LevelRows
<1>3. StepLoops' = StepLoops
  BY <1>2 DEF StepLoops, JacobiLoops, SgsLoops, ChaoticLoops, ColumnLoops
<1>4. LoopsPerSweep' = LoopsPerSweep
  BY <1>1 DEF LoopsPerSweep
<1> QED BY <1>1, <1>3, <1>4 DEF NLoops, Loop, Sweep, InPlace, RowNeeds
-----------------------------------------------------------------------------
(***************************************************************************)
(* The types of all variables, and what threads hold: only one in a loop   *)
(* holds iterations, only the team is in loops, and between two rows a     *)
(* thread has read nothing.                                                *)
(***************************************************************************)
Stamps == [sweep : Nat, gen : 0 .. MaxGen]

Types ==
  /\ TypeOK
  /\ left \in Seq(Rows)
  /\ job \in [Threads -> Seq(Rows)]
  /\ x \in [Rows -> Stamps]
  /\ xtemp \in [Rows -> Stamps]

Held ==
  /\ \A t \in Threads : /\ job[t] # <<>> => Running(t)
                        /\ busy[t] => job[t] # <<>>
                        /\ t \notin opt.team => at[t] = 0
                        /\ InPlace /\ ~busy[t] => low[t] = MaxGen

RInv == Types /\ Held

LEMMA InitRInv == ASSUME Init PROVE RInv
<1>1. NLoops \in Nat BY LoopsType DEF Init
<1>2. Blank \in [Rows -> Stamps] BY MaxGenAssumption DEF Blank, Stamps
<1>3. TypeOK
  <2>1. /\ low \in [Threads -> 0 .. MaxGen] /\ at \in [Threads -> 0 .. NLoops + 1]
        /\ open \in 0 .. NLoops + 1 /\ \A t \in Threads : at[t] <= open
    BY <1>1, MaxGenAssumption DEF Init
  <2>2. busy \in [Threads -> BOOLEAN] /\ unread \in [Threads -> SUBSET Rows]
    BY DEF Init
  <2> QED BY <2>1, <2>2 DEF Init, TypeOK
<1>4. Types BY <1>2, <1>3 DEF Init, Types
<1> QED BY <1>4 DEF RInv, Held, Init

\* What every step but those that open a loop leaves as it is.
LEMMA NothingHeld ==
  ASSUME RInv, NEW t \in Threads, ~Running(t)
  PROVE  job[t] = <<>> /\ ~busy[t]
BY DEF RInv, Held

LEMMA CallRInv == ASSUME RInv, Call PROVE RInv'
<1> USE DEF RInv, Call
<1>1. /\ NLoops \in Nat /\ NLoops' = NLoops /\ InPlace' = InPlace
  BY LoopsType, Steady DEF Types, TypeOK
<1>2. RowsOf(1) \in Seq(Rows) BY RowsOfType DEF Types
<1>3. Blank \in [Rows -> Stamps] BY MaxGenAssumption DEF Blank, Stamps
<1>4. \A t \in Threads : ~Running(t) BY <1>1 DEF Running
<1>5. Types' BY <1>1, <1>2, <1>3 DEF Types, TypeOK
<1>6. Held' BY <1>1, <1>4, NothingHeld DEF Held, Types, TypeOK
<1> QED BY <1>5, <1>6

\* A chunk is a part of what is left.
LEMMA ClaimsInLeft ==
  ASSUME RInv, left # <<>>, NEW c \in Claims
  PROVE  /\ c[1] \in 1 .. Len(left) /\ c[2] \in 1 .. Len(left) /\ c[1] <= c[2]
         /\ ~Loop(open).static => c[1] = 1
<1>1. Len(left) \in Nat \ {0} BY EmptySeq DEF RInv, Types
<1>2. opt.chunk \in Nat \ {0} BY RelaxOptions DEF RInv, Types, TypeOK
<1>3. CASE Loop(open).static
  <2>1. PICK k \in 1 .. Len(left) : c = <<k, k>> BY <1>3 DEF Claims
  <2> QED BY <1>3, <2>1
<1>4. CASE ~Loop(open).static
  <2>1. c = <<1, IF opt.chunk < Len(left) THEN opt.chunk ELSE Len(left)>>
    BY <1>4 DEF Claims
  <2>2. c[1] = 1 /\ ((c[2] = opt.chunk /\ opt.chunk < Len(left)) \/ c[2] = Len(left))
    BY <2>1
  <2> QED BY <1>1, <1>2, <2>2
<1> QED BY <1>3, <1>4

LEMMA ClaimRInv == ASSUME RInv, NEW t \in Threads, Claim(t) PROVE RInv'
<1> USE DEF RInv, Claim
<1>1. NLoops' = NLoops /\ InPlace' = InPlace /\ opt' = opt BY Steady
<1>2. PICK c \in Claims :
        /\ job' = [job EXCEPT ![t] = SubSeq(left, c[1], c[2])]
        /\ left' = SubSeq(left, 1, c[1] - 1) \o SubSeq(left, c[2] + 1, Len(left))
  OBVIOUS
<1>3. c[1] \in 1 .. Len(left) /\ c[2] \in 1 .. Len(left) BY ClaimsInLeft
<1>4. /\ SubSeq(left, c[1], c[2]) \in Seq(Rows)
      /\ SubSeq(left, 1, c[1] - 1) \in Seq(Rows)
      /\ SubSeq(left, c[2] + 1, Len(left)) \in Seq(Rows)
  <2>1. \A i \in 1 .. Len(left) : left[i] \in Rows BY DEF Types
  <2>2. /\ Len(left) \in Nat /\ c[1] \in Int /\ c[2] \in Int
    BY <1>3 DEF Types
  <2>3. /\ \A i \in c[1] .. c[2] : left[i] \in Rows
        /\ \A i \in 1 .. c[1] - 1 : left[i] \in Rows
        /\ \A i \in c[2] + 1 .. Len(left) : left[i] \in Rows
    BY <1>3, <2>1, <2>2
  <2> QED BY <2>2, <2>3, SubSeqProperties
<1>5. left' \in Seq(Rows) BY <1>2, <1>4, ConcatProperties
<1>6. job' \in [Threads -> Seq(Rows)] BY <1>2, <1>4 DEF Types
<1>7. Types' BY <1>1, <1>5, <1>6 DEF Types, TypeOK, data
<1>8. Held'
  <2>1. \A u \in Threads \ {t} : job'[u] = job[u] BY <1>2 DEF Types
  <2>2. ~busy[t] BY DEF Held, Idle
  <2> QED BY <1>1, <2>1, <2>2 DEF Held, Running, Idle, data
<1> QED BY <1>7, <1>8

LEMMA ProceedRInv == ASSUME RInv, NEW t \in Threads, Proceed(t) PROVE RInv'
<1> USE DEF RInv, Proceed
<1>1. NLoops \in Nat /\ NLoops' = NLoops /\ InPlace' = InPlace
  BY LoopsType, Steady DEF Types, TypeOK
<1>2. at[t] \in 1 .. NLoops /\ open \in 0 .. NLoops + 1 /\ at[t] <= open
  BY DEF Types, TypeOK, Running
<1>3. left' \in Seq(Rows)
  <2>1. at[t] = open => RowsOf(open + 1) \in Seq(Rows)
    BY <1>1, <1>2, RowsOfType DEF Types
  <2> QED BY <2>1 DEF Types, shared
<1>4. /\ at' \in [Threads -> 0 .. NLoops + 1]
      /\ open' \in 0 .. NLoops + 1
      /\ \A u \in Threads : at'[u] <= open'
  BY <1>1, <1>2 DEF Types, TypeOK, shared
<1>5. Types' BY <1>1, <1>3, <1>4 DEF Types, TypeOK, data
<1>6. Held'
  <2>1. \A u \in Threads \ {t} : at'[u] = at[u] BY DEF Types, TypeOK
  <2>2. at'[t] = at[t] + 1 /\ at[t] # 0 BY <1>1, <1>2 DEF Types, TypeOK
  <2> QED BY <1>1, <2>1, <2>2 DEF Held, Running, Idle, data
<1> QED BY <1>5, <1>6

LEMMA LeaveRInv == ASSUME RInv, ToleranceMet \/ Return PROVE RInv'
<1> USE DEF RInv
<1>1. /\ NLoops \in Nat /\ NLoops' = NLoops /\ InPlace' = InPlace
      /\ UNCHANGED <<opt, prob, left, job, busy, unread, low, data>>
  BY LoopsType, Steady DEF Types, TypeOK, ToleranceMet, Return
<1>2. \A t \in Threads : job[t] = <<>> /\ ~busy[t]
  <2>1. CASE ToleranceMet
    BY <1>1, <2>1 DEF ToleranceMet, Held, Running, Idle
  <2>2. CASE Return
    BY <1>1, <2>2 DEF Return, Held, Running
  <2> QED BY <2>1, <2>2
<1>3. /\ at' \in [Threads -> 0 .. NLoops + 1]
      /\ open' \in 0 .. NLoops + 1
      /\ \A u \in Threads : at'[u] <= open' /\ (u \notin opt.team => at'[u] = 0)
  BY <1>1 DEF ToleranceMet, Return
<1>4. Types' BY <1>1, <1>3 DEF Types, TypeOK, data
<1>5. Held' BY <1>1, <1>2, <1>3 DEF Held, data
<1> QED BY <1>4, <1>5
-----------------------------------------------------------------------------
(***************************************************************************)
(* The kernels.                                                            *)
(***************************************************************************)
LEMMA BusyRow ==
  ASSUME RInv, NEW t \in Threads, ~Idle(t)
  PROVE  /\ Row(t) \in Rows /\ Tail(job[t]) \in Seq(Rows)
         /\ Running(t) /\ at[t] \in 1 .. NLoops
         /\ InPlace => Body(t) = "relax"
         /\ Sweep(at[t]) \in Nat
<1>1. job[t] \in Seq(Rows) /\ job[t] # <<>> /\ Running(t)
  BY DEF RInv, Types, Held, Idle
<1> QED BY <1>1, LoopsType, HeadTailProperties DEF RInv, Types, TypeOK, Row, Running, Body

\* The pattern of the matrix, off the diagonal and by columns.
LEMMA PatternType ==
  ASSUME prob \in Problems, NEW i \in Rows
  PROVE  Others(i) \subseteq Rows /\ AboveDiagonal(i) \subseteq Rows
BY RelaxProblems DEF mat, Patterns, Others, AboveDiagonal

LEMMA BeginRInv == ASSUME RInv, NEW t \in Threads, Begin(t) PROVE RInv'
<1> USE DEF RInv, Begin
<1>1. NLoops' = NLoops /\ InPlace' = InPlace BY Steady
<1>2. Others(Row(t)) \subseteq Rows BY BusyRow, PatternType DEF Types, TypeOK
<1>3. Types' BY <1>1, <1>2 DEF Types, TypeOK, shared, data
<1>4. Held' BY <1>1 DEF Held, Types, TypeOK, Running, Idle, shared, data
<1> QED BY <1>3, <1>4

LEMMA ReadRInv ==
  ASSUME RInv, NEW t \in Threads, NEW j \in Rows, Read(t, j)
  PROVE  RInv'
<1> USE DEF RInv, Read
<1>1. NLoops' = NLoops /\ InPlace' = InPlace BY Steady
<1>2. x[j].gen \in 0 .. MaxGen BY DEF Types, Stamps
<1>3. strayed' \in BOOLEAN BY DEF Types, TypeOK
<1>4. low' \in [Threads -> 0 .. MaxGen] /\ \A u \in Threads \ {t} : low'[u] = low[u]
  BY <1>2 DEF Types, TypeOK
<1>5. unread' \in [Threads -> SUBSET Rows] BY DEF Types, TypeOK
<1>6. Types' BY <1>1, <1>3, <1>4, <1>5 DEF Types, TypeOK, shared
<1>7. Held' BY <1>1, <1>4 DEF Held, Running, shared
<1> QED BY <1>6, <1>7

\* A kernel that ends, and leaves nothing that it has read.
LEMMA DoneRInv ==
  ASSUME RInv, NEW t \in Threads, ~Idle(t), Done(t), Types',
         UNCHANGED <<opt, prob, at, shared>>,
         InPlace => low'[t] = MaxGen,
         \A u \in Threads \ {t} : low'[u] = low[u]
  PROVE  RInv'
<1>1. NLoops' = NLoops /\ InPlace' = InPlace BY Steady
<1>2. /\ busy'[t] = FALSE
      /\ \A u \in Threads \ {t} : busy'[u] = busy[u] /\ job'[u] = job[u]
  BY DEF Done, RInv, Types, TypeOK
<1>3. Running(t) BY BusyRow
<1>4. Held' BY <1>1, <1>2, <1>3 DEF RInv, Held, Running
<1> QED BY <1>4 DEF RInv

LEMMA DoneType ==
  ASSUME RInv, NEW t \in Threads, ~Idle(t), Done(t)
  PROVE  job' \in [Threads -> Seq(Rows)] /\ busy' \in [Threads -> BOOLEAN]
BY BusyRow DEF RInv, Types, TypeOK, Done

LEMMA StoreRInv == ASSUME RInv, NEW t \in Threads, Store(t) PROVE RInv'
<1>0. ~Idle(t) BY DEF RInv, Held, Store, Idle
<1>1. NLoops' = NLoops BY Steady DEF Store
<1>2. Relaxed(t) \in Stamps
  <2>1. low[t] \in 0 .. MaxGen BY DEF RInv, Types, TypeOK
  <2>2. (IF low[t] < MaxGen THEN low[t] + 1 ELSE MaxGen) \in 0 .. MaxGen
    BY <2>1, MaxGenAssumption
  <2>3. Sweep(at[t]) \in Nat BY <1>0, BusyRow
  <2> QED BY <2>2, <2>3 DEF Relaxed, Stamps
<1>3. x' \in [Rows -> Stamps] /\ xtemp' \in [Rows -> Stamps]
  BY <1>0, <1>2, BusyRow DEF Store, RInv, Types
<1>4. low' \in [Threads -> 0 .. MaxGen] /\ low'[t] = MaxGen
      /\ \A u \in Threads \ {t} : low'[u] = low[u]
  BY MaxGenAssumption DEF Store, RInv, Types, TypeOK
<1>5. Types' BY <1>0, <1>1, <1>3, <1>4, DoneType DEF RInv, Types, TypeOK, Store, shared
<1> QED BY <1>0, <1>4, <1>5, DoneRInv DEF Store

\* The loops of Jacobi and of the columns that are not "relax".
LEMMA OtherRInv ==
  ASSUME RInv, NEW t \in Threads, NEW i \in Rows,
         CopyBack(t) \/ Reset(t) \/ StoreColumn(t) \/ Subtract(t, i) \/ EndColumn(t)
  PROVE  RInv' /\ ~InPlace
<1>0. /\ ~Idle(t) /\ Body(t) # "relax"
      /\ UNCHANGED <<opt, prob, at, shared, low, xtemp>>
  BY DEF CopyBack, Reset, StoreColumn, Subtract, EndColumn, RInv, Held, Idle, data
<1>1. ~InPlace /\ Row(t) \in Rows /\ Sweep(at[t]) \in Nat BY <1>0, BusyRow
<1>2. NLoops' = NLoops /\ InPlace' = InPlace BY <1>0, Steady
<1>3. x' \in [Rows -> Stamps]
  <2>1. [sweep |-> Sweep(at[t]), gen |-> 0] \in Stamps
    BY <1>1, MaxGenAssumption DEF Stamps
  <2>2. x \in [Rows -> Stamps] /\ xtemp[Row(t)] \in Stamps BY <1>1 DEF RInv, Types
  <2>3. CASE CopyBack(t) BY <1>1, <2>2, <2>3 DEF CopyBack
  <2>4. CASE StoreColumn(t) BY <1>1, <2>1, <2>2, <2>4 DEF StoreColumn
  <2>5. CASE x' = x BY <2>2, <2>5
  <2> QED BY <2>3, <2>4, <2>5 DEF Reset, Subtract, EndColumn, data
<1>4. unread' \in [Threads -> SUBSET Rows] /\ strayed' \in BOOLEAN
  <2>1. unread \in [Threads -> SUBSET Rows] /\ strayed \in BOOLEAN
    BY DEF RInv, Types, TypeOK
  <2>2. CASE StoreColumn(t)
    <3>1. AboveDiagonal(Row(t)) \subseteq Rows BY <1>1, PatternType DEF RInv, Types, TypeOK
    <3>2. strayed' \in BOOLEAN BY <2>1, <2>2 DEF StoreColumn
    <3> QED BY <2>1, <2>2, <3>1, <3>2 DEF StoreColumn
  <2>3. CASE Subtract(t, i) BY <2>1, <2>3 DEF Subtract
  <2>4. CASE unread' = unread /\ strayed' = strayed BY <2>1, <2>4
  <2> QED BY <2>2, <2>3, <2>4 DEF CopyBack, Reset, EndColumn, data
<1>5. CASE Done(t)
  <2>1. Types' BY <1>0, <1>2, <1>3, <1>4, <1>5, DoneType DEF RInv, Types, TypeOK, shared
  <2> QED BY <1>0, <1>1, <1>5, <2>1, DoneRInv
<1>6. CASE StoreColumn(t) \/ Subtract(t, i)
  <2>1. /\ job' = job /\ busy' \in [Threads -> BOOLEAN]
        /\ \A u \in Threads : busy'[u] => job[u] # <<>>
    BY <1>0, <1>6 DEF StoreColumn, Subtract, RInv, Types, TypeOK, Held, Idle
  <2>2. Types' BY <1>0, <1>2, <1>3, <1>4, <2>1 DEF RInv, Types, TypeOK, shared
  <2>3. Held' BY <1>0, <1>1, <1>2, <2>1 DEF RInv, Held, Running
  <2> QED BY <1>1, <2>2, <2>3 DEF RInv
<1> QED BY <1>5, <1>6 DEF CopyBack, Reset, EndColumn

LEMMA StepRInv == ASSUME RInv, [HNext]_hvars PROVE RInv'
<1>1. CASE Call BY <1>1, CallRInv
<1>2. CASE ToleranceMet \/ Return BY <1>2, LeaveRInv
<1>3. ASSUME NEW t \in Threads, HWork(t) PROVE RInv'
  <2>1. CASE Claim(t) BY <2>1, ClaimRInv
  <2>2. CASE Proceed(t) BY <2>2, ProceedRInv
  <2>3. CASE Begin(t) BY <2>3, BeginRInv
  <2>4. CASE Store(t) BY <2>4, StoreRInv
  <2>5. ASSUME NEW i \in Rows, Read(t, i) PROVE RInv' BY <2>5, ReadRInv
  <2>6. CASE CopyBack(t) \/ Reset(t) \/ StoreColumn(t) \/ EndColumn(t)
    <3>1. PICK i : i \in Rows BY <2>6, BusyRow
            DEF CopyBack, Reset, StoreColumn, EndColumn, RInv, Held, Idle
    <3> QED BY <2>6, <3>1, OtherRInv
  <2>7. ASSUME NEW i \in Rows, Subtract(t, i) PROVE RInv' BY <2>7, OtherRInv
  <2> QED BY <1>3, <2>1, <2>2, <2>3, <2>4, <2>5, <2>6, <2>7 DEF HWork, Quiet
<1>4. CASE UNCHANGED hvars
  <2>1. NLoops' = NLoops /\ InPlace' = InPlace BY <1>4, Steady DEF hvars, vars
  <2>2. Types' BY <1>4, <2>1 DEF hvars, vars, data, RInv, Types, TypeOK
  <2>3. Held' BY <1>4, <2>1 DEF hvars, vars, data, RInv, Held, Running
  <2> QED BY <2>2, <2>3 DEF RInv
<1> QED BY <1>1, <1>2, <1>3, <1>4 DEF HNext
-----------------------------------------------------------------------------
(***************************************************************************)
(* The steps as steps of the chaotic relaxation.                           *)
(***************************************************************************)
LEMMA InitChaos == ASSUME HInit PROVE Relax!RInit
<1>1. prob \in Problems BY DEF HInit, Init
<1>2. RowNeeds(mat) \in {RowNeeds(p[1]) : p \in Problems} BY <1>1 DEF mat
<1>3. \A t \in Threads : ~Working(t) BY DEF HInit, Init, Working
<1>4. Relax!NoWork BY <1>3 DEF Relax!NoWork, Doing, Unread, Lowest
<1>5. DOMAIN RowNeeds(mat) = Rows BY DEF RowNeeds
<1>6. \A i \in Rows : x[i].gen = 0 BY DEF HInit, Init, Blank
<1>7. Relax!Guess BY <1>5, <1>6 DEF Relax!Guess, Relax!Comps, Generation
<1> QED BY <1>2, <1>4, <1>7 DEF Relax!RInit, Relax!Init, HInit

\* Between calls nobody works; a call starts from its initial guess.
LEMMA CallChaos ==
  ASSUME RInv, Call, Relax!Restarted
  PROVE  Relax!NewProblem
<1>1. InPlace' = InPlace /\ RowNeeds(mat)' = RowNeeds(mat) BY Steady DEF Call
<1>2. \A t \in Threads : ~busy[t] /\ busy' = busy
  <2>1. NLoops \in Nat BY LoopsType DEF RInv, Types, TypeOK
  <2>2. \A t \in Threads : ~Running(t) BY <2>1 DEF Call, Running
  <2> QED BY <2>2, NothingHeld DEF Call
<1>3. \A t \in Threads : ~Working(t) /\ ~Working(t)' BY <1>2 DEF Working
<1>4. /\ Relax!NoWork /\ UNCHANGED <<Doing, Unread, Lowest>>
  BY <1>3 DEF Relax!NoWork, Doing, Unread, Lowest
<1>5. RowNeeds(mat)' \in {RowNeeds(p[1]) : p \in Problems}
  BY <1>1 DEF RInv, Types, TypeOK, mat
<1>6. DOMAIN RowNeeds(mat)' = Rows BY DEF RowNeeds
<1>7. \A i \in Rows : x'[i].gen = 0 BY DEF Call, Blank
<1>8. Generation' = [c \in DOMAIN RowNeeds(mat)' |-> 0] BY <1>6, <1>7 DEF Generation
<1> QED BY <1>4, <1>5, <1>8 DEF Relax!NewProblem

\* What is not in place is none of its steps.
LEMMA ElsewhereChaos ==
  ASSUME ~InPlace, UNCHANGED <<opt, prob, history>>
  PROVE  UNCHANGED Relax!rvars
<1>1. ~InPlace' /\ RowNeeds(mat)' = RowNeeds(mat) BY Steady
<1>2. UNCHANGED <<Generation, Doing, Unread, Lowest>>
  BY <1>1 DEF Generation, Doing, Unread, Lowest, Working
<1> QED BY <1>1, <1>2 DEF Relax!rvars, Relax!rcvars, Relax!history, history

\* Nor is a step in which no row is worked on.
LEMMA AsideChaos ==
  ASSUME UNCHANGED <<opt, prob, busy, unread, low, x, history>>,
         \A t \in Threads : busy[t] => job'[t] = job[t]
  PROVE  UNCHANGED Relax!rvars
<1>1. InPlace' = InPlace /\ RowNeeds(mat)' = RowNeeds(mat) BY Steady
<1>2. \A t \in Threads : /\ Working(t)' <=> Working(t)
                         /\ Working(t) => Row(t)' = Row(t)
  BY <1>1 DEF Working, Row
<1>3. Doing' = Doing BY <1>2 DEF Doing
<1>4. UNCHANGED <<Generation, Unread, Lowest>>
  BY <1>1, <1>2 DEF Generation, Unread, Lowest
<1> QED BY <1>1, <1>3, <1>4 DEF Relax!rvars, Relax!rcvars, Relax!history, history

LEMMA BeginChaos ==
  ASSUME RInv, InPlace, NEW t \in Threads, NEW c \in Rows, c = Row(t),
         Begin(t), Relax!Began(t)
  PROVE  c \in Relax!Comps /\ Relax!Begin(t, c)
<1>1. InPlace' = InPlace /\ RowNeeds(mat)' = RowNeeds(mat) BY Steady DEF Begin
<1>2. /\ ~busy[t] /\ busy'[t] /\ unread'[t] = Others(c) /\ low[t] = MaxGen
      /\ \A u \in Threads \ {t} : busy'[u] = busy[u] /\ unread'[u] = unread[u]
      /\ x' = x /\ job' = job /\ low' = low
  BY DEF Begin, RInv, Types, TypeOK, Held, data
<1>3. /\ DOMAIN RowNeeds(mat) = Rows
      /\ RowNeeds(mat)[c] = Others(c)
  BY DEF RowNeeds, Others
<1>4. /\ ~Working(t) /\ Working(t)'
      /\ \A u \in Threads \ {t} : Working(u)' = Working(u)
      /\ \A u \in Threads : Row(u)' = Row(u)
  BY <1>1, <1>2 DEF Working, Row
<1>5. Doing[t] = {} /\ Doing' = [Doing EXCEPT ![t] = {c}] BY <1>4 DEF Doing
<1>6. Unread' = [Unread EXCEPT ![t] = RowNeeds(mat)[c]] BY <1>2, <1>3, <1>4 DEF Unread
<1>7. Lowest' = Lowest BY <1>2, <1>4 DEF Lowest
<1>8. Generation' = Generation BY <1>1, <1>2 DEF Generation
<1> QED BY <1>1, <1>3, <1>5, <1>6, <1>7, <1>8 DEF Relax!Begin, Relax!Comps

LEMMA ReadChaos ==
  ASSUME RInv, InPlace, NEW t \in Threads, NEW j \in Rows, Read(t, j), UNCHANGED history
  PROVE  j \in Relax!Comps /\ Relax!Read(t, j) /\ UNCHANGED Relax!history
<1>1. InPlace' = InPlace /\ RowNeeds(mat)' = RowNeeds(mat) BY Steady DEF Read
<1>2. /\ busy[t] /\ j \in unread[t]
      /\ unread'[t] = unread[t] \ {j}
      /\ low'[t] = IF x[j].gen < low[t] THEN x[j].gen ELSE low[t]
      /\ \A u \in Threads \ {t} : unread'[u] = unread[u] /\ low'[u] = low[u]
      /\ x' = x /\ job' = job /\ busy' = busy
  BY DEF Read, RInv, Types, TypeOK
<1>3. /\ Working(t)
      /\ \A u \in Threads : Working(u)' = Working(u) /\ Row(u)' = Row(u)
  BY <1>1, <1>2 DEF Working, Row
<1>4. j \in Unread[t] /\ Unread' = [Unread EXCEPT ![t] = @ \ {j}]
  BY <1>2, <1>3 DEF Unread
<1>5. Generation[j] = x[j].gen /\ Generation' = Generation BY <1>1, <1>2 DEF Generation
<1>6. Lowest' = [Lowest EXCEPT ![t] = IF Generation[j] < @ THEN Generation[j] ELSE @]
  BY <1>2, <1>3, <1>5 DEF Lowest
<1>7. Doing' = Doing BY <1>3 DEF Doing
<1>8. Relax!Read(t, j) BY <1>1, <1>4, <1>5, <1>6, <1>7 DEF Relax!Read
<1> QED BY <1>8 DEF Relax!Comps, RowNeeds, history, Relax!history

LEMMA StoreChaos ==
  ASSUME RInv, InPlace, NEW t \in Threads, Store(t), Relax!Stored(t)
  PROVE  Relax!Store(t)
<1>1. InPlace' = InPlace /\ RowNeeds(mat)' = RowNeeds(mat) BY Steady DEF Store
<1>2. Row(t) \in Rows BY BusyRow DEF Store, RInv, Held, Idle
<1>3. /\ busy[t] /\ ~busy'[t] /\ unread[t] = {} /\ unread' = unread
      /\ \A u \in Threads \ {t} :
           busy'[u] = busy[u] /\ low'[u] = low[u] /\ job'[u] = job[u]
      /\ \A i \in Rows : x'[i].gen = IF i = Row(t) THEN Relax!Up1(low[t]) ELSE x[i].gen
  BY <1>2 DEF Store, Done, Relaxed, Relax!Up1, RInv, Types, TypeOK
<1>4. /\ Working(t) /\ ~Working(t)'
      /\ \A u \in Threads \ {t} : Working(u)' = Working(u) /\ Row(u)' = Row(u)
  BY <1>1, <1>3 DEF Working, Row
<1>5. Relax!Comps = Rows BY DEF Relax!Comps, RowNeeds
<1>6. Doing[t] = {Row(t)} /\ Doing' = [Doing EXCEPT ![t] = {}] BY <1>4 DEF Doing
<1>7. Unread[t] = {} /\ Unread' = Unread BY <1>3, <1>4 DEF Unread
<1>8. Lowest[t] = low[t] /\ Lowest' = [Lowest EXCEPT ![t] = MaxGen]
  BY <1>3, <1>4 DEF Lowest
<1>9. Generation' = [c \in Relax!Comps |-> IF c \in Doing[t] THEN Relax!Up1(Lowest[t])
                                           ELSE Generation[c]]
  BY <1>1, <1>3, <1>5, <1>6, <1>8 DEF Generation
<1> QED BY <1>1, <1>6, <1>7, <1>8, <1>9 DEF Relax!Store

LEMMA StepChaos == ASSUME RInv, [HNext]_hvars PROVE [Relax!RNext]_Relax!rvars
<1>1. CASE Call /\ Relax!Restarted
  BY <1>1, CallChaos DEF Relax!RNext
<1>2. CASE (ToleranceMet \/ Return) /\ UNCHANGED history
  BY <1>2, AsideChaos DEF ToleranceMet, Return, data
<1>3. ASSUME NEW t \in Threads, HWork(t) PROVE [Relax!RNext]_Relax!rvars
  <2>1. CASE InPlace
    <3>1. CASE (Claim(t) \/ Proceed(t)) /\ UNCHANGED history
      <4>1. ~busy[t] BY <3>1 DEF Claim, Proceed, RInv, Held, Idle
      <4>2. \A u \in Threads \ {t} : job'[u] = job[u]
        BY <3>1 DEF Claim, Proceed, RInv, Types
      <4> QED BY <3>1, <4>1, <4>2, AsideChaos DEF Claim, Proceed, data
    <3>2. CASE Begin(t) /\ Relax!Began(t)
      <4>1. PICK c \in Rows : c = Row(t) BY <3>2, BusyRow DEF Begin
      <4>2. c \in Relax!Comps /\ Relax!Begin(t, c)
        BY <2>1, <3>2, <4>1, BeginChaos
      <4> QED BY <3>2, <4>2 DEF Relax!RNext
    <3>3. ASSUME NEW i \in Rows, Read(t, i) /\ UNCHANGED history
          PROVE  Relax!RNext
      BY <2>1, <3>3, ReadChaos DEF Relax!RNext
    <3>4. CASE Store(t) /\ Relax!Stored(t)
      BY <2>1, <3>4, StoreChaos DEF Relax!RNext
    <3>5. ~(CopyBack(t) \/ Reset(t) \/ StoreColumn(t) \/ EndColumn(t))
      <4>1. SUFFICES ASSUME CopyBack(t) \/ Reset(t) \/ StoreColumn(t) \/ EndColumn(t)
                     PROVE  FALSE
        OBVIOUS
      <4>2. Row(t) \in Rows BY <4>1, BusyRow
              DEF CopyBack, Reset, StoreColumn, EndColumn, RInv, Held, Idle
      <4> QED BY <2>1, <4>1, <4>2, OtherRInv
    <3>6. \A i \in Rows : ~Subtract(t, i) BY <2>1, OtherRInv
    <3> QED BY <1>3, <2>1, <3>1, <3>2, <3>3, <3>4, <3>5, <3>6 DEF HWork, Quiet
  <2>2. CASE ~InPlace
    <3>1. UNCHANGED <<opt, prob, history>>
      BY <1>3, <2>2 DEF HWork, Quiet, Claim, Proceed, Begin, Read, Store, CopyBack, Reset,
                        StoreColumn, Subtract, EndColumn
    <3> QED BY <2>2, <3>1, ElsewhereChaos
  <2> QED BY <2>1, <2>2
<1>4. CASE UNCHANGED hvars
  BY <1>4, AsideChaos DEF hvars, vars, data
<1> QED BY <1>1, <1>2, <1>3, <1>4 DEF HNext

LEMMA ProblemsWellFormed == Relax!WellFormed
<1>1. \A p \in Problems : \A i \in Rows : p[1][i] \ {i} \subseteq Rows
  BY RelaxProblems DEF Patterns
<1> QED BY <1>1, MaxGenAssumption DEF Relax!WellFormed, RowNeeds
-----------------------------------------------------------------------------
(***************************************************************************)
(* Why a chaotic relaxation contracts.                                     *)
(***************************************************************************)
Gens == 0 .. MaxGen

ViewTypes ==
  /\ Generation \in [Relax!Comps -> Gens]
  /\ Doing \in [Threads -> SUBSET Relax!Comps]
  /\ Unread \in [Threads -> SUBSET Relax!Comps]
  /\ Lowest \in [Threads -> Gens]
  /\ rounds \in Gens
  /\ fresh \subseteq Relax!Comps
  /\ ontime \subseteq Threads

(***************************************************************************)
(* What a complete round relies on: components stored by work of this      *)
(* round are one generation ahead, and such work has read nothing older    *)
(* than the round.                                                         *)
(***************************************************************************)
RoundInv ==
  /\ \A c \in fresh : Relax!Up1(rounds) <= Generation[c]
  /\ \A t \in ontime : rounds <= Lowest[t]

CInv ==
  /\ RowNeeds(mat) \in {RowNeeds(p[1]) : p \in Problems}
  /\ ViewTypes /\ Relax!Contracts /\ RoundInv

\* Between two components a thread has read nothing.
Rested ==
  /\ Lowest \in [Threads -> Gens]
  /\ \A u \in Threads : Doing[u] = {} => Lowest[u] = MaxGen /\ Unread[u] = {}

\* Up1 on generations: stays in range, is monotonic and does not decrease.
LEMMA Up1Facts ==
  ASSUME NEW g \in Gens, NEW h \in Gens
  PROVE  /\ Relax!Up1(g) \in Gens /\ g <= Relax!Up1(g)
         /\ g <= h => Relax!Up1(g) <= Relax!Up1(h)
BY MaxGenAssumption DEF Relax!Up1, Gens

LEMMA InitContracts == ASSUME Relax!RInit PROVE CInv /\ Rested
BY MaxGenAssumption
   DEF Relax!RInit, Relax!Init, Relax!Guess, Relax!NoWork, Relax!Contracts, Relax!Comps,
       Relax!Up1, CInv, ViewTypes, RoundInv, Rested, Gens

\* A new problem starts with generation 0 and no rounds.
LEMMA RestartContracts ==
  ASSUME CInv, Relax!NewProblem, Relax!Restarted PROVE CInv'
BY MaxGenAssumption
   DEF Relax!NewProblem, Relax!Restarted, Relax!NoWork, Relax!Contracts, Relax!Comps,
       Relax!Up1, CInv, ViewTypes, RoundInv, Gens

\* Work that begins has read nothing yet.
LEMMA BeginContracts ==
  ASSUME CInv, Rested, NEW t \in Threads, NEW c \in Relax!Comps,
         Relax!Begin(t, c), Relax!Began(t)
  PROVE  CInv'
<1>1. ViewTypes'
  <2>1. RowNeeds(mat)[c] \subseteq Relax!Comps
    BY ProblemsWellFormed DEF Relax!WellFormed, CInv, Relax!Comps
  <2> QED BY <2>1 DEF CInv, ViewTypes, Relax!Begin, Relax!Began, Relax!Comps
<1>2. rounds <= MaxGen /\ Lowest[t] = MaxGen
  BY MaxGenAssumption DEF CInv, ViewTypes, Rested, Relax!Begin, Gens
<1>3. Relax!Contracts'
  BY <1>2, MaxGenAssumption
     DEF CInv, ViewTypes, Relax!Contracts, Relax!Begin, Relax!Began, Relax!Comps, Relax!Up1, Gens
<1>4. RoundInv'
  BY <1>2 DEF CInv, RoundInv, Relax!Begin, Relax!Began, Relax!Up1
<1> QED BY <1>1, <1>3, <1>4 DEF CInv, Relax!Begin

\* What is read has at least the generation of the round.
LEMMA ReadContracts ==
  ASSUME CInv, NEW t \in Threads, NEW d \in Relax!Comps, Relax!Read(t, d),
         UNCHANGED Relax!history
  PROVE  CInv'
<1>1. /\ Generation[d] \in Gens /\ rounds <= Generation[d]
      /\ rounds \in Gens /\ Lowest[t] \in Gens
  BY DEF CInv, ViewTypes, Relax!Contracts
<1>2. /\ Lowest' \in [Threads -> Gens]
      /\ \A u \in Threads : Lowest'[u] = Lowest[u] \/ Lowest'[u] = Generation[d]
  BY <1>1 DEF Relax!Read, CInv, ViewTypes
<1>3. ViewTypes'
  BY <1>2 DEF CInv, ViewTypes, Relax!Read, Relax!history, Relax!Comps
<1>4. rounds <= Relax!Up1(Generation[d])
  BY <1>1, Up1Facts, MaxGenAssumption DEF Gens
<1>5. Relax!Contracts'
  BY <1>2, <1>4
     DEF CInv, Relax!Contracts, Relax!Read, Relax!history, Relax!Comps, Relax!Up1
<1>6. RoundInv'
  BY <1>1, <1>2 DEF CInv, ViewTypes, RoundInv, Relax!Read, Relax!history, Relax!Up1
<1> QED BY <1>3, <1>5, <1>6 DEF CInv, Relax!Read

\* A store is of the round's generation, and if the round is over all are ahead.
LEMMA StoreContracts ==
  ASSUME CInv, NEW t \in Threads, Relax!Store(t), Relax!Stored(t)
  PROVE  CInv'
<1> DEFINE g == Relax!Up1(Lowest[t])
<1>0. /\ Lowest[t] \in Gens /\ rounds \in Gens /\ g \in Gens /\ rounds <= g
      /\ \A u \in Threads : Lowest[u] \in Gens
      /\ \A c \in Relax!Comps : Generation[c] \in Gens
      /\ Relax!Comps' = Relax!Comps
  BY Up1Facts DEF CInv, ViewTypes, Relax!Contracts, Relax!Store, Relax!Comps
<1>1. /\ \A c \in Relax!Comps : Generation'[c] = IF c \in Doing[t] THEN g ELSE Generation[c]
      /\ Generation' \in [Relax!Comps' -> Gens]
  BY <1>0 DEF Relax!Store
<1>2. /\ Doing' \in [Threads -> SUBSET Relax!Comps]
      /\ Doing'[t] = {}
      /\ \A u \in Threads \ {t} : Doing'[u] = Doing[u] /\ Lowest'[u] = Lowest[u]
      /\ Lowest'[t] = MaxGen
      /\ Lowest' \in [Threads -> Gens]
  BY MaxGenAssumption DEF Relax!Store, CInv, ViewTypes, Gens
<1>3. t \in ontime => Relax!Up1(rounds) <= g
  BY <1>0, Up1Facts DEF CInv, RoundInv
<1>4. \A c \in Relax!FreshAfter(t) : Relax!Up1(rounds) <= Generation'[c]
  BY <1>0, <1>1, <1>3 DEF Relax!FreshAfter, CInv, ViewTypes, RoundInv
<1>5. CASE /\ Relax!RoundComplete(t)
           /\ rounds' = Relax!Up1(rounds) /\ fresh' = {} /\ ontime' = {}
  <2>1. ViewTypes'
    BY <1>0, <1>1, <1>2, <1>5, Up1Facts DEF CInv, ViewTypes, Relax!Store, Relax!Comps
  <2>2. \A c \in Relax!Comps' : rounds' <= Generation'[c]
    BY <1>0, <1>4, <1>5 DEF Relax!RoundComplete
  <2>3. \A u \in Threads : Doing'[u] # {} => rounds' <= Relax!Up1(Lowest'[u])
    BY <1>0, <1>2, <1>5, Up1Facts DEF Relax!RoundComplete, CInv, RoundInv
  <2>4. Relax!Contracts'
    BY <2>2, <2>3 DEF Relax!Contracts, Relax!Up1
  <2> QED BY <1>5, <2>1, <2>4 DEF CInv, RoundInv, Relax!Store
<1>6. CASE /\ ~Relax!RoundComplete(t) /\ rounds' = rounds
           /\ fresh' = Relax!FreshAfter(t) /\ ontime' = ontime \ {t}
  <2>1. ViewTypes'
    BY <1>0, <1>1, <1>2, <1>6
       DEF CInv, ViewTypes, Relax!Store, Relax!Comps, Relax!FreshAfter
  <2>2. \A c \in Relax!Comps' : rounds' <= Generation'[c]
    BY <1>0, <1>1, <1>6 DEF CInv, Relax!Contracts
  <2>3. \A u \in Threads : Doing'[u] # {} => rounds' <= Relax!Up1(Lowest'[u])
    BY <1>2, <1>6 DEF CInv, Relax!Contracts
  <2>4. Relax!Contracts'
    BY <2>2, <2>3 DEF Relax!Contracts, Relax!Up1
  <2>5. RoundInv'
    BY <1>2, <1>4, <1>6 DEF CInv, ViewTypes, RoundInv, Relax!Up1
  <2> QED BY <2>1, <2>4, <2>5 DEF CInv, Relax!Store
<1> QED BY <1>5, <1>6 DEF Relax!Stored

LEMMA StepContracts ==
  ASSUME CInv, Rested, [Relax!RNext]_Relax!rvars PROVE CInv' /\ Rested'
<1>1. CASE Relax!NewProblem /\ Relax!Restarted
  BY <1>1, RestartContracts, MaxGenAssumption
     DEF Rested, Relax!NewProblem, Relax!NoWork, Gens
<1>2. ASSUME NEW t \in Threads, NEW c \in Relax!Comps, Relax!Begin(t, c), Relax!Began(t)
      PROVE  CInv' /\ Rested'
  BY <1>2, BeginContracts DEF Rested, Relax!Begin, CInv, ViewTypes
<1>3. ASSUME NEW t \in Threads, NEW c \in Relax!Comps, Relax!Read(t, c),
             UNCHANGED Relax!history
      PROVE  CInv' /\ Rested'
  BY <1>3, ReadContracts DEF Rested, Relax!Read, CInv, ViewTypes
<1>4. ASSUME NEW t \in Threads, Relax!Store(t), Relax!Stored(t)
      PROVE  CInv' /\ Rested'
  BY <1>4, StoreContracts, MaxGenAssumption
     DEF Rested, Relax!Store, CInv, ViewTypes, Gens
<1>5. CASE UNCHANGED Relax!rvars
  BY <1>5 DEF Rested, CInv, ViewTypes, RoundInv, Relax!Contracts, Relax!rvars,
              Relax!rcvars, Relax!history, Relax!Comps, Relax!Up1
<1> QED BY <1>1, <1>2, <1>3, <1>4, <1>5 DEF Relax!RNext

(***************************************************************************)
(* Chaotic relaxation (relaxation_chaotic.cpp, apply_relax of the SGS      *)
(* classes) gains a factor of the contraction in each round of its sweeps, *)
(* in every component and for good.                                        *)
(***************************************************************************)
THEOREM RelaxationContracts == Relax!RSpec => []Relax!Contracts
<1>1. Relax!RInit => CInv /\ Rested BY InitContracts
<1>2. CInv /\ Rested /\ [Relax!RNext]_Relax!rvars => CInv' /\ Rested'
  BY StepContracts
<1>3. CInv => Relax!Contracts BY DEF CInv
<1> QED BY <1>1, <1>2, <1>3, PTL DEF Relax!RSpec
-----------------------------------------------------------------------------
(***************************************************************************)
(* The relaxations keep to their types, and so the loops are left one by   *)
(* one: no thread is behind the end of the last loop or ahead of the team. *)
(***************************************************************************)
THEOREM RelaxationTypes == HSpec => []TypeOK
<1>1. HInit => RInv BY InitRInv DEF HInit
<1>2. RInv /\ [HNext]_hvars => RInv' BY StepRInv
<1>3. RInv => TypeOK BY DEF RInv, Types
<1> QED BY <1>1, <1>2, <1>3, PTL DEF HSpec

(***************************************************************************)
(* The sweeps of the level-scheduled, asynchronous and chaotic relaxations *)
(* are a chaotic relaxation of the rows of x.                              *)
(***************************************************************************)
THEOREM RelaxesChaotically == HSpec => ImplementsRelaxation
<1>1. HInit => RInv /\ Relax!RInit BY InitRInv, InitChaos DEF HInit
<1>2. RInv /\ [HNext]_hvars => RInv' /\ [Relax!RNext]_Relax!rvars BY StepRInv, StepChaos
<1> QED BY <1>1, <1>2, PTL DEF HSpec, ImplementsRelaxation, Relax!RSpec

(***************************************************************************)
(* They take a factor off the error in every round of overlapping sweeps,  *)
(* in every component and for good, with any number of threads.            *)
(***************************************************************************)
THEOREM RelaxationsContract == HSpec => []Contracts
<1>1. Relax!RSpec => []Relax!Contracts BY RelaxationContracts
<1> QED BY <1>1, RelaxesChaotically, PTL DEF ImplementsRelaxation, Contracts
-----------------------------------------------------------------------------
(***************************************************************************)
(* Column sweeps.  From when the last loop is open on, nobody resets, and  *)
(* what the last sweep has to subtract has been subtracted or is owed: its *)
(* column is left, or given to a thread that has not come to it.  In a     *)
(* single sweep the rows are reset before.                                 *)
(***************************************************************************)
Elems(s) == {s[k] : k \in 1 .. Len(s)}

Columns == opt.kind = "columns" /\ opt.steps # 0

Owed(i, c) ==
  \/ open = NLoops /\ c \in Elems(left)
  \/ \E u \in Threads : /\ at[u] = NLoops
                        /\ c \in Elems(job[u])
                        /\ busy[u] /\ c = Row(u) => i \in unread[u]

ToReset(i) ==
  \/ open = 1 /\ i \in Elems(left)
  \/ \E u \in Threads : at[u] = 1 /\ i \in Elems(job[u])

Past == \A t \in opt.team : at[t] >= NLoops \/ (at[t] = NLoops - 1 /\ Idle(t))

KeepsAccount ==
  \A i \in Rows : \A c \in Upper(mat, i) : <<opt.steps, c>> \in temp[i] \/ Owed(i, c)

OneSweep ==
  \A i \in Rows : /\ open = 1 => temp[i] = {} \/ ToReset(i)
                  /\ open >= 2 => temp[i] \subseteq Subtracted(1, i)

Subtracting ==
  \A t \in Threads : busy[t] => unread[t] \subseteq AboveDiagonal(Row(t))

ColInv ==
  Columns => /\ temp \in [Rows -> SUBSET (Nat \X Nat)]
             /\ Subtracting
             /\ open >= NLoops => Past /\ KeepsAccount
             /\ opt.steps = 1 => OneSweep

LEMMA ColumnLoopsType ==
  ASSUME opt \in Options, Columns
  PROVE  /\ opt.steps \in Nat \ {0}
         /\ NLoops = 2 * opt.steps
         /\ RowsOf(NLoops) = Down /\ Loop(NLoops).body = "column"
         /\ Sweep(NLoops) = opt.steps
         /\ RowsOf(NLoops - 1) = Down
         /\ Loop(NLoops - 1).wait /\ Loop(NLoops - 1).body = "reset"
         /\ \A l \in 1 .. NLoops : Loop(l).body \in {"reset", "column"}
<1>1. opt.steps \in Nat \ {0} BY RelaxOptions DEF Columns
<1>2. StepLoops = ColumnLoops /\ LoopsPerSweep = 2 /\ Len(StepLoops) = 2
  BY DEF Columns, StepLoops, LoopsPerSweep, ColumnLoops
<1>3. NLoops = 2 * opt.steps BY <1>1, <1>2 DEF NLoops
<1>4. 1 + ((NLoops - 1) % 2) = 2 /\ (NLoops - 1) \div 2 = opt.steps - 1
  BY <1>1, <1>3
<1>5. 1 + ((NLoops - 1 - 1) % 2) = 1 BY <1>1, <1>3
<1>6. Loop(NLoops) = ColumnLoops[2] /\ Loop(NLoops - 1) = ColumnLoops[1]
  BY <1>2, <1>4, <1>5 DEF Loop
<1>7. Sweep(NLoops) = opt.steps BY <1>1, <1>2, <1>4 DEF Sweep
<1>8. \A l \in 1 .. NLoops : Loop(l).body \in {"reset", "column"}
  <2> TAKE l \in 1 .. NLoops
  <2>1. 1 + ((l - 1) % 2) \in {1, 2} BY <1>1, <1>3
  <2>2. Loop(l) \in {ColumnLoops[1], ColumnLoops[2]} BY <1>2, <2>1 DEF Loop
  <2> QED BY <2>2 DEF ColumnLoops, Static, Nowait
<1> QED BY <1>1, <1>3, <1>6, <1>7, <1>8 DEF RowsOf, ColumnLoops, Static, Nowait

LEMMA ElemsDown == Elems(Down) = Rows
<1>1. Len(Down) = N /\ \A k \in 1 .. N : Down[k] = N - k BY NAssumption DEF Down
<1>2. \A i \in Rows : N - i \in 1 .. N /\ N - (N - i) = i BY NAssumption DEF Rows
<1>3. \A k \in 1 .. N : N - k \in Rows BY NAssumption DEF Rows
<1> QED BY <1>1, <1>2, <1>3 DEF Elems

LEMMA ElemsEmpty == Elems(<<>>) = {}
BY DEF Elems

\* The parts of a sequence from which a chunk is taken.
LEMMA ClaimParts ==
  ASSUME NEW s \in Seq(Rows), NEW p \in 1 .. Len(s), NEW q \in 1 .. Len(s), p <= q
  PROVE  LET b == SubSeq(s, p, q)
             d == SubSeq(s, 1, p - 1) \o SubSeq(s, q + 1, Len(s))
         IN  /\ Len(b) = q - p + 1
             /\ \A i \in 1 .. q - p + 1 : b[i] = s[p + i - 1]
             /\ Len(d) = Len(s) - (q - p + 1)
             /\ \A i \in 1 .. Len(s) - (q - p + 1) :
                  d[i] = IF i < p THEN s[i] ELSE s[i + (q - p + 1)]
<1>2. \A i \in 1 .. Len(s) : s[i] \in Rows OBVIOUS
<1> DEFINE a == SubSeq(s, 1, p - 1)  b == SubSeq(s, p, q)  c == SubSeq(s, q + 1, Len(s))
<1>3. /\ a \in Seq(Rows) /\ Len(a) = p - 1 /\ \A i \in 1 .. p - 1 : a[i] = s[i]
  <2>1. \A i \in 1 .. p - 1 : s[i] \in Rows BY <1>2
  <2>2. /\ a \in Seq(Rows)
        /\ Len(a) = IF 1 <= p - 1 THEN p - 1 - 1 + 1 ELSE 0
        /\ \A i \in 1 .. p - 1 - 1 + 1 : a[i] = s[1 + i - 1]
    BY <2>1, SubSeqProperties
  <2> HIDE DEF a
  <2> QED BY <2>2
<1>4. /\ c \in Seq(Rows) /\ Len(c) = Len(s) - q
      /\ \A i \in 1 .. Len(s) - q : c[i] = s[q + i]
  <2>1. \A i \in q + 1 .. Len(s) : s[i] \in Rows BY <1>2
  <2>2. /\ c \in Seq(Rows)
        /\ Len(c) = IF q + 1 <= Len(s) THEN Len(s) - (q + 1) + 1 ELSE 0
        /\ \A i \in 1 .. Len(s) - (q + 1) + 1 : c[i] = s[q + 1 + i - 1]
    BY <2>1, SubSeqProperties
  <2> HIDE DEF c
  <2>3. Len(s) \in Nat OBVIOUS
  <2>4. Len(c) = Len(s) - q BY <2>2, <2>3
  <2>5. ASSUME NEW i \in 1 .. Len(s) - q PROVE c[i] = s[q + i]
    <3>1. q + 1 + i - 1 = q + i BY <2>3
    <3>2. i \in 1 .. Len(s) - (q + 1) + 1 BY <2>3
    <3> QED BY <2>2, <3>1, <3>2
  <2> QED BY <2>2, <2>4, <2>5
<1>5. Len(b) = q - p + 1 /\ \A i \in 1 .. q - p + 1 : b[i] = s[p + i - 1]
  <2>1. \A i \in p .. q : s[i] \in Rows BY <1>2
  <2> QED BY <2>1, SubSeqProperties
<1> HIDE DEF a, b, c
<1>6. /\ Len(a \o c) = Len(s) - (q - p + 1)
      /\ \A i \in 1 .. Len(s) - (q - p + 1) :
           (a \o c)[i] = IF i < p THEN a[i] ELSE c[i - (p - 1)]
  <2>1. /\ Len(a \o c) = Len(a) + Len(c)
        /\ \A i \in 1 .. Len(a) + Len(c) :
             (a \o c)[i] = IF i <= Len(a) THEN a[i] ELSE c[i - Len(a)]
    BY <1>3, <1>4, ConcatProperties
  <2> QED BY <1>3, <1>4, <2>1
<1>7. ASSUME NEW i \in 1 .. Len(s) - (q - p + 1)
      PROVE  (a \o c)[i] = IF i < p THEN s[i] ELSE s[i + (q - p + 1)]
  <2>1. CASE i < p BY <1>3, <1>6, <1>7, <2>1
  <2>2. CASE ~(i < p)
    <3>1. i - (p - 1) \in 1 .. Len(s) - q /\ q + (i - (p - 1)) = i + (q - p + 1)
      BY <1>7, <2>2
    <3> QED BY <1>4, <1>6, <1>7, <2>2, <3>1
  <2> QED BY <2>1, <2>2
<1> QED BY <1>5, <1>6, <1>7 DEF a, b, c

LEMMA ElemsClaim ==
  ASSUME NEW s \in Seq(Rows), NEW p \in 1 .. Len(s), NEW q \in 1 .. Len(s), p <= q
  PROVE  Elems(s) = Elems(SubSeq(s, p, q))
                      \cup Elems(SubSeq(s, 1, p - 1) \o SubSeq(s, q + 1, Len(s)))
<1> DEFINE b == SubSeq(s, p, q)
           d == SubSeq(s, 1, p - 1) \o SubSeq(s, q + 1, Len(s))
           n == q - p + 1
<1>1. /\ Len(b) = n /\ \A i \in 1 .. n : b[i] = s[p + i - 1]
      /\ Len(d) = Len(s) - n
      /\ \A i \in 1 .. Len(s) - n : d[i] = IF i < p THEN s[i] ELSE s[i + n]
  BY ClaimParts
<1>2. n \in 1 .. Len(s) /\ n = q - p + 1 /\ Len(s) \in Nat OBVIOUS
<1> HIDE DEF b, d, n
<1>3. ASSUME NEW k \in 1 .. Len(s) PROVE s[k] \in Elems(b) \cup Elems(d)
  <2>1. CASE k < p
    <3>1. k \in 1 .. Len(s) - n /\ d[k] = s[k] BY <1>1, <1>2, <2>1
    <3> QED BY <1>1, <3>1 DEF Elems
  <2>2. CASE p <= k /\ k <= q
    <3>1. k - p + 1 \in 1 .. n /\ p + (k - p + 1) - 1 = k BY <1>2, <2>2
    <3>2. b[k - p + 1] = s[k] BY <1>1, <3>1
    <3> QED BY <1>1, <3>1, <3>2 DEF Elems
  <2>3. CASE q < k
    <3>1. k - n \in 1 .. Len(s) - n /\ ~(k - n < p) /\ (k - n) + n = k BY <1>2, <2>3
    <3>2. d[k - n] = s[k] BY <1>1, <3>1
    <3> QED BY <1>1, <3>1, <3>2 DEF Elems
  <2> QED BY <2>1, <2>2, <2>3
<1>4. ASSUME NEW i \in 1 .. n PROVE b[i] \in Elems(s)
  <2>1. p + i - 1 \in 1 .. Len(s) BY <1>2
  <2> QED BY <1>1, <2>1 DEF Elems
<1>5. ASSUME NEW i \in 1 .. Len(s) - n PROVE d[i] \in Elems(s)
  <2>1. i \in 1 .. Len(s) /\ i + n \in 1 .. Len(s) BY <1>2
  <2> QED BY <1>1, <2>1 DEF Elems
<1>6. Elems(s) \subseteq Elems(b) \cup Elems(d) BY <1>3 DEF Elems
<1>7. Elems(b) \subseteq Elems(s) /\ Elems(d) \subseteq Elems(s)
  BY <1>1, <1>4, <1>5 DEF Elems
<1> QED BY <1>6, <1>7 DEF b, d

LEMMA ElemsTail ==
  ASSUME NEW s \in Seq(Rows), s # <<>>, NEW e \in Elems(s), e # Head(s)
  PROVE  e \in Elems(Tail(s))
<1>1. PICK k \in 1 .. Len(s) : e = s[k] BY DEF Elems
<1>2. k # 1 BY <1>1
<1>3. k - 1 \in 1 .. Len(Tail(s)) /\ Tail(s)[k - 1] = s[k]
  BY <1>2, HeadTailProperties
<1> QED BY <1>1, <1>3 DEF Elems
-----------------------------------------------------------------------------
(***************************************************************************)
(* The steps of column sweeps.                                             *)
(***************************************************************************)
LEMMA SteadyColumns ==
  ASSUME opt' = opt, prob' = prob
  PROVE  /\ Columns' <=> Columns
         /\ NLoops' = NLoops
         /\ \A i \in Rows : Upper(mat, i)' = Upper(mat, i)
         /\ \A i : AboveDiagonal(i)' = AboveDiagonal(i)
         /\ \A i \in Rows : Subtracted(1, i)' = Subtracted(1, i)
<1>1. mat' = mat BY DEF mat
<1> QED BY <1>1, Steady DEF Columns, Upper, AboveDiagonal, Subtracted

LEMMA InitCol == ASSUME Init PROVE ColInv
<1>1. Columns => NLoops \in Nat /\ NLoops >= 2 BY ColumnLoopsType DEF Init
<1>2. Zeroed \in [Rows -> SUBSET (Nat \X Nat)] BY DEF Zeroed
<1> QED BY <1>1, <1>2 DEF Init, ColInv, Subtracting, OneSweep

LEMMA CallCol == ASSUME RInv, Columns, Call PROVE ColInv'
<1>1. /\ NLoops = 2 * opt.steps /\ opt.steps \in Nat \ {0}
      /\ opt.steps = 1 => RowsOf(1) = Down
  BY ColumnLoopsType DEF RInv, Types, TypeOK
<1>2. \A t \in Threads : ~busy'[t]
  <2>1. \A t \in Threads : ~Running(t) BY <1>1 DEF Call, Running
  <2> QED BY <2>1, NothingHeld DEF Call
<1>3. NLoops' = NLoops /\ opt' = opt BY Steady DEF Call
<1>4. opt.steps = 1 => OneSweep' BY <1>1, ElemsDown DEF Call, OneSweep, ToReset
<1>5. Zeroed \in [Rows -> SUBSET (Nat \X Nat)] BY DEF Zeroed
<1> QED BY <1>1, <1>2, <1>3, <1>4, <1>5 DEF Call, ColInv, Subtracting

LEMMA ClaimCol ==
  ASSUME RInv, ColInv, Columns, NEW t \in Threads, Claim(t)
  PROVE  ColInv'
<1> USE DEF Claim, data
<1>1. /\ NLoops' = NLoops /\ Columns'
      /\ \A i \in Rows : Upper(mat, i)' = Upper(mat, i)
      /\ \A i : AboveDiagonal(i)' = AboveDiagonal(i)
      /\ \A i \in Rows : Subtracted(1, i)' = Subtracted(1, i)
  BY SteadyColumns
<1>2. /\ job[t] = <<>> /\ ~busy[t] /\ at[t] = open
      /\ \A u \in Threads \ {t} : job'[u] = job[u]
      /\ \A e \in Elems(left) : e \in Elems(job'[t]) \/ e \in Elems(left')
  <2>1. PICK c \in Claims :
          /\ job' = [job EXCEPT ![t] = SubSeq(left, c[1], c[2])]
          /\ left' = SubSeq(left, 1, c[1] - 1) \o SubSeq(left, c[2] + 1, Len(left))
    OBVIOUS
  <2>2. c[1] \in 1 .. Len(left) /\ c[2] \in 1 .. Len(left) /\ c[1] <= c[2]
    BY ClaimsInLeft
  <2>3. Elems(left) = Elems(job'[t]) \cup Elems(left')
    BY <2>1, <2>2, ElemsClaim DEF RInv, Types
  <2> QED BY <2>1, <2>3 DEF RInv, Types, Held, Idle
<1>3. \A u \in Threads : job[u] # <<>> => u # t BY <1>2
<1>4. Subtracting'
  BY <1>1, <1>2 DEF ColInv, Subtracting, Row
<1>5. ASSUME open >= NLoops PROVE Past' /\ KeepsAccount'
  <2>1. Past'
    BY <1>1, <1>2, <1>5 DEF ColInv, Past, Idle, RInv, Types, TypeOK, Held
  <2>2. ASSUME NEW i \in Rows, NEW c \in Upper(mat, i), <<opt.steps, c>> \notin temp[i]
        PROVE  Owed(i, c)'
    <3>1. Owed(i, c) BY <1>5, <2>2 DEF ColInv, KeepsAccount
    <3>2. CASE open = NLoops /\ c \in Elems(left)
      BY <1>1, <1>2, <3>2 DEF Owed
    <3>3. ASSUME NEW u \in Threads, at[u] = NLoops, c \in Elems(job[u]),
                 busy[u] /\ c = Row(u) => i \in unread[u]
          PROVE  Owed(i, c)'
      <4>1. u # t BY <1>2, <3>3, ElemsEmpty
      <4> QED BY <1>1, <1>2, <3>3, <4>1 DEF Owed, Row
    <3> QED BY <3>1, <3>2, <3>3 DEF Owed
  <2> QED BY <1>1, <2>1, <2>2 DEF KeepsAccount
<1>6. ASSUME OneSweep PROVE OneSweep'
  <2>1. ASSUME NEW i \in Rows, open = 1, ToReset(i) PROVE ToReset(i)'
    <3>1. CASE i \in Elems(left) BY <1>2, <2>1, <3>1 DEF ToReset
    <3>2. ASSUME NEW u \in Threads, at[u] = 1, i \in Elems(job[u]) PROVE ToReset(i)'
      <4>1. u # t BY <1>2, <3>2, ElemsEmpty
      <4> QED BY <1>2, <3>2, <4>1 DEF ToReset
    <3> QED BY <2>1, <3>1, <3>2 DEF ToReset
  <2> QED BY <1>1, <1>6, <2>1 DEF OneSweep
<1> QED BY <1>1, <1>4, <1>5, <1>6 DEF ColInv

\* Who waits at a barrier finds the team there, with nothing in hand.
LEMMA TeamGathered ==
  ASSUME RInv, NEW l \in Nat, open = l, TeamDone(l), NEW u \in opt.team
  PROVE  at[u] = l /\ Idle(u)
<1>1. u \in Threads BY TeamAssumption, RelaxOptions DEF RInv, Types, TypeOK
<1>2. at[u] <= l /\ at[u] \in Int BY <1>1 DEF RInv, Types, TypeOK
<1>3. at[u] > l \/ (at[u] = l /\ Idle(u)) BY DEF TeamDone
<1> QED BY <1>2, <1>3

LEMMA ProceedCol ==
  ASSUME RInv, ColInv, Columns, NEW t \in Threads, Proceed(t)
  PROVE  ColInv'
<1> USE DEF Proceed, data, shared
<1>1. /\ NLoops' = NLoops /\ Columns' /\ opt' = opt
      /\ \A i \in Rows : Upper(mat, i)' = Upper(mat, i)
      /\ \A i : AboveDiagonal(i)' = AboveDiagonal(i)
      /\ \A i \in Rows : Subtracted(1, i)' = Subtracted(1, i)
  BY SteadyColumns
<1>2. /\ opt.steps \in Nat \ {0} /\ NLoops = 2 * opt.steps
      /\ RowsOf(NLoops) = Down /\ Loop(NLoops - 1).wait
  BY ColumnLoopsType DEF RInv, Types, TypeOK
<1>3. /\ job[t] = <<>> /\ at'[t] = at[t] + 1 /\ at[t] \in 1 .. NLoops
      /\ \A u \in Threads \ {t} : at'[u] = at[u]
      /\ \A u \in Threads : at[u] \in 0 .. NLoops + 1 /\ at[u] <= open
      /\ open \in 0 .. NLoops + 1
      /\ opt.team \subseteq Threads
  BY TeamAssumption, RelaxOptions DEF RInv, Types, TypeOK, Running, Idle
<1>4. Subtracting' BY <1>1 DEF ColInv, Subtracting, Row
<1>5. open' \in {open, open + 1} /\ (open' = open + 1 => at[t] = open /\ left = <<>>)
      /\ (open' = open => left' = left)
  BY <1>3
<1>6. CASE open >= NLoops
  <2>1. Past' BY <1>1, <1>2, <1>3, <1>6 DEF ColInv, Past, Idle
  <2>2. ASSUME NEW i \in Rows, NEW c \in Upper(mat, i), <<opt.steps, c>> \notin temp[i]
        PROVE  Owed(i, c)'
    <3>1. Owed(i, c) BY <1>6, <2>2 DEF ColInv, KeepsAccount
    <3>2. CASE open = NLoops /\ c \in Elems(left)
      BY <1>1, <1>5, <3>2, ElemsEmpty DEF Owed
    <3>3. ASSUME NEW u \in Threads, at[u] = NLoops, c \in Elems(job[u]),
                 busy[u] /\ c = Row(u) => i \in unread[u]
          PROVE  Owed(i, c)'
      <4>1. u # t BY <1>3, <3>3, ElemsEmpty
      <4> QED BY <1>1, <1>3, <3>3, <4>1 DEF Owed, Row
    <3> QED BY <3>1, <3>2, <3>3 DEF Owed
  <2>3. KeepsAccount' BY <1>1, <2>2 DEF KeepsAccount
  <2>4. opt.steps = 1 => OneSweep'
    BY <1>1, <1>2, <1>3, <1>5, <1>6 DEF ColInv, OneSweep
  <2> QED BY <1>1, <1>4, <2>1, <2>3, <2>4 DEF ColInv
<1>7. CASE open < NLoops /\ open' < NLoops
  <2>1. opt.steps = 1 => open = 1 /\ open' = 1 BY <1>2, <1>3, <1>5, <1>7
  <2>2. ASSUME opt.steps = 1, NEW i \in Rows, ToReset(i) PROVE ToReset(i)'
    <3>1. open' = open /\ left' = left /\ at[t] = 1 BY <1>3, <1>5, <2>1, <2>2
    <3> QED BY <1>3, <2>1, <2>2, <3>1 DEF ToReset
  <2>3. opt.steps = 1 => OneSweep' BY <2>1, <2>2 DEF ColInv, OneSweep
  <2>4. ~(open' >= NLoops') BY <1>1, <1>2, <1>3, <1>5, <1>7
  <2> QED BY <1>1, <1>4, <2>3, <2>4 DEF ColInv
<1>8. CASE open < NLoops /\ open' >= NLoops
  <2>1. open = NLoops - 1 /\ at[t] = NLoops - 1 /\ left = <<>> /\ left' = Down /\ open' = NLoops
    BY <1>2, <1>3, <1>5, <1>8
  <2>2. TeamDone(NLoops - 1) BY <1>2, <2>1
  <2>4. \A u \in opt.team : at[u] = NLoops - 1 /\ Idle(u)
    BY <1>2, <2>1, <2>2, TeamGathered
  <2>5. Past' BY <1>1, <1>2, <1>3, <2>4 DEF Past, Idle
  <2>6. KeepsAccount'
    <3>1. \A i \in Rows : Upper(mat, i) \subseteq Rows
      BY RelaxProblems DEF RInv, Types, TypeOK, mat, Patterns, Upper
    <3> QED BY <1>1, <2>1, <3>1, ElemsDown DEF KeepsAccount, Owed
  <2>7. ASSUME opt.steps = 1, NEW i \in Rows PROVE temp[i] = {}
    <3>1. temp[i] = {} \/ ToReset(i) BY <1>2, <2>1, <2>7 DEF ColInv, OneSweep
    <3>2. SUFFICES ASSUME ToReset(i) PROVE FALSE BY <3>1
    <3>3. PICK u \in Threads : at[u] = 1 /\ i \in Elems(job[u])
      BY <2>1, <3>2, ElemsEmpty DEF ToReset
    <3>4. u \in opt.team BY <3>3 DEF RInv, Held
    <3> QED BY <2>4, <3>3, <3>4, ElemsEmpty DEF Idle
  <2>8. opt.steps = 1 => OneSweep' BY <1>2, <2>1, <2>7 DEF OneSweep
  <2> QED BY <1>1, <1>4, <2>5, <2>6, <2>8 DEF ColInv
<1> QED BY <1>2, <1>3, <1>5, <1>6, <1>7, <1>8

\* What a kernel finds: a thread that resets is before the last loop, and one
\* that is in a column when the last loop is open is in that loop.
LEMMA KernelPlace ==
  ASSUME RInv, ColInv, Columns, NEW t \in Threads, ~Idle(t)
  PROVE  /\ Body(t) \in {"reset", "column"}
         /\ Body(t) = "reset" => open < NLoops /\ (opt.steps = 1 => open = 1)
         /\ Body(t) = "column" /\ open >= NLoops => at[t] = NLoops /\ Sweep(at[t]) = opt.steps
         /\ Body(t) = "column" /\ opt.steps = 1 => at[t] = NLoops /\ open >= 2
<1>1. /\ opt.steps \in Nat \ {0} /\ NLoops = 2 * opt.steps
      /\ Loop(NLoops).body = "column" /\ Sweep(NLoops) = opt.steps
      /\ Loop(NLoops - 1).body = "reset"
      /\ \A l \in 1 .. NLoops : Loop(l).body \in {"reset", "column"}
  BY ColumnLoopsType DEF RInv, Types, TypeOK
<1>2. at[t] \in 1 .. NLoops /\ at[t] <= open /\ open \in Nat
  BY <1>1, BusyRow DEF RInv, Types, TypeOK
<1>3. t \in opt.team BY <1>2 DEF RInv, Held
<1>4. Body(t) = Loop(at[t]).body BY DEF Body
<1>5. open >= NLoops => at[t] = NLoops
  BY <1>1, <1>2, <1>3 DEF ColInv, Past
<1>6. opt.steps = 1 => at[t] = NLoops - 1 \/ at[t] = NLoops BY <1>1, <1>2
<1>7. Body(t) = "reset" => at[t] # NLoops BY <1>1, <1>4
<1>8. Body(t) = "column" => at[t] # NLoops - 1 BY <1>1, <1>4
<1>9. Body(t) \in {"reset", "column"} BY <1>1, <1>2, <1>4
<1>10. Body(t) = "reset" => open < NLoops /\ (opt.steps = 1 => open = 1)
  BY <1>1, <1>2, <1>5, <1>7
<1>11. Body(t) = "column" /\ open >= NLoops => at[t] = NLoops /\ Sweep(at[t]) = opt.steps
  BY <1>1, <1>5
<1>12. Body(t) = "column" /\ opt.steps = 1 => at[t] = NLoops /\ open >= 2
  BY <1>1, <1>2, <1>6, <1>8
<1> QED BY <1>9, <1>10, <1>11, <1>12

LEMMA ResetCol ==
  ASSUME RInv, ColInv, Columns, NEW t \in Threads, Reset(t)
  PROVE  ColInv'
<1> USE DEF Reset, shared
<1>1. /\ NLoops' = NLoops /\ Columns' /\ opt' = opt
      /\ \A i \in Rows : Subtracted(1, i)' = Subtracted(1, i)
      /\ \A i : AboveDiagonal(i)' = AboveDiagonal(i)
  BY SteadyColumns
<1>2. open < NLoops /\ (opt.steps = 1 => open = 1) /\ ~(open >= NLoops)
  <2>1. NLoops \in Nat /\ open \in Int BY LoopsType DEF RInv, Types, TypeOK
  <2> QED BY <2>1, KernelPlace
<1>3. /\ job[t] # <<>> /\ job[t] \in Seq(Rows) /\ Row(t) \in Rows /\ Row(t) = Head(job[t])
      /\ job'[t] = Tail(job[t]) /\ ~busy'[t]
      /\ \A u \in Threads \ {t} : job'[u] = job[u] /\ busy'[u] = busy[u]
  BY BusyRow DEF Done, Idle, Row, RInv, Types, TypeOK
<1>4. Subtracting' BY <1>1, <1>3 DEF ColInv, Subtracting, Row
<1>5. /\ temp' \in [Rows -> SUBSET (Nat \X Nat)] /\ temp'[Row(t)] = {}
      /\ \A i \in Rows \ {Row(t)} : temp'[i] = temp[i]
  BY <1>3 DEF ColInv
<1>6. ASSUME opt.steps = 1, NEW i \in Rows, i # Row(t), ToReset(i) PROVE ToReset(i)'
  <2>1. CASE i \in Elems(left) BY <1>2, <1>6, <2>1 DEF ToReset
  <2>2. ASSUME NEW u \in Threads, at[u] = 1, i \in Elems(job[u]) PROVE ToReset(i)'
    <3>1. i \in Elems(job'[u]) BY <1>3, <1>6, <2>2, ElemsTail
    <3> QED BY <2>2, <3>1 DEF ToReset
  <2> QED BY <1>6, <2>1, <2>2 DEF ToReset
<1>7. opt.steps = 1 => OneSweep' BY <1>2, <1>5, <1>6 DEF ColInv, OneSweep
<1> QED BY <1>1, <1>2, <1>4, <1>5, <1>7 DEF ColInv

LEMMA StoreColumnCol ==
  ASSUME RInv, ColInv, Columns, NEW t \in Threads, StoreColumn(t)
  PROVE  ColInv'
<1> USE DEF StoreColumn, shared
<1>1. /\ NLoops' = NLoops /\ Columns' /\ opt' = opt
      /\ \A i \in Rows : Upper(mat, i)' = Upper(mat, i)
      /\ \A i : AboveDiagonal(i)' = AboveDiagonal(i)
      /\ \A i \in Rows : Subtracted(1, i)' = Subtracted(1, i)
  BY SteadyColumns
<1>2. /\ busy'[t] /\ unread'[t] = AboveDiagonal(Row(t))
      /\ \A u \in Threads \ {t} : busy'[u] = busy[u] /\ unread'[u] = unread[u]
      /\ \A u \in Threads : Row(u)' = Row(u)
  BY DEF Row, RInv, Types, TypeOK
<1>3. Subtracting' BY <1>1, <1>2 DEF ColInv, Subtracting
<1>4. Past' <=> Past BY <1>1 DEF Past, Idle
<1>5. ASSUME NEW i \in Rows, NEW c \in Upper(mat, i), Owed(i, c) PROVE Owed(i, c)'
  <2>1. i \in AboveDiagonal(c) BY DEF Upper, AboveDiagonal, Rows
  <2>2. CASE open = NLoops /\ c \in Elems(left) BY <1>1, <2>2 DEF Owed
  <2>3. ASSUME NEW u \in Threads, at[u] = NLoops, c \in Elems(job[u]),
               busy[u] /\ c = Row(u) => i \in unread[u]
        PROVE  Owed(i, c)'
    BY <1>1, <1>2, <2>1, <2>3 DEF Owed
  <2> QED BY <1>5, <2>2, <2>3 DEF Owed
<1>6. KeepsAccount => KeepsAccount' BY <1>1, <1>5 DEF KeepsAccount
<1>7. OneSweep => OneSweep' BY <1>1 DEF OneSweep, ToReset
<1> QED BY <1>1, <1>3, <1>4, <1>6, <1>7 DEF ColInv

LEMMA SubtractCol ==
  ASSUME RInv, ColInv, Columns, NEW t \in Threads, NEW k \in Rows, Subtract(t, k)
  PROVE  ColInv'
<1> USE DEF Subtract, shared
<1>1. /\ NLoops' = NLoops /\ Columns' /\ opt' = opt
      /\ \A i \in Rows : Upper(mat, i)' = Upper(mat, i)
      /\ \A i : AboveDiagonal(i)' = AboveDiagonal(i)
      /\ \A i \in Rows : Subtracted(1, i)' = Subtracted(1, i)
  BY SteadyColumns
<1>2. /\ ~Idle(t) /\ Row(t) \in Rows /\ Sweep(at[t]) \in Nat
      /\ \A u \in Threads : Row(u)' = Row(u)
  BY BusyRow DEF RInv, Held, Idle, Row
<1>3. /\ unread'[t] = unread[t] \ {k}
      /\ \A u \in Threads \ {t} : unread'[u] = unread[u]
  BY DEF RInv, Types, TypeOK
<1> DEFINE new == <<Sweep(at[t]), Row(t)>>
<1>4. /\ temp' \in [Rows -> SUBSET (Nat \X Nat)]
      /\ temp'[k] = temp[k] \cup {new}
      /\ \A i \in Rows \ {k} : temp'[i] = temp[i]
  <2>1. new \in Nat \X Nat BY <1>2 DEF Rows
  <2> QED BY <2>1 DEF ColInv
<1>5. Subtracting' BY <1>1, <1>2, <1>3 DEF ColInv, Subtracting
<1>6. Past' <=> Past BY <1>1 DEF Past, Idle
<1>7. ASSUME open >= NLoops PROVE KeepsAccount'
  <2>1. at[t] = NLoops /\ new = <<opt.steps, Row(t)>> BY <1>2, <1>7, KernelPlace
  <2>2. ASSUME NEW i \in Rows, NEW c \in Upper(mat, i), <<opt.steps, c>> \notin temp'[i]
        PROVE  Owed(i, c)'
    <3>1. <<opt.steps, c>> \notin temp[i] /\ (i = k => c # Row(t)) BY <1>4, <2>1, <2>2
    <3>2. Owed(i, c) BY <1>7, <3>1 DEF ColInv, KeepsAccount
    <3>3. CASE open = NLoops /\ c \in Elems(left) BY <1>1, <3>3 DEF Owed
    <3>4. ASSUME NEW u \in Threads, at[u] = NLoops, c \in Elems(job[u]),
                 busy[u] /\ c = Row(u) => i \in unread[u]
          PROVE  Owed(i, c)'
      <4>1. busy'[u] /\ c = Row(u)' => i \in unread'[u] BY <1>2, <1>3, <3>1, <3>4
      <4> QED BY <1>1, <3>4, <4>1 DEF Owed
    <3> QED BY <3>2, <3>3, <3>4 DEF Owed
  <2> QED BY <1>1, <2>2 DEF KeepsAccount
<1>8. ASSUME opt.steps = 1 PROVE OneSweep'
  <2>1. at[t] = NLoops /\ open >= 2 /\ NLoops = 2 /\ Sweep(NLoops) = 1
    BY <1>2, <1>8, KernelPlace, ColumnLoopsType DEF RInv, Types, TypeOK
  <2>2. open \in Nat BY <2>1 DEF RInv, Types, TypeOK
  <2>3. k \in AboveDiagonal(Row(t)) BY DEF ColInv, Subtracting
  <2>4. Row(t) \in Upper(mat, k) BY <1>2, <2>3 DEF AboveDiagonal, Upper, Rows
  <2>5. new \in Subtracted(1, k) BY <2>1, <2>4 DEF Subtracted
  <2> HIDE DEF new
  <2>6. \A i \in Rows : temp'[i] \subseteq Subtracted(1, i)
    BY <1>4, <1>8, <2>1, <2>5 DEF ColInv, OneSweep
  <2> QED BY <1>1, <2>1, <2>2, <2>6 DEF OneSweep
<1> QED BY <1>1, <1>4, <1>5, <1>6, <1>7, <1>8 DEF ColInv

LEMMA EndColumnCol ==
  ASSUME RInv, ColInv, Columns, NEW t \in Threads, EndColumn(t)
  PROVE  ColInv'
<1> USE DEF EndColumn, shared, data
<1>1. /\ NLoops' = NLoops /\ Columns' /\ opt' = opt
      /\ \A i \in Rows : Upper(mat, i)' = Upper(mat, i)
      /\ \A i : AboveDiagonal(i)' = AboveDiagonal(i)
      /\ \A i \in Rows : Subtracted(1, i)' = Subtracted(1, i)
  BY SteadyColumns
<1>2. /\ ~Idle(t) /\ job[t] # <<>> /\ job[t] \in Seq(Rows) /\ Row(t) = Head(job[t])
      /\ job'[t] = Tail(job[t]) /\ ~busy'[t]
      /\ \A u \in Threads \ {t} : job'[u] = job[u] /\ busy'[u] = busy[u]
  BY DEF Done, Idle, Row, RInv, Types, TypeOK, Held
<1>3. Subtracting' BY <1>1, <1>2 DEF ColInv, Subtracting, Row
<1>4. ASSUME open >= NLoops PROVE Past' /\ KeepsAccount'
  <2>1. at[t] = NLoops BY <1>2, <1>4, KernelPlace
  <2>2. NLoops \in Nat BY LoopsType DEF RInv, Types, TypeOK
  <2>3. ASSUME NEW u \in opt.team PROVE (at[u] >= NLoops \/ (at[u] = NLoops - 1 /\ Idle(u)))'
    <3>1. u \in Threads BY TeamAssumption, RelaxOptions DEF RInv, Types, TypeOK
    <3>2. at[u] >= NLoops \/ (at[u] = NLoops - 1 /\ Idle(u)) BY <1>4 DEF ColInv, Past
    <3>3. at' = at OBVIOUS
    <3>4. CASE u = t BY <1>1, <2>1, <2>2, <3>3, <3>4
    <3>5. CASE u # t BY <1>1, <1>2, <3>1, <3>2, <3>3, <3>5 DEF Idle
    <3> QED BY <3>4, <3>5
  <2>4. ASSUME NEW i \in Rows, NEW c \in Upper(mat, i), <<opt.steps, c>> \notin temp[i]
        PROVE  Owed(i, c)'
    <3>1. Owed(i, c) BY <1>4, <2>4 DEF ColInv, KeepsAccount
    <3>2. CASE open = NLoops /\ c \in Elems(left) BY <1>1, <3>2 DEF Owed
    <3>3. ASSUME NEW u \in Threads, at[u] = NLoops, c \in Elems(job[u]),
                 busy[u] /\ c = Row(u) => i \in unread[u]
          PROVE  Owed(i, c)'
      <4>1. CASE u = t
        <5>1. c # Row(t) BY <3>3, <4>1
        <5>2. c \in Elems(job'[t]) BY <1>2, <3>3, <4>1, <5>1, ElemsTail
        <5> QED BY <1>1, <1>2, <3>3, <4>1, <5>2 DEF Owed
      <4>2. CASE u # t BY <1>1, <1>2, <3>3, <4>2 DEF Owed, Row
      <4> QED BY <4>1, <4>2
    <3> QED BY <3>1, <3>2, <3>3 DEF Owed
  <2> QED BY <1>1, <2>3, <2>4 DEF KeepsAccount, Past
<1>5. ASSUME opt.steps = 1 PROVE OneSweep'
  <2>1. open >= 2 /\ open \in Nat
    BY <1>2, <1>5, KernelPlace, LoopsType DEF RInv, Types, TypeOK
  <2> QED BY <1>1, <1>5, <2>1 DEF ColInv, OneSweep
<1> QED BY <1>1, <1>3, <1>4, <1>5 DEF ColInv

LEMMA StepCol == ASSUME RInv, ColInv, [HNext]_hvars PROVE ColInv'
<1>1. CASE ~Columns
  <2>1. opt' = opt /\ prob' = prob
    BY DEF HNext, HWork, Quiet, Call, ToleranceMet, Return, Claim, Proceed, Begin, Read,
           Store, CopyBack, Reset, StoreColumn, Subtract, EndColumn, hvars, vars
  <2> QED BY <1>1, <2>1, SteadyColumns DEF ColInv
<1>2. CASE Columns
  <2>1. CASE Call BY <1>2, <2>1, CallCol
  <2>2. CASE ToleranceMet BY <1>2, <2>2 DEF ToleranceMet, Columns
  <2>3. CASE Return
    <3>1. NLoops' = NLoops /\ Columns' /\ NLoops >= 2 /\ NLoops \in Nat /\ open' = 0
          /\ \A i : AboveDiagonal(i)' = AboveDiagonal(i)
      BY <1>2, <2>3, SteadyColumns, ColumnLoopsType DEF Return, RInv, Types, TypeOK
    <3>2. UNCHANGED <<job, busy, unread, temp, opt>> BY <2>3 DEF Return, data
    <3>3. Subtracting' BY <1>2, <3>1, <3>2 DEF ColInv, Subtracting, Row
    <3>4. OneSweep' BY <3>1 DEF OneSweep
    <3> QED BY <1>2, <3>1, <3>2, <3>3, <3>4 DEF ColInv
  <2>4. ASSUME NEW t \in Threads, HWork(t) PROVE ColInv'
    <3>1. ~(Begin(t) \/ Store(t) \/ CopyBack(t) \/ \E j \in Rows : Read(t, j))
      BY <1>2, KernelPlace DEF Begin, Store, CopyBack, Read, RInv, Held, Idle
    <3>2. CASE Claim(t) BY <1>2, <3>2, ClaimCol
    <3>3. CASE Proceed(t) BY <1>2, <3>3, ProceedCol
    <3>4. CASE Reset(t) BY <1>2, <3>4, ResetCol
    <3>5. CASE StoreColumn(t) BY <1>2, <3>5, StoreColumnCol
    <3>6. ASSUME NEW i \in Rows, Subtract(t, i) PROVE ColInv' BY <1>2, <3>6, SubtractCol
    <3>7. CASE EndColumn(t) BY <1>2, <3>7, EndColumnCol
    <3> QED BY <2>4, <3>1, <3>2, <3>3, <3>4, <3>5, <3>6, <3>7 DEF HWork, Quiet
  <2>5. CASE UNCHANGED hvars
    <3>1. /\ NLoops' = NLoops /\ Columns' /\ opt' = opt
          /\ \A i \in Rows : Upper(mat, i)' = Upper(mat, i)
          /\ \A i : AboveDiagonal(i)' = AboveDiagonal(i)
          /\ \A i \in Rows : Subtracted(1, i)' = Subtracted(1, i)
      BY <1>2, <2>5, SteadyColumns DEF hvars, vars
    <3>2. UNCHANGED <<at, open, left, job, busy, unread, temp, opt>>
      BY <2>5 DEF hvars, vars, data
    <3>3. Subtracting' BY <1>2, <3>1, <3>2 DEF ColInv, Subtracting, Row
    <3>4. Past' <=> Past BY <3>1, <3>2 DEF Past, Idle
    <3>5. \A i, c : Owed(i, c)' <=> Owed(i, c) BY <3>1, <3>2 DEF Owed, Row
    <3>6. KeepsAccount' <=> KeepsAccount BY <3>1, <3>2, <3>5 DEF KeepsAccount
    <3>7. \A i : ToReset(i)' <=> ToReset(i) BY <3>2 DEF ToReset
    <3>8. OneSweep' <=> OneSweep BY <3>1, <3>2, <3>7 DEF OneSweep
    <3> QED BY <1>2, <3>1, <3>2, <3>3, <3>4, <3>6, <3>8 DEF ColInv
  <2> QED BY <2>1, <2>2, <2>3, <2>4, <2>5 DEF HNext
<1> QED BY <1>1, <1>2

(***************************************************************************)
(* However many threads sweep over the columns and however they overlap,   *)
(* all that the last sweep has to subtract is there when apply returns,    *)
(* and in a single sweep nothing else.                                     *)
(***************************************************************************)
THEOREM NothingIsLost ==
  ASSUME \A o \in Options : o.steps # 0
  PROVE  HSpec => []NothingLost
<1>1. HInit => RInv /\ ColInv BY InitRInv, InitCol DEF HInit
<1>2. RInv /\ ColInv /\ [HNext]_hvars => RInv' /\ ColInv' BY StepRInv, StepCol
<1>3. ASSUME RInv, ColInv PROVE NothingLost
  <2>1. SUFFICES ASSUME opt.kind = "columns", \A t \in opt.team : at[t] = NLoops + 1,
                        NEW i \in Rows
                 PROVE  /\ Subtracted(opt.steps, i) \subseteq temp[i]
                        /\ (opt.steps = 1 => temp[i] = Subtracted(1, i))
    BY DEF NothingLost
  <2>2. Columns BY <1>3, <2>1 DEF Columns, RInv, Types, TypeOK
  <2>3. NLoops = 2 * opt.steps /\ opt.steps \in Nat \ {0}
    BY <1>3, <2>2, ColumnLoopsType DEF RInv, Types, TypeOK
  <2>4. Master \in opt.team /\ Master \in Threads
    BY <1>3, TeamAssumption, RelaxOptions DEF RInv, Types, TypeOK
  <2>5. open = NLoops + 1 BY <1>3, <2>1, <2>3, <2>4 DEF RInv, Types, TypeOK
  <2>6. ASSUME NEW c \in Upper(mat, i) PROVE ~Owed(i, c)
    <3>1. \A u \in Threads : at[u] # NLoops BY <1>3, <2>1, <2>3 DEF RInv, Held
    <3> QED BY <2>3, <2>5, <3>1 DEF Owed
  <2>7. Subtracted(opt.steps, i) \subseteq temp[i]
    BY <1>3, <2>2, <2>3, <2>5, <2>6 DEF ColInv, KeepsAccount, Subtracted
  <2>8. opt.steps = 1 => temp[i] \subseteq Subtracted(1, i)
    BY <1>3, <2>2, <2>3, <2>5 DEF ColInv, OneSweep
  <2> QED BY <2>7, <2>8
<1> QED BY <1>1, <1>2, <1>3, PTL DEF HSpec
-----------------------------------------------------------------------------
(***************************************************************************)
(* Loops that wait, and one thread.  Where a loop is among the sweeps:     *)
(* first numbers, then the loops of each class.                            *)
(***************************************************************************)
LEMMA Remainder ==
  ASSUME NEW k \in Nat, NEW n \in Nat \ {0}
  PROVE  k % n \in 0 .. n - 1 /\ k \div n \in Nat /\ k = n * (k \div n) + (k % n)
<1>1. k % n \in 0 .. n - 1 /\ k \div n \in Nat BY DivMod
<1>2. k = n * (k \div n) + (k % n) BY SMTT(30)
<1> QED BY <1>1, <1>2

LEMMA OneQuotient ==
  ASSUME NEW n \in Nat \ {0}, NEW q \in Nat, NEW r \in 0 .. n - 1
  PROVE  (n * q + r) \div n = q /\ (n * q + r) % n = r
<1> DEFINE k == n * q + r
           p == k \div n
           s == k % n
<1>1. k \in Nat OBVIOUS
<1>2. p \in Nat /\ s \in 0 .. n - 1 /\ k = n * p + s BY <1>1, Remainder
<1> HIDE DEF p, s
<1>3. n * q \in Nat /\ n * p \in Nat /\ n * q + r = n * p + s BY <1>2
<1>4. \A a, b, c \in Nat : a <= b => a * c <= b * c OBVIOUS
<1>5. ~(p < q)
  <2> SUFFICES ASSUME p < q PROVE FALSE OBVIOUS
  <2>1. (p + 1) * n <= q * n BY <1>2, <1>4
  <2>2. (p + 1) * n = n * p + n /\ q * n = n * q BY <1>2
  <2> QED BY <1>2, <1>3, <2>1, <2>2
<1>6. ~(q < p)
  <2> SUFFICES ASSUME q < p PROVE FALSE OBVIOUS
  <2>1. (q + 1) * n <= p * n BY <1>2, <1>4
  <2>2. (q + 1) * n = n * q + n /\ p * n = n * p BY <1>2
  <2> QED BY <1>2, <1>3, <2>1, <2>2
<1>7. p = q BY <1>2, <1>5, <1>6
<1>8. s = r BY <1>2, <1>3, <1>7
<1> QED BY <1>7, <1>8 DEF p, s

\* The next loop is on the next level, or starts another sweep.
LEMMA NextInSweep ==
  ASSUME NEW n \in Nat \ {0}, NEW k \in Nat
  PROVE  IF k % n < n - 1
         THEN (k + 1) \div n = k \div n /\ (k + 1) % n = (k % n) + 1
         ELSE (k + 1) \div n = (k \div n) + 1 /\ (k + 1) % n = 0 /\ k % n = n - 1
<1> DEFINE q == k \div n
           r == k % n
<1>1. q \in Nat /\ r \in 0 .. n - 1 /\ k = n * q + r BY Remainder
<1> HIDE DEF q, r
<1>2. CASE r < n - 1
  <2>1. (n * q + (r + 1)) \div n = q /\ (n * q + (r + 1)) % n = r + 1
    BY <1>1, <1>2, OneQuotient
  <2>2. n * q + (r + 1) = k + 1 BY <1>1
  <2> QED BY <1>2, <2>1, <2>2 DEF q, r
<1>3. CASE ~(r < n - 1)
  <2>1. (n * (q + 1) + 0) \div n = q + 1 /\ (n * (q + 1) + 0) % n = 0
    BY <1>1, OneQuotient
  <2>2. n * (q + 1) + 0 = n * q + n BY <1>1
  <2>3. r = n - 1 /\ k + 1 = n * q + n BY <1>1, <1>3
  <2> QED BY <1>3, <2>1, <2>2, <2>3 DEF q, r
<1> QED BY <1>2, <1>3

\* Two sweeps make a step.
LEMMA TwoSweeps ==
  ASSUME NEW n \in Nat \ {0}, NEW k \in Nat
  PROVE  k % (2 * n) = IF (k \div n) % 2 = 0 THEN k % n ELSE n + (k % n)
<1> DEFINE q == k \div n
           r == k % n
           w == 2 * n
<1>1. q \in Nat /\ r \in 0 .. n - 1 /\ k = n * q + r BY Remainder
<1> HIDE DEF q, r
<1> DEFINE p == q \div 2
           e == q % 2
<1>2. p \in Nat /\ e \in {0, 1} /\ q = 2 * p + e BY <1>1
<1> HIDE DEF p, e
<1>3. w \in Nat \ {0} /\ w = n + n /\ w * p = n * (2 * p) BY <1>2
<1>4. r \in 0 .. w - 1 /\ n + r \in 0 .. w - 1 BY <1>1
<1> HIDE DEF w
<1>5. (w * p + r) % w = r BY <1>2, <1>3, <1>4, OneQuotient
<1>6. (w * p + (n + r)) % w = n + r BY <1>2, <1>3, <1>4, OneQuotient
<1>7. CASE e = 0
  <2>1. q = 2 * p BY <1>2, <1>7
  <2>2. k = w * p + r BY <1>1, <1>3, <2>1
  <2> QED BY <1>5, <1>7, <2>2 DEF q, r, e, w
<1>8. CASE e = 1
  <2>1. q = 2 * p + 1 BY <1>2, <1>8
  <2>2. n * q = n * (2 * p) + n BY <1>2, <2>1
  <2>3. w * p \in Nat BY <1>2, <1>3
  <2>4. k = w * p + (n + r) BY <1>1, <1>3, <2>2, <2>3
  <2> QED BY <1>6, <1>8, <2>4 DEF q, r, e, w
<1> QED BY <1>2, <1>7, <1>8

\* The level that a loop is about.
LevelOf(l) == LET k == 1 + ((l - 1) % (2 * nlevels))
              IN  IF k <= nlevels THEN k ELSE 2 * nlevels + 1 - k

LEMMA LevelLoop ==
  ASSUME opt \in Options, prob \in Problems, opt.kind = "levels", NEW l \in 1 .. NLoops
  PROVE  /\ nlevels \in Nat \ {0} /\ l \in Nat \ {0}
         /\ Loop(l) = Static("relax", LevelRows(LevelOf(l)))
         /\ Sweep(l) = 1 + ((l - 1) \div nlevels)
         /\ LevelOf(l) = IF Backward(Sweep(l)) THEN nlevels - ((l - 1) % nlevels)
                                               ELSE 1 + ((l - 1) % nlevels)
<1>1. levels \in Seq(Nat) /\ Len(levels) >= 1 /\ opt.steps \in Nat
  BY RelaxProblems, RelaxOptions DEF mat, levels, IsSchedule, IsSchedulePrefix
<1>2. nlevels \in Nat BY <1>1 DEF nlevels
<1>3. StepLoops = LevelLoops /\ LoopsPerSweep = nlevels BY DEF StepLoops, LoopsPerSweep
<1>4. Len(StepLoops) = 2 * nlevels BY <1>2, <1>3 DEF LevelLoops
<1>5. NLoops = opt.steps * (2 * nlevels) BY <1>4 DEF NLoops
<1>6. nlevels # 0 /\ NLoops \in Nat BY <1>1, <1>2, <1>5
<1> DEFINE k == l - 1
           r == k % nlevels
           q == k \div nlevels
<1>7. l \in Nat \ {0} /\ k \in Nat BY <1>6
<1>8. r \in 0 .. nlevels - 1 /\ q \in Nat BY <1>2, <1>6, <1>7, Remainder
<1>9. k % (2 * nlevels) = IF q % 2 = 0 THEN r ELSE nlevels + r
  BY <1>2, <1>6, <1>7, TwoSweeps
<1>10. Sweep(l) = 1 + q BY <1>3 DEF Sweep
<1>11. Backward(Sweep(l)) <=> q % 2 # 0 BY <1>8, <1>10 DEF Backward
<1>12. 1 + (k % (2 * nlevels)) \in 1 .. 2 * nlevels BY <1>2, <1>6, <1>8, <1>9
<1>13. Loop(l) = Static("relax", LevelRows(LevelOf(l)))
  BY <1>3, <1>4, <1>12 DEF Loop, LevelLoops, LevelOf
<1>14. LevelOf(l) = IF Backward(Sweep(l)) THEN nlevels - r ELSE 1 + r
  BY <1>2, <1>8, <1>9, <1>11 DEF LevelOf
<1> QED BY <1>2, <1>6, <1>7, <1>10, <1>13, <1>14

\* From one loop over a level to the next.
LEMMA NextLevel ==
  ASSUME opt \in Options, prob \in Problems, opt.kind = "levels",
         NEW l \in 1 .. NLoops, l + 1 \in 1 .. NLoops
  PROVE  \/ /\ Sweep(l + 1) = Sweep(l)
            /\ LevelOf(l + 1) = IF Backward(Sweep(l)) THEN LevelOf(l) - 1 ELSE LevelOf(l) + 1
         \/ /\ Sweep(l + 1) = Sweep(l) + 1
            /\ Backward(Sweep(l + 1)) <=> ~Backward(Sweep(l))
            /\ LevelOf(l + 1) = LevelOf(l)
            /\ LevelOf(l) = IF Backward(Sweep(l)) THEN 1 ELSE nlevels
<1> DEFINE k == l - 1
           r == k % nlevels
           q == k \div nlevels
<1>1. /\ nlevels \in Nat \ {0} /\ k \in Nat
      /\ Sweep(l) = 1 + q /\ Sweep(l + 1) = 1 + ((k + 1) \div nlevels)
      /\ LevelOf(l) = IF Backward(Sweep(l)) THEN nlevels - r ELSE 1 + r
      /\ LevelOf(l + 1) = IF Backward(Sweep(l + 1)) THEN nlevels - ((k + 1) % nlevels)
                                                    ELSE 1 + ((k + 1) % nlevels)
  <2>1. l + 1 - 1 = k + 1 /\ l \in Nat \ {0} BY LevelLoop
  <2> QED BY <2>1, LevelLoop
<1>2. r \in 0 .. nlevels - 1 /\ q \in Nat BY <1>1, Remainder
<1>3. CASE r < nlevels - 1
  <2>1. (k + 1) \div nlevels = q /\ (k + 1) % nlevels = r + 1 BY <1>1, <1>3, NextInSweep
  <2> QED BY <1>1, <1>2, <2>1
<1>4. CASE ~(r < nlevels - 1)
  <2>1. (k + 1) \div nlevels = q + 1 /\ (k + 1) % nlevels = 0 /\ r = nlevels - 1
    BY <1>1, <1>4, NextInSweep
  <2>2. Backward(Sweep(l + 1)) <=> ~Backward(Sweep(l)) BY <1>1, <1>2, <2>1 DEF Backward
  <2> QED BY <1>1, <1>2, <2>1, <2>2
<1> QED BY <1>3, <1>4

\* Loops of the other classes.
LEMMA LoopFacts ==
  ASSUME opt \in Options, prob \in Problems, NEW l \in 1 .. NLoops
  PROVE  /\ l \in Nat \ {0}
         /\ opt.kind \in {"jacobi", "columns"} =>
              Sweep(l) = 1 + ((l - 1) \div 2)
         /\ opt.kind = "jacobi" =>
              Loop(l) = Static(IF l % 2 = 1 THEN "relax" ELSE "copy", Up)
         /\ opt.kind = "columns" =>
              Loop(l) = IF l % 2 = 1 THEN Static("reset", Down) ELSE Nowait("column", Down)
         /\ opt.kind \in {"sgs", "chaotic"} =>
              /\ Sweep(l) = l
              /\ Loop(l) = Nowait("relax", IF Backward(l) THEN Down ELSE Up)
<1>1. l \in Nat \ {0} BY LoopsType
<1>2. CASE opt.kind = "jacobi"
  <2>1. StepLoops = JacobiLoops /\ LoopsPerSweep = 2 /\ Len(StepLoops) = 2
    BY <1>2 DEF StepLoops, LoopsPerSweep, JacobiLoops
  <2>2. Loop(l) = JacobiLoops[1 + ((l - 1) % 2)] BY <2>1 DEF Loop
  <2>3. 1 + ((l - 1) % 2) = IF l % 2 = 1 THEN 1 ELSE 2 BY <1>1
  <2> QED BY <1>1, <1>2, <2>1, <2>2, <2>3 DEF JacobiLoops, Sweep
<1>3. CASE opt.kind = "columns"
  <2>1. StepLoops = ColumnLoops /\ LoopsPerSweep = 2 /\ Len(StepLoops) = 2
    BY <1>3 DEF StepLoops, LoopsPerSweep, ColumnLoops
  <2>2. Loop(l) = ColumnLoops[1 + ((l - 1) % 2)] BY <2>1 DEF Loop
  <2>3. 1 + ((l - 1) % 2) = IF l % 2 = 1 THEN 1 ELSE 2 BY <1>1
  <2> QED BY <1>1, <1>3, <2>1, <2>2, <2>3 DEF ColumnLoops, Sweep
<1>4. CASE opt.kind = "sgs"
  <2>1. StepLoops = SgsLoops /\ LoopsPerSweep = 1 /\ Len(StepLoops) = 2
    BY <1>4 DEF StepLoops, LoopsPerSweep, SgsLoops
  <2>2. Loop(l) = SgsLoops[1 + ((l - 1) % 2)] BY <2>1 DEF Loop
  <2>3. 1 + ((l - 1) % 2) = IF l % 2 = 0 THEN 2 ELSE 1 BY <1>1
  <2>4. Sweep(l) = l BY <1>1, <2>1 DEF Sweep
  <2> QED BY <1>1, <1>4, <2>2, <2>3, <2>4 DEF SgsLoops, Backward
<1>5. CASE opt.kind = "chaotic"
  <2>1. StepLoops = ChaoticLoops /\ LoopsPerSweep = 1 /\ Len(StepLoops) = 1
    BY <1>5 DEF StepLoops, LoopsPerSweep, ChaoticLoops
  <2>2. Loop(l) = ChaoticLoops[1 + ((l - 1) % 1)] /\ (l - 1) % 1 = 0 BY <1>1, <2>1 DEF Loop
  <2>3. Sweep(l) = l BY <1>1, <2>1 DEF Sweep
  <2> QED BY <1>1, <1>5, <2>2, <2>3 DEF ChaoticLoops, Backward
<1>6. CASE opt.kind \notin {"jacobi", "columns", "sgs", "chaotic"} BY <1>1, <1>6
<1> QED BY <1>2, <1>3, <1>4, <1>5, <1>6
-----------------------------------------------------------------------------
(***************************************************************************)
(* What the kernels find when a team waits at the end of each loop, or is  *)
(* one thread.  All work is in the loop that is open; what has been handed *)
(* out and stored there says of each component which sweep it is from.     *)
(***************************************************************************)
Waits == opt.kind \in {"jacobi", "levels"} \/ opt.team = {Master}

Pending(i) == i \in Elems(left) \/ \E u \in Threads : i \in Elems(job[u])

\* Jacobi: the first loop reads x and stores in xtemp, the second copies.
JacobiAt(l) ==
  \A i \in Rows :
    IF l % 2 = 1 THEN x[i].sweep = Sweep(l) - 1 /\ (Pending(i) \/ xtemp[i].sweep = Sweep(l))
                 ELSE xtemp[i].sweep = Sweep(l) /\ (Pending(i) \/ x[i].sweep = Sweep(l))

\* Levels: only the rows of one level are in hand; those on the side that the
\* sweep comes from have been stored in it, those on the other side have not.
LevelsAt(l) ==
  \A i \in Rows :
    /\ i < levels[LevelOf(l)] =>
         x[i].sweep = (IF Backward(Sweep(l)) THEN Sweep(l) - 1 ELSE Sweep(l))
    /\ i >= levels[LevelOf(l) + 1] =>
         x[i].sweep = (IF Backward(Sweep(l)) THEN Sweep(l) ELSE Sweep(l) - 1)
    /\ i >= levels[LevelOf(l)] /\ i < levels[LevelOf(l) + 1] =>
         Pending(i) \/ x[i].sweep = Sweep(l)
    /\ Pending(i) => i >= levels[LevelOf(l)] /\ i < levels[LevelOf(l) + 1]

\* One thread takes the rows in the order of the loop.
Reversed(l) == opt.kind = "columns" \/ Backward(Sweep(l))
Nth(l, k) == IF Reversed(l) THEN N - k ELSE k - 1
Place(l, i) == IF Reversed(l) THEN N - i ELSE i + 1
Taken == N - (Len(job[Master]) + Len(left))

InOrder(l) ==
  /\ Taken \in 0 .. N
  /\ \A m \in 1 .. Len(job[Master]) : job[Master][m] = Nth(l, Taken + m)
  /\ \A m \in 1 .. Len(left) : left[m] = Nth(l, N - Len(left) + m)

SweepAt(l) ==
  /\ InOrder(l)
  /\ \A i \in Rows :
       x[i].sweep = IF Place(l, i) <= Taken THEN Sweep(l) ELSE Sweep(l) - 1

\* Columns: the rows are reset, then what each column owes is subtracted.
Made(l, i) ==
  {c \in Upper(mat, i) : \/ Place(l, c) <= Taken
                         \/ busy[Master] /\ c = Row(Master) /\ i \notin unread[Master]}

ColumnsAt(l) ==
  IF l % 2 = 1 THEN \A i \in Rows : Pending(i) \/ temp[i] = {}
               ELSE InOrder(l) /\ \A i \in Rows : temp[i] = {<<Sweep(l), c>> : c \in Made(l, i)}

AtLoop(l) == /\ opt.kind = "jacobi" => JacobiAt(l)
             /\ opt.kind = "levels" => LevelsAt(l)
             /\ opt.kind \in {"sgs", "chaotic"} => SweepAt(l)
             /\ opt.kind = "columns" => ColumnsAt(l)

InUse(t) == IF opt.kind = "columns" THEN AboveDiagonal(Row(t)) ELSE Others(Row(t))

Gathered == \A t \in Threads : /\ job[t] # <<>> => at[t] = open
                               /\ busy[t] => unread[t] \subseteq InUse(t)

SInv == Waits => /\ ~strayed
                 /\ Gathered
                 /\ \A l \in 1 .. NLoops : open = l => AtLoop(l)

LEMMA SteadyLoops ==
  ASSUME opt' = opt, prob' = prob
  PROVE  /\ Waits' <=> Waits
         /\ levels' = levels
         /\ \A l : LevelOf(l)' = LevelOf(l)
         /\ \A s : Backward(s)' <=> Backward(s)
         /\ \A i : Others(i)' = Others(i) /\ AboveDiagonal(i)' = AboveDiagonal(i)
         /\ \A i : Upper(mat, i)' = Upper(mat, i)
<1>1. levels' = levels /\ nlevels' = nlevels /\ mat' = mat
  BY DEF levels, nlevels, mat
<1> QED BY <1>1 DEF Waits, LevelOf, Backward, Others, AboveDiagonal, Upper

LEMMA SteadyOrder ==
  ASSUME opt' = opt, prob' = prob
  PROVE  /\ \A l : Reversed(l)' <=> Reversed(l)
         /\ \A l, k : Nth(l, k)' = Nth(l, k) /\ Place(l, k)' = Place(l, k)
<1>1. \A l : Backward(Sweep(l))' <=> Backward(Sweep(l))
  <2> TAKE l
  <2> DEFINE s == Sweep(l)
  <2>1. Sweep(l)' = Sweep(l) BY Steady
  <2> QED BY <2>1 DEF Backward
<1>2. \A l : Reversed(l)' <=> Reversed(l) BY <1>1 DEF Reversed
<1> QED BY <1>2 DEF Nth, Place

\* The order of the rows.
LEMMA Order ==
  ASSUME NEW l
  PROVE  /\ \A k \in 1 .. N : Nth(l, k) \in Rows /\ Place(l, Nth(l, k)) = k
         /\ \A i \in Rows : Place(l, i) \in 1 .. N /\ Nth(l, Place(l, i)) = i
BY NAssumption DEF Nth, Place, Rows

LEMMA PlacesDiffer ==
  ASSUME NEW l, NEW i \in Rows, NEW j \in Rows
  PROVE  /\ Place(l, i) = Place(l, j) => i = j
         /\ IF Reversed(l) THEN Place(l, j) < Place(l, i) <=> j > i
                           ELSE Place(l, j) < Place(l, i) <=> j < i
BY NAssumption DEF Place, Rows

\* What one loop over all rows hands out.
LEMMA WholeLoops ==
  ASSUME opt \in Options, prob \in Problems, opt.kind # "levels", NEW l \in 1 .. NLoops
  PROVE  /\ Len(RowsOf(l)) = N
         /\ opt.kind # "jacobi" => \A k \in 1 .. N : RowsOf(l)[k] = Nth(l, k)
         /\ Elems(RowsOf(l)) = Rows
<1>1. opt.kind \in {"jacobi", "sgs", "chaotic", "columns"} BY RelaxOptions
<1>2. RowsOf(l) = Loop(l).rows BY LoopsType DEF RowsOf
<1>3. RowsOf(l) = IF Reversed(l) THEN Down ELSE Up
  <2>1. CASE opt.kind = "jacobi" BY <1>2, <2>1, LoopFacts DEF Static, Reversed, Backward
  <2>2. CASE opt.kind = "columns"
    BY <1>2, <2>2, LoopFacts DEF Static, Nowait, Reversed
  <2>3. CASE opt.kind \in {"sgs", "chaotic"}
    BY <1>2, <2>3, LoopFacts DEF Nowait, Reversed
  <2> QED BY <1>1, <2>1, <2>2, <2>3
<1>4. /\ Len(Up) = N /\ Len(Down) = N
      /\ \A k \in 1 .. N : Up[k] = k - 1 /\ Down[k] = N - k
  BY NAssumption DEF Up, Down
<1>5. Elems(Up) = Rows
  <2>1. \A i \in Rows : i + 1 \in 1 .. N /\ (i + 1) - 1 = i BY NAssumption DEF Rows
  <2>2. \A k \in 1 .. N : k - 1 \in Rows BY NAssumption DEF Rows
  <2> QED BY <1>4, <2>1, <2>2 DEF Elems
<1> QED BY <1>3, <1>4, <1>5, ElemsDown DEF Nth

LEMMA LevelRange ==
  ASSUME opt \in Options, prob \in Problems, opt.kind = "levels", NEW l \in 1 .. NLoops
  PROVE  /\ LevelOf(l) \in 1 .. nlevels
         /\ levels[LevelOf(l)] \in Nat /\ levels[LevelOf(l) + 1] \in Nat
         /\ levels[LevelOf(l)] < levels[LevelOf(l) + 1]
         /\ levels[LevelOf(l) + 1] <= N
         /\ Elems(RowsOf(l)) = levels[LevelOf(l)] .. levels[LevelOf(l) + 1] - 1
         /\ \A i, j \in Elems(RowsOf(l)) : j \notin Others(i)
<1> DEFINE r == LevelOf(l)
<1>1. /\ nlevels \in Nat \ {0} /\ l \in Nat \ {0}
      /\ Loop(l) = Static("relax", LevelRows(r))
      /\ r = IF Backward(Sweep(l)) THEN nlevels - ((l - 1) % nlevels)
                                   ELSE 1 + ((l - 1) % nlevels)
  BY LevelLoop
<1>2. (l - 1) % nlevels \in 0 .. nlevels - 1 BY <1>1, Remainder
<1>3. r \in 1 .. nlevels BY <1>1, <1>2
<1>4. RowsOf(l) = LevelRows(r) BY <1>1, LoopsType DEF RowsOf, Static
<1> HIDE DEF r
<1>5. levels \in Seq(Nat) /\ IsSchedule(mat, levels)
  BY RelaxProblems DEF mat, levels
<1>6. r \in Levels(levels) /\ r \in 1 .. Len(levels) /\ r + 1 \in 1 .. Len(levels)
  BY <1>3, <1>5 DEF nlevels, Levels
<1>7. levels[r] \in Nat /\ levels[r+1] \in Nat
  BY <1>5, <1>6, ElementOfSeq
<1>8. levels[r] < levels[r+1] /\ levels[r+1] <= N /\ Independent(mat, levels[r], levels[r+1])
  BY <1>5, <1>6 DEF IsSchedule, IsSchedulePrefix
<1> DEFINE n == levels[r+1] - levels[r]
<1>9. n \in Nat /\ LevelRows(r) = [k \in 1 .. n |-> levels[r] + k - 1]
  BY <1>7, <1>8 DEF LevelRows
<1>10. Len(LevelRows(r)) = n /\ \A k \in 1 .. n : LevelRows(r)[k] = levels[r] + k - 1
  BY <1>9
<1>11. Elems(LevelRows(r)) = levels[r] .. levels[r+1] - 1
  <2>1. \A i \in levels[r] .. levels[r+1] - 1 :
          i - levels[r] + 1 \in 1 .. n /\ levels[r] + (i - levels[r] + 1) - 1 = i
    BY <1>7
  <2>2. \A k \in 1 .. n : levels[r] + k - 1 \in levels[r] .. levels[r+1] - 1
    BY <1>7
  <2> HIDE DEF n
  <2> QED BY <1>10, <2>1, <2>2 DEF Elems
<1>12. \A i, j \in levels[r] .. levels[r+1] - 1 : j \notin Others(i)
  BY <1>8 DEF Independent, Others
<1> QED BY <1>3, <1>4, <1>7, <1>8, <1>11, <1>12 DEF r

\* The team waits at the end of the loop, or there is nobody to wait for.
LEMMA AllIdle ==
  ASSUME RInv, Waits, NEW t \in Threads, Proceed(t), at[t] = open
  PROVE  left = <<>> /\ \A u \in Threads : job[u] = <<>> /\ ~busy[u]
<1>1. at[t] \in 1 .. NLoops /\ open \in Nat /\ Idle(t) /\ NLoops \in Nat
  BY LoopsType DEF Proceed, Running, RInv, Types, TypeOK
<1>2. left = <<>> BY <1>1 DEF Proceed
<1>3. ASSUME NEW u \in opt.team PROVE job[u] = <<>>
  <2>1. CASE opt.kind = "jacobi"
    <3>1. Loop(at[t]).wait BY <1>1, <2>1, LoopFacts DEF Static, RInv, Types, TypeOK
    <3> QED BY <1>1, <3>1, TeamGathered DEF Proceed, Idle
  <2>2. CASE opt.kind = "levels"
    <3>1. Loop(at[t]).wait BY <1>1, <2>2, LevelLoop DEF Static, RInv, Types, TypeOK
    <3> QED BY <1>1, <3>1, TeamGathered DEF Proceed, Idle
  <2>3. CASE opt.team = {Master}
    <3>1. t \in opt.team BY <1>1 DEF RInv, Held
    <3> QED BY <1>1, <1>3, <2>3, <3>1 DEF Idle
  <2> QED BY <2>1, <2>2, <2>3 DEF Waits
<1>4. ASSUME NEW u \in Threads, u \notin opt.team PROVE job[u] = <<>>
  <2>1. ~Running(u) BY <1>4, <1>1 DEF RInv, Held, Running
  <2> QED BY <2>1, NothingHeld
<1>5. \A u \in Threads : job[u] = <<>> BY <1>3, <1>4
<1> QED BY <1>2, <1>5 DEF RInv, Held
-----------------------------------------------------------------------------
(***************************************************************************)
(* From loop to loop.                                                      *)
(***************************************************************************)
\* Where nothing is in hand, everything has been done.
LEMMA Closed ==
  ASSUME RInv, NEW l, left = <<>>, \A u \in Threads : job[u] = <<>>
  PROVE  Taken = N /\ \A i : ~Pending(i)
BY ElemsEmpty, TeamAssumption, NAssumption DEF Taken, Pending

\* A loop opens.
LEMMA Opened ==
  ASSUME RInv, opt' = opt, prob' = prob, NEW l \in 1 .. NLoops,
         left' = RowsOf(l), \A u \in Threads : job'[u] = <<>>
  PROVE  /\ \A i : Pending(i)' <=> i \in Elems(RowsOf(l))
         /\ opt.kind \in {"sgs", "chaotic", "columns"} => Taken' = 0 /\ InOrder(l)'
<1>1. \A i : Pending(i)' <=> i \in Elems(RowsOf(l)) BY ElemsEmpty DEF Pending
<1>2. ASSUME opt.kind \in {"sgs", "chaotic", "columns"}
      PROVE  Taken' = 0 /\ InOrder(l)'
  <2>1. Len(RowsOf(l)) = N /\ \A k \in 1 .. N : RowsOf(l)[k] = Nth(l, k)
    BY <1>2, WholeLoops DEF RInv, Types, TypeOK
  <2>2. job'[Master] = <<>> /\ Len(job'[Master]) = 0 BY TeamAssumption
  <2>3. Taken' = 0 BY <2>1, <2>2, NAssumption DEF Taken
  <2>4. \A k : Nth(l, k)' = Nth(l, k) BY SteadyOrder
  <2>5. \A m \in 1 .. N : N - N + m = m BY NAssumption
  <2>6. \A m \in 1 .. Len(left') : left'[m] = Nth(l, N - Len(left') + m)
    BY <2>1, <2>5
  <2> QED BY <2>2, <2>3, <2>4, <2>6, NAssumption DEF InOrder
<1> QED BY <1>1, <1>2

\* The first loop of a call.
LEMMA FirstLoop ==
  ASSUME RInv, Call, NEW l \in 1 .. NLoops, l = 1
  PROVE  AtLoop(l)'
<1> USE DEF Call
<1>1. opt \in Options /\ prob \in Problems BY DEF RInv, Types, TypeOK
<1>2. \A u \in Threads : job'[u] = <<>> /\ ~busy[u]
  <2>1. NLoops \in Nat BY <1>1, LoopsType
  <2>2. \A u \in Threads : ~Running(u) BY <2>1 DEF Running
  <2> QED BY <2>2, NothingHeld
<1>3. /\ \A i : Pending(i)' <=> i \in Elems(RowsOf(l))
      /\ opt.kind \in {"sgs", "chaotic", "columns"} => Taken' = 0 /\ InOrder(l)'
  BY <1>2, Opened
<1>4. \A i \in Rows : x'[i].sweep = 0 BY DEF Blank
<1>5. /\ Sweep(l)' = Sweep(l) /\ (Backward(Sweep(l))' <=> Backward(Sweep(l)))
      /\ LevelOf(l)' = LevelOf(l) /\ levels' = levels
  BY Steady, SteadyLoops DEF Backward
<1>6. CASE opt.kind = "jacobi"
  <2>1. Sweep(l) = 1 BY <1>1, <1>6, LoopFacts
  <2>2. Elems(RowsOf(l)) = Rows BY <1>1, <1>6, WholeLoops
  <2>3. JacobiAt(l)' BY <1>3, <1>4, <1>5, <2>1, <2>2 DEF JacobiAt
  <2> QED BY <1>6, <2>3 DEF AtLoop
<1>7. CASE opt.kind = "levels"
  <2>1. /\ nlevels \in Nat \ {0} /\ Sweep(l) = 1 + ((l - 1) \div nlevels)
        /\ LevelOf(l) = IF Backward(Sweep(l)) THEN nlevels - ((l - 1) % nlevels)
                                              ELSE 1 + ((l - 1) % nlevels)
    BY <1>1, <1>7, LevelLoop
  <2>2. (l - 1) \div nlevels = 0 /\ (l - 1) % nlevels = 0
    <3>1. (nlevels * 0 + 0) \div nlevels = 0 /\ (nlevels * 0 + 0) % nlevels = 0
      BY <2>1, OneQuotient
    <3>2. nlevels * 0 + 0 = l - 1 BY <2>1
    <3> QED BY <3>1, <3>2
  <2>3. Sweep(l) = 1 /\ ~Backward(Sweep(l)) /\ LevelOf(l) = 1
    BY <2>1, <2>2 DEF Backward
  <2>4. /\ levels[LevelOf(l)] \in Nat /\ levels[LevelOf(l) + 1] \in Nat
        /\ Elems(RowsOf(l)) = levels[LevelOf(l)] .. levels[LevelOf(l) + 1] - 1
    BY <1>1, <1>7, LevelRange
  <2>5. levels[LevelOf(l)] = 0
    BY <1>1, <2>3, RelaxProblems DEF levels, IsSchedule, IsSchedulePrefix
  <2>6. LevelsAt(l)'
    BY <1>3, <1>4, <1>5, <2>3, <2>4, <2>5 DEF LevelsAt, Rows
  <2> QED BY <1>7, <2>6 DEF AtLoop
<1>8. CASE opt.kind \in {"sgs", "chaotic"}
  <2>1. Sweep(l) = 1 BY <1>1, <1>8, LoopFacts
  <2>2. \A i \in Rows : Place(l, i)' \in 1 .. N BY Order, SteadyOrder
  <2>3. SweepAt(l)' BY <1>3, <1>4, <1>5, <1>8, <2>1, <2>2, NAssumption DEF SweepAt
  <2> QED BY <1>8, <2>3 DEF AtLoop
<1>9. CASE opt.kind = "columns"
  <2>1. Elems(RowsOf(l)) = Rows BY <1>1, <1>9, WholeLoops
  <2>2. ColumnsAt(l)' BY <1>3, <2>1 DEF ColumnsAt
  <2> QED BY <1>9, <2>2 DEF AtLoop
<1> QED BY <1>1, <1>6, <1>7, <1>8, <1>9, RelaxOptions

\* All rows of a loop are done, and the next one opens.
LEMMA NextLoop ==
  ASSUME RInv, NEW l \in 1 .. NLoops, l + 1 \in 1 .. NLoops, AtLoop(l),
         UNCHANGED <<opt, prob, x, xtemp, temp, busy, unread, job>>,
         left = <<>>, left' = RowsOf(l + 1),
         \A u \in Threads : job[u] = <<>> /\ ~busy[u],
         NEW m, m = l + 1
  PROVE  AtLoop(m)'
<1>1. opt \in Options /\ prob \in Problems BY DEF RInv, Types, TypeOK
<1>2. m \in 1 .. NLoops OBVIOUS
<1>3. l \in Nat \ {0} /\ m \in Nat BY <1>1, LoopFacts
<1>4. Taken = N /\ \A i : ~Pending(i) BY Closed
<1>5. /\ \A i : Pending(i)' <=> i \in Elems(RowsOf(m))
      /\ opt.kind \in {"sgs", "chaotic", "columns"} => Taken' = 0 /\ InOrder(m)'
  BY <1>2, Opened
<1>6. /\ Sweep(m)' = Sweep(m) /\ (Backward(Sweep(m))' <=> Backward(Sweep(m)))
      /\ LevelOf(m)' = LevelOf(m) /\ levels' = levels
  BY Steady, SteadyLoops DEF Backward
<1>7. CASE opt.kind = "jacobi"
  <2>1. Sweep(l) = 1 + ((l - 1) \div 2) /\ Sweep(m) = 1 + (l \div 2)
    <3>1. m - 1 = l BY <1>3
    <3> QED BY <1>1, <1>2, <1>7, <3>1, LoopFacts
  <2>2. Elems(RowsOf(m)) = Rows BY <1>1, <1>2, <1>7, WholeLoops
  <2>3. JacobiAt(l) BY <1>7 DEF AtLoop
  <2>4. CASE l % 2 = 1
    <3>1. m % 2 # 1 /\ Sweep(m) = Sweep(l) BY <1>3, <2>1, <2>4
    <3>2. \A i \in Rows : xtemp[i].sweep = Sweep(l) BY <1>4, <2>3, <2>4 DEF JacobiAt
    <3>3. JacobiAt(m)' BY <1>5, <1>6, <2>2, <3>1, <3>2 DEF JacobiAt
    <3> QED BY <1>7, <3>3 DEF AtLoop
  <2>5. CASE l % 2 # 1
    <3>1. m % 2 = 1 /\ Sweep(m) - 1 = Sweep(l) BY <1>3, <2>1, <2>5
    <3>2. \A i \in Rows : x[i].sweep = Sweep(l) BY <1>4, <2>3, <2>5 DEF JacobiAt
    <3>3. JacobiAt(m)' BY <1>5, <1>6, <2>2, <3>1, <3>2 DEF JacobiAt
    <3> QED BY <1>7, <3>3 DEF AtLoop
  <2> QED BY <2>4, <2>5
<1>8. CASE opt.kind = "levels"
  <2>1. LevelsAt(l) BY <1>8 DEF AtLoop
  <2> DEFINE s == Sweep(l)
             r == LevelOf(l)
             q == LevelOf(m)
  <2>2. s \in Nat /\ nlevels \in Nat BY <1>1, <1>8, LoopsType, LevelLoop
  <2>3. /\ r \in 1 .. nlevels /\ levels[r] \in Nat /\ levels[r + 1] \in Nat
        /\ levels[r] < levels[r + 1] /\ levels[r + 1] <= N
    BY <1>1, <1>8, LevelRange
  <2>4. /\ q \in 1 .. nlevels /\ levels[q] \in Nat /\ levels[q + 1] \in Nat
        /\ levels[q] < levels[q + 1] /\ levels[q + 1] <= N
        /\ Elems(RowsOf(m)) = levels[q] .. levels[q + 1] - 1
    BY <1>1, <1>2, <1>8, LevelRange
  <2>5. \/ /\ Sweep(m) = s
           /\ q = IF Backward(s) THEN r - 1 ELSE r + 1
        \/ /\ Sweep(m) = s + 1
           /\ Backward(Sweep(m)) <=> ~Backward(s)
           /\ q = r
           /\ r = IF Backward(s) THEN 1 ELSE nlevels
    BY <1>1, <1>2, <1>8, NextLevel
  <2>6. levels[1] = 0 /\ levels[nlevels + 1] = N
    BY <1>1, RelaxProblems DEF levels, nlevels, IsSchedule, IsSchedulePrefix
  <2>7. \A i \in Rows :
          /\ i < levels[r] => x[i].sweep = (IF Backward(s) THEN s - 1 ELSE s)
          /\ i >= levels[r + 1] => x[i].sweep = (IF Backward(s) THEN s ELSE s - 1)
          /\ i >= levels[r] /\ i < levels[r + 1] => x[i].sweep = s
    BY <1>4, <2>1 DEF LevelsAt
  <2>8. \A i \in Rows : i \in Nat /\ i < N BY NAssumption DEF Rows
  <2> DEFINE b == Sweep(m)
  <2> HIDE DEF s, r, q, b
  <2>9. \A i \in Rows :
          /\ i < levels[q] => x[i].sweep = (IF Backward(b) THEN b - 1 ELSE b)
          /\ i >= levels[q + 1] => x[i].sweep = (IF Backward(b) THEN b ELSE b - 1)
    <3> TAKE i \in Rows
    <3>1. CASE b = s /\ Backward(s)
      <4>1. q + 1 = r BY <2>3, <2>4, <2>5, <3>1 DEF b
      <4> QED BY <2>2, <2>3, <2>4, <2>7, <2>8, <3>1, <4>1
    <3>2. CASE b = s /\ ~Backward(s)
      <4>1. q = r + 1 BY <2>2, <2>3, <2>4, <2>5, <3>2 DEF b
      <4> QED BY <2>2, <2>3, <2>4, <2>7, <2>8, <3>2, <4>1
    <3>3. CASE b = s + 1 /\ Backward(s)
      <4>1. q = 1 /\ r = 1 /\ ~Backward(b) BY <2>2, <2>5, <3>3 DEF b
      <4> QED BY <2>2, <2>3, <2>4, <2>6, <2>7, <2>8, <3>3, <4>1
    <3>4. CASE b = s + 1 /\ ~Backward(s)
      <4>1. q = nlevels /\ r = nlevels /\ Backward(b) BY <2>2, <2>5, <3>4 DEF b
      <4> QED BY <2>2, <2>3, <2>4, <2>6, <2>7, <2>8, <3>4, <4>1
    <3> QED BY <2>5, <3>1, <3>2, <3>3, <3>4 DEF b
  <2>10. \A i \in Rows : Pending(i)' <=> i >= levels[q] /\ i < levels[q + 1]
    BY <1>5, <2>4, <2>8
  <2>11. LevelsAt(m)' BY <1>6, <2>9, <2>10 DEF LevelsAt, q, b
  <2> QED BY <1>8, <2>11 DEF AtLoop
<1>9. CASE opt.kind \in {"sgs", "chaotic"}
  <2>1. Sweep(l) = l /\ Sweep(m) = m BY <1>1, <1>2, <1>9, LoopFacts
  <2>2. \A i \in Rows : Place(l, i) \in 1 .. N /\ Place(m, i)' \in 1 .. N
    BY Order, SteadyOrder
  <2>3. \A i \in Rows : x[i].sweep = l
    BY <1>4, <1>9, <2>1, <2>2, NAssumption DEF AtLoop, SweepAt
  <2>4. SweepAt(m)'
    BY <1>3, <1>5, <1>6, <1>9, <2>1, <2>2, <2>3, NAssumption DEF SweepAt
  <2> QED BY <1>9, <2>4 DEF AtLoop
<1>10. CASE opt.kind = "columns"
  <2>1. Elems(RowsOf(m)) = Rows BY <1>1, <1>2, <1>10, WholeLoops
  <2>2. CASE m % 2 = 1
    <3>1. ColumnsAt(m)' BY <1>5, <2>1, <2>2 DEF ColumnsAt
    <3> QED BY <1>10, <3>1 DEF AtLoop
  <2>3. CASE m % 2 # 1
    <3>1. l % 2 = 1 BY <1>3, <2>3
    <3>2. \A i \in Rows : temp[i] = {} BY <1>4, <1>10, <3>1 DEF AtLoop, ColumnsAt
    <3>3. \A i \in Rows : Made(m, i)' = {}
      <4> TAKE i \in Rows
      <4>1. \A c \in Upper(mat, i)' : c \in Rows
        BY <1>1, RelaxProblems, SteadyLoops DEF mat, Patterns, Upper
      <4>2. \A c \in Rows : Place(m, c)' \in 1 .. N BY Order, SteadyOrder
      <4>3. ~busy'[Master] BY TeamAssumption
      <4>4. ~(\E c \in Upper(mat, i)' : Place(m, c)' <= Taken')
        BY <1>5, <1>10, <4>1, <4>2, NAssumption
      <4> QED BY <4>3, <4>4 DEF Made
    <3>4. ColumnsAt(m)' BY <1>5, <1>10, <2>3, <3>2, <3>3 DEF ColumnsAt
    <3> QED BY <1>10, <3>4 DEF AtLoop
  <2> QED BY <2>2, <2>3
<1> QED BY <1>1, <1>7, <1>8, <1>9, <1>10, RelaxOptions
-----------------------------------------------------------------------------
(***************************************************************************)
(* The steps, when the team waits or is one thread.                        *)
(***************************************************************************)
\* Whoever holds rows is in the loop that is open.
LEMMA Here ==
  ASSUME RInv, SInv, Waits, NEW t \in Threads, ~Idle(t)
  PROVE  /\ at[t] = open /\ open \in 1 .. NLoops /\ AtLoop(open)
         /\ Row(t) \in Rows /\ Row(t) \in Elems(job[t]) /\ Pending(Row(t))
         /\ opt.kind \in {"sgs", "chaotic", "columns"} => t = Master
<1>1. /\ job[t] \in Seq(Rows) /\ job[t] # <<>> /\ Row(t) \in Rows /\ at[t] \in 1 .. NLoops
      /\ NLoops \in Nat
  BY BusyRow, LoopsType DEF RInv, Types, TypeOK, Idle
<1>2. at[t] = open BY <1>1 DEF SInv, Gathered
<1>3. AtLoop(open) BY <1>1, <1>2 DEF SInv
<1>4. 1 \in 1 .. Len(job[t]) /\ Row(t) = job[t][1] BY <1>1 DEF Row
<1>5. Row(t) \in Elems(job[t]) BY <1>4 DEF Elems
<1>6. t \in opt.team BY <1>1 DEF RInv, Held
<1>7. opt.kind \in {"sgs", "chaotic", "columns"} => t = Master BY <1>6 DEF Waits
<1> QED BY <1>1, <1>2, <1>3, <1>5, <1>7 DEF Pending

\* What is to be shown of a step that opens no loop.
LEMMA SameLoop ==
  ASSUME opt' = opt, prob' = prob, open' = open, ~strayed', Gathered',
         NEW l, l = open, l \in 1 .. NLoops => AtLoop(l)'
  PROVE  SInv'
<1>1. NLoops' = NLoops BY Steady
<1> QED BY <1>1 DEF SInv

\* Everybody else is where he was.
LEMMA StillGathered ==
  ASSUME RInv, Gathered, opt' = opt, prob' = prob, at' = at, open' = open,
         NEW t \in Threads,
         job'[t] # <<>> => at[t] = open,
         busy'[t] => unread'[t] \subseteq InUse(t)',
         \A u \in Threads \ {t} : job'[u] = job[u] /\ busy'[u] = busy[u]
                                    /\ unread'[u] = unread[u]
  PROVE  Gathered'
<1>1. ASSUME NEW u \in Threads, u # t PROVE InUse(u)' = InUse(u)
  <2>1. Row(u)' = Row(u) BY <1>1 DEF Row
  <2>2. mat' = mat BY DEF mat
  <2> QED BY <2>1, <2>2 DEF InUse, Others, AboveDiagonal
<1>2. ASSUME NEW u \in Threads
      PROVE  (job'[u] # <<>> => at'[u] = open') /\ (busy'[u] => unread'[u] \subseteq InUse(u)')
  <2>1. CASE u = t BY <2>1
  <2>2. CASE u # t BY <1>1, <2>2 DEF Gathered
  <2> QED BY <2>1, <2>2
<1> QED BY <1>2 DEF Gathered

\* Nothing is stored, and what is in hand remains so.
LEMMA Still ==
  ASSUME RInv, UNCHANGED <<opt, prob, x, xtemp, temp>>, NEW l, AtLoop(l),
         \A i : Pending(i)' <=> Pending(i),
         ~(opt.kind = "columns" /\ l % 2 = 1) /\ opt.kind \in {"sgs", "chaotic", "columns"} =>
           (InOrder(l) => InOrder(l)' /\ Taken' = Taken),
         opt.kind = "columns" =>
           /\ busy'[Master] = busy[Master] /\ unread'[Master] = unread[Master]
           /\ busy[Master] => job'[Master] = job[Master]
  PROVE  AtLoop(l)'
<1>1. /\ Sweep(l)' = Sweep(l) /\ (Backward(Sweep(l))' <=> Backward(Sweep(l)))
      /\ LevelOf(l)' = LevelOf(l) /\ levels' = levels
  BY Steady, SteadyLoops DEF Backward
<1>2. \A i : Place(l, i)' = Place(l, i) BY SteadyOrder
<1>3. CASE opt.kind = "jacobi"
  <2>1. JacobiAt(l)' BY <1>1, <1>3 DEF AtLoop, JacobiAt
  <2> QED BY <1>3, <2>1 DEF AtLoop
<1>4. CASE opt.kind = "levels"
  <2>1. LevelsAt(l)' BY <1>1, <1>4 DEF AtLoop, LevelsAt
  <2> QED BY <1>4, <2>1 DEF AtLoop
<1>5. CASE opt.kind \in {"sgs", "chaotic"}
  <2>1. SweepAt(l)' BY <1>1, <1>2, <1>5 DEF AtLoop, SweepAt
  <2> QED BY <1>5, <2>1 DEF AtLoop
<1>6. CASE opt.kind = "columns"
  <2>1. CASE l % 2 = 1
    <3>1. ColumnsAt(l)' BY <1>6, <2>1 DEF AtLoop, ColumnsAt
    <3> QED BY <1>6, <3>1 DEF AtLoop
  <2>2. CASE l % 2 # 1
    <3>1. InOrder(l) /\ InOrder(l)' /\ Taken' = Taken
      BY <1>6, <2>2 DEF AtLoop, ColumnsAt
    <3>2. ASSUME NEW i \in Rows PROVE Made(l, i)' = Made(l, i)
      <4>1. Upper(mat, i)' = Upper(mat, i) BY SteadyLoops
      <4>2. busy[Master] => Row(Master)' = Row(Master) BY <1>6 DEF Row
      <4> QED BY <1>2, <1>6, <3>1, <4>1, <4>2 DEF Made
    <3>3. ColumnsAt(l)' BY <1>1, <1>6, <2>2, <3>1, <3>2 DEF AtLoop, ColumnsAt
    <3> QED BY <1>6, <3>3 DEF AtLoop
  <2> QED BY <2>1, <2>2
<1> QED BY <1>3, <1>4, <1>5, <1>6, RelaxOptions DEF RInv, Types, TypeOK

\* Nor does the order change when nothing is taken or done.
LEMMA StillOrder ==
  ASSUME opt' = opt, prob' = prob, job' = job, left' = left
  PROVE  /\ \A i : Pending(i)' <=> Pending(i)
         /\ Taken' = Taken
         /\ \A l : InOrder(l)' <=> InOrder(l)
<1>1. Taken' = Taken BY DEF Taken
<1>2. ASSUME NEW l PROVE InOrder(l)' <=> InOrder(l)
  <2>1. \A k : Nth(l, k)' = Nth(l, k) BY SteadyOrder
  <2>2. InOrder(l) => InOrder(l)' BY <1>1, <2>1 DEF InOrder
  <2>3. InOrder(l)' => InOrder(l) BY <1>1, <2>1 DEF InOrder
  <2> QED BY <2>2, <2>3
<1>3. \A i : Pending(i)' <=> Pending(i) BY DEF Pending
<1> QED BY <1>1, <1>2, <1>3

\* A chunk is taken from the front, one row of a static loop from anywhere.
LEMMA Taking ==
  ASSUME RInv, NEW t \in Threads, Claim(t)
  PROVE  \E p, q \in 1 .. Len(left) :
           /\ p <= q /\ (~Loop(open).static => p = 1)
           /\ job'[t] = SubSeq(left, p, q)
           /\ left' = SubSeq(left, 1, p - 1) \o SubSeq(left, q + 1, Len(left))
           /\ Elems(left) = Elems(job'[t]) \cup Elems(left')
<1>1. PICK c \in Claims :
        /\ job' = [job EXCEPT ![t] = SubSeq(left, c[1], c[2])]
        /\ left' = SubSeq(left, 1, c[1] - 1) \o SubSeq(left, c[2] + 1, Len(left))
  BY DEF Claim
<1>2. PICK p, q : p = c[1] /\ q = c[2] OBVIOUS
<1>3. /\ p \in 1 .. Len(left) /\ q \in 1 .. Len(left) /\ p <= q
      /\ ~Loop(open).static => p = 1
  BY <1>2, ClaimsInLeft DEF Claim
<1>4. /\ job'[t] = SubSeq(left, p, q)
      /\ left' = SubSeq(left, 1, p - 1) \o SubSeq(left, q + 1, Len(left))
  BY <1>1, <1>2 DEF RInv, Types
<1>5. left \in Seq(Rows) BY DEF RInv, Types
<1>6. Elems(left) = Elems(job'[t]) \cup Elems(left')
  BY <1>3, <1>4, <1>5, ElemsClaim
<1> QED BY <1>3, <1>4, <1>6

\* The front of an ordered loop.
LEMMA TakingFront ==
  ASSUME RInv, NEW t \in Threads, Claim(t), ~Loop(open).static
  PROVE  \E q \in 1 .. Len(left) :
           /\ Len(job'[t]) = q /\ \A i \in 1 .. q : job'[t][i] = left[i]
           /\ Len(left') = Len(left) - q
           /\ \A i \in 1 .. Len(left) - q : left'[i] = left[i + q]
<1>1. PICK q \in 1 .. Len(left) :
        /\ 1 <= q
        /\ job'[t] = SubSeq(left, 1, q)
        /\ left' = SubSeq(left, 1, 1 - 1) \o SubSeq(left, q + 1, Len(left))
  <2>1. PICK p, q \in 1 .. Len(left) :
          /\ p <= q /\ p = 1
          /\ job'[t] = SubSeq(left, p, q)
          /\ left' = SubSeq(left, 1, p - 1) \o SubSeq(left, q + 1, Len(left))
    BY Taking
  <2> QED BY <2>1
<1>2. left \in Seq(Rows) /\ Len(left) \in Nat /\ 1 \in 1 .. Len(left) BY <1>1 DEF RInv, Types
<1>3. /\ Len(job'[t]) = q - 1 + 1
      /\ \A i \in 1 .. q - 1 + 1 : job'[t][i] = left[1 + i - 1]
      /\ Len(left') = Len(left) - (q - 1 + 1)
      /\ \A i \in 1 .. Len(left) - (q - 1 + 1) :
           left'[i] = IF i < 1 THEN left[i] ELSE left[i + (q - 1 + 1)]
  BY <1>1, <1>2, ClaimParts
<1>4. q - 1 + 1 = q BY <1>1, <1>2
<1>5. Len(job'[t]) = q /\ \A i \in 1 .. q : job'[t][i] = left[i]
  <2>1. \A i \in 1 .. q : 1 + i - 1 = i BY <1>1, <1>2
  <2> QED BY <1>3, <1>4, <2>1
<1>6. Len(left') = Len(left) - q /\ \A i \in 1 .. Len(left) - q : left'[i] = left[i + q]
  <2>1. \A i \in 1 .. Len(left) - q : ~(i < 1) BY <1>1, <1>2
  <2> QED BY <1>3, <1>4, <2>1
<1> QED BY <1>5, <1>6

LEMMA ClaimSerial ==
  ASSUME RInv, SInv, Waits, NEW t \in Threads, Claim(t)
  PROVE  SInv'
<1>0. /\ UNCHANGED <<opt, prob, at, open, busy, unread, x, xtemp, temp, strayed>>
      /\ at[t] = open
  BY DEF Claim, data
<1>1. /\ job[t] = <<>> /\ ~busy[t] /\ at[t] = open /\ open \in 1 .. NLoops
      /\ \A u \in Threads \ {t} : job'[u] = job[u]
      /\ Len(left) \in Nat
  BY DEF Claim, RInv, Types, TypeOK, Held, Idle, Running
<1>2. Elems(left) = Elems(job'[t]) \cup Elems(left') BY Taking
<1>3. \A i : Pending(i)' <=> Pending(i)
  <2> TAKE i
  <2>1. Pending(i) => Pending(i)'
    BY <1>1, <1>2, ElemsEmpty DEF Pending
  <2>2. Pending(i)' => Pending(i)
    BY <1>1, <1>2 DEF Pending
  <2> QED BY <2>1, <2>2
<1>4. Gathered'
  BY <1>0, <1>1, StillGathered DEF SInv
<1>5. PICK l : l = open OBVIOUS
<1>6. AtLoop(l) BY <1>1, <1>5 DEF SInv
<1>7. ASSUME opt.kind \in {"sgs", "chaotic", "columns"}
      PROVE  t = Master
  <2>1. t \in opt.team
    <3>1. NLoops \in Nat BY LoopsType DEF RInv, Types, TypeOK
    <3> QED BY <1>1, <3>1 DEF RInv, Held
  <2> QED BY <1>7, <2>1 DEF Waits
<1>8. ASSUME ~(opt.kind = "columns" /\ l % 2 = 1), opt.kind \in {"sgs", "chaotic", "columns"},
             InOrder(l)
      PROVE  InOrder(l)' /\ Taken' = Taken
  <2>1. ~Loop(open).static
    BY <1>1, <1>5, <1>8, LoopFacts DEF Nowait, RInv, Types, TypeOK
  <2>2. t = Master /\ Len(job[Master]) = 0 BY <1>1, <1>7, <1>8
  <2>3. PICK q \in 1 .. Len(left) :
          /\ Len(job'[t]) = q /\ \A i \in 1 .. q : job'[t][i] = left[i]
          /\ Len(left') = Len(left) - q
          /\ \A i \in 1 .. Len(left) - q : left'[i] = left[i + q]
    BY <2>1, TakingFront
  <2> DEFINE n == Len(left)
  <2>4. n \in Nat /\ q \in 1 .. n BY <1>1
  <2>5. Len(job'[t]) = q /\ Len(left') = n - q BY <2>3
  <2> HIDE DEF n
  <2>6. Taken = N - n BY <2>2, <2>4, NAssumption DEF Taken, n
  <2>7. Taken' = N - n BY <2>2, <2>4, <2>5, NAssumption DEF Taken
  <2>8. \A k : Nth(l, k)' = Nth(l, k) BY <1>0, SteadyOrder
  <2>9. \A i \in 1 .. n : left[i] = Nth(l, N - n + i) BY <1>8 DEF InOrder, n
  <2>10. \A i \in 1 .. Len(job'[Master]) : job'[Master][i] = Nth(l, Taken' + i)
    <3> TAKE i \in 1 .. Len(job'[Master])
    <3>1. i \in 1 .. q /\ i \in 1 .. n BY <2>2, <2>4, <2>5
    <3> QED BY <2>2, <2>3, <2>7, <2>9, <3>1
  <2>11. ASSUME NEW i \in 1 .. Len(left') PROVE left'[i] = Nth(l, N - Len(left') + i)
    <3>1. i \in 1 .. n - q /\ i + q \in 1 .. n /\ N - n + (i + q) = N - Len(left') + i
      BY <2>4, <2>5, NAssumption
    <3>2. left'[i] = left[i + q] BY <2>3, <3>1 DEF n
    <3> QED BY <2>9, <3>1, <3>2
  <2>12. Taken' \in 0 .. N BY <1>8, <2>6, <2>7 DEF InOrder
  <2> QED BY <2>6, <2>7, <2>8, <2>10, <2>11, <2>12 DEF InOrder
<1>9. ~busy[Master] \/ opt.kind # "columns" BY <1>1, <1>7
<1>10. AtLoop(l)' BY <1>0, <1>1, <1>3, <1>6, <1>7, <1>8, <1>9, Still
<1>11. ~strayed' BY <1>0 DEF SInv
<1> QED BY <1>0, <1>4, <1>5, <1>10, <1>11, SameLoop

\* Going on: behind the others, or into the next loop.
LEMMA ProceedSerial ==
  ASSUME RInv, SInv, Waits, NEW t \in Threads, Proceed(t)
  PROVE  SInv'
<1> USE DEF Proceed, data
<1>1. /\ at[t] \in 1 .. NLoops /\ at[t] <= open /\ job[t] = <<>> /\ ~busy[t]
      /\ open \in 0 .. NLoops + 1 /\ NLoops \in Nat
  BY LoopsType DEF RInv, Types, TypeOK, Held, Idle, Running
<1>2. ~strayed' BY DEF SInv
<1>3. CASE at[t] # open
  <2>1. UNCHANGED <<opt, prob, open, left, job, busy, unread, x, xtemp, temp>>
    BY <1>3 DEF shared
  <2>2. \A u \in Threads \ {t} : at'[u] = at[u] BY DEF RInv, Types, TypeOK
  <2>3. Gathered'
    <3>1. \A u \in Threads : InUse(u)' = InUse(u)
      <4> TAKE u \in Threads
      <4>1. Row(u)' = Row(u) BY <2>1 DEF Row
      <4>2. mat' = mat BY DEF mat
      <4> QED BY <4>1, <4>2 DEF InUse, Others, AboveDiagonal
    <3> QED BY <1>1, <2>1, <2>2, <3>1 DEF SInv, Gathered
  <2>4. PICK m : m = open OBVIOUS
  <2>5. m \in 1 .. NLoops => AtLoop(m) BY <2>4 DEF SInv
  <2>6. m \in 1 .. NLoops => AtLoop(m)' BY <2>1, <2>5, StillOrder, Still
  <2> QED BY <1>2, <2>1, <2>3, <2>4, <2>6, SameLoop
<1>4. CASE at[t] = open
  <2>1. left = <<>> /\ \A u \in Threads : job[u] = <<>> /\ ~busy[u] BY <1>4, AllIdle
  <2>2. Gathered' BY <2>1 DEF Gathered
  <2>3. PICK m : m = open + 1 OBVIOUS
  <2>4. open' = m /\ left' = RowsOf(m) BY <1>4, <2>3
  <2>5. NLoops' = NLoops BY Steady
  <2>6. ASSUME m \in 1 .. NLoops PROVE AtLoop(m)'
    <3>1. PICK l : l = open OBVIOUS
    <3>2. l \in 1 .. NLoops /\ AtLoop(l) BY <1>1, <1>4, <3>1 DEF SInv
    <3> QED BY <2>1, <2>3, <2>4, <2>6, <3>1, <3>2, NextLoop
  <2>7. \A l \in 1 .. NLoops' : open' = l => AtLoop(l)'
    BY <2>4, <2>5, <2>6
  <2> QED BY <1>2, <2>2, <2>7 DEF SInv
<1> QED BY <1>3, <1>4

\* A row is done.
LEMMA DonePending ==
  ASSUME RInv, NEW t \in Threads, ~Idle(t), Done(t), left' = left
  PROVE  /\ \A i : Pending(i)' => Pending(i)
         /\ \A i : Pending(i) /\ i # Row(t) => Pending(i)'
         /\ \A u \in Threads \ {t} : job'[u] = job[u] /\ busy'[u] = busy[u]
         /\ job'[t] = Tail(job[t]) /\ ~busy'[t]
<1>1. /\ job[t] \in Seq(Rows) /\ job[t] # <<>> /\ Row(t) = Head(job[t])
      /\ job'[t] = Tail(job[t]) /\ ~busy'[t]
      /\ \A u \in Threads \ {t} : job'[u] = job[u] /\ busy'[u] = busy[u]
  BY DEF RInv, Types, TypeOK, Done, Idle, Row
<1>2. Elems(Tail(job[t])) \subseteq Elems(job[t])
  <2>1. \A k \in 1 .. Len(Tail(job[t])) :
          k + 1 \in 1 .. Len(job[t]) /\ Tail(job[t])[k] = job[t][k + 1]
    BY <1>1, HeadTailProperties
  <2> QED BY <2>1 DEF Elems
<1>3. \A i : i \in Elems(job[t]) /\ i # Row(t) => i \in Elems(Tail(job[t]))
  BY <1>1, ElemsTail
<1>4. ASSUME NEW i, Pending(i)' PROVE Pending(i)
  BY <1>1, <1>2, <1>4 DEF Pending
<1>5. ASSUME NEW i, Pending(i), i # Row(t) PROVE Pending(i)'
  BY <1>1, <1>3, <1>5 DEF Pending
<1> QED BY <1>1, <1>4, <1>5

\* Where the row in hand is in the order, and what is left when it is done.
LEMMA HeadPlace ==
  ASSUME RInv, job[Master] # <<>>, NEW l, InOrder(l)
  PROVE  /\ Row(Master) \in Rows /\ Place(l, Row(Master)) = Taken + 1
         /\ Taken + 1 \in 1 .. N
<1>1. job[Master] \in Seq(Rows) /\ Master \in Threads
  BY TeamAssumption DEF RInv, Types
<1>2. 1 \in 1 .. Len(job[Master]) /\ Row(Master) = job[Master][1] BY <1>1 DEF Row
<1>3. Row(Master) = Nth(l, Taken + 1) BY <1>2 DEF InOrder
<1>4. Len(job[Master]) \in Nat \ {0} /\ Len(left) \in Nat /\ Taken \in 0 .. N
  BY <1>1, <1>2 DEF RInv, Types, InOrder
<1>5. PICK a, b : a = Len(job[Master]) /\ b = Len(left) OBVIOUS
<1>6. a \in Nat \ {0} /\ b \in Nat /\ Taken = N - (a + b) BY <1>4, <1>5 DEF Taken
<1>7. Taken + 1 \in 1 .. N BY <1>4, <1>6, NAssumption
<1> QED BY <1>3, <1>7, Order

LEMMA DoneOrder ==
  ASSUME RInv, opt' = opt, prob' = prob, left' = left, NEW l, InOrder(l),
         job[Master] # <<>>, job'[Master] = Tail(job[Master])
  PROVE  Taken' = Taken + 1 /\ InOrder(l)'
<1>1. job[Master] \in Seq(Rows) BY TeamAssumption DEF RInv, Types
<1> DEFINE s == job[Master]
<1>2. Len(Tail(s)) = Len(s) - 1 /\ \A k \in 1 .. Len(s) - 1 : Tail(s)[k] = s[k + 1]
  BY <1>1, HeadTailProperties
<1>3. Len(s) \in Nat \ {0} /\ Len(left) \in Nat BY <1>1 DEF RInv, Types
<1>4. Taken' = Taken + 1
  <2>1. PICK a, b : a = Len(s) /\ b = Len(left) OBVIOUS
  <2>2. Taken = N - (a + b) BY <2>1 DEF Taken
  <2>3. Taken' = N - ((a - 1) + b) BY <1>2, <2>1 DEF Taken
  <2>4. a \in Nat /\ b \in Nat BY <1>3, <2>1
  <2> QED BY <2>2, <2>3, <2>4, NAssumption
<1>5. Taken' \in 0 .. N BY <1>4, HeadPlace
<1>6. \A k : Nth(l, k)' = Nth(l, k) BY SteadyOrder
<1>7. ASSUME NEW m \in 1 .. Len(job'[Master]) PROVE job'[Master][m] = Nth(l, Taken' + m)
  <2>1. m \in 1 .. Len(s) - 1 /\ m + 1 \in 1 .. Len(s) /\ Taken + (m + 1) = Taken' + m
    BY <1>2, <1>3, <1>4 DEF InOrder
  <2> QED BY <1>2, <2>1 DEF InOrder
<1> QED BY <1>4, <1>5, <1>6, <1>7 DEF InOrder

\* Only loops that relax have such a body.
LEMMA Bodies ==
  ASSUME opt \in Options, prob \in Problems, NEW l \in 1 .. NLoops
  PROVE  /\ Loop(l).body = "relax" =>
              opt.kind # "columns" /\ (opt.kind = "jacobi" => l % 2 = 1)
         /\ Loop(l).body = "copy" => opt.kind = "jacobi" /\ l % 2 # 1
         /\ Loop(l).body = "reset" => opt.kind = "columns" /\ l % 2 = 1
         /\ Loop(l).body = "column" => opt.kind = "columns" /\ l % 2 # 1
<1>1. CASE opt.kind = "jacobi" BY <1>1, LoopFacts DEF Static
<1>2. CASE opt.kind = "columns" BY <1>2, LoopFacts DEF Static, Nowait
<1>3. CASE opt.kind \in {"sgs", "chaotic"} BY <1>3, LoopFacts DEF Nowait
<1>4. CASE opt.kind = "levels" BY <1>4, LevelLoop DEF Static
<1> QED BY <1>1, <1>2, <1>3, <1>4, RelaxOptions

\* Every operand is as the serial method would find it.
LEMMA FindsSerial ==
  ASSUME RInv, SInv, Waits, NEW t \in Threads, busy[t], Body(t) = "relax",
         NEW j \in unread[t]
  PROVE  x[j].sweep = SerialSweep(Sweep(at[t]), Row(t), j)
<1>1. opt \in Options /\ prob \in Problems BY DEF RInv, Types, TypeOK
<1>2. ~Idle(t) BY DEF RInv, Held, Idle
<1>3. PICK i, l : i = Row(t) /\ l = open OBVIOUS
<1>4. /\ at[t] = l /\ l \in 1 .. NLoops /\ AtLoop(l) /\ i \in Rows /\ Pending(i)
      /\ opt.kind \in {"sgs", "chaotic", "columns"} => t = Master
  BY <1>2, <1>3, Here
<1>5. Loop(l).body = "relax" BY <1>4 DEF Body
<1>6. j \in Others(i) BY <1>1, <1>3, <1>4, <1>5, Bodies DEF SInv, Gathered, InUse
<1>7. j \in Rows /\ j # i BY <1>1, <1>4, <1>6, PatternType DEF Others
<1>8. i \in Nat /\ j \in Nat /\ i < N /\ j < N BY <1>4, <1>7, NAssumption DEF Rows
<1>9. SerialSweep(Sweep(l), i, j) =
        IF opt.kind # "jacobi" /\ (IF Backward(Sweep(l)) THEN j > i ELSE j < i)
        THEN Sweep(l) ELSE Sweep(l) - 1
  BY DEF SerialSweep
<1>10. CASE opt.kind = "jacobi"
  <2>1. l % 2 = 1 BY <1>1, <1>4, <1>5, <1>10, Bodies
  <2> QED BY <1>3, <1>4, <1>7, <1>9, <1>10, <2>1 DEF AtLoop, JacobiAt
<1>11. CASE opt.kind = "levels"
  <2>1. LevelsAt(l) BY <1>4, <1>11 DEF AtLoop
  <2> DEFINE a == levels[LevelOf(l)]
             b == levels[LevelOf(l) + 1]
  <2>2. /\ a \in Nat /\ b \in Nat /\ a < b
        /\ Elems(RowsOf(l)) = a .. b - 1
        /\ \A m, k \in Elems(RowsOf(l)) : k \notin Others(m)
    BY <1>1, <1>4, <1>11, LevelRange
  <2>3. /\ i >= a /\ i < b
        /\ j < a => x[j].sweep = (IF Backward(Sweep(l)) THEN Sweep(l) - 1 ELSE Sweep(l))
        /\ j >= b => x[j].sweep = (IF Backward(Sweep(l)) THEN Sweep(l) ELSE Sweep(l) - 1)
    BY <1>4, <1>7, <2>1 DEF LevelsAt
  <2> HIDE DEF a, b
  <2>4. i \in a .. b - 1 BY <1>8, <2>2, <2>3
  <2>5. j \notin a .. b - 1 BY <1>6, <2>2, <2>4
  <2>6. j < a \/ j >= b BY <1>8, <2>2, <2>5
  <2>7. j < a => j < i /\ ~(j > i) BY <1>8, <2>2, <2>3
  <2>8. j >= b => j > i /\ ~(j < i) BY <1>8, <2>2, <2>3
  <2>9. x[j].sweep = SerialSweep(Sweep(l), i, j)
    BY <1>9, <1>11, <2>3, <2>6, <2>7, <2>8
  <2> QED BY <1>3, <1>4, <2>9
<1>12. CASE opt.kind \in {"sgs", "chaotic"}
  <2>1. SweepAt(l) /\ InOrder(l) /\ t = Master
    BY <1>4, <1>12 DEF AtLoop, SweepAt
  <2>2. Place(l, i) = Taken + 1 /\ Taken \in Nat
    BY <1>2, <1>3, <2>1, HeadPlace, NAssumption DEF Idle, InOrder
  <2>3. Place(l, j) \in Nat BY <1>7, Order
  <2>4. /\ Place(l, i) = Place(l, j) => i = j
        /\ IF Reversed(l) THEN Place(l, j) < Place(l, i) <=> j > i
                          ELSE Place(l, j) < Place(l, i) <=> j < i
    BY <1>4, <1>7, PlacesDiffer
  <2>5. Reversed(l) <=> Backward(Sweep(l)) BY <1>12 DEF Reversed
  <2>6. Place(l, j) <= Taken <=> Place(l, j) < Place(l, i) BY <2>2, <2>3
  <2>7. x[j].sweep = IF Place(l, j) <= Taken THEN Sweep(l) ELSE Sweep(l) - 1
    BY <1>7, <2>1 DEF SweepAt
  <2>8. x[j].sweep = SerialSweep(Sweep(l), i, j)
    BY <1>9, <1>12, <2>4, <2>5, <2>6, <2>7
  <2> QED BY <1>3, <1>4, <2>8
<1>13. opt.kind # "columns" BY <1>1, <1>4, <1>5, Bodies
<1> QED BY <1>1, <1>10, <1>11, <1>12, <1>13, RelaxOptions

LEMMA BeginSerial ==
  ASSUME RInv, SInv, Waits, NEW t \in Threads, Begin(t)
  PROVE  SInv'
<1>1. /\ UNCHANGED <<opt, prob, at, open, left, job, x, xtemp, temp, strayed>>
      /\ ~Idle(t) /\ Body(t) = "relax" /\ unread'[t] = Others(Row(t))
      /\ \A u \in Threads \ {t} : busy'[u] = busy[u] /\ unread'[u] = unread[u]
  BY DEF Begin, shared, data, RInv, Types, TypeOK
<1>2. PICK l : l = open OBVIOUS
<1>3. at[t] = l /\ l \in 1 .. NLoops /\ AtLoop(l) BY <1>1, <1>2, Here
<1>4. opt.kind # "columns" BY <1>1, <1>3, Bodies DEF Body, RInv, Types, TypeOK
<1>5. InUse(t)' = Others(Row(t))
  <2>1. Row(t)' = Row(t) /\ mat' = mat BY <1>1 DEF Row, mat
  <2> QED BY <1>1, <1>4, <2>1 DEF InUse, Others
<1>6. Gathered' BY <1>1, <1>2, <1>3, <1>5, StillGathered DEF SInv
<1>7. AtLoop(l)' BY <1>1, <1>3, <1>4, StillOrder, Still
<1> QED BY <1>1, <1>2, <1>6, <1>7, SameLoop DEF SInv

LEMMA ReadSerial ==
  ASSUME RInv, SInv, Waits, NEW t \in Threads, NEW j \in Rows, Read(t, j)
  PROVE  SInv'
<1>1. /\ UNCHANGED <<opt, prob, at, open, left, job, busy, x, xtemp, temp>>
      /\ busy[t] /\ Body(t) = "relax" /\ j \in unread[t]
      /\ unread'[t] = unread[t] \ {j}
      /\ \A u \in Threads \ {t} : unread'[u] = unread[u]
      /\ strayed' = (strayed \/ x[j].sweep # SerialSweep(Sweep(at[t]), Row(t), j))
  BY DEF Read, shared, RInv, Types, TypeOK
<1>2. PICK l : l = open OBVIOUS
<1>3. ~Idle(t) BY <1>1 DEF RInv, Held, Idle
<1>4. at[t] = l /\ l \in 1 .. NLoops /\ AtLoop(l) BY <1>2, <1>3, Here
<1>5. opt.kind # "columns" BY <1>1, <1>4, Bodies DEF Body, RInv, Types, TypeOK
<1>6. ~strayed' BY <1>1, FindsSerial DEF SInv
<1>7. InUse(t)' = InUse(t)
  <2>1. Row(t)' = Row(t) /\ mat' = mat BY <1>1 DEF Row, mat
  <2> QED BY <1>1, <1>5, <2>1 DEF InUse, Others
<1>8. unread[t] \subseteq InUse(t) BY <1>1 DEF SInv, Gathered
<1>9. Gathered' BY <1>1, <1>2, <1>4, <1>7, <1>8, StillGathered DEF SInv
<1>10. AtLoop(l)' BY <1>1, <1>4, <1>5, StillOrder, Still
<1> QED BY <1>1, <1>2, <1>6, <1>9, <1>10, SameLoop

\* A row that is stored in place.
LEMMA StoreSerial ==
  ASSUME RInv, SInv, Waits, NEW t \in Threads, Store(t)
  PROVE  SInv'
<1>0. /\ UNCHANGED <<opt, prob, at, open, left, unread, temp, strayed>>
      /\ busy[t] /\ Body(t) = "relax" /\ Done(t)
  BY DEF Store, shared
<1>1. ~Idle(t) BY <1>0 DEF RInv, Held, Idle
<1>2. PICK i, l : i = Row(t) /\ l = open OBVIOUS
<1>3. /\ at[t] = l /\ l \in 1 .. NLoops /\ AtLoop(l) /\ i \in Rows /\ Pending(i)
      /\ opt.kind \in {"sgs", "chaotic", "columns"} => t = Master
  BY <1>1, <1>2, Here
<1>4. opt \in Options /\ prob \in Problems BY DEF RInv, Types, TypeOK
<1>5. opt.kind # "columns" /\ (opt.kind = "jacobi" => l % 2 = 1)
  BY <1>0, <1>3, <1>4, Bodies DEF Body
<1>6. /\ \A k : Pending(k)' => Pending(k)
      /\ \A k : Pending(k) /\ k # i => Pending(k)'
      /\ \A u \in Threads \ {t} : job'[u] = job[u] /\ busy'[u] = busy[u]
      /\ job'[t] = Tail(job[t]) /\ ~busy'[t]
  BY <1>0, <1>1, <1>2, DonePending
<1>7. Gathered' BY <1>0, <1>2, <1>3, <1>6, StillGathered DEF SInv
<1>8. /\ Sweep(l)' = Sweep(l) /\ (Backward(Sweep(l))' <=> Backward(Sweep(l)))
      /\ LevelOf(l)' = LevelOf(l) /\ levels' = levels
      /\ \A k : Place(l, k)' = Place(l, k)
  BY <1>0, Steady, SteadyLoops, SteadyOrder DEF Backward
<1>9. ASSUME opt.kind = "jacobi" PROVE AtLoop(l)'
  <2>1. /\ x' = x /\ xtemp'[i].sweep = Sweep(l)
        /\ \A k \in Rows \ {i} : xtemp'[k] = xtemp[k]
    BY <1>2, <1>3, <1>9 DEF Store, InPlace, Relaxed, RInv, Types
  <2>2. \A k \in Rows : /\ x[k].sweep = Sweep(l) - 1
                        /\ Pending(k) \/ xtemp[k].sweep = Sweep(l)
    BY <1>3, <1>5, <1>9 DEF AtLoop, JacobiAt
  <2>3. \A k \in Rows : Pending(k)' \/ xtemp'[k].sweep = Sweep(l)
    BY <1>6, <2>1, <2>2
  <2>4. JacobiAt(l)' BY <1>5, <1>8, <1>9, <2>1, <2>2, <2>3 DEF JacobiAt
  <2> QED BY <1>0, <1>9, <2>4 DEF AtLoop
<1>10. opt.kind # "jacobi" =>
         /\ x'[i].sweep = Sweep(l)
         /\ \A k \in Rows \ {i} : x'[k] = x[k]
  BY <1>2, <1>3, <1>4, <1>5, RelaxOptions DEF Store, InPlace, Relaxed, RInv, Types
<1>11. ASSUME opt.kind = "levels" PROVE AtLoop(l)'
  <2>1. LevelsAt(l) BY <1>3, <1>11 DEF AtLoop
  <2> DEFINE a == levels[LevelOf(l)]
             b == levels[LevelOf(l) + 1]
  <2>2. a \in Nat /\ b \in Nat /\ a < b BY <1>3, <1>4, <1>11, LevelRange
  <2>3. i >= a /\ i < b BY <1>3, <2>1 DEF LevelsAt
  <2>4. i \in Nat /\ ~(i < a) /\ ~(i >= b)
    BY <1>3, <2>2, <2>3, NAssumption DEF Rows
  <2>5. ASSUME NEW k \in Rows
        PROVE  /\ k < a =>
                    x'[k].sweep = (IF Backward(Sweep(l)) THEN Sweep(l) - 1 ELSE Sweep(l))
               /\ k >= b =>
                    x'[k].sweep = (IF Backward(Sweep(l)) THEN Sweep(l) ELSE Sweep(l) - 1)
               /\ k >= a /\ k < b => Pending(k)' \/ x'[k].sweep = Sweep(l)
               /\ Pending(k)' => k >= a /\ k < b
    <3>1. CASE k = i BY <1>10, <1>11, <2>3, <2>4, <3>1
    <3>2. CASE k # i BY <1>6, <1>10, <1>11, <2>1, <3>2 DEF LevelsAt
    <3> QED BY <3>1, <3>2
  <2>6. LevelsAt(l)' BY <1>8, <2>5 DEF LevelsAt
  <2> QED BY <1>0, <1>11, <2>6 DEF AtLoop
<1>12. ASSUME opt.kind \in {"sgs", "chaotic"} PROVE AtLoop(l)'
  <2>1. SweepAt(l) /\ InOrder(l) /\ t = Master BY <1>3, <1>12 DEF AtLoop, SweepAt
  <2>2. Place(l, i) = Taken + 1 /\ Taken \in Nat
    BY <1>1, <1>2, <2>1, HeadPlace, NAssumption DEF Idle, InOrder
  <2>3. Taken' = Taken + 1 /\ InOrder(l)'
    BY <1>0, <1>1, <1>6, <2>1, DoneOrder DEF Idle
  <2>4. ASSUME NEW k \in Rows
        PROVE  x'[k].sweep = IF Place(l, k) <= Taken + 1 THEN Sweep(l) ELSE Sweep(l) - 1
    <3>1. CASE k = i BY <1>10, <1>12, <2>2, <3>1
    <3>2. CASE k # i
      <4>1. Place(l, k) \in Nat /\ Place(l, k) # Taken + 1
        BY <1>3, <2>2, <3>2, Order, PlacesDiffer
      <4>2. Place(l, k) <= Taken + 1 <=> Place(l, k) <= Taken BY <2>2, <4>1
      <4>3. x'[k] = x[k] BY <1>10, <1>12, <3>2
      <4> QED BY <2>1, <4>2, <4>3 DEF SweepAt
    <3> QED BY <3>1, <3>2
  <2>5. SweepAt(l)' BY <1>8, <2>3, <2>4 DEF SweepAt
  <2> QED BY <1>0, <1>12, <2>5 DEF AtLoop
<1>13. AtLoop(l)' BY <1>4, <1>5, <1>9, <1>11, <1>12, RelaxOptions
<1> QED BY <1>0, <1>2, <1>7, <1>13, SameLoop DEF SInv

LEMMA CopyBackSerial ==
  ASSUME RInv, SInv, Waits, NEW t \in Threads, CopyBack(t)
  PROVE  SInv'
<1>0. /\ UNCHANGED <<opt, prob, at, open, left, unread, xtemp, temp, strayed>>
      /\ ~Idle(t) /\ Body(t) = "copy" /\ Done(t)
  BY DEF CopyBack, shared
<1>1. PICK i, l : i = Row(t) /\ l = open OBVIOUS
<1>2. at[t] = l /\ l \in 1 .. NLoops /\ AtLoop(l) /\ i \in Rows
  BY <1>0, <1>1, Here
<1>3. opt.kind = "jacobi" /\ l % 2 # 1
  BY <1>0, <1>2, Bodies DEF Body, RInv, Types, TypeOK
<1>4. /\ \A k : Pending(k) /\ k # i => Pending(k)'
      /\ \A u \in Threads \ {t} : job'[u] = job[u] /\ busy'[u] = busy[u]
      /\ ~busy'[t]
  BY <1>0, <1>1, DonePending
<1>5. Gathered' BY <1>0, <1>1, <1>2, <1>4, StillGathered DEF SInv
<1>6. x'[i] = xtemp[i] /\ \A k \in Rows \ {i} : x'[k] = x[k]
  BY <1>1, <1>2 DEF CopyBack, RInv, Types
<1>7. Sweep(l)' = Sweep(l) BY <1>0, Steady
<1>8. JacobiAt(l)'
  BY <1>0, <1>2, <1>3, <1>4, <1>6, <1>7 DEF AtLoop, JacobiAt
<1>9. AtLoop(l)' BY <1>0, <1>3, <1>8 DEF AtLoop
<1> QED BY <1>0, <1>1, <1>5, <1>9, SameLoop DEF SInv

LEMMA ResetSerial ==
  ASSUME RInv, SInv, Waits, temp \in [Rows -> SUBSET (Nat \X Nat)],
         NEW t \in Threads, Reset(t)
  PROVE  SInv'
<1>0. /\ UNCHANGED <<opt, prob, at, open, left, unread, x, xtemp, strayed>>
      /\ ~Idle(t) /\ Body(t) = "reset" /\ Done(t)
  BY DEF Reset, shared
<1>1. PICK i, l : i = Row(t) /\ l = open OBVIOUS
<1>2. at[t] = l /\ l \in 1 .. NLoops /\ AtLoop(l) /\ i \in Rows
  BY <1>0, <1>1, Here
<1>3. opt.kind = "columns" /\ l % 2 = 1
  BY <1>0, <1>2, Bodies DEF Body, RInv, Types, TypeOK
<1>4. /\ \A k : Pending(k) /\ k # i => Pending(k)'
      /\ \A u \in Threads \ {t} : job'[u] = job[u] /\ busy'[u] = busy[u]
      /\ ~busy'[t]
  BY <1>0, <1>1, DonePending
<1>5. Gathered' BY <1>0, <1>1, <1>2, <1>4, StillGathered DEF SInv
<1>6. temp'[i] = {} /\ \A k \in Rows \ {i} : temp'[k] = temp[k]
  BY <1>1, <1>2 DEF Reset
<1>7. ColumnsAt(l)' BY <1>2, <1>3, <1>4, <1>6 DEF AtLoop, ColumnsAt
<1>8. AtLoop(l)' BY <1>0, <1>3, <1>7 DEF AtLoop
<1> QED BY <1>0, <1>1, <1>5, <1>8, SameLoop DEF SInv

\* The thread at a column: those before it have been subtracted.
LEMMA AtColumn ==
  ASSUME RInv, SInv, Waits, NEW t \in Threads, ~Idle(t), Body(t) = "column",
         NEW c, c = Row(t), NEW l, l = open
  PROVE  /\ t = Master /\ at[t] = l /\ l \in 1 .. NLoops /\ opt.kind = "columns" /\ l % 2 # 1
         /\ c \in Rows /\ InOrder(l) /\ Taken \in Nat
         /\ Place(l, c) = Taken + 1
         /\ \A i \in Rows : Upper(mat, i) \subseteq Rows
         /\ \A i \in Rows : c \in Upper(mat, i) <=> i \in AboveDiagonal(c)
         /\ \A i \in Rows : temp[i] = {<<Sweep(l), k>> : k \in Made(l, i)}
<1>1. at[t] = l /\ l \in 1 .. NLoops /\ AtLoop(l) /\ c \in Rows BY Here
<1>2. opt.kind = "columns" /\ l % 2 # 1
  BY <1>1, Bodies DEF Body, RInv, Types, TypeOK
<1>3. t = Master BY <1>2, Here
<1>4. InOrder(l) /\ \A i \in Rows : temp[i] = {<<Sweep(l), k>> : k \in Made(l, i)}
  BY <1>1, <1>2 DEF AtLoop, ColumnsAt
<1>5. Place(l, c) = Taken + 1 /\ Taken \in Nat
  BY <1>3, <1>4, HeadPlace, NAssumption DEF Idle, InOrder
<1>6. \A i \in Rows : Upper(mat, i) \subseteq Rows
  BY RelaxProblems DEF RInv, Types, TypeOK, mat, Patterns, Upper
<1>7. \A i \in Rows : c \in Upper(mat, i) <=> i \in AboveDiagonal(c)
  BY <1>1, NAssumption DEF Upper, AboveDiagonal, Rows
<1> QED BY <1>1, <1>2, <1>3, <1>4, <1>5, <1>6, <1>7

LEMMA StoreColumnSerial ==
  ASSUME RInv, SInv, Waits, NEW t \in Threads, StoreColumn(t)
  PROVE  SInv'
<1>0. /\ UNCHANGED <<opt, prob, at, open, left, job, xtemp, temp>>
      /\ ~Idle(t) /\ ~busy[t] /\ Body(t) = "column"
      /\ busy'[t] /\ unread'[t] = AboveDiagonal(Row(t))
      /\ \A u \in Threads \ {t} : busy'[u] = busy[u] /\ unread'[u] = unread[u]
      /\ strayed' = (strayed \/ temp[Row(t)] # Subtracted(Sweep(at[t]), Row(t)))
  BY DEF StoreColumn, shared, RInv, Types, TypeOK
<1>1. PICK c, l : c = Row(t) /\ l = open OBVIOUS
<1>2. /\ t = Master /\ at[t] = l /\ l \in 1 .. NLoops /\ opt.kind = "columns" /\ l % 2 # 1
      /\ c \in Rows /\ InOrder(l) /\ Taken \in Nat
      /\ Place(l, c) = Taken + 1
      /\ \A i \in Rows : Upper(mat, i) \subseteq Rows
      /\ \A i \in Rows : c \in Upper(mat, i) <=> i \in AboveDiagonal(c)
      /\ \A i \in Rows : temp[i] = {<<Sweep(l), k>> : k \in Made(l, i)}
  BY <1>0, <1>1, AtColumn
<1>3. Made(l, c) = Upper(mat, c)
  <2>1. ASSUME NEW k \in Upper(mat, c) PROVE Place(l, k) <= Taken
    <3>1. k \in Rows /\ k > c BY <1>2, <2>1 DEF Upper
    <3>2. Place(l, k) = N - k /\ Place(l, c) = N - c BY <1>2 DEF Place, Reversed
    <3> QED BY <1>2, <3>1, <3>2, NAssumption DEF Rows
  <2> QED BY <2>1 DEF Made
<1>4. ~strayed'
  <2>1. temp[c] = Subtracted(Sweep(l), c) BY <1>2, <1>3 DEF Subtracted
  <2> QED BY <1>0, <1>1, <1>2, <2>1 DEF SInv
<1>5. Row(t)' = c BY <1>0, <1>1 DEF Row
<1>6. Gathered'
  <2>1. InUse(t)' = AboveDiagonal(c)
    <3>1. mat' = mat BY <1>0 DEF mat
    <3> QED BY <1>0, <1>2, <1>5, <3>1 DEF InUse, AboveDiagonal
  <2> QED BY <1>0, <1>1, <1>2, <2>1, StillGathered DEF SInv
<1>7. ASSUME NEW i \in Rows PROVE Made(l, i)' = Made(l, i)
  <2>1. /\ Upper(mat, i)' = Upper(mat, i) /\ Taken' = Taken
        /\ \A k : Place(l, k)' = Place(l, k)
    BY <1>0, SteadyLoops, SteadyOrder, StillOrder
  <2>2. \A k \in Upper(mat, i) : ~(k = c /\ i \notin AboveDiagonal(c)) BY <1>2
  <2> QED BY <1>0, <1>1, <1>2, <1>5, <2>1, <2>2 DEF Made
<1>8. ColumnsAt(l)'
  <2>1. InOrder(l)' /\ Sweep(l)' = Sweep(l) BY <1>0, <1>2, StillOrder, Steady
  <2> QED BY <1>0, <1>2, <1>7, <2>1 DEF ColumnsAt
<1>9. AtLoop(l)' BY <1>0, <1>2, <1>8 DEF AtLoop
<1> QED BY <1>0, <1>1, <1>4, <1>6, <1>9, SameLoop

LEMMA SubtractSerial ==
  ASSUME RInv, SInv, Waits, temp \in [Rows -> SUBSET (Nat \X Nat)],
         NEW t \in Threads, NEW j \in Rows, Subtract(t, j)
  PROVE  SInv'
<1>0. /\ UNCHANGED <<opt, prob, at, open, left, job, busy, x, xtemp, strayed>>
      /\ busy[t] /\ Body(t) = "column" /\ j \in unread[t]
      /\ unread'[t] = unread[t] \ {j}
      /\ \A u \in Threads \ {t} : unread'[u] = unread[u]
  BY DEF Subtract, shared, RInv, Types, TypeOK
<1>1. ~Idle(t) BY <1>0 DEF RInv, Held, Idle
<1>2. PICK c, l : c = Row(t) /\ l = open OBVIOUS
<1>3. /\ t = Master /\ at[t] = l /\ l \in 1 .. NLoops /\ opt.kind = "columns" /\ l % 2 # 1
      /\ c \in Rows /\ InOrder(l) /\ Taken \in Nat
      /\ Place(l, c) = Taken + 1
      /\ \A i \in Rows : Upper(mat, i) \subseteq Rows
      /\ \A i \in Rows : c \in Upper(mat, i) <=> i \in AboveDiagonal(c)
      /\ \A i \in Rows : temp[i] = {<<Sweep(l), k>> : k \in Made(l, i)}
  BY <1>0, <1>1, <1>2, AtColumn
<1>4. Row(t)' = c BY <1>0, <1>2 DEF Row
<1>5. unread[t] \subseteq AboveDiagonal(c)
  BY <1>0, <1>2, <1>3 DEF SInv, Gathered, InUse
<1>6. Gathered'
  <2>1. InUse(t)' = AboveDiagonal(c)
    <3>1. mat' = mat BY <1>0 DEF mat
    <3> QED BY <1>0, <1>3, <1>4, <3>1 DEF InUse, AboveDiagonal
  <2> QED BY <1>0, <1>2, <1>3, <1>5, <2>1, StillGathered DEF SInv
<1>7. /\ \A i \in Rows : Upper(mat, i)' = Upper(mat, i)
      /\ Taken' = Taken
      /\ \A k : Place(l, k)' = Place(l, k)
  BY <1>0, SteadyLoops, SteadyOrder, StillOrder
<1>8. Made(l, j)' = Made(l, j) \cup {c}
  <2>1. c \in Upper(mat, j) BY <1>0, <1>3, <1>5
  <2> QED BY <1>0, <1>2, <1>3, <1>4, <1>7, <2>1 DEF Made
<1>9. ASSUME NEW i \in Rows, i # j PROVE Made(l, i)' = Made(l, i)
  <2>1. i \in unread'[t] <=> i \in unread[t] BY <1>0, <1>9
  <2> QED BY <1>0, <1>2, <1>3, <1>4, <1>7, <2>1 DEF Made
<1>10. temp'[j] = temp[j] \cup {<<Sweep(l), c>>} /\ \A i \in Rows \ {j} : temp'[i] = temp[i]
  BY <1>2, <1>3 DEF Subtract
<1>11. ASSUME NEW i \in Rows PROVE temp'[i] = {<<Sweep(l), k>> : k \in Made(l, i)'}
  <2>1. CASE i = j BY <1>3, <1>8, <1>10, <2>1
  <2>2. CASE i # j BY <1>3, <1>9, <1>10, <2>2
  <2> QED BY <2>1, <2>2
<1>12. ColumnsAt(l)'
  <2>1. InOrder(l)' /\ Sweep(l)' = Sweep(l) BY <1>0, <1>3, StillOrder, Steady
  <2> QED BY <1>3, <1>11, <2>1 DEF ColumnsAt
<1>13. AtLoop(l)' BY <1>0, <1>3, <1>12 DEF AtLoop
<1> QED BY <1>0, <1>2, <1>6, <1>13, SameLoop DEF SInv

LEMMA EndColumnSerial ==
  ASSUME RInv, SInv, Waits, NEW t \in Threads, EndColumn(t)
  PROVE  SInv'
<1>0. /\ UNCHANGED <<opt, prob, at, open, left, unread, x, xtemp, temp, strayed>>
      /\ busy[t] /\ Body(t) = "column" /\ unread[t] = {} /\ Done(t)
  BY DEF EndColumn, shared, data
<1>1. ~Idle(t) BY <1>0 DEF RInv, Held, Idle
<1>2. PICK c, l : c = Row(t) /\ l = open OBVIOUS
<1>3. /\ t = Master /\ at[t] = l /\ l \in 1 .. NLoops /\ opt.kind = "columns" /\ l % 2 # 1
      /\ c \in Rows /\ InOrder(l) /\ Taken \in Nat
      /\ Place(l, c) = Taken + 1
      /\ \A i \in Rows : Upper(mat, i) \subseteq Rows
      /\ \A i \in Rows : c \in Upper(mat, i) <=> i \in AboveDiagonal(c)
      /\ \A i \in Rows : temp[i] = {<<Sweep(l), k>> : k \in Made(l, i)}
  BY <1>0, <1>1, <1>2, AtColumn
<1>4. /\ \A u \in Threads \ {t} : job'[u] = job[u] /\ busy'[u] = busy[u]
      /\ job'[t] = Tail(job[t]) /\ ~busy'[t]
  BY <1>0, <1>1, DonePending
<1>5. Gathered' BY <1>0, <1>2, <1>3, <1>4, StillGathered DEF SInv
<1>6. Taken' = Taken + 1 /\ InOrder(l)'
  BY <1>0, <1>1, <1>3, <1>4, DoneOrder DEF Idle
<1>7. ASSUME NEW i \in Rows PROVE Made(l, i)' = Made(l, i)
  <2>1. Upper(mat, i)' = Upper(mat, i) /\ \A k : Place(l, k)' = Place(l, k)
    BY <1>0, SteadyLoops, SteadyOrder
  <2>2. ASSUME NEW k \in Upper(mat, i)
        PROVE  Place(l, k) <= Taken + 1 <=> (Place(l, k) <= Taken \/ k = c)
    <3>1. k \in Rows /\ Place(l, k) \in Nat BY <1>3, <2>2, Order
    <3>2. Place(l, k) = Place(l, c) => k = c BY <1>3, <3>1, PlacesDiffer
    <3> QED BY <1>3, <3>1, <3>2
  <2> QED BY <1>0, <1>2, <1>3, <1>4, <1>6, <2>1, <2>2 DEF Made
<1>8. ColumnsAt(l)'
  <2>1. Sweep(l)' = Sweep(l) BY <1>0, Steady
  <2> QED BY <1>0, <1>3, <1>6, <1>7, <2>1 DEF ColumnsAt
<1>9. AtLoop(l)' BY <1>0, <1>3, <1>8 DEF AtLoop
<1> QED BY <1>0, <1>2, <1>5, <1>9, SameLoop DEF SInv

\* A call begins or ends.
LEMMA CallSerial ==
  ASSUME RInv, SInv, Waits, Call
  PROVE  SInv'
<1>1. NLoops' = NLoops /\ NLoops \in Nat BY Steady, LoopsType DEF Call, RInv, Types, TypeOK
<1>2. \A u \in Threads : job[u] = <<>> /\ ~busy[u]
  <2>1. \A u \in Threads : ~Running(u) BY <1>1 DEF Call, Running
  <2> QED BY <2>1, NothingHeld
<1>3. Gathered' BY <1>2 DEF Call, Gathered
<1>4. \A l \in 1 .. NLoops' : open' = l => AtLoop(l)' BY <1>1, FirstLoop DEF Call
<1> QED BY <1>3, <1>4 DEF Call, SInv

LEMMA LeaveSerial ==
  ASSUME RInv, SInv, Waits, ToleranceMet \/ Return
  PROVE  SInv'
<1>1. /\ NLoops' = NLoops /\ NLoops \in Nat
      /\ UNCHANGED <<job, busy, strayed>>
  BY Steady, LoopsType DEF ToleranceMet, Return, RInv, Types, TypeOK, data
<1>2. open' \notin 1 .. NLoops BY <1>1 DEF ToleranceMet, Return
<1>3. \A u \in Threads : job[u] = <<>> /\ ~busy[u]
  <2>1. CASE ToleranceMet BY <2>1 DEF ToleranceMet, RInv, Held, Running, Idle
  <2>2. CASE Return
    <3>1. \A u \in Threads : ~Running(u) BY <1>1, <2>2 DEF Return, RInv, Held, Running
    <3> QED BY <3>1, NothingHeld
  <2> QED BY <2>1, <2>2
<1>4. Gathered' BY <1>1, <1>3 DEF Gathered
<1> QED BY <1>1, <1>2, <1>4 DEF SInv

LEMMA StepSerial == ASSUME RInv, ColInv, SInv, [HNext]_hvars PROVE SInv'
<1>1. opt' = opt /\ prob' = prob
  BY DEF HNext, HWork, Quiet, Call, ToleranceMet, Return, Claim, Proceed, Begin, Read,
         Store, CopyBack, Reset, StoreColumn, Subtract, EndColumn, hvars, vars
<1>2. CASE ~Waits BY <1>1, <1>2, SteadyLoops DEF SInv
<1>3. CASE Waits
  <2>1. CASE Call BY <1>3, <2>1, CallSerial
  <2>2. CASE ToleranceMet \/ Return BY <1>3, <2>2, LeaveSerial
  <2>3. ASSUME NEW t \in Threads, HWork(t) PROVE SInv'
    <3>1. ASSUME ~Idle(t), Body(t) \in {"reset", "column"}
          PROVE  temp \in [Rows -> SUBSET (Nat \X Nat)]
      <4>1. opt.kind = "columns" /\ at[t] \in 1 .. NLoops
        BY <3>1, BusyRow, Bodies DEF Body, RInv, Types, TypeOK
      <4>2. opt.steps # 0
        <5>1. NLoops \in Nat BY LoopsType DEF RInv, Types, TypeOK
        <5>2. Len(StepLoops) = 2 BY <4>1 DEF StepLoops, ColumnLoops
        <5>3. NLoops = opt.steps * 2 BY <5>2 DEF NLoops
        <5> QED BY <4>1, <5>1, <5>3
      <4> QED BY <4>1, <4>2 DEF ColInv, Columns
    <3>2. CASE Claim(t) BY <1>3, <3>2, ClaimSerial
    <3>3. CASE Proceed(t) BY <1>3, <3>3, ProceedSerial
    <3>4. CASE Begin(t) BY <1>3, <3>4, BeginSerial
    <3>5. ASSUME NEW j \in Rows, Read(t, j) PROVE SInv' BY <1>3, <3>5, ReadSerial
    <3>6. CASE Store(t) BY <1>3, <3>6, StoreSerial
    <3>7. CASE CopyBack(t) BY <1>3, <3>7, CopyBackSerial
    <3>8. CASE Reset(t) BY <1>3, <3>1, <3>8, ResetSerial DEF Reset
    <3>9. CASE StoreColumn(t) BY <1>3, <3>9, StoreColumnSerial
    <3>10. ASSUME NEW j \in Rows, Subtract(t, j) PROVE SInv'
      <4>1. ~Idle(t) /\ Body(t) = "column" BY <3>10 DEF Subtract, RInv, Held, Idle
      <4> QED BY <1>3, <3>1, <3>10, <4>1, SubtractSerial
    <3>11. CASE EndColumn(t) BY <1>3, <3>11, EndColumnSerial
    <3> QED BY <2>3, <3>2, <3>3, <3>4, <3>5, <3>6, <3>7, <3>8, <3>9, <3>10, <3>11
          DEF HWork, Quiet
  <2>4. CASE UNCHANGED hvars
    <3>1. UNCHANGED <<opt, prob, at, open, left, job, busy, unread, x, xtemp, temp, strayed>>
      BY <2>4 DEF hvars, vars, data
    <3>2. \A u \in Threads : InUse(u)' = InUse(u)
      <4> TAKE u \in Threads
      <4>1. Row(u)' = Row(u) /\ mat' = mat BY <3>1 DEF Row, mat
      <4> QED BY <3>1, <4>1 DEF InUse, Others, AboveDiagonal
    <3>3. Gathered' BY <1>3, <3>1, <3>2 DEF SInv, Gathered
    <3>4. PICK l : l = open OBVIOUS
    <3>5. l \in 1 .. NLoops => AtLoop(l)'
      BY <1>3, <3>1, <3>4, StillOrder, Still DEF SInv
    <3> QED BY <1>3, <3>1, <3>3, <3>4, <3>5, SameLoop DEF SInv
  <2> QED BY <2>1, <2>2, <2>3, <2>4 DEF HNext
<1> QED BY <1>2, <1>3

(***************************************************************************)
(* Jacobi and the level-scheduled relaxations on any number of threads,    *)
(* and every relaxation and the column sweeps on one, compute what the     *)
(* serial methods do: in every step and sweep each kernel reads each       *)
(* operand as the loop left it that a serial run would have had store it.  *)
(***************************************************************************)
THEOREM SerialWhereItWaits == HSpec => []ReadsAsSerial
<1>1. HInit => RInv /\ ColInv /\ SInv
  <2>1. HInit => SInv BY DEF HInit, Init, SInv, Gathered
  <2> QED BY <2>1, InitRInv, InitCol DEF HInit
<1>2. RInv /\ ColInv /\ SInv /\ [HNext]_hvars => RInv' /\ ColInv' /\ SInv'
  BY StepRInv, StepCol, StepSerial
<1>3. SInv => ReadsAsSerial BY DEF SInv, Waits, ReadsAsSerial
<1> QED BY <1>1, <1>2, <1>3, PTL DEF HSpec
=============================================================================
