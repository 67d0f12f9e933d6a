----------------------------- MODULE Relaxation ------------------------------
(***************************************************************************)
(* The methods that iterate on a vector by parallel loops over the rows:   *)
(* apply_relax of Jacobi and block Jacobi (src/solverops_jacobi.cpp), of   *)
(* the level-scheduled (solverops_levels_sgs.cpp) and of the asynchronous  *)
(* SGS classes (solverops_sgs.cpp); apply and apply_relax of the chaotic   *)
(* relaxations (relaxation_chaotic.cpp); apply of CSC_BGS, which sweeps    *)
(* over columns (solverops_sgs.cpp).                                       *)
(*                                                                         *)
(* All of them are a list of OpenMP loops, the same for every step.  A     *)
(* loop says what its iterations do, in which order they are handed out,   *)
(* and whether the team waits at its end.                                  *)
(***************************************************************************)
EXTENDS SparsityPattern, FiniteSets

LOCAL INSTANCE SequencesExt

CONSTANTS
  Threads, Master,      \* the OpenMP team, and its first thread
  Problems,             \* pairs <<pattern, schedule>>
  MaxGen,               \* generations (see Contraction) are counted to here
  Options               \* records [kind, team, steps, ctol, chunk]

ASSUME TeamAssumption == Master \in Threads
ASSUME RelaxOptions ==
  \A o \in Options :
    /\ o.kind \in {"jacobi", "levels", "sgs", "chaotic", "columns"}
    /\ o.team \in {Threads, {Master}}
    /\ o.steps \in Nat
    /\ o.ctol \in BOOLEAN
    /\ o.chunk \in Nat \ {0}
ASSUME RelaxProblems ==
  \A p \in Problems : /\ p[1] \in Patterns
                      /\ p[2] \in Seq(Nat) /\ IsSchedule(p[1], p[2])
ASSUME MaxGenAssumption == MaxGen \in Nat

VARIABLES
  opt,                  \* the preconditioner and its parameters
  prob,                 \* its pattern and levels
  at,                   \* thread |-> the loop it is in; 0 between calls
  open,                 \* the last loop that a thread has come to
  left,                 \* its iterations that are not handed out yet
  job,                  \* thread |-> the iterations it has been given
  busy,                 \* thread |-> it is in the first of them
  unread,               \* thread |-> what it has still to read (to update)
  low,                  \* thread |-> lowest generation it has read
  x, xtemp,             \* row |-> [sweep, gen]: the sweep that stored it last
  temp,                 \* row |-> what has been subtracted, <<sweep, column>>
  strayed               \* a kernel has read what a serial run would not

shared == <<open, left>>
data == <<x, xtemp, temp, strayed>>
vars == <<opt, prob, at, open, left, job, busy, unread, low, data>>

mat == prob[1]
levels == prob[2]
nlevels == Len(levels) - 1
-----------------------------------------------------------------------------
(***************************************************************************)
(* The loops.  "static": no schedule clause, any thread may get any row in *)
(* any order; otherwise chunks are handed out in the order of the rows.    *)
(***************************************************************************)
Up == [k \in 1 .. N |-> k - 1]
Down == [k \in 1 .. N |-> N - k]

LevelRows(l) == [k \in 1 .. levels[l+1] - levels[l] |-> levels[l] + k - 1]

Static(body, rows) == [body |-> body, rows |-> rows, static |-> TRUE, wait |-> TRUE]
Nowait(body, rows) == [body |-> body, rows |-> rows, static |-> FALSE, wait |-> FALSE]

JacobiLoops == <<Static("relax", Up), Static("copy", Up)>>

\* Faulty variants: the levels in the same order on the way back; the loop that
\* resets temp does not wait.
LevelLoopsUpwards ==
  [k \in 1 .. 2 * nlevels |-> Static("relax", LevelRows(1 + ((k - 1) % nlevels)))]

ColumnLoopsNowait == <<[Static("reset", Down) EXCEPT !.wait = FALSE], Nowait("column", Down)>>

LevelLoops ==
  [k \in 1 .. 2 * nlevels |->
     Static("relax", LevelRows(IF k <= nlevels THEN k ELSE 2 * nlevels + 1 - k))]

SgsLoops == <<Nowait("relax", Up), Nowait("relax", Down)>>

ChaoticLoops == <<Nowait("relax", Up)>>

ColumnLoops == <<Static("reset", Down), Nowait("column", Down)>>

StepLoops == CASE opt.kind = "jacobi"  -> JacobiLoops
               [] opt.kind = "levels"  -> LevelLoops
               [] opt.kind = "sgs"     -> SgsLoops
               [] opt.kind = "chaotic" -> ChaoticLoops
               [] opt.kind = "columns" -> ColumnLoops

\* opt.steps is solveparams.maxits, in apply napplysweeps.
NLoops == opt.steps * Len(StepLoops)

Loop(l) == StepLoops[1 + ((l - 1) % Len(StepLoops))]

\* The sweep that a loop is part of, counted from 1 through all steps.
LoopsPerSweep == CASE opt.kind = "levels" -> nlevels
                   [] opt.kind \in {"jacobi", "columns"} -> 2
                   [] opt.kind \in {"sgs", "chaotic"} -> 1

Sweep(l) == 1 + ((l - 1) \div LoopsPerSweep)

RowsOf(l) == IF l <= NLoops THEN Loop(l).rows ELSE <<>>

Running(t) == at[t] \in 1 .. NLoops
Idle(t) == job[t] = <<>>
-----------------------------------------------------------------------------
Blank == [i \in Rows |-> [sweep |-> 0, gen |-> 0]]

\* temp when it is allocated: zeros, not yet D^-1 r, which is {}.
Zeroed == [i \in Rows |-> {<<0, 0>>}]

Init ==
  /\ opt \in Options
  /\ prob \in Problems
  /\ at = [t \in Threads |-> 0]
  /\ open = 0
  /\ left = <<>>
  /\ job = [t \in Threads |-> <<>>]
  /\ busy = [t \in Threads |-> FALSE]
  /\ unread = [t \in Threads |-> {}]
  /\ low = [t \in Threads |-> MaxGen]
  /\ x = Blank
  /\ xtemp = Blank
  /\ temp = Zeroed
  /\ strayed = FALSE

\* A call: the prior contents of x are the initial guess; the first region opens.
Call ==
  /\ \A t \in Threads : at[t] = 0
  /\ at' = [t \in Threads |-> IF t \in opt.team THEN 1 ELSE 0]
  /\ open' = 1
  /\ left' = RowsOf(1)
  /\ x' = Blank
  /\ temp' = Zeroed
  /\ UNCHANGED <<opt, prob, job, busy, unread, low, xtemp, strayed>>

\* An idle thread takes a row of a static loop, or the next chunk.
Claims == IF Loop(open).static
          THEN {<<k, k>> : k \in 1 .. Len(left)}
          ELSE {<<1, IF opt.chunk < Len(left) THEN opt.chunk ELSE Len(left)>>}

Claim(t) ==
  /\ Running(t) /\ Idle(t)
  /\ at[t] = open
  /\ left # <<>>
  /\ \E c \in Claims :
       /\ job' = [job EXCEPT ![t] = SubSeq(left, c[1], c[2])]
       /\ left' = SubSeq(left, 1, c[1] - 1) \o SubSeq(left, c[2] + 1, Len(left))
  /\ UNCHANGED <<opt, prob, at, open, busy, unread, low, data>>

\* The whole team has come to the end of loop l.
TeamDone(l) == \A u \in opt.team : at[u] > l \/ (at[u] = l /\ Idle(u))

\* Faulty variant of Proceed: the loop starts again.
ProceedAgain(t) ==
  /\ Running(t) /\ Idle(t)
  /\ at[t] < open \/ left = <<>>
  /\ Loop(at[t]).wait => TeamDone(at[t])
  /\ left' = RowsOf(open)
  /\ UNCHANGED <<opt, prob, at, open, job, busy, unread, low, data>>

\* A thread that finds no iteration left goes on to the next loop.
Proceed(t) ==
  /\ Running(t) /\ Idle(t)
  /\ at[t] < open \/ left = <<>>
  /\ Loop(at[t]).wait => TeamDone(at[t])
  /\ at' = [at EXCEPT ![t] = @ + 1]
  /\ IF at[t] = open THEN open' = open + 1 /\ left' = RowsOf(open + 1)
                     ELSE UNCHANGED shared
  /\ UNCHANGED <<opt, prob, job, busy, unread, low, data>>

\* The tolerances are met after a step of Jacobi (atol, rtol, or dtol exceeded).
ToleranceMet ==
  /\ opt.kind = "jacobi" /\ opt.ctol
  /\ open \in 1 .. NLoops
  /\ Loop(open).body = "copy"
  /\ left = <<>>
  /\ \A t \in opt.team : at[t] = open /\ Idle(t)
  /\ at' = [t \in Threads |-> IF t \in opt.team THEN NLoops + 1 ELSE 0]
  /\ open' = NLoops + 1
  /\ UNCHANGED <<opt, prob, left, job, busy, unread, low, data>>

\* All threads have left the last loop: the call comes back.
Return ==
  /\ \A t \in opt.team : at[t] = NLoops + 1
  /\ at' = [t \in Threads |-> 0]
  /\ open' = 0
  /\ UNCHANGED <<opt, prob, left, job, busy, unread, low, data>>
-----------------------------------------------------------------------------
(***************************************************************************)
(* The serial methods: the sweep that component j comes from when row i is *)
(* relaxed in sweep s, 0 for the initial guess; and what has to have been  *)
(* subtracted from component i when it is taken in sweep s over columns.   *)
(***************************************************************************)
Backward(s) == opt.kind \in {"levels", "sgs"} /\ s % 2 = 0

SerialSweep(s, i, j) ==
  IF opt.kind # "jacobi" /\ (IF Backward(s) THEN j > i ELSE j < i) THEN s ELSE s - 1

Subtracted(s, i) == {<<s, k>> : k \in Upper(mat, i)}
-----------------------------------------------------------------------------
(***************************************************************************)
(* The kernels.                                                            *)
(***************************************************************************)
Row(t) == Head(job[t])
Body(t) == Loop(at[t]).body
InPlace == opt.kind \in {"levels", "sgs", "chaotic"}

\* The entries of row i that are not on the diagonal.
Others(i) == mat[i] \ {i}

\* The rows above the diagonal of column j that have an entry there.
AboveDiagonal(j) == {i \in Rows : i < j /\ j \in mat[i]}

Done(t) == /\ job' = [job EXCEPT ![t] = Tail(@)]
           /\ busy' = [busy EXCEPT ![t] = FALSE]

\* Faulty variant of Begin: the sum is accumulated in the vector.
BeginInPlace(t) ==
  /\ ~Idle(t) /\ ~busy[t]
  /\ Body(t) = "relax"
  /\ busy' = [busy EXCEPT ![t] = TRUE]
  /\ unread' = [unread EXCEPT ![t] = Others(Row(t))]
  /\ x' = [x EXCEPT ![Row(t)].gen = 0]
  /\ UNCHANGED <<opt, prob, at, shared, job, low, xtemp, temp, strayed>>

\* Relax a row: begin, and the sum over its entries on both sides.
Begin(t) ==
  /\ ~Idle(t) /\ ~busy[t]
  /\ Body(t) = "relax"
  /\ busy' = [busy EXCEPT ![t] = TRUE]
  /\ unread' = [unread EXCEPT ![t] = Others(Row(t))]
  /\ UNCHANGED <<opt, prob, at, shared, job, low, data>>

Read(t, j) ==
  /\ busy[t] /\ Body(t) = "relax"
  /\ j \in unread[t]
  /\ unread' = [unread EXCEPT ![t] = @ \ {j}]
  /\ low' = [low EXCEPT ![t] = IF x[j].gen < @ THEN x[j].gen ELSE @]
  /\ strayed' = (strayed \/ x[j].sweep # SerialSweep(Sweep(at[t]), Row(t), j))
  /\ UNCHANGED <<opt, prob, at, shared, job, busy, x, xtemp, temp>>

Relaxed(t) == [sweep |-> Sweep(at[t]),
               gen |-> IF low[t] < MaxGen THEN low[t] + 1 ELSE MaxGen]

\* Faulty variant of Store: the sum is not reset for the next row.
StoreNoReset(t) ==
  /\ busy[t] /\ Body(t) = "relax"
  /\ unread[t] = {}
  /\ IF InPlace THEN x' = [x EXCEPT ![Row(t)] = Relaxed(t)] /\ xtemp' = xtemp
                ELSE xtemp' = [xtemp EXCEPT ![Row(t)] = Relaxed(t)] /\ x' = x
  /\ Done(t)
  /\ UNCHANGED <<opt, prob, at, shared, unread, low, temp, strayed>>

\* Store it, in the other vector for Jacobi.
Store(t) ==
  /\ busy[t] /\ Body(t) = "relax"
  /\ unread[t] = {}
  /\ IF InPlace THEN x' = [x EXCEPT ![Row(t)] = Relaxed(t)] /\ xtemp' = xtemp
                ELSE xtemp' = [xtemp EXCEPT ![Row(t)] = Relaxed(t)] /\ x' = x
  /\ low' = [low EXCEPT ![t] = MaxGen]
  /\ Done(t)
  /\ UNCHANGED <<opt, prob, at, shared, unread, temp, strayed>>

\* Jacobi, second loop: x := xtemp, and the norm of the difference.
CopyBack(t) ==
  /\ ~Idle(t) /\ Body(t) = "copy"
  /\ x' = [x EXCEPT ![Row(t)] = xtemp[Row(t)]]
  /\ Done(t)
  /\ UNCHANGED <<opt, prob, at, shared, unread, low, xtemp, temp, strayed>>

\* CSC_BGS, first loop: temp := D^-1 r.
Reset(t) ==
  /\ ~Idle(t) /\ Body(t) = "reset"
  /\ temp' = [temp EXCEPT ![Row(t)] = {}]
  /\ Done(t)
  /\ UNCHANGED <<opt, prob, at, shared, unread, low, x, xtemp, strayed>>

\* Second loop: the component takes what is in temp ...
StoreColumn(t) ==
  /\ ~Idle(t) /\ ~busy[t]
  /\ Body(t) = "column"
  /\ busy' = [busy EXCEPT ![t] = TRUE]
  /\ x' = [x EXCEPT ![Row(t)] = [sweep |-> Sweep(at[t]), gen |-> 0]]
  /\ unread' = [unread EXCEPT ![t] = AboveDiagonal(Row(t))]
  /\ strayed' = (strayed \/ temp[Row(t)] # Subtracted(Sweep(at[t]), Row(t)))
  /\ UNCHANGED <<opt, prob, at, shared, job, low, xtemp, temp>>

\* ... and is subtracted from the components above it, atomically.
Subtract(t, i) ==
  /\ busy[t] /\ Body(t) = "column"
  /\ i \in unread[t]
  /\ temp' = [temp EXCEPT ![i] = @ \cup {<<Sweep(at[t]), Row(t)>>}]
  /\ unread' = [unread EXCEPT ![t] = @ \ {i}]
  /\ UNCHANGED <<opt, prob, at, shared, job, busy, low, x, xtemp, strayed>>

EndColumn(t) ==
  /\ busy[t] /\ Body(t) = "column"
  /\ unread[t] = {}
  /\ Done(t)
  /\ UNCHANGED <<opt, prob, at, shared, unread, low, data>>
-----------------------------------------------------------------------------
Work(t) == \/ Claim(t) \/ Proceed(t) \/ Begin(t) \/ Store(t)
           \/ CopyBack(t) \/ Reset(t) \/ StoreColumn(t) \/ EndColumn(t)
           \/ \E i \in Rows : Read(t, i) \/ Subtract(t, i)

Next == Call \/ ToleranceMet \/ Return \/ \E t \in Threads : Work(t)

Spec == Init /\ [][Next]_vars

\* Every thread of the team runs, and the call returns when they are through.
FairSpec == Spec /\ WF_vars(Return) /\ \A t \in Threads : WF_vars(Work(t))
-----------------------------------------------------------------------------
\* Type invariant.
TypeOK ==
  /\ opt \in Options /\ prob \in Problems
  /\ at \in [Threads -> 0 .. NLoops + 1]
  /\ open \in 0 .. NLoops + 1
  /\ \A t \in Threads : at[t] <= open
  /\ busy \in [Threads -> BOOLEAN]
  /\ unread \in [Threads -> SUBSET Rows]
  /\ low \in [Threads -> 0 .. MaxGen]
  /\ strayed \in BOOLEAN

(***************************************************************************)
(* The loops that wait, and all of them on one thread, compute what the    *)
(* serial ones do: each kernel reads every operand as the loop has left it *)
(* that would have stored it last.  Jacobi reads the iterate of the step   *)
(* before only, the levels read new values on one side and old ones on the *)
(* other, in both directions, and the columns find in temp all that has to *)
(* be subtracted and nothing else.                                         *)
(***************************************************************************)
ReadsAsSerial ==
  opt.kind \in {"jacobi", "levels"} \/ opt.team = {Master} => ~strayed

(***************************************************************************)
(* Column sweeps: when they are over, nothing that the last sweep had to   *)
(* subtract from a component is missing, whoever did it and however the    *)
(* threads have overlapped; in a single sweep there is nothing else.       *)
(***************************************************************************)
NothingLost ==
  opt.kind = "columns" /\ (\A t \in opt.team : at[t] = NLoops + 1)
    => \A i \in Rows : /\ Subtracted(opt.steps, i) \subseteq temp[i]
                       /\ (opt.steps = 1 => temp[i] = Subtracted(1, i))

\* A call comes back: no barrier waits for ever, nowait loops are all left.
Returns == \A t \in Threads : at[t] # 0 ~> at[t] = 0
=============================================================================
