----------------------------- MODULE AsyncFactor -----------------------------
(***************************************************************************)
(* Asynchronous incomplete LU factorization: compute() of the              *)
(* asynchronous ILU(0) classes (src/solverops_ilu0.cpp), with              *)
(* scalar_ilu0_factorize (src/async_ilu_factor.cpp) and                    *)
(* block_ilu0_factorize (src/async_blockilu_factor.cpp).                   *)
(*                                                                         *)
(* The factors have the pattern of the matrix and are computed in place by *)
(* nbuildsweeps sweeps over the rows, each an "omp for schedule(dynamic,   *)
(* thread_chunk_size) nowait" in one parallel region: sweeps overlap.  The *)
(* kernel computes the entries of its row from left to right.  For each it *)
(* reads the operands of its sum, one at a time, whatever they hold, and   *)
(* then stores it.  In the block version the diagonal is inverted at the   *)
(* end, in place.  compute() is called again and again, with the entries   *)
(* of the matrix as they were or changed.                                  *)
(*                                                                         *)
(* An entry is exact when it is the one of the ILU(0) factors.  Computed   *)
(* from exact operands it is exact; otherwise it is taken not to be.  A    *)
(* block that is read while it is stored is a mixture of both values, and  *)
(* so exact if both are: a read before or after the store stands for it.   *)
(* The norms that can be asked for read the factors only and are left out. *)
(***************************************************************************)
EXTENDS IluPattern

CONSTANTS
  Threads,              \* the threads of the team
  Master,               \* the thread that calls compute
  Sweeps,               \* nbuildsweeps
  Matrices,             \* patterns
  Options               \* records [block, init, scaled, threaded, chunk]

ASSUME TeamAssumption == Master \in Threads
ASSUME SizesAssumption == Sweeps \in Nat \ {0}
ASSUME MatricesAssumption == Matrices \subseteq Patterns
ASSUME OptionsAssumption ==
  Options \subseteq [block : BOOLEAN, init : {"zero", "original", "sgs", "none"},
                     scaled : BOOLEAN, threaded : BOOLEAN,
                     chunk : Nat \ {0}]

VARIABLES
  opt,                  \* class, factinittype, usescaling, usethreads,
                        \* thread_chunk_size
  mat,                  \* the pattern
  pc,                   \* where the calling thread is
  lu,                   \* entry |-> what iluvals holds there
  claimed,              \* iterations handed out in the region, sweep by sweep
  job,                  \* thread |-> iterations it has claimed: at .. end-1
  left,                 \* thread |-> columns of its row it has still to store
  col,                  \* thread |-> the column it computes, or did last
  busy,                 \* thread |-> it computes an entry
  unread,               \* thread |-> operands it has still to read for it
  good                  \* thread |-> all the operands it has read were exact

vars == <<opt, mat, pc, lu, claimed, job, left, col, busy, unread, good>>
team == <<claimed, job, left, col, busy, unread, good>>

\* "original" and "sgs" are the values the initializations of these names give;
\* "inverse" is the inverse of an exact diagonal block.
Values == {"exact", "inverse", "zero", "original", "sgs", "other"}

Total == Sweeps * N
Chunk == opt.chunk

NoJob == [at |-> 0, end |-> 0]

Init ==
  /\ opt \in Options
  /\ mat \in Matrices
  /\ pc = "new"
  /\ lu = [e \in Entries(mat) |-> "other"]
  /\ claimed = 0
  /\ job = [t \in Threads |-> NoJob]
  /\ left = [t \in Threads |-> {}]
  /\ col = [t \in Threads |-> 0]
  /\ busy = [t \in Threads |-> FALSE]
  /\ unread = [t \in Threads |-> {}]
  /\ good = [t \in Threads |-> FALSE]

\* The first call allocates iluvals and copies the entries of the matrix.
SetupStorage ==
  /\ pc = "new"
  /\ pc' = "init"
  /\ lu' = [e \in Entries(mat) |-> IF opt.scaled THEN "other" ELSE "original"]
  /\ UNCHANGED <<opt, mat, team>>

\* A later call, for the same entries of the matrix or for new ones.
ComputeAgain ==
  /\ pc = "ready"
  /\ pc' = "init"
  /\ UNCHANGED <<opt, mat, lu, team>>

ComputeNew ==
  /\ pc = "ready"
  /\ pc' = "init"
  /\ lu' = [e \in Entries(mat) |-> "other"]
  /\ UNCHANGED <<opt, mat, team>>

(***************************************************************************)
(* The switch over factinittype.  The scalar one has no break after the    *)
(* zeros and goes on to store the original entries.                        *)
(***************************************************************************)
InitWith == IF opt.init = "zero" /\ ~opt.block THEN "original" ELSE opt.init

\* The scaled scalar fact_init_sgs takes the scale of column j at the position
\* of its diagonal entry.
RightScale(j) == opt.scaled /\ ~opt.block => DiagPos(mat, j) = j

InitialValue(e) ==
  CASE InitWith = "none" -> lu[e]
    [] InitWith = "sgs" /\ e[2] < e[1] -> IF RightScale(e[2]) THEN "sgs" ELSE "other"
    [] InitWith = "sgs" /\ e[2] >= e[1] -> "original"
    [] OTHER -> InitWith

InitFactors ==
  /\ pc = "init"
  /\ pc' = "sweep"
  /\ lu' = [e \in Entries(mat) |-> InitialValue(e)]
  /\ claimed' = 0
  /\ job' = [t \in Threads |-> NoJob]
  /\ UNCHANGED <<opt, mat, left, col, busy, unread, good>>

\* The region has "if(usethreads)".
Team == IF opt.threaded THEN Threads ELSE {Master}

Row(t) == job[t].at % N
Idle(t) == job[t].at = job[t].end

\* Faulty variant of Claim: the chunk is cut one row short of the end.
ClaimShort(t) ==
  /\ pc = "sweep"
  /\ t \in Team
  /\ Idle(t)
  /\ claimed < Total
  /\ LET rest == N - 1 - (claimed % N)
         size == IF Chunk < rest THEN Chunk ELSE rest
     IN  /\ job' = [job EXCEPT ![t] = [at |-> claimed, end |-> claimed + size]]
         /\ left' = [left EXCEPT ![t] = mat[claimed % N]]
         /\ claimed' = claimed + size
  /\ UNCHANGED <<opt, mat, pc, lu, col, busy, unread, good>>

\* Dynamic scheduling: the next chunk of the sweep that is being handed out.
Claim(t) ==
  /\ pc = "sweep"
  /\ t \in Team
  /\ Idle(t)
  /\ claimed < Total
  /\ LET rest == N - (claimed % N)
         size == IF Chunk < rest THEN Chunk ELSE rest
     IN  /\ job' = [job EXCEPT ![t] = [at |-> claimed, end |-> claimed + size]]
         /\ left' = [left EXCEPT ![t] = mat[claimed % N]]
         /\ claimed' = claimed + size
  /\ UNCHANGED <<opt, mat, pc, lu, col, busy, unread, good>>

\* Faulty variant of Begin: the entries of a row in any order.
BeginAnywhere(t, j) ==
  /\ ~Idle(t)
  /\ ~busy[t]
  /\ j \in left[t]
  /\ busy' = [busy EXCEPT ![t] = TRUE]
  /\ col' = [col EXCEPT ![t] = j]
  /\ unread' = [unread EXCEPT ![t] = Operands(mat, <<Row(t), j>>)]
  /\ good' = [good EXCEPT ![t] = TRUE]
  /\ UNCHANGED <<opt, mat, pc, lu, claimed, job, left>>

\* Faulty variant of Begin: the sum is accumulated in iluvals itself.
BeginInPlace(t, j) ==
  /\ ~Idle(t)
  /\ ~busy[t]
  /\ j \in left[t]
  /\ \A k \in left[t] : j <= k
  /\ busy' = [busy EXCEPT ![t] = TRUE]
  /\ col' = [col EXCEPT ![t] = j]
  /\ unread' = [unread EXCEPT ![t] = Operands(mat, <<Row(t), j>>)]
  /\ good' = [good EXCEPT ![t] = TRUE]
  /\ lu' = [lu EXCEPT ![<<Row(t), j>>] = "other"]
  /\ UNCHANGED <<opt, mat, pc, claimed, job, left>>

\* A thread starts on the next entry of its row.
Begin(t, j) ==
  /\ ~Idle(t)
  /\ ~busy[t]
  /\ j \in left[t]
  /\ \A k \in left[t] : j <= k
  /\ busy' = [busy EXCEPT ![t] = TRUE]
  /\ col' = [col EXCEPT ![t] = j]
  /\ unread' = [unread EXCEPT ![t] = Operands(mat, <<Row(t), j>>)]
  /\ good' = [good EXCEPT ![t] = TRUE]
  /\ UNCHANGED <<opt, mat, pc, lu, claimed, job, left>>

\* It takes an operand into its local sum (or divides the sum by it).
Read(t, e) ==
  /\ busy[t]
  /\ e \in unread[t]
  /\ unread' = [unread EXCEPT ![t] = @ \ {e}]
  /\ good' = [good EXCEPT ![t] = @ /\ lu[e] = "exact"]
  /\ UNCHANGED <<opt, mat, pc, lu, claimed, job, left, col, busy>>

\* The rest of the row, or the first entry of the next row of the chunk.
Advance(t) ==
  LET rest == left[t] \ {col[t]}
      next == job[t].at + 1
  IN  IF rest # {}
      THEN left' = [left EXCEPT ![t] = rest] /\ job' = job
      ELSE /\ job' = [job EXCEPT ![t].at = next]
           /\ left' = [left EXCEPT ![t] = IF next = job[t].end THEN {} ELSE mat[next % N]]

\* It stores the entry, whatever another thread has stored meanwhile.
Store(t) ==
  /\ busy[t]
  /\ unread[t] = {}
  /\ lu' = [lu EXCEPT ![<<Row(t), col[t]>>] = IF good[t] THEN "exact" ELSE "other"]
  /\ busy' = [busy EXCEPT ![t] = FALSE]
  /\ good' = [good EXCEPT ![t] = FALSE]
  /\ Advance(t)
  /\ UNCHANGED <<opt, mat, pc, claimed, col, unread>>

RegionDone == claimed = Total /\ \A t \in Threads : Idle(t)

\* Faulty variant of EndSweeps: a nowait at the end of the region.
EndSweepsEarly ==
  /\ pc = "sweep"
  /\ claimed = Total /\ Idle(Master)
  /\ pc' = IF opt.block THEN "invert" ELSE "ready"
  /\ UNCHANGED <<opt, mat, lu, team>>

\* The barrier at the end of the parallel region.
EndSweeps ==
  /\ pc = "sweep"
  /\ RegionDone
  /\ pc' = IF opt.block THEN "invert" ELSE "ready"
  /\ UNCHANGED <<opt, mat, lu, team>>

\* Each row's iteration of this loop touches its own diagonal block only.
InvertDiagonal ==
  /\ pc = "invert"
  /\ pc' = "ready"
  /\ lu' = [e \in Entries(mat) |-> IF e[1] # e[2] THEN lu[e]
                                   ELSE IF lu[e] = "exact" THEN "inverse" ELSE "other"]
  /\ UNCHANGED <<opt, mat, team>>

Work(t) == Claim(t) \/ (\E j \in Rows : Begin(t, j))
           \/ (\E e \in Entries(mat) : Read(t, e)) \/ Store(t)

Sequential == \/ SetupStorage \/ ComputeAgain \/ ComputeNew \/ InitFactors
              \/ EndSweeps \/ InvertDiagonal

Next == Sequential \/ \E t \in Threads : Work(t)

Spec == Init /\ [][Next]_vars

(***************************************************************************)
(* The calling thread goes on, and the operating system keeps scheduling   *)
(* every thread of the team.                                               *)
(***************************************************************************)
FairSpec == Spec /\ WF_vars(Sequential) /\ \A t \in Threads : WF_vars(Work(t))
-----------------------------------------------------------------------------
\* Type invariant.
TypeOK ==
  /\ opt \in Options
  /\ mat \in Matrices
  /\ pc \in {"new", "init", "sweep", "invert", "ready"}
  /\ lu \in [Entries(mat) -> Values]
  /\ claimed \in 0 .. Total
  /\ job \in [Threads -> [at : 0 .. Total, end : 0 .. Total]]
  /\ left \in [Threads -> SUBSET Rows]
  /\ col \in [Threads -> Nat]
  /\ busy \in [Threads -> BOOLEAN]
  /\ unread \in [Threads -> SUBSET Entries(mat)]
  /\ good \in [Threads -> BOOLEAN]

\* What an entry of a finished factorization should be.
Factored(e) == lu[e] = IF opt.block /\ e[1] = e[2] THEN "inverse" ELSE "exact"

(***************************************************************************)
(* On one thread a factorization is exact, after any number of sweeps and  *)
(* from any initial guess, a finished factorization included whose         *)
(* diagonal blocks are inverted (INIT_F_NONE).  So it is on any number of  *)
(* threads whose chunks are whole sweeps: all that a thread reads it has   *)
(* computed itself in the same sweep, and others have stored the same.     *)
(***************************************************************************)
InOrder == ~opt.threaded \/ Chunk >= N

InOrderIsExact == InOrder /\ pc = "ready" => \A e \in Entries(mat) : Factored(e)

(***************************************************************************)
(* However sweeps overlap, an entry without operands is exact in the end:  *)
(* the first row, and whatever else no product reaches.  (Nothing is       *)
(* promised for the others: a delayed thread may store an old value last.) *)
(***************************************************************************)
RootsExact ==
  pc = "ready" => \A e \in Entries(mat) : Operands(mat, e) = {} => Factored(e)

\* A call of compute returns.
Returns == pc = "init" ~> pc = "ready"

SweepsBegin == pc = "sweep" /\ claimed = 0

(***************************************************************************)
(* What documents and comments say that the sweeps start from.             *)
(* async_initialization_decl.hpp:16 of INIT_F_ZERO, "Initializate the      *)
(* factorization with zeros".                                              *)
(***************************************************************************)
ZeroInit == SweepsBegin /\ opt.init = "zero" => \A e \in Entries(mat) : lu[e] = "zero"

(***************************************************************************)
(* async_ilu_factor.cpp:107 of fact_init_sgs, "We set L' to (I+LD^(-1)) and*)
(* U' to (D+U)".                                                           *)
(***************************************************************************)
SgsInit ==
  SweepsBegin /\ opt.init = "sgs" =>
    \A e \in Entries(mat) : lu[e] = IF e[2] < e[1] THEN "sgs" ELSE "original"

\* Both.
InitAsDocumented == ZeroInit /\ SgsInit
=============================================================================
