----------------------------- MODULE AsyncApply ------------------------------
(***************************************************************************)
(* Asynchronous application of a triangular preconditioner:                *)
(* scalar_ilu0_apply and block_ilu0_apply (src/solverops_ilu0.cpp),        *)
(* AsyncSGS_SRPreconditioner::apply and its block variant                  *)
(* (src/solverops_sgs.cpp).                                                *)
(*                                                                         *)
(* Each triangular system is solved by napplysweeps sweeps, every one an   *)
(* "omp for schedule(dynamic, thread_chunk_size) nowait" over all rows     *)
(* inside one parallel region.  There is no barrier between sweeps: a      *)
(* thread that finds no chunk left in a sweep goes on to the next one      *)
(* while others still work on theirs, so rows of several sweeps, even the  *)
(* same row twice, are in flight together.  A kernel reads the components  *)
(* it needs one at a time, whatever they hold then, and stores its own     *)
(* once; the store may come late and replace a better value.               *)
(*                                                                         *)
(* A component is final when it equals the solution of the triangular      *)
(* system.  A row computed from final components only is final; any other  *)
(* is taken not to be.                                                     *)
(***************************************************************************)
EXTENDS SparsityPattern

CONSTANTS
  Threads,              \* the threads of a parallel region's team
  Master,               \* the thread that calls apply
  Sweeps,               \* napplysweeps
  Matrices,             \* patterns the preconditioner is applied with
  Options               \* records [kind, init, threaded, chunk]

ASSUME TeamAssumption == Master \in Threads
ASSUME SizesAssumption == Sweeps \in Nat \ {0}
ASSUME MatricesAssumption == Matrices \subseteq Patterns
ASSUME OptionsAssumption ==
  Options \subseteq [kind : {"ilu", "sgs"},
                     init : {"zero", "jacobi", "none"},
                     threaded : BOOLEAN,
                     chunk : Nat \ {0}]

VARIABLES
  opt,                  \* class, applyinittype, usethreads, thread_chunk_size
  mat,                  \* the pattern
  pc,                   \* where the calling thread is
  y, z,                 \* row |-> the component is final
  claimed,              \* iterations handed out in this region, sweep by sweep
  job,                  \* thread |-> iterations it has claimed: at .. end-1
  busy,                 \* thread |-> it is inside the kernel for job.at
  unread,               \* thread |-> components the kernel still has to read
  good                  \* thread |-> all that the kernel has read were final

vars == <<opt, mat, pc, y, z, claimed, job, busy, unread, good>>
team == <<claimed, job, busy, unread, good>>

Total == Sweeps * N
Chunk == opt.chunk

NoJob == [at |-> 0, end |-> 0]

Init ==
  /\ opt \in Options
  /\ mat \in Matrices
  /\ pc = "load"
  /\ \E old \in BOOLEAN :       \* ytemp may hold the solution for the same r
        y = [i \in Rows |-> old]
  /\ \E old \in BOOLEAN :
        z = [i \in Rows |-> old]
  /\ claimed = 0
  /\ job = [t \in Threads |-> NoJob]
  /\ busy = [t \in Threads |-> FALSE]
  /\ unread = [t \in Threads |-> {}]
  /\ good = [t \in Threads |-> FALSE]

\* ILU only: z := S r or z := r, the right-hand side of the first solve.
LoadRhs ==
  /\ pc = "load"
  /\ pc' = "inity"
  /\ z' = IF opt.kind = "ilu" THEN [i \in Rows |-> FALSE] ELSE z
  /\ UNCHANGED <<opt, mat, y, team>>

\* The initial guess for y: zero, or what ytemp holds from an earlier call.
InitLower ==
  /\ pc = "inity"
  /\ pc' = "lower"
  /\ y' = IF opt.init = "none" THEN y ELSE [i \in Rows |-> FALSE]
  /\ UNCHANGED <<opt, mat, z, team>>

(***************************************************************************)
(* The threads that share a loop.  perform_scalar_fgs and perform_block_fgs*)
(* are called outside any parallel region, where an "omp for" binds to the *)
(* calling thread alone; the ILU regions have "if(usethreads)".            *)
(***************************************************************************)
Team == IF (opt.kind = "sgs" /\ pc = "upper") \/ (opt.kind = "ilu" /\ opt.threaded)
        THEN Threads
        ELSE {Master}

\* Faulty variant of RowOf: both solves upwards.
RowOfUpwards(k) == k % N

\* The row of an iteration: upwards in the first solve, downwards in the other.
RowOf(k) == IF pc = "lower" THEN k % N ELSE N - 1 - (k % N)

\* The components a kernel reads, of the vector it also writes.
Needs(i) == IF pc = "lower" THEN Lower(mat, i) ELSE Upper(mat, i)

Target == IF pc = "lower" THEN y ELSE z

\* The right-hand side is final: r itself, or the y of the same row.
RhsFinal(i) == pc = "lower" \/ y[i]

InLoop == pc \in {"lower", "upper"}

Idle(t) == job[t].at = job[t].end

(***************************************************************************)
(* Dynamic scheduling: an idle thread takes the next chunk of the sweep    *)
(* being handed out; a chunk does not reach into the following sweep.      *)
(***************************************************************************)
Claim(t) ==
  /\ InLoop
  /\ t \in Team
  /\ Idle(t)
  /\ claimed < Total
  /\ LET left == N - (claimed % N)
         size == IF Chunk < left THEN Chunk ELSE left
     IN  /\ job' = [job EXCEPT ![t] = [at |-> claimed, end |-> claimed + size]]
         /\ claimed' = claimed + size
  /\ UNCHANGED <<opt, mat, pc, y, z, busy, unread, good>>

\* Faulty variant of Begin: the sum is accumulated in the vector itself.
BeginInPlace(t) ==
  /\ ~Idle(t)
  /\ ~busy[t]
  /\ busy' = [busy EXCEPT ![t] = TRUE]
  /\ unread' = [unread EXCEPT ![t] = Needs(RowOf(job[t].at))]
  /\ good' = [good EXCEPT ![t] = RhsFinal(RowOf(job[t].at))]
  /\ LET i == RowOf(job[t].at)
     IN  IF pc = "lower" THEN y' = [y EXCEPT ![i] = FALSE] /\ z' = z
                         ELSE z' = [z EXCEPT ![i] = FALSE] /\ y' = y
  /\ UNCHANGED <<opt, mat, pc, claimed, job>>

\* A thread enters the kernel for its next iteration.
Begin(t) ==
  /\ ~Idle(t)
  /\ ~busy[t]
  /\ busy' = [busy EXCEPT ![t] = TRUE]
  /\ unread' = [unread EXCEPT ![t] = Needs(RowOf(job[t].at))]
  /\ good' = [good EXCEPT ![t] = RhsFinal(RowOf(job[t].at))]
  /\ UNCHANGED <<opt, mat, pc, y, z, claimed, job>>

\* It adds the term of column j to its local sum.
Read(t, j) ==
  /\ busy[t]
  /\ j \in unread[t]
  /\ unread' = [unread EXCEPT ![t] = @ \ {j}]
  /\ good' = [good EXCEPT ![t] = @ /\ Target[j]]
  /\ UNCHANGED <<opt, mat, pc, y, z, claimed, job, busy>>

\* It stores the component, whatever another thread has stored meanwhile.
Store(t) ==
  /\ busy[t]
  /\ unread[t] = {}
  /\ LET i == RowOf(job[t].at)
     IN  IF pc = "lower" THEN y' = [y EXCEPT ![i] = good[t]] /\ z' = z
                         ELSE z' = [z EXCEPT ![i] = good[t]] /\ y' = y
  /\ busy' = [busy EXCEPT ![t] = FALSE]
  /\ job' = [job EXCEPT ![t].at = @ + 1]
  /\ UNCHANGED <<opt, mat, pc, claimed, unread, good>>

RegionDone == claimed = Total /\ \A t \in Threads : Idle(t)

\* Faulty variant of EndLower: the second loop goes on with the first's counter.
EndLowerKeepsCount ==
  /\ pc = "lower"
  /\ RegionDone
  /\ pc' = "initz"
  /\ job' = [t \in Threads |-> NoJob]
  /\ UNCHANGED <<opt, mat, y, z, claimed, busy, unread, good>>

\* The barrier that ends the first parallel region.
EndLower ==
  /\ pc = "lower"
  /\ RegionDone
  /\ pc' = "initz"
  /\ claimed' = 0
  /\ job' = [t \in Threads |-> NoJob]
  /\ UNCHANGED <<opt, mat, y, z, busy, unread, good>>

(***************************************************************************)
(* The initial guess for z: y, zero, or for the SGS classes what z held.   *)
(***************************************************************************)
InitUpper ==
  /\ pc = "initz"
  /\ ~(opt.kind = "ilu" /\ opt.init = "none")
  /\ pc' = "upper"
  /\ z' = IF opt.init = "none" THEN z ELSE [i \in Rows |-> FALSE]
  /\ UNCHANGED <<opt, mat, y, team>>

\* Faulty variant of InvalidInit: no exception.
InvalidInitIgnored ==
  /\ pc = "initz"
  /\ opt.kind = "ilu" /\ opt.init = "none"
  /\ pc' = "returned"
  /\ UNCHANGED <<opt, mat, y, z, team>>

\* The ILU functions accept no other initialization, and find out only now.
InvalidInit ==
  /\ pc = "initz"
  /\ opt.kind = "ilu" /\ opt.init = "none"
  /\ pc' = "thrown"
  /\ UNCHANGED <<opt, mat, y, z, team>>

\* The end of the second region, and of the call (z := S z keeps z final).
EndUpper ==
  /\ pc = "upper"
  /\ RegionDone
  /\ pc' = "returned"
  /\ UNCHANGED <<opt, mat, y, z, team>>

Finished == pc \in {"returned", "thrown"} /\ UNCHANGED vars

Work(t) == Claim(t) \/ Begin(t) \/ (\E j \in Rows : Read(t, j)) \/ Store(t)

Sequential == LoadRhs \/ InitLower \/ EndLower \/ InitUpper \/ InvalidInit \/ EndUpper

Next == Sequential \/ (\E t \in Threads : Work(t)) \/ Finished

Spec == Init /\ [][Next]_vars

(***************************************************************************)
(* The calling thread goes on, and the operating system keeps scheduling   *)
(* every thread of the team.                                               *)
(***************************************************************************)
FairSpec == Spec /\ WF_vars(Sequential) /\ \A t \in Threads : WF_vars(Work(t))
-----------------------------------------------------------------------------
\* Type invariant.
TypeOK ==
  /\ opt \in Options
  /\ mat \in Matrices
  /\ pc \in {"load", "inity", "lower", "initz", "upper", "returned", "thrown"}
  /\ y \in [Rows -> BOOLEAN]
  /\ z \in [Rows -> BOOLEAN]
  /\ claimed \in 0 .. Total
  /\ job \in [Threads -> [at : 0 .. Total, end : 0 .. Total]]
  /\ busy \in [Threads -> BOOLEAN]
  /\ unread \in [Threads -> SUBSET Rows]
  /\ good \in [Threads -> BOOLEAN]

(***************************************************************************)
(* solverops_ilu0.cpp:97, 130 "if done serially, this is a forward- (back-)*)
(* substitution": a solve on one thread is exact, after any number of      *)
(* sweeps and with any initial guess.  For the SGS classes the first solve *)
(* is always of this kind.  A call that throws in the middle has solved    *)
(* for y as well: ytemp is the initial guess of the next call.             *)
(***************************************************************************)
SolvedForY == pc \in {"initz", "upper", "returned", "thrown"}
SerialLower == opt.kind = "sgs" \/ ~opt.threaded
SerialUpper == opt.kind = "ilu" /\ ~opt.threaded

SerialIsSubstitution ==
  /\ SerialLower /\ SolvedForY => \A i \in Rows : y[i]
  /\ SerialUpper /\ pc = "returned" => \A i \in Rows : z[i]

(***************************************************************************)
(* However sweeps overlap, a row that needs no other is final once a       *)
(* region ends.  (Nothing is promised for other rows: a delayed thread may *)
(* store an old value last.)                                               *)
(***************************************************************************)
RootsFinal ==
  /\ SolvedForY => \A i \in Rows : Lower(mat, i) = {} => y[i]
  /\ pc = "returned" => \A i \in Rows : Upper(mat, i) = {} /\ y[i] => z[i]

(***************************************************************************)
(* Progress of the asynchronous iteration is never lost.  Take rows that   *)
(* need only each other, are final, and are being recomputed, if they are, *)
(* from final components: they stay so whatever the threads do.            *)
(***************************************************************************)
Closed(G) == \A i \in G : Needs(i) \subseteq G

Settled(G) ==
  /\ \A i \in G : Target[i] /\ RhsFinal(i)
  /\ \A t \in Threads : busy[t] /\ RowOf(job[t].at) \in G => good[t]

FrontAdvances ==
  [][\A G \in SUBSET Rows :
       InLoop /\ pc' = pc /\ Closed(G) /\ Settled(G) => Settled(G)']_vars

\* A call returns or throws, and throws only for the initialization it rejects.
Ends == <>(IF opt.kind = "ilu" /\ opt.init = "none" THEN pc = "thrown"
                                                    ELSE pc = "returned")
=============================================================================
