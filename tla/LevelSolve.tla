----------------------------- MODULE LevelSolve ------------------------------
(***************************************************************************)
(* Applying a level-scheduled preconditioner: Level_SGS, Level_BSGS        *)
(* (src/solverops_levels_sgs.cpp) and Async_Level_ILU0,                    *)
(* Async_Level_BlockILU0 (src/solverops_levels_ilu0.cpp), method apply.    *)
(*                                                                         *)
(* The levels are traversed upwards for the lower triangular solve into    *)
(* the preconditioner's vector y (ytemp), then downwards for the upper one *)
(* into z.  Each level is an "omp parallel for": its rows run concurrently *)
(* in any interleaving and all of them end before the next level starts.   *)
(* A row's kernel reads the components it needs one at a time and then     *)
(* stores its own once.  A component is "final" when it has the value that *)
(* serial substitution gives for the current right-hand side; the numbers  *)
(* are not modelled further.                                               *)
(***************************************************************************)
EXTENDS SparsityPattern

CONSTANTS
  Problems,             \* pairs <<pattern, schedule>> given by compute()
  Kinds                 \* subset of {"sgs", "ilu", "ilu scaled"}

(***************************************************************************)
(* What computeLevels guarantees to its callers (theorem PreparesProblems  *)
(* of LevelProofs).                                                        *)
(***************************************************************************)
Prepared(p) ==
  /\ p[1] \in Patterns
  /\ StructurallySymmetric(p[1])
  /\ p[2] \in Seq(0 .. N)
  /\ IsSchedule(p[1], p[2])

ASSUME ProblemsAssumption == \A p \in Problems : Prepared(p)

ASSUME KindsAssumption == Kinds \subseteq {"sgs", "ilu", "ilu scaled"}

VARIABLES
  kind,                 \* which preconditioner, and usescaling
  prob,                 \* its pattern and levels
  phase,                \* where the call is
  lvl,                  \* the level being worked on
  row,                  \* row |-> "waiting", "running" or "stored"
  unread,               \* row |-> the components its kernel still has to read
  sound,                \* row |-> all it has read were final
  y, z                  \* the vectors: row |-> what the component holds

applyVars == <<kind, prob, phase, lvl, row, unread, sound, y, z>>

pattern == prob[1]
starts == prob[2]
nlevels == Len(starts) - 1

\* Faulty variant of LevelRows: the end of a level counted in.
LevelRowsInclusive(l) == starts[l] .. starts[l+1]

\* The rows of level l: the iteration space of one parallel for.
LevelRows(l) == starts[l] .. starts[l+1] - 1

Values == {"old", "rhs", "final", "wrong", "out"}

NoRows == /\ row = [i \in Rows |-> "waiting"]
          /\ unread = [i \in Rows |-> {}]
          /\ sound = [i \in Rows |-> TRUE]

\* Between calls; y keeps the result for an earlier right-hand side.
ApplyInit ==
  /\ kind \in Kinds
  /\ prob \in Problems
  /\ phase = "idle"
  /\ lvl = 1
  /\ NoRows
  /\ y = [i \in Rows |-> "old"]
  /\ z = [i \in Rows |-> "old"]

\* apply(r, z) is called with a new right-hand side.
Call ==
  /\ phase = "idle"
  /\ phase' = IF kind = "sgs" THEN "lower" ELSE "load"
  /\ lvl' = 1
  /\ y' = [i \in Rows |-> "old"]
  /\ z' = [i \in Rows |-> "old"]
  /\ UNCHANGED <<kind, prob, row, unread, sound>>

\* z := S r, or z := r without scaling (a parallel for over disjoint entries).
LoadRhs ==
  /\ phase = "load"
  /\ z' = [i \in Rows |-> "rhs"]
  /\ phase' = "lower"
  /\ UNCHANGED <<kind, prob, lvl, row, unread, sound, y>>

Active == IF phase = "lower" THEN lvl <= nlevels ELSE phase = "upper" /\ lvl >= 1

\* The components the kernel reads, of the vector it also writes.
Needs(i) == IF phase = "lower" THEN Lower(pattern, i) ELSE Upper(pattern, i)

\* The right-hand side of row i is the one its kernel must use.
RhsReady(i) == IF phase = "lower" THEN kind = "sgs" \/ z[i] = "rhs"
                                  ELSE y[i] = "final"

Target == IF phase = "lower" THEN y ELSE z

\* A thread begins row i.
Start(i) ==
  /\ Active
  /\ i \in LevelRows(lvl)
  /\ row[i] = "waiting"
  /\ row' = [row EXCEPT ![i] = "running"]
  /\ unread' = [unread EXCEPT ![i] = Needs(i)]
  /\ sound' = [sound EXCEPT ![i] = RhsReady(i)]
  /\ UNCHANGED <<kind, prob, phase, lvl, y, z>>

\* It adds the term of column j to its local sum.
Read(i, j) ==
  /\ row[i] = "running"
  /\ j \in unread[i]
  /\ unread' = [unread EXCEPT ![i] = @ \ {j}]
  /\ sound' = [sound EXCEPT ![i] = @ /\ Target[j] = "final"]
  /\ UNCHANGED <<kind, prob, phase, lvl, row, y, z>>

\* It stores the component.
Store(i) ==
  /\ row[i] = "running"
  /\ unread[i] = {}
  /\ row' = [row EXCEPT ![i] = "stored"]
  /\ LET v == IF sound[i] THEN "final" ELSE "wrong"
     IN  IF phase = "lower" THEN y' = [y EXCEPT ![i] = v] /\ z' = z
                            ELSE z' = [z EXCEPT ![i] = v] /\ y' = y
  /\ UNCHANGED <<kind, prob, phase, lvl, unread, sound>>

LevelStored == \A i \in LevelRows(lvl) : row[i] = "stored"

\* Faulty variants of EndLevel: "nowait" on the loop; a loop that stays at its
\* level.
EndLevelNowait ==
  /\ Active
  /\ \A i \in LevelRows(lvl) : row[i] # "waiting"
  /\ row' = [i \in Rows |-> IF row[i] = "running" THEN "running" ELSE "waiting"]
  /\ lvl' = IF phase = "lower" THEN lvl + 1 ELSE lvl - 1
  /\ UNCHANGED <<kind, prob, phase, unread, sound, y, z>>

EndLevelStays ==
  /\ Active
  /\ LevelStored
  /\ row' = [i \in Rows |-> "waiting"]
  /\ UNCHANGED <<kind, prob, phase, lvl, unread, sound, y, z>>

\* The implicit barrier of the parallel for, and the next trip of the loop.
EndLevel ==
  /\ Active
  /\ LevelStored
  /\ row' = [i \in Rows |-> "waiting"]
  /\ lvl' = IF phase = "lower" THEN lvl + 1 ELSE lvl - 1
  /\ UNCHANGED <<kind, prob, phase, unread, sound, y, z>>

\* The upward loop over levels is over; the downward one starts at the last.
TurnBack ==
  /\ phase = "lower"
  /\ ~Active
  /\ phase' = "upper"
  /\ lvl' = nlevels
  /\ UNCHANGED <<kind, prob, row, unread, sound, y, z>>

\* Faulty variant of Return: the result is not scaled back.
ReturnUnscaled ==
  /\ phase = "upper"
  /\ ~Active
  /\ phase' = "idle"
  /\ lvl' = 1
  /\ UNCHANGED <<kind, prob, row, unread, sound, y, z>>

\* The end of the call, which for scaled factors ends with z := S z.
ReturnResult ==
  /\ phase = "upper"
  /\ ~Active
  /\ phase' = "idle"
  /\ lvl' = 1
  /\ z' = IF kind = "ilu scaled"
          THEN [i \in Rows |-> IF z[i] = "final" THEN "out" ELSE "wrong"]
          ELSE z
  /\ UNCHANGED <<kind, prob, row, unread, sound, y>>

RowStep(i) == Start(i) \/ (\E j \in Rows : Read(i, j)) \/ Store(i)

Loop == Call \/ LoadRhs \/ EndLevel \/ TurnBack \/ ReturnResult

ApplyNext == Loop \/ \E i \in Rows : RowStep(i)

ApplySpec == ApplyInit /\ [][ApplyNext]_applyVars

(***************************************************************************)
(* The calling thread goes on, and every iteration of a parallel for is    *)
(* given to a thread of the team that gets to it.  Nobody has to call.     *)
(***************************************************************************)
FairApply ==
  /\ ApplySpec
  /\ WF_applyVars(LoadRhs \/ EndLevel \/ TurnBack \/ ReturnResult)
  /\ \A i \in Rows : WF_applyVars(RowStep(i))
-----------------------------------------------------------------------------
\* Type invariant.
ApplyTypeOK ==
  /\ kind \in Kinds
  /\ phase \in {"idle", "load", "lower", "upper"}
  /\ lvl \in 0 .. Len(starts)
  /\ phase = "upper" => lvl <= nlevels
  /\ row \in [Rows -> {"waiting", "running", "stored"}]
  /\ unread \in [Rows -> SUBSET Rows]
  /\ sound \in [Rows -> BOOLEAN]
  /\ y \in [Rows -> Values]
  /\ z \in [Rows -> Values]

(***************************************************************************)
(* The two parallel fors have no data race: a row being computed does not  *)
(* read a component that a row of the same team has still to store or is   *)
(* storing.  It rests on the schedule and on the barrier after each level. *)
(***************************************************************************)
RaceFree ==
  \A i, j \in Rows : row[i] = "running" /\ j \in unread[i]
                       => j \notin LevelRows(lvl)

\* Every component a kernel has used was final, and so is all it has stored.
OnlyFinalValues ==
  \A i \in Rows : sound[i] /\ y[i] # "wrong" /\ z[i] # "wrong"

(***************************************************************************)
(* A call gives what serial substitution gives: between calls either none  *)
(* was made or every component of z is the result.                         *)
(***************************************************************************)
Result == IF kind = "ilu scaled" THEN "out" ELSE "final"

SerialResult ==
  phase = "idle" => \/ \A i \in Rows : z[i] = "old"
                    \/ \A i \in Rows : z[i] = Result /\ y[i] = "final"

\* A call comes back.
Returns == phase = "load" \/ phase = "lower" ~> phase = "idle"

(***************************************************************************)
(* Calls implement substitution, component by component: none is computed  *)
(* before those it needs, or twice.  Scaling the result is not part of the *)
(* triangular solves.                                                      *)
(***************************************************************************)
Serial == INSTANCE Substitution
            WITH Matrices <- {p[1] : p \in Problems},
                 mat <- pattern,
                 ysolved <- {i \in Rows : y[i] = "final"},
                 zsolved <- {i \in Rows : z[i] \in {"final", "out"}}

ImplementsSubstitution == Serial!Spec
=============================================================================
