---------------------------- MODULE LevelSchedule ----------------------------
(***************************************************************************)
(* computeLevels (src/levelschedule.cpp): level scheduling by peeling      *)
(* independent rows off dependency lists.                                  *)
(*                                                                         *)
(* The lists (std::list of the column indices of a row) are kept as sets:  *)
(* they are built in increasing order and only ever shrink, so front() is  *)
(* the smallest member and find() is membership.  A removal step is one    *)
(* pass of the loop over jnode, which visits every neighbour of jnode; an  *)
(* exception ends the call and its locals are lost.                        *)
(***************************************************************************)
EXTENDS SparsityPattern

CONSTANT Matrices       \* the patterns the function may be called with

ASSUME MatricesAssumption == Matrices \subseteq Patterns

VARIABLES
  pc,                   \* where the call is
  mat,                  \* the argument
  depends,              \* depends[k]: the rows k still waits for, and k
  inode,                \* first row not yet put in a level
  levels,               \* the starts of the levels, std::vector<index>
  jnode                 \* row whose neighbours are being released

vars == <<pc, mat, depends, inode, levels, jnode>>

Last(s) == s[Len(s)]

Init ==
  /\ pc = "outer"
  /\ mat \in Matrices
  /\ depends = mat
  /\ inode = 0
  /\ levels = <<0>>
  /\ jnode = 0

\* while(inode < mat->nbrows)
EnterLoop ==
  /\ pc = "outer"
  /\ inode < N
  /\ pc' = "scan"
  /\ UNCHANGED <<mat, depends, inode, levels, jnode>>

\* Faulty variant of Ready: off by one.
ReadyLoose(k) == \A j \in depends[k] : j + 1 >= k

\* depends[inode].front() >= inode: nothing smaller is left in the list.
Ready(k) == \A j \in depends[k] : j >= k

\* One pass of the inner while: inode joins the level being collected.
TakeNode ==
  /\ pc = "scan"
  /\ inode < N
  /\ Ready(inode)
  /\ inode' = inode + 1
  /\ UNCHANGED <<pc, mat, depends, levels, jnode>>

\* Faulty variant of CloseLevel: the release starts over from the first row.
CloseLevelRestart ==
  /\ pc = "scan"
  /\ inode < N => ~Ready(inode)
  /\ levels' = Append(levels, inode)
  /\ jnode' = 0
  /\ pc' = "remove"
  /\ UNCHANGED <<mat, depends, inode>>

\* The inner while has ended: the level is closed at inode.
CloseLevel ==
  /\ pc = "scan"
  /\ inode < N => ~Ready(inode)
  /\ levels' = Append(levels, inode)
  /\ jnode' = Last(levels)
  /\ pc' = "remove"
  /\ UNCHANGED <<mat, depends, inode>>

\* Faulty variant of Neighbours: taken from the matrix, not from the list as it
\* is now.
NeighboursOfMatrix(j) == mat[j] \ {j}

\* The other rows in the list of j, visited to release them from j.
Neighbours(j) == depends[j] \ {j}

\* Faulty variant of ReleaseNeighbours: it skips what it does not find.
ReleaseWhatIsFound ==
  /\ pc = "remove"
  /\ jnode < inode
  /\ depends' = [k \in Rows |-> IF k \in Neighbours(jnode)
                                THEN depends[k] \ {jnode}
                                ELSE depends[k]]
  /\ jnode' = jnode + 1
  /\ UNCHANGED <<pc, mat, inode, levels>>

\* Faulty variant: erase(it, end()) instead of erase(it).
ReleaseFromThere ==
  /\ pc = "remove"
  /\ jnode < inode
  /\ \A k \in Neighbours(jnode) : jnode \in depends[k]
  /\ depends' = [k \in Rows |-> IF k \in Neighbours(jnode)
                                THEN {j \in depends[k] : j < jnode}
                                ELSE depends[k]]
  /\ jnode' = jnode + 1
  /\ UNCHANGED <<pc, mat, inode, levels>>

ReleaseNeighbours ==
  /\ pc = "remove"
  /\ jnode < inode
  /\ \A k \in Neighbours(jnode) : jnode \in depends[k]
  /\ depends' = [k \in Rows |-> IF k \in Neighbours(jnode)
                                THEN depends[k] \ {jnode}
                                ELSE depends[k]]
  /\ jnode' = jnode + 1
  /\ UNCHANGED <<pc, mat, inode, levels>>

\* throw std::runtime_error("Faulty dependency list!")
FaultyList ==
  /\ pc = "remove"
  /\ jnode < inode
  /\ \E k \in Neighbours(jnode) : jnode \notin depends[k]
  /\ pc' = "thrown"
  /\ UNCHANGED <<mat, depends, inode, levels, jnode>>

LevelReleased ==
  /\ pc = "remove"
  /\ jnode = inode
  /\ pc' = "outer"
  /\ UNCHANGED <<mat, depends, inode, levels, jnode>>

Return ==
  /\ pc = "outer"
  /\ inode = N
  /\ pc' = "returned"
  /\ UNCHANGED <<mat, depends, inode, levels, jnode>>

\* The call is over; the specification stutters, it is not stuck.
Finished == pc \in {"returned", "thrown"} /\ UNCHANGED vars

Step == \/ EnterLoop
        \/ TakeNode
        \/ CloseLevel
        \/ ReleaseNeighbours
        \/ FaultyList
        \/ LevelReleased
        \/ Return

Next == Step \/ Finished

Spec == Init /\ [][Next]_vars

\* The function runs on one thread, which the system keeps scheduling.
FairSpec == Spec /\ WF_vars(Step)
-----------------------------------------------------------------------------
\* Type invariant.
TypeOK ==
  /\ pc \in {"outer", "scan", "remove", "returned", "thrown"}
  /\ mat \in Matrices
  /\ depends \in [Rows -> SUBSET Rows]
  /\ inode \in 0 .. N
  /\ levels \in Seq(0 .. N)
  /\ levels # <<>>
  /\ jnode \in 0 .. N

(***************************************************************************)
(* No row of a level found so far has an entry in the column of another    *)
(* row of that level, no level is empty, each is as long as it can be:     *)
(* what tests/testlevelschedule.cpp:25-37 looks for in the result, at      *)
(* every point of the computation.  It relates the lists being edited to   *)
(* the original pattern: a list that loses an entry too early or keeps one *)
(* too long breaks it levels later.                                        *)
(***************************************************************************)
LevelsIndependent ==
  StructurallySymmetric(mat) => IsSchedulePrefix(mat, levels)

(***************************************************************************)
(* The assertions at levelschedule.cpp:65-67 and the header's "always one  *)
(* past the total number of rows": a returned schedule covers every row.   *)
(***************************************************************************)
ReturnsSchedule == pc = "returned" => IsSchedule(mat, levels)

(***************************************************************************)
(* levelschedule.cpp:32 takes front() of a list and :49 relies on a row    *)
(* staying in its own list: front() of an empty list is undefined, so no   *)
(* list may lose its own row however many neighbours release it.           *)
(***************************************************************************)
NoEmptyList == \A k \in Rows : k \in depends[k]

(***************************************************************************)
(* levelschedule.cpp:55, "jnode must be found because the sparsity         *)
(* structure is symmetric": the exception is not reached from a            *)
(* structurally symmetric matrix.                                          *)
(***************************************************************************)
NoFaultyList == StructurallySymmetric(mat) => pc # "thrown"

(***************************************************************************)
(* A schedule is never handed back for a matrix whose structure is not     *)
(* symmetric: the call throws or does not come back.                       *)
(***************************************************************************)
OnlySymmetricReturns == pc = "returned" => StructurallySymmetric(mat)

(***************************************************************************)
(* For a structurally symmetric matrix the lists hold, at any point, just  *)
(* the entries that are not released yet: those of rows below Cleared are  *)
(* gone from the lists of all later rows, and nothing else is.  A row      *)
(* released twice, or by the wrong neighbour, breaks it.                   *)
(***************************************************************************)
Cleared == IF pc = "remove" THEN jnode ELSE Last(levels)

ListsExact ==
  StructurallySymmetric(mat) =>
    \A k \in Rows : depends[k] = {j \in mat[k] : j >= Cleared \/ j >= k}

\* Every call on a structurally symmetric matrix returns: the outer loop, whose
\* counter advances only in the inner one, does not spin.
Terminates == StructurallySymmetric(mat) => <>(pc = "returned")

(***************************************************************************)
(* The refinement: the levels found are those of GreedyLevels, one by one, *)
(* and for a symmetric structure they are all found.                       *)
(***************************************************************************)
Greedy == INSTANCE GreedyLevels
ImplementsGreedy == Greedy!Spec
=============================================================================
