---------------------------- MODULE MCLevelSolve -----------------------------
(***************************************************************************)
(* Instances of LevelSolve: structurally symmetric patterns with the       *)
(* schedule that computeLevels gives them (there is just one, see          *)
(* IsSchedule).                                                            *)
(***************************************************************************)
EXTENDS LevelSolve

LOCAL INSTANCE SequencesExt

CONSTANT EdgeSets       \* the off-diagonal pairs, as sets of two-element sets

SymmetricPattern(E) == [i \in Rows |-> {i} \cup {j \in Rows : {i, j} \in E}]

Cuts == {c \in SUBSET (0 .. N) : 0 \in c /\ N \in c}

Schedules(m) ==
  {s \in {SetToSortSeq(c, <) : c \in Cuts} : IsSchedule(m, s)}

MCProblems ==
  UNION {LET m == SymmetricPattern(E) IN {<<m, s>> : s \in Schedules(m)} :
           E \in EdgeSets}

AllEdgeSets == SUBSET {e \in SUBSET Rows : \E i, j \in e : i # j /\ e = {i, j}}
=============================================================================
