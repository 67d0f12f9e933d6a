--------------------------- MODULE MCLevelSchedule ---------------------------
(***************************************************************************)
(* Instance of LevelSchedule: every pattern of N rows with a diagonal.     *)
(***************************************************************************)
EXTENDS LevelSchedule

CONSTANT MaxLevels      \* bound on Len(levels): the call may run away when the
                        \* structure is not symmetric

RunsAway == Len(levels) = MaxLevels /\ pc = "scan" /\ UNCHANGED vars

BoundedStep == Step /\ Len(levels') <= MaxLevels
BoundedSpec == Init /\ [][BoundedStep \/ Finished \/ RunsAway]_vars
                    /\ WF_vars(BoundedStep)
=============================================================================
