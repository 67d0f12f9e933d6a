---------------------------- MODULE LevelProofs ------------------------------
(***************************************************************************)
(* Level scheduling and its application, for any number of rows.           *)
(*                                                                         *)
(* computeLevels, for any pattern: when the structure is symmetric the     *)
(* schedule is correct, no exception is thrown and the levels are those of *)
(* GreedyLevels; otherwise no schedule is returned.  What is returned is   *)
(* what the application is assumed to be given.                            *)
(*                                                                         *)
(* The application, for any problem so prepared: no data race, every value *)
(* used is final, and a call implements serial substitution.               *)
(***************************************************************************)
EXTENDS LevelSchedule, LevelSolve, SequenceTheorems, TLAPS

\* Where the call is, relative to the levels closed so far.
Position ==
  /\ pc \in {"outer", "returned"} => Last(levels) = inode
  /\ pc = "returned" => inode = N
  /\ pc = "scan" => /\ Last(levels) < N
                    /\ Last(levels) <= inode
                    /\ Independent(mat, Last(levels), inode)
  /\ pc = "remove" => /\ Last(levels) = inode
                      /\ jnode <= inode

(***************************************************************************)
(* The inductive invariant.  LevelsIndependent alone is not inductive: the *)
(* level about to be closed is independent because the rows the scan has   *)
(* taken are (Position), and they are because the lists are exact.         *)
(***************************************************************************)
IInv == /\ TypeOK
        /\ pc # "thrown"
        /\ Position
        /\ ListsExact
        /\ IsSchedulePrefix(mat, levels)

Symmetric == StructurallySymmetric(mat)

\* What the declaration of a pattern says of one row.
LEMMA PatternType ==
  ASSUME NEW m \in Matrices
  PROVE  /\ m \in [Rows -> SUBSET Rows]
         /\ \A i \in Rows : i \in m[i]
  BY MatricesAssumption DEF Patterns

\* Closing a level at e extends a schedule prefix.
LEMMA ExtendPrefix ==
  ASSUME NEW m, NEW lv \in Seq(0 .. N), lv # <<>>, NEW e \in 0 .. N,
         IsSchedulePrefix(m, lv), Last(lv) < e,
         Independent(m, Last(lv), e), Maximal(m, Last(lv), e)
  PROVE  /\ Append(lv, e) \in Seq(0 .. N)
         /\ Append(lv, e) # <<>>
         /\ Last(Append(lv, e)) = e
         /\ IsSchedulePrefix(m, Append(lv, e))
<1> DEFINE ap == Append(lv, e)
<1>1. /\ ap \in Seq(0 .. N)
      /\ ap # <<>>
      /\ Len(ap) = Len(lv) + 1
      /\ Len(lv) \in Nat
      /\ Len(lv) >= 1
      /\ ap[Len(ap)] = e
      /\ \A k \in 1 .. Len(lv) : ap[k] = lv[k]
  BY AppendProperties, EmptySeq, LenProperties
<1> HIDE DEF ap
<1>2. ASSUME NEW l \in Levels(ap)
      PROVE  /\ ap[l] < ap[l+1]
             /\ ap[l+1] <= N
             /\ Independent(m, ap[l], ap[l+1])
             /\ Maximal(m, ap[l], ap[l+1])
  <2>1. CASE l = Len(lv)
    <3>1. ap[l] = Last(lv) /\ ap[l+1] = e
      BY <1>1, <2>1 DEF Last
    <3>2. QED BY <3>1, NAssumption
  <2>2. CASE l # Len(lv)
    <3>1. l \in Levels(lv) /\ l \in 1 .. Len(lv) /\ l+1 \in 1 .. Len(lv)
      BY <1>1, <2>2 DEF Levels
    <3>2. ap[l] = lv[l] /\ ap[l+1] = lv[l+1]
      BY <1>1, <3>1
    <3>3. QED BY <3>1, <3>2 DEF IsSchedulePrefix
  <2>3. QED BY <2>1, <2>2
<1>3. ap[1] = 0
  BY <1>1 DEF IsSchedulePrefix
<1>4. IsSchedulePrefix(m, ap)
  BY <1>1, <1>2, <1>3 DEF IsSchedulePrefix
<1>5. QED BY <1>1, <1>4 DEF ap, Last

\* The last boundary is one of the boundaries.
LEMMA LastType == TypeOK => Last(levels) \in 0 .. N
<1>1. TypeOK => Len(levels) \in 1 .. Len(levels)
  BY EmptySeq, LenProperties DEF TypeOK
<1>2. QED BY <1>1, ElementOfSeq DEF TypeOK, Last

\* The type invariant is inductive without any other fact.
THEOREM TypeCorrect == Spec => []TypeOK
<1>1. Init => TypeOK
  BY NAssumption, PatternType DEF Init, TypeOK
<1>2. TypeOK /\ [Next]_vars => TypeOK'
  <2> SUFFICES ASSUME TypeOK, [Next]_vars PROVE TypeOK'
    OBVIOUS
  <2> USE NAssumption DEF TypeOK
  <2>1. CASE EnterLoop BY <2>1 DEF EnterLoop
  <2>2. CASE TakeNode BY <2>2 DEF TakeNode
  <2>3. CASE CloseLevel
    <3>1. Last(levels) \in 0 .. N BY LastType
    <3>2. QED BY <2>3, <3>1, AppendProperties DEF CloseLevel
  <2>4. CASE ReleaseNeighbours
    <3>1. \A k \in Rows : depends[k] \ {jnode} \in SUBSET Rows
      OBVIOUS
    <3>2. depends' \in [Rows -> SUBSET Rows]
      BY <2>4, <3>1 DEF ReleaseNeighbours
    <3>3. QED BY <2>4, <3>2 DEF ReleaseNeighbours
  <2>5. CASE FaultyList BY <2>5 DEF FaultyList
  <2>6. CASE LevelReleased BY <2>6 DEF LevelReleased
  <2>7. CASE Return BY <2>7 DEF Return
  <2>8. CASE UNCHANGED vars BY <2>8 DEF vars
  <2>9. QED
    BY <2>1, <2>2, <2>3, <2>4, <2>5, <2>6, <2>7, <2>8 DEF Next, Step, Finished
<1>3. QED BY <1>1, <1>2, PTL DEF Spec

(***************************************************************************)
(* For every matrix: no list loses its own row, so front() is never taken  *)
(* of an empty one (levelschedule.cpp:32).                                 *)
(***************************************************************************)
THEOREM ListsKeepTheirRow == Spec => []NoEmptyList
<1>1. Init => NoEmptyList
  BY PatternType DEF Init, NoEmptyList
<1>2. TypeOK /\ NoEmptyList /\ [Next]_vars => NoEmptyList'
  <2> SUFFICES ASSUME TypeOK, NoEmptyList, [Next]_vars, NEW k \in Rows
               PROVE  k \in depends'[k]
    BY DEF NoEmptyList
  <2> USE DEF TypeOK, NoEmptyList
  <2>1. CASE ReleaseNeighbours
    BY <2>1 DEF ReleaseNeighbours, Neighbours
  <2>2. CASE ~ReleaseNeighbours
    BY <2>2 DEF Next, Step, Finished, vars, EnterLoop, TakeNode, CloseLevel,
                FaultyList, LevelReleased, Return
  <2>3. QED BY <2>1, <2>2
<1>3. QED BY <1>1, <1>2, TypeCorrect, PTL DEF Spec
-----------------------------------------------------------------------------
LEMMA InitInv ==
  ASSUME Symmetric, Init
  PROVE  IInv
<1> USE DEF Init
<1>1. TypeOK
  BY NAssumption, PatternType DEF TypeOK
<1>2. Last(levels) = 0 /\ Len(levels) = 1
  BY DEF Last
<1>3. ListsExact
  <2>1. Cleared = 0
    BY <1>2 DEF Cleared
  <2>2. \A k \in Rows : mat[k] = {j \in mat[k] : j >= 0 \/ j >= k}
    BY PatternType, NAssumption DEF Rows
  <2>3. QED BY <2>1, <2>2 DEF ListsExact
<1>4. IsSchedulePrefix(mat, levels)
  BY <1>2 DEF IsSchedulePrefix, Levels
<1>5. QED BY <1>1, <1>2, <1>3, <1>4 DEF IInv, Position

\* A row the scan takes is independent of the rows taken before it.
LEMMA TakeNodeInv ==
  ASSUME Symmetric, IInv, TypeOK', TakeNode
  PROVE  IInv'
<1> USE DEF IInv, TypeOK, TakeNode
<1> DEFINE s == Last(levels)
<1>1. s \in 0 .. N /\ Last(levels') = s /\ Cleared = s /\ Cleared' = s
  BY LastType DEF Cleared
<1>2. inode \in Rows /\ inode \in Nat
  BY NAssumption DEF Rows
<1>3. StructurallySymmetric(mat) /\ mat \in [Rows -> SUBSET Rows]
  BY PatternType DEF Symmetric
<1>4. \A i \in s .. inode - 1 : i \notin mat[inode] /\ inode \notin mat[i]
  <2> SUFFICES ASSUME NEW i \in s .. inode - 1
               PROVE  i \notin mat[inode] /\ inode \notin mat[i]
    OBVIOUS
  <2>1. i \in Rows /\ i \in Nat /\ i >= s /\ i < inode
    BY <1>1, <1>2, NAssumption DEF Rows
  <2>2. i \notin mat[inode]
    BY <1>1, <1>2, <1>3, <2>1, NAssumption DEF Ready, ListsExact
  <2>3. QED BY <2>1, <2>2, <1>2, <1>3 DEF StructurallySymmetric
<1>5. Independent(mat, s, inode)
  BY DEF Position
<1>6. Independent(mat, s, inode + 1)
  BY <1>1, <1>2, <1>4, <1>5 DEF Independent
<1>7. s < N /\ s <= inode
  BY DEF Position
<1>8. Position'
  BY <1>1, <1>2, <1>6, <1>7 DEF Position
<1>9. ListsExact'
  BY <1>1 DEF ListsExact
<1>10. QED BY <1>8, <1>9

\* A level is closed at a row that waits for one of its rows, or at the end.
LEMMA CloseLevelFacts ==
  ASSUME Symmetric, IInv, CloseLevel
  PROVE  /\ Last(levels) < inode
         /\ Last(levels) \in 0 .. N
         /\ Independent(mat, Last(levels), inode)
         /\ Maximal(mat, Last(levels), inode)
<1> USE DEF IInv, TypeOK, CloseLevel
<1> DEFINE s == Last(levels)
<1>1. s \in 0 .. N /\ Cleared = s
  BY LastType DEF Cleared
<1>2. s < N /\ s <= inode /\ Independent(mat, s, inode)
  BY DEF Position
<1>3. StructurallySymmetric(mat) /\ mat \in [Rows -> SUBSET Rows]
  BY PatternType DEF Symmetric
<1>4. inode # s
  <2> SUFFICES ASSUME inode = s PROVE FALSE
    OBVIOUS
  <2>1. inode \in Rows
    BY <1>1, <1>2, NAssumption DEF Rows
  <2>2. \A j \in mat[inode] : j \in Nat
    BY <1>3, <2>1 DEF Rows
  <2>3. Ready(inode)
    BY <1>1, <1>3, <2>1, <2>2 DEF Ready, ListsExact
  <2>4. QED BY <1>2, <2>3
<1>5. Maximal(mat, s, inode)
  <2> SUFFICES ASSUME inode < N PROVE \E j \in s .. inode - 1 : j \in mat[inode]
    BY DEF Maximal
  <2>1. inode \in Rows
    BY NAssumption DEF Rows
  <2>2. PICK j \in depends[inode] : ~(j >= inode)
    BY DEF Ready
  <2>3. j \in mat[inode] /\ (j >= s \/ j >= inode)
    BY <1>1, <1>3, <2>1 DEF ListsExact
  <2>4. j \in Nat
    BY <1>3, <2>1, <2>3 DEF Rows
  <2>5. j \in s .. inode - 1
    BY <1>1, <2>1, <2>2, <2>3, <2>4 DEF Rows
  <2>6. QED BY <2>3, <2>5
<1>6. QED BY <1>1, <1>2, <1>4, <1>5

LEMMA CloseLevelInv ==
  ASSUME Symmetric, IInv, TypeOK', CloseLevel
  PROVE  IInv'
<1> USE DEF IInv, TypeOK, CloseLevel
<1>1. /\ IsSchedulePrefix(mat, levels')
      /\ Last(levels') = inode
  BY CloseLevelFacts, ExtendPrefix
<1>2. Cleared = Last(levels) /\ Cleared' = Last(levels)
  BY DEF Cleared
<1>3. ListsExact'
  BY <1>2 DEF ListsExact
<1>4. Position'
  BY <1>1, CloseLevelFacts, NAssumption DEF Position
<1>5. QED BY <1>1, <1>3, <1>4

\* The neighbours of the row being released are the later rows next to it.
LEMMA NeighboursAreUpper ==
  ASSUME Symmetric, IInv, pc = "remove", jnode < inode
  PROVE  /\ jnode \in Rows
         /\ Neighbours(jnode) = {k \in mat[jnode] : k > jnode}
         /\ \A k \in Neighbours(jnode) : k \in Rows /\ jnode \in depends[k]
<1> USE DEF IInv, TypeOK
<1>1. jnode \in Rows /\ Cleared = jnode
  BY NAssumption DEF Rows, Cleared
<1>2. StructurallySymmetric(mat) /\ mat \in [Rows -> SUBSET Rows]
  BY PatternType DEF Symmetric
<1>3. \A k \in mat[jnode] : k \in Rows /\ k \in Nat
  BY <1>1, <1>2 DEF Rows
<1>4. depends[jnode] = {j \in mat[jnode] : j >= jnode}
  BY <1>1, <1>2 DEF ListsExact
<1>5. Neighbours(jnode) = {k \in mat[jnode] : k > jnode}
  BY <1>1, <1>3, <1>4 DEF Neighbours, Rows
<1>6. ASSUME NEW k \in Neighbours(jnode)
      PROVE  k \in Rows /\ jnode \in depends[k]
  <2>1. k \in Rows /\ k \in mat[jnode]
    BY <1>3, <1>5
  <2>2. jnode \in mat[k]
    BY <1>1, <1>2, <2>1 DEF StructurallySymmetric
  <2>3. QED BY <1>1, <1>2, <2>1, <2>2 DEF ListsExact, Rows
<1>7. QED BY <1>1, <1>5, <1>6

LEMMA ReleaseInv ==
  ASSUME Symmetric, IInv, TypeOK', ReleaseNeighbours
  PROVE  IInv'
<1> USE DEF IInv, TypeOK, ReleaseNeighbours
<1>1. /\ jnode \in Rows
      /\ Neighbours(jnode) = {k \in mat[jnode] : k > jnode}
  BY NeighboursAreUpper
<1>2. StructurallySymmetric(mat) /\ mat \in [Rows -> SUBSET Rows]
  BY PatternType DEF Symmetric
<1>3. Cleared = jnode /\ Cleared' = jnode + 1
  BY DEF Cleared
<1>4. ListsExact'
  <2> SUFFICES ASSUME NEW k \in Rows
               PROVE  depends'[k] = {j \in mat[k] : j >= jnode + 1 \/ j >= k}
    BY <1>3 DEF ListsExact
  <2>1. depends[k] = {j \in mat[k] : j >= jnode \/ j >= k}
    BY <1>2, <1>3 DEF ListsExact
  <2>2. k \in Nat /\ jnode \in Nat /\ \A j \in mat[k] : j \in Nat
    BY <1>1, <1>2 DEF Rows
  <2>3. CASE k \in Neighbours(jnode)
    <3>1. depends'[k] = depends[k] \ {jnode} /\ k > jnode
      BY <1>1, <2>3
    <3>2. QED BY <2>1, <2>2, <3>1
  <2>4. CASE k \notin Neighbours(jnode)
    <3>1. depends'[k] = depends[k]
      BY <2>4
    <3>2. k <= jnode \/ jnode \notin mat[k]
      BY <1>1, <1>2, <2>2, <2>4 DEF StructurallySymmetric
    <3>3. QED BY <2>1, <2>2, <3>1, <3>2
  <2>5. QED BY <2>3, <2>4
<1>5. Position'
  BY NAssumption DEF Position
<1>6. QED BY <1>4, <1>5

LEMMA NextInv ==
  ASSUME Symmetric, IInv, TypeOK', [Next]_vars
  PROVE  IInv'
<1>1. CASE EnterLoop
  <2>1. Last(levels) = inode /\ inode \in Nat
    BY <1>1 DEF EnterLoop, IInv, Position, TypeOK
  <2>2. Independent(mat, inode, inode)
    BY <2>1 DEF Independent
  <2>3. Position'
    BY <1>1, <2>1, <2>2 DEF EnterLoop, Position
  <2>4. ListsExact'
    BY <1>1 DEF EnterLoop, IInv, ListsExact, Cleared
  <2>5. QED BY <1>1, <2>3, <2>4 DEF EnterLoop, IInv
<1>2. CASE TakeNode BY <1>2, TakeNodeInv
<1>3. CASE CloseLevel BY <1>3, CloseLevelInv
<1>4. CASE ReleaseNeighbours BY <1>4, ReleaseInv
<1>5. CASE FaultyList
  BY <1>5, NeighboursAreUpper DEF FaultyList
<1>6. CASE LevelReleased
  <2>1. Last(levels) = inode
    BY <1>6 DEF LevelReleased, IInv, Position
  <2>2. ListsExact'
    BY <1>6, <2>1 DEF LevelReleased, IInv, ListsExact, Cleared
  <2>3. QED
    BY <1>6, <2>1, <2>2 DEF LevelReleased, IInv, Position
<1>7. CASE Return
  <2>1. ListsExact'
    BY <1>7 DEF Return, IInv, ListsExact, Cleared
  <2>2. QED BY <1>7, <2>1 DEF Return, IInv, Position
<1>8. CASE UNCHANGED vars
  BY <1>8 DEF vars, IInv, Position, ListsExact, Cleared
<1>9. QED
  BY <1>1, <1>2, <1>3, <1>4, <1>5, <1>6, <1>7, <1>8 DEF Next, Step, Finished

LEMMA InvariantHolds == Spec => [](Symmetric => IInv)
<1>1. Init => (Symmetric => IInv) BY InitInv
<1>2. (Symmetric => IInv) /\ TypeOK' /\ [Next]_vars => (Symmetric => IInv)'
  <2>1. [Next]_vars => (Symmetric' => Symmetric)
    BY DEF Symmetric, Next, Step, Finished, vars, EnterLoop, TakeNode, CloseLevel,
           ReleaseNeighbours, FaultyList, LevelReleased, Return
  <2>2. QED BY <2>1, NextInv
<1>3. QED BY <1>1, <1>2, TypeCorrect, PTL DEF Spec
-----------------------------------------------------------------------------
(***************************************************************************)
(* For matrices whose structure need not be symmetric.  An entry leaves    *)
(* the list of a later row only together with the check that the row is    *)
(* among the neighbours of the column; a row is taken when only its upper  *)
(* entries are left, and all of those are checked when it is released.  So *)
(* a call that gets through all rows has seen both halves of every pair.   *)
(***************************************************************************)
AnyPosition ==
  /\ pc \in {"outer", "returned"} => Last(levels) = inode
  /\ pc = "returned" => inode = N
  /\ pc = "remove" => Last(levels) = inode /\ jnode <= inode
  /\ pc = "scan" => Last(levels) <= inode

\* An entry missing from a list is a lower one with its mirror image present.
ReleasedHasMirror ==
  \A k \in Rows : \A j \in mat[k] \ depends[k] : j < k /\ k \in mat[j]

\* The upper entries of a row released so far have their mirror image.
UpperHasMirror ==
  \A j \in Rows : j < Cleared => \A k \in mat[j] : k > j => j \in mat[k]

AnyInv == /\ TypeOK
          /\ pc # "thrown" => /\ AnyPosition
                              /\ \A k \in Rows : depends[k] \subseteq mat[k]
                              /\ ReleasedHasMirror
                              /\ \A i \in Rows : i < inode => Ready(i)
                              /\ UpperHasMirror

LEMMA AnyInit == Init => AnyInv
<1> SUFFICES ASSUME Init PROVE AnyInv
  OBVIOUS
<1> USE DEF Init
<1>1. TypeOK
  BY NAssumption, PatternType DEF TypeOK
<1>2. Last(levels) = 0 /\ Cleared = 0
  BY DEF Last, Cleared
<1>3. \A i \in Rows : i \in Nat /\ ~(i < 0)
  BY NAssumption DEF Rows
<1>4. QED BY <1>1, <1>2, <1>3
             DEF AnyInv, AnyPosition, ReleasedHasMirror, UpperHasMirror

\* Releasing a row that the scan has taken.
LEMMA AnyRelease ==
  ASSUME AnyInv, TypeOK', ReleaseNeighbours
  PROVE  AnyInv'
<1> USE DEF AnyInv, TypeOK, ReleaseNeighbours
<1>1. jnode \in Rows /\ jnode \in Nat /\ Ready(jnode)
  BY NAssumption DEF Rows
<1>2. mat \in [Rows -> SUBSET Rows]
  BY PatternType
<1>3. \A k \in Neighbours(jnode) : k \in Rows /\ k > jnode /\ k \in mat[jnode]
  BY <1>1, <1>2 DEF Neighbours, Ready, Rows
<1>4. \A k \in Rows : depends'[k] \subseteq depends[k]
  OBVIOUS
<1>5. \A k \in Rows : depends'[k] \subseteq mat'[k]
  BY <1>4
<1>6. ReleasedHasMirror'
  <2> SUFFICES ASSUME NEW k \in Rows, NEW j \in mat[k], j \notin depends'[k]
               PROVE  j < k /\ k \in mat[j]
    BY DEF ReleasedHasMirror
  <2>1. CASE j \notin depends[k]
    BY <2>1 DEF ReleasedHasMirror
  <2>2. CASE j \in depends[k]
    <3>1. k \in Neighbours(jnode) /\ j = jnode
      BY <2>2
    <3>2. QED BY <3>1, <1>3
  <2>3. QED BY <2>1, <2>2
<1>7. \A i \in Rows : i < inode' => Ready(i)'
  BY <1>4 DEF Ready
<1>8. UpperHasMirror'
  <2> SUFFICES ASSUME NEW j \in Rows, j < jnode + 1, NEW k \in mat[j], k > j
               PROVE  j \in mat[k]
    BY DEF UpperHasMirror, Cleared
  <2>1. CASE j < jnode
    BY <2>1 DEF UpperHasMirror, Cleared
  <2>2. CASE j = jnode
    <3>1. k \in Rows /\ k # j
      BY <1>2 DEF Rows
    <3>2. k \in depends[j]
      BY <3>1 DEF ReleasedHasMirror, Rows
    <3>3. k \in Neighbours(jnode)
      BY <2>2, <3>1, <3>2 DEF Neighbours
    <3>4. QED BY <2>2, <3>1, <3>3
  <2>3. QED BY <1>1, <2>1, <2>2 DEF Rows
<1>9. AnyPosition'
  BY NAssumption DEF AnyPosition
<1>10. QED BY <1>5, <1>6, <1>7, <1>8, <1>9

LEMMA AnyNext ==
  ASSUME AnyInv, TypeOK', [Next]_vars
  PROVE  AnyInv'
<1> USE DEF AnyInv, TypeOK
<1>0. Last(levels) \in 0 .. N
  BY LastType
<1>1. CASE EnterLoop
  BY <1>0, <1>1 DEF EnterLoop, AnyPosition, ReleasedHasMirror, UpperHasMirror,
                    Cleared, Ready
<1>2. CASE TakeNode
  <2>1. \A i \in Rows : i < inode + 1 => Ready(i)
    BY <1>2 DEF TakeNode, Rows
  <2>2. QED
    BY <1>0, <1>2, <2>1 DEF TakeNode, AnyPosition, ReleasedHasMirror,
                            UpperHasMirror, Cleared, Ready
<1>3. CASE CloseLevel
  <2>1. Last(levels') = inode /\ Cleared' = Cleared
    BY <1>3, AppendProperties DEF CloseLevel, Last, Cleared
  <2>2. QED
    BY <1>0, <1>3, <2>1 DEF CloseLevel, AnyPosition, ReleasedHasMirror,
                            UpperHasMirror, Ready
<1>4. CASE ReleaseNeighbours BY <1>4, AnyRelease
<1>5. CASE FaultyList BY <1>5 DEF FaultyList
<1>6. CASE LevelReleased
  <2>1. Cleared' = Cleared
    BY <1>6 DEF LevelReleased, Cleared, AnyPosition
  <2>2. QED
    BY <1>6, <2>1 DEF LevelReleased, AnyPosition, ReleasedHasMirror,
                      UpperHasMirror, Ready
<1>7. CASE Return
  <2>1. Cleared' = Cleared
    BY <1>7 DEF Return, Cleared
  <2>2. QED
    BY <1>7, <2>1 DEF Return, AnyPosition, ReleasedHasMirror, UpperHasMirror,
                      Ready
<1>8. CASE UNCHANGED vars
  BY <1>8 DEF vars, AnyPosition, ReleasedHasMirror, UpperHasMirror, Cleared,
              Ready
<1>9. QED
  BY <1>1, <1>2, <1>3, <1>4, <1>5, <1>6, <1>7, <1>8 DEF Next, Step, Finished

(***************************************************************************)
(* For every matrix: a schedule is returned only when the structure is     *)
(* symmetric, so no caller gets levels computed from one-sided entries.    *)
(***************************************************************************)
THEOREM ReturnsOnlyForSymmetric == Spec => []OnlySymmetricReturns
<1>1. Init => AnyInv BY AnyInit
<1>2. AnyInv /\ TypeOK' /\ [Next]_vars => AnyInv' BY AnyNext
<1>3. AnyInv => OnlySymmetricReturns
  <2> SUFFICES ASSUME AnyInv, pc = "returned",
                      NEW i \in Rows, NEW j \in Rows, j \in mat[i]
               PROVE  i \in mat[j]
    BY DEF OnlySymmetricReturns, StructurallySymmetric
  <2> USE DEF AnyInv, TypeOK
  <2>1. inode = N /\ Cleared = N
    BY DEF AnyPosition, Cleared
  <2>2. i \in Nat /\ j \in Nat /\ i < N /\ j < N
    BY NAssumption DEF Rows
  <2>3. CASE j < i
    <3>1. Ready(i)
      BY <2>1, <2>2
    <3>2. j \notin depends[i]
      BY <2>2, <2>3, <3>1 DEF Ready
    <3>3. QED BY <3>2 DEF ReleasedHasMirror
  <2>4. CASE j > i
    BY <2>1, <2>2, <2>4 DEF UpperHasMirror
  <2>5. CASE j = i
    BY <2>5
  <2>6. QED BY <2>2, <2>3, <2>4, <2>5
<1>4. QED BY <1>1, <1>2, <1>3, TypeCorrect, PTL DEF Spec
-----------------------------------------------------------------------------
(***************************************************************************)
(* For every structurally symmetric matrix: at every point of the call the *)
(* levels found are non-empty, independent and maximal, the lists hold     *)
(* just the unreleased entries, a returned schedule covers all rows, and   *)
(* the exception at levelschedule.cpp:57 is not reached.                   *)
(***************************************************************************)
THEOREM ScheduleCorrect ==
  Spec => [](/\ LevelsIndependent
             /\ ListsExact
             /\ NoFaultyList
             /\ ReturnsSchedule)
<1>1. (Symmetric => IInv) => LevelsIndependent
  BY DEF IInv, LevelsIndependent, Symmetric
<1>2. (Symmetric => IInv) => ListsExact
  BY DEF IInv, ListsExact, Symmetric
<1>3. (Symmetric => IInv) => NoFaultyList
  BY DEF IInv, NoFaultyList, Symmetric
<1>4. (Symmetric => IInv) /\ OnlySymmetricReturns => ReturnsSchedule
  BY DEF IInv, ReturnsSchedule, IsSchedule, Position, Last, Symmetric,
         OnlySymmetricReturns
<1>5. QED
  BY <1>1, <1>2, <1>3, <1>4, InvariantHolds, ReturnsOnlyForSymmetric, PTL

(***************************************************************************)
(* A schedule that is handed back covers every row: the assertions at      *)
(* levelschedule.cpp:65-67, for matrices of any structure.                 *)
(***************************************************************************)
THEOREM ReturnsWholeSchedule == Spec => []ReturnsSchedule
  BY ScheduleCorrect, PTL

(***************************************************************************)
(* computeLevels does not throw when the structure is symmetric: the row   *)
(* looked for at levelschedule.cpp:49 is in the list, whatever has been    *)
(* released before.                                                        *)
(***************************************************************************)
THEOREM SymmetricNeverThrows == Spec => []NoFaultyList
  BY ScheduleCorrect, PTL

(***************************************************************************)
(* computeLevels implements GreedyLevels: closing a level is a step of it, *)
(* everything else is invisible to it.                                     *)
(***************************************************************************)
THEOREM RefinesGreedy == Spec => Greedy!SafeSpec
<1>1. Init => Greedy!Init
  BY DEF Init, Greedy!Init
<1>2. /\ Symmetric => IInv
      /\ TypeOK
      /\ [Next]_vars
      => [Greedy!AddLevel]_Greedy!vars
  <2> SUFFICES ASSUME Symmetric => IInv, TypeOK, [Next]_vars
               PROVE  [Greedy!AddLevel]_Greedy!vars
    OBVIOUS
  <2> USE DEF Greedy!vars
  <2>1. CASE CloseLevel
    <3>1. Greedy!Start = Last(levels)
      BY DEF Greedy!Start, Last
    <3>2. Greedy!StructurallySymmetric(mat) => Symmetric
      BY DEF Symmetric, StructurallySymmetric, Greedy!StructurallySymmetric,
             Rows, Greedy!Rows
    <3>3. ASSUME Symmetric PROVE Greedy!Promised(inode)
      BY <2>1, <3>1, <3>3, CloseLevelFacts
      DEF Independent, Maximal, Greedy!Independent, Greedy!Maximal,
          Greedy!Promised
    <3>4. inode \in 0 .. N
      BY DEF TypeOK
    <3>5. levels' = Append(levels, inode) /\ UNCHANGED mat
      BY <2>1 DEF CloseLevel
    <3>6. QED BY <3>2, <3>3, <3>4, <3>5 DEF Greedy!AddLevel
  <2>2. CASE ~CloseLevel
    BY <2>2 DEF Next, Step, Finished, EnterLoop, TakeNode, ReleaseNeighbours,
                FaultyList, LevelReleased, Return, vars
  <2>3. QED BY <2>1, <2>2
<1>3. QED
  BY <1>1, <1>2, InvariantHolds, TypeCorrect, PTL DEF Spec, Greedy!SafeSpec

(***************************************************************************)
(* The two parts fit: a schedule that computeLevels returns is one that    *)
(* apply() is assumed to be given (ProblemsAssumption).                    *)
(***************************************************************************)
THEOREM PreparesProblems == Spec => [](pc = "returned" => Prepared(<<mat, levels>>))
<1>1. TypeOK /\ ReturnsSchedule /\ OnlySymmetricReturns
        => (pc = "returned" => Prepared(<<mat, levels>>))
  BY MatricesAssumption
  DEF TypeOK, ReturnsSchedule, OnlySymmetricReturns, Prepared
<1>2. QED
  BY <1>1, TypeCorrect, ReturnsWholeSchedule, ReturnsOnlyForSymmetric, PTL
-----------------------------------------------------------------------------

\* What z holds before the upper triangular solve reaches a row.
Fresh == IF kind = "sgs" THEN "old" ELSE "rhs"

\* A row is being worked on only inside the parallel for of its level.
Team ==
  /\ phase \in {"idle", "load"} => lvl = 1
  /\ phase = "load" => kind # "sgs"
  /\ phase = "lower" => lvl \in 1 .. nlevels + 1
  /\ phase = "upper" => lvl \in 0 .. nlevels
  /\ \A i \in Rows : row[i] # "waiting" => Active /\ i \in LevelRows(lvl)
  /\ \A i \in Rows : row[i] = "running" => unread[i] \subseteq Needs(i)
  /\ \A i \in Rows : sound[i]

(***************************************************************************)
(* What the vectors hold is determined by the level being worked on and by *)
(* the rows of it that are stored.                                         *)
(***************************************************************************)
Vectors ==
  /\ phase = "idle" =>
       \/ \A i \in Rows : y[i] = "old" /\ z[i] = "old"
       \/ \A i \in Rows : y[i] = "final" /\ z[i] = Result
  /\ phase = "load" => \A i \in Rows : y[i] = "old" /\ z[i] = "old"
  /\ phase = "lower" =>
       \A i \in Rows :
         /\ y[i] = IF i < starts[lvl] \/ row[i] = "stored" THEN "final" ELSE "old"
         /\ z[i] = Fresh
  /\ phase = "upper" =>
       \A i \in Rows :
         /\ y[i] = "final"
         /\ z[i] = IF i >= starts[lvl+1] \/ row[i] = "stored" THEN "final" ELSE Fresh

ApplyInv == ApplyTypeOK /\ prob \in Problems /\ Team /\ Vectors

LEMMA ScheduleFacts ==
  ASSUME prob \in Problems
  PROVE  /\ pattern \in [Rows -> SUBSET Rows]
         /\ nlevels \in Nat
         /\ Len(starts) = nlevels + 1
         /\ starts[1] = 0
         /\ starts[nlevels + 1] = N
         /\ \A l \in 1 .. nlevels : /\ starts[l] \in 0 .. N
                                    /\ starts[l+1] \in 0 .. N
                                    /\ starts[l] < starts[l+1]
                                    /\ Independent(pattern, starts[l], starts[l+1])
<1> DEFINE lv == prob[2]
<1>1. /\ pattern \in Patterns
      /\ lv \in Seq(0 .. N)
      /\ IsSchedule(pattern, lv)
  BY ProblemsAssumption DEF pattern, Prepared
<1>2. lv = starts /\ Len(lv) \in Nat
  BY <1>1, LenProperties DEF starts
<1>3. \A l \in 1 .. Len(lv) : lv[l] \in 0 .. N
  BY <1>1, ElementOfSeq
<1> HIDE DEF lv
<1>4. Len(lv) >= 1 /\ lv[1] = 0 /\ lv[Len(lv)] = N
  BY <1>1 DEF IsSchedule, IsSchedulePrefix
<1>5. \A l \in Levels(lv) : lv[l] < lv[l+1] /\ Independent(pattern, lv[l], lv[l+1])
  BY <1>1 DEF IsSchedule, IsSchedulePrefix
<1>6. Levels(lv) = 1 .. nlevels /\ nlevels \in Nat /\ Len(lv) = nlevels + 1
  BY <1>2, <1>4 DEF Levels, nlevels
<1>7. \A l \in 1 .. nlevels : l \in 1 .. Len(lv) /\ l+1 \in 1 .. Len(lv)
  BY <1>6
<1>8. QED
  BY <1>1, <1>2, <1>3, <1>4, <1>5, <1>6, <1>7 DEF Patterns

\* A row reads earlier (later) levels only, whichever way the sweep goes.
LEMMA NeedsOtherLevels ==
  ASSUME prob \in Problems, NEW l \in 1 .. nlevels, NEW i \in LevelRows(l)
  PROVE  /\ i \in Rows
         /\ \A j \in Lower(pattern, i) : j \in Rows /\ j < starts[l]
         /\ \A j \in Upper(pattern, i) : j \in Rows /\ j >= starts[l+1]
<1>1. /\ starts[l] \in 0 .. N /\ starts[l+1] \in 0 .. N
      /\ Independent(pattern, starts[l], starts[l+1])
      /\ pattern \in [Rows -> SUBSET Rows]
  BY ScheduleFacts
<1>2. i \in Rows /\ i \in starts[l] .. starts[l+1] - 1 /\ i \in Nat
  BY <1>1, NAssumption DEF LevelRows, Rows
<1>3. \A j \in pattern[i] : j \in Rows /\ j \in Nat
  BY <1>1, <1>2 DEF Rows
<1>4. \A j \in starts[l] .. starts[l+1] - 1 : j # i => j \notin pattern[i]
  BY <1>1, <1>2 DEF Independent
<1>5. \A j \in Lower(pattern, i) : j \in Rows /\ j < starts[l]
  BY <1>1, <1>2, <1>3, <1>4 DEF Lower
<1>6. \A j \in Upper(pattern, i) : j \in Rows /\ j >= starts[l+1]
  BY <1>1, <1>2, <1>3, <1>4 DEF Upper
<1>7. QED BY <1>2, <1>5, <1>6

\* While a level is worked on, its index is one of the schedule.
LEMMA ActiveLevel ==
  ASSUME ApplyInv, Active
  PROVE  /\ lvl \in 1 .. nlevels
         /\ phase \in {"lower", "upper"}
         /\ \A i \in LevelRows(lvl) : i \in Rows /\ Needs(i) \subseteq Rows
  <1>1. nlevels \in Nat
    BY ScheduleFacts DEF ApplyInv
  <1>2. lvl \in 1 .. nlevels /\ phase \in {"lower", "upper"}
    BY <1>1 DEF ApplyInv, Active, Team, ApplyTypeOK
  <1>3. QED BY <1>2, NeedsOtherLevels DEF ApplyInv, Needs

\* What a running row still has to read is final, and so is its right-hand side.
LEMMA NeededIsFinal ==
  ASSUME ApplyInv, Active, NEW i \in LevelRows(lvl)
  PROVE  /\ RhsReady(i)
         /\ \A j \in Needs(i) : Target[j] = "final" /\ j \notin LevelRows(lvl)
<1>1. lvl \in 1 .. nlevels /\ i \in Rows /\ prob \in Problems
  BY ActiveLevel DEF ApplyInv
<1>2. starts[lvl] \in 0 .. N /\ starts[lvl+1] \in 0 .. N
  BY <1>1, ScheduleFacts
<1>3. CASE phase = "lower"
  <2>1. \A j \in Needs(i) : j \in Rows /\ j < starts[lvl]
    BY <1>1, <1>3, NeedsOtherLevels DEF Needs
  <2>2. \A j \in Needs(i) : Target[j] = "final"
    BY <1>3, <2>1 DEF ApplyInv, Vectors, Target
  <2>3. RhsReady(i)
    BY <1>1, <1>3 DEF ApplyInv, Vectors, RhsReady, Fresh
  <2>4. \A j \in Needs(i) : j \notin LevelRows(lvl)
    BY <1>2, <2>1 DEF LevelRows, Rows
  <2>5. QED BY <2>2, <2>3, <2>4
<1>4. CASE phase = "upper"
  <2>1. \A j \in Needs(i) : j \in Rows /\ j >= starts[lvl+1]
    BY <1>1, <1>4, NeedsOtherLevels DEF Needs
  <2>2. \A j \in Needs(i) : Target[j] = "final"
    BY <1>4, <2>1 DEF ApplyInv, Vectors, Target
  <2>3. RhsReady(i)
    BY <1>1, <1>4 DEF ApplyInv, Vectors, RhsReady
  <2>4. \A j \in Needs(i) : j \notin LevelRows(lvl)
    BY <1>2, <2>1 DEF LevelRows, Rows
  <2>5. QED BY <2>2, <2>3, <2>4
<1>5. QED BY <1>3, <1>4, ActiveLevel
-----------------------------------------------------------------------------
LEMMA InitApplyInv == ApplyInit => ApplyInv
<1> SUFFICES ASSUME ApplyInit PROVE ApplyInv
  OBVIOUS
<1> USE DEF ApplyInit, NoRows
<1>1. nlevels \in Nat /\ Len(starts) = nlevels + 1
  BY ScheduleFacts
<1>2. ApplyTypeOK
  BY <1>1 DEF ApplyTypeOK, Values
<1>3. Team /\ Vectors
  BY DEF Team, Vectors
<1>4. QED BY <1>2, <1>3 DEF ApplyInv

LEMMA CallInv ==
  ASSUME ApplyInv, Call
  PROVE  ApplyInv'
<1> USE DEF ApplyInv, Call
<1>1. nlevels \in Nat /\ Len(starts) = nlevels + 1 /\ starts[1] = 0
  BY ScheduleFacts
<1>2. \A i \in Rows : row[i] = "waiting"
  BY DEF Team, Active
<1>3. ApplyTypeOK'
  BY <1>1 DEF ApplyTypeOK, Values, starts, nlevels
<1>4. Team'
  BY <1>1, <1>2 DEF Team, nlevels, starts
<1>5. \A i \in Rows : ~(i < 0)
  BY NAssumption DEF Rows
<1>6. Vectors'
  BY <1>1, <1>2, <1>5 DEF Vectors, Fresh, starts
<1>7. QED BY <1>3, <1>4, <1>6

LEMMA LoadInv ==
  ASSUME ApplyInv, LoadRhs
  PROVE  ApplyInv'
<1> USE DEF ApplyInv, LoadRhs
<1>1. nlevels \in Nat /\ Len(starts) = nlevels + 1 /\ starts[1] = 0
  BY ScheduleFacts
<1>2. \A i \in Rows : row[i] = "waiting"
  BY DEF Team, Active
<1>3. ApplyTypeOK'
  BY <1>1 DEF ApplyTypeOK, Values, starts, nlevels
<1>4. Team'
  BY <1>1, <1>2 DEF Team, nlevels, starts
<1>5. \A i \in Rows : ~(i < 0)
  BY NAssumption DEF Rows
<1>6. Vectors'
  <2>1. Fresh' = "rhs"
    BY DEF Fresh, Team
  <2>2. \A i \in Rows : y'[i] = "old" /\ z'[i] = "rhs" /\ row'[i] = "waiting"
    BY <1>2 DEF Vectors
  <2>3. starts'[lvl'] = 0
    BY <1>1 DEF starts, Team
  <2>4. QED BY <1>5, <2>1, <2>2, <2>3 DEF Vectors
<1>7. QED BY <1>3, <1>4, <1>6

LEMMA StartInv ==
  ASSUME ApplyInv, NEW i \in Rows, Start(i)
  PROVE  ApplyInv'
<1> USE DEF ApplyInv, Start
<1>1. /\ i \in LevelRows(lvl)
      /\ Needs(i) \subseteq Rows
      /\ RhsReady(i)
  BY ActiveLevel, NeededIsFinal
<1>2. ApplyTypeOK'
  BY <1>1 DEF ApplyTypeOK, starts, nlevels
<1>3. Team'
  BY <1>1 DEF Team, ApplyTypeOK, Active, nlevels, starts, LevelRows, Needs, pattern
<1>4. Vectors'
  BY DEF Vectors, ApplyTypeOK, starts, Fresh, Result
<1>5. QED BY <1>2, <1>3, <1>4

LEMMA ReadInv ==
  ASSUME ApplyInv, NEW i \in Rows, NEW j \in Rows, Read(i, j)
  PROVE  ApplyInv'
<1> USE DEF ApplyInv, Read
<1>1. Active /\ i \in LevelRows(lvl) /\ j \in Needs(i)
  BY DEF Team
<1>2. Target[j] = "final"
  BY <1>1, NeededIsFinal
<1>3. sound' = [sound EXCEPT ![i] = TRUE]
  BY <1>2 DEF Team
<1>4. ApplyTypeOK'
  BY <1>3 DEF ApplyTypeOK, starts, nlevels
<1>5. Team'
  BY <1>3 DEF Team, ApplyTypeOK, Active, nlevels, starts, LevelRows, Needs, pattern
<1>6. Vectors'
  BY DEF Vectors, ApplyTypeOK, starts, Fresh, Result
<1>7. QED BY <1>4, <1>5, <1>6

\* Storing row i of the lower (upper) sweep makes its y (z) final.
LEMMA StoreEffect ==
  ASSUME ApplyInv, NEW i \in Rows, Store(i)
  PROVE  /\ Active /\ i \in LevelRows(lvl)
         /\ phase = "lower" => y' = [y EXCEPT ![i] = "final"] /\ z' = z
         /\ phase = "upper" => z' = [z EXCEPT ![i] = "final"] /\ y' = y
  BY DEF ApplyInv, Store, Team

LEMMA StoreInv ==
  ASSUME ApplyInv, NEW i \in Rows, Store(i)
  PROVE  ApplyInv'
<1> USE DEF ApplyInv
<1>1. Active /\ i \in LevelRows(lvl) /\ phase \in {"lower", "upper"}
  BY StoreEffect, ActiveLevel
<1>2. /\ row' = [row EXCEPT ![i] = "stored"]
      /\ UNCHANGED <<kind, prob, phase, lvl, unread, sound>>
  BY DEF Store
<1>3. ApplyTypeOK'
  BY <1>1, <1>2, StoreEffect DEF ApplyTypeOK, Values, starts, nlevels
<1>4. Team'
  BY <1>1, <1>2 DEF Team, ApplyTypeOK, Active, nlevels, starts, LevelRows, Needs, pattern
<1>5. Vectors'
  <2>1. CASE phase = "lower"
    <3>1. \A k \in Rows :
            /\ y'[k] = IF k < starts[lvl] \/ row'[k] = "stored" THEN "final" ELSE "old"
            /\ z'[k] = Fresh
      BY <1>2, <2>1, StoreEffect DEF Vectors, ApplyTypeOK
    <3>2. QED BY <1>2, <2>1, <3>1 DEF Vectors, starts, Fresh
  <2>2. CASE phase = "upper"
    <3>1. \A k \in Rows :
            /\ y'[k] = "final"
            /\ z'[k] = IF k >= starts[lvl+1] \/ row'[k] = "stored"
                       THEN "final" ELSE Fresh
      BY <1>2, <2>2, StoreEffect DEF Vectors, ApplyTypeOK
    <3>2. QED BY <1>2, <2>2, <3>1 DEF Vectors, starts, Fresh
  <2>3. QED BY <1>1, <2>1, <2>2
<1>6. QED BY <1>2, <1>3, <1>4, <1>5

LEMMA EndLevelInv ==
  ASSUME ApplyInv, EndLevel
  PROVE  ApplyInv'
<1> USE DEF ApplyInv, EndLevel
<1>1. lvl \in 1 .. nlevels /\ phase \in {"lower", "upper"} /\ nlevels \in Nat
  BY ActiveLevel, ScheduleFacts
<1>2. Len(starts) = nlevels + 1
  BY ScheduleFacts
<1>3. starts[lvl] \in 0 .. N /\ starts[lvl+1] \in 0 .. N /\ starts[lvl] < starts[lvl+1]
  BY <1>1, ScheduleFacts
<1>4. \A i \in Rows : row[i] = "stored" <=> i \in LevelRows(lvl)
  BY DEF LevelStored, Team
<1>5. \A i \in Rows : i \in Nat
  BY DEF Rows
<1>6. ApplyTypeOK'
  BY <1>1, <1>2 DEF ApplyTypeOK, starts, nlevels
<1>7. Team'
  BY <1>1, <1>2 DEF Team, starts, nlevels
<1>8. Vectors'
  <2>1. CASE phase = "lower"
    <3>1. \A i \in Rows : i < starts[lvl+1] <=> i < starts[lvl] \/ row[i] = "stored"
      BY <1>3, <1>4, <1>5 DEF LevelRows
    <3>2. QED BY <1>1, <2>1, <3>1 DEF Vectors, starts, Fresh
  <2>2. CASE phase = "upper"
    <3>1. \A i \in Rows : i >= starts[lvl] <=> i >= starts[lvl+1] \/ row[i] = "stored"
      BY <1>3, <1>4, <1>5 DEF LevelRows
    <3>2. (lvl - 1) + 1 = lvl
      BY <1>1
    <3>3. QED BY <1>1, <2>2, <3>1, <3>2 DEF Vectors, starts, Fresh
  <2>3. QED BY <1>1, <2>1, <2>2
<1>9. QED BY <1>6, <1>7, <1>8

LEMMA TurnBackInv ==
  ASSUME ApplyInv, TurnBack
  PROVE  ApplyInv'
<1> USE DEF ApplyInv, TurnBack
<1>1. nlevels \in Nat /\ Len(starts) = nlevels + 1 /\ starts[nlevels + 1] = N
  BY ScheduleFacts
<1>2. lvl = nlevels + 1
  BY <1>1 DEF Active, Team
<1>3. \A i \in Rows : row[i] = "waiting" /\ i < N /\ i \in Nat
  BY NAssumption DEF Team, Rows, ApplyTypeOK
<1>4. ApplyTypeOK'
  BY <1>1 DEF ApplyTypeOK, starts, nlevels
<1>5. Team'
  BY <1>1, <1>3 DEF Team, starts, nlevels
<1>6. \A i \in Rows : y[i] = "final" /\ z[i] = Fresh /\ ~(i >= N)
  BY <1>1, <1>2, <1>3, NAssumption DEF Vectors
<1>7. Vectors'
  BY <1>1, <1>3, <1>6 DEF Vectors, starts, Fresh, nlevels
<1>8. QED BY <1>4, <1>5, <1>7

\* When the downward loop is over, every component of z is final.
LEMMA ReturnEffect ==
  ASSUME ApplyInv, ReturnResult
  PROVE  /\ \A i \in Rows : row[i] = "waiting" /\ y[i] = "final" /\ z[i] = "final"
         /\ z' = [i \in Rows |-> Result]
<1> USE DEF ApplyInv
<1>1. phase = "upper" /\ ~Active
  BY DEF ReturnResult
<1>2. nlevels \in Nat /\ starts[1] = 0
  BY ScheduleFacts
<1>3. lvl = 0
  BY <1>1, <1>2 DEF Active, Team
<1>4. \A i \in Rows : row[i] = "waiting" /\ i >= 0
  BY <1>1, NAssumption DEF Team, Rows, ApplyTypeOK
<1>5. \A i \in Rows : y[i] = "final" /\ z[i] = "final"
  BY <1>1, <1>2, <1>3, <1>4 DEF Vectors
<1>6. z' = [i \in Rows |-> Result]
  BY <1>5 DEF ReturnResult, Result, ApplyTypeOK
<1>7. QED BY <1>4, <1>5, <1>6

LEMMA ReturnInv ==
  ASSUME ApplyInv, ReturnResult
  PROVE  ApplyInv'
<1> USE DEF ApplyInv
<1>1. /\ phase' = "idle" /\ lvl' = 1
      /\ UNCHANGED <<kind, prob, row, unread, sound, y>>
  BY DEF ReturnResult
<1>2. nlevels \in Nat /\ Len(starts) = nlevels + 1
  BY ScheduleFacts
<1>3. Result \in Values /\ Result' = Result
  BY <1>1 DEF Result, Values
<1>4. ApplyTypeOK'
  BY <1>1, <1>2, <1>3, ReturnEffect DEF ApplyTypeOK, starts, nlevels
<1>5. Team'
  BY <1>1, <1>2, ReturnEffect DEF Team, starts, nlevels
<1>6. Vectors'
  BY <1>1, <1>3, ReturnEffect DEF Vectors
<1>7. QED BY <1>1, <1>4, <1>5, <1>6

LEMMA NextApplyInv == ApplyInv /\ [ApplyNext]_applyVars => ApplyInv'
<1> SUFFICES ASSUME ApplyInv, [ApplyNext]_applyVars PROVE ApplyInv'
  OBVIOUS
<1>1. CASE Call BY <1>1, CallInv
<1>2. CASE LoadRhs BY <1>2, LoadInv
<1>3. CASE EndLevel BY <1>3, EndLevelInv
<1>4. CASE TurnBack BY <1>4, TurnBackInv
<1>5. CASE ReturnResult BY <1>5, ReturnInv
<1>6. ASSUME NEW i \in Rows, RowStep(i) PROVE ApplyInv'
  BY <1>6, StartInv, ReadInv, StoreInv DEF RowStep
<1>7. CASE UNCHANGED applyVars
  BY <1>7 DEF applyVars, ApplyInv, ApplyTypeOK, Team, Vectors, Active, LevelRows, Needs,
              starts, nlevels, pattern, Fresh, Result
<1>8. QED
  BY <1>1, <1>2, <1>3, <1>4, <1>5, <1>6, <1>7 DEF ApplyNext, Loop

LEMMA ApplyInvHolds == ApplySpec => []ApplyInv
  BY InitApplyInv, NextApplyInv, PTL DEF ApplySpec
-----------------------------------------------------------------------------
(***************************************************************************)
(* The parallel fors are free of data races, kernels use and store final   *)
(* values only, and a finished call has the result of serial substitution. *)
(***************************************************************************)
THEOREM ApplyCorrect ==
  ApplySpec => [](ApplyTypeOK /\ RaceFree /\ OnlyFinalValues /\ SerialResult)
<1>1. ApplyInv => RaceFree
  <2> SUFFICES ASSUME ApplyInv, NEW i \in Rows, NEW j \in Rows,
                      row[i] = "running", j \in unread[i]
               PROVE  j \notin LevelRows(lvl)
    BY DEF RaceFree
  <2>1. Active /\ i \in LevelRows(lvl) /\ j \in Needs(i)
    BY DEF ApplyInv, Team
  <2>2. QED BY <2>1, NeededIsFinal
<1>2. ApplyInv => OnlyFinalValues
  BY DEF ApplyInv, OnlyFinalValues, Vectors, Team, Fresh, Result, ApplyTypeOK
<1>3. ApplyInv => SerialResult
  BY DEF ApplyInv, SerialResult, Vectors
<1>4. ApplyInv => ApplyTypeOK
  BY DEF ApplyInv
<1>5. QED BY <1>1, <1>2, <1>3, <1>4, ApplyInvHolds, PTL

(***************************************************************************)
(* The parallel fors have no data race: no row of a level reads a          *)
(* component that another row of it is to store.                           *)
(***************************************************************************)
THEOREM NoDataRace == ApplySpec => []RaceFree
  BY ApplyCorrect, PTL

YSolved == {i \in Rows : y[i] = "final"}
ZSolved == {i \in Rows : z[i] \in {"final", "out"}}

\* A row that is stored was not solved before, and what it needs was.
LEMMA StoreSolves ==
  ASSUME ApplyInv, NEW i \in Rows, Store(i)
  PROVE  [Serial!Next]_Serial!vars
<1> USE DEF ApplyInv
<1>1. /\ row[i] = "running" /\ unread[i] = {}
      /\ UNCHANGED <<kind, prob, phase, lvl>> /\ pattern' = pattern
  BY DEF Store, pattern
<1>2. Active /\ i \in LevelRows(lvl) /\ lvl \in 1 .. nlevels
  BY StoreEffect, ActiveLevel
<1>3. RhsReady(i) /\ \A j \in Needs(i) : j \in Rows /\ Target[j] = "final"
  BY <1>2, NeededIsFinal, ActiveLevel
<1>4. starts[lvl] \in 0 .. N /\ starts[lvl+1] \in 0 .. N
  BY <1>2, ScheduleFacts
<1>5. i \in Nat /\ ~(i < starts[lvl]) /\ ~(i >= starts[lvl+1])
  BY <1>2, <1>4 DEF LevelRows, Rows
<1>6. CASE phase = "lower"
  <2>1. i \notin YSolved
    BY <1>1, <1>5, <1>6 DEF Vectors, YSolved
  <2>2. Lower(pattern, i) \subseteq YSolved
    BY <1>3, <1>6 DEF Needs, Target, YSolved
  <2>3. y' = [y EXCEPT ![i] = "final"] /\ z' = z
    BY <1>6, StoreEffect
  <2>4. YSolved' = YSolved \cup {i} /\ ZSolved' = ZSolved
    BY <2>3 DEF YSolved, ZSolved, ApplyTypeOK
  <2>5. Serial!SolveLower(i)
    BY <1>1, <2>1, <2>2, <2>4
       DEF Serial!SolveLower, Serial!Lower, Lower, YSolved, ZSolved
  <2>6. QED BY <2>5 DEF Serial!Next, Serial!Rows, Rows
<1>7. CASE phase = "upper"
  <2>1. i \notin ZSolved
    BY <1>1, <1>5, <1>7 DEF Vectors, ZSolved, Fresh
  <2>2. Upper(pattern, i) \subseteq ZSolved /\ i \in YSolved
    BY <1>3, <1>7 DEF Needs, Target, ZSolved, YSolved, RhsReady
  <2>3. z' = [z EXCEPT ![i] = "final"] /\ y' = y
    BY <1>7, StoreEffect
  <2>4. ZSolved' = ZSolved \cup {i} /\ YSolved' = YSolved
    BY <2>3 DEF YSolved, ZSolved, ApplyTypeOK
  <2>5. Serial!SolveUpper(i)
    BY <1>1, <2>1, <2>2, <2>4
       DEF Serial!SolveUpper, Serial!Upper, Upper, YSolved, ZSolved
  <2>6. QED BY <2>5 DEF Serial!Next, Serial!Rows, Rows
<1>8. QED BY <1>2, <1>6, <1>7, ActiveLevel

\* A call forgets the solution of the one before it, if there was one.
LEMMA CallRestarts ==
  ASSUME ApplyInv, Call
  PROVE  [Serial!Next]_Serial!vars
<1> USE DEF ApplyInv, Call
<1>1. YSolved' = {} /\ ZSolved' = {} /\ pattern' = pattern
  BY DEF YSolved, ZSolved, pattern
<1>2. CASE \A i \in Rows : y[i] = "old" /\ z[i] = "old"
  <2>1. YSolved = {} /\ ZSolved = {}
    BY <1>2 DEF YSolved, ZSolved
  <2>2. QED BY <1>1, <2>1 DEF Serial!vars, YSolved, ZSolved
<1>3. CASE \A i \in Rows : y[i] = "final" /\ z[i] = Result
  <2>1. ZSolved = Rows
    BY <1>3 DEF ZSolved, Result
  <2>2. Serial!NewRhs
    BY <1>1, <2>1 DEF Serial!NewRhs, Serial!Rows, Rows, YSolved, ZSolved
  <2>3. QED BY <2>2 DEF Serial!Next
<1>4. QED BY <1>2, <1>3 DEF Vectors

\* Every other step leaves the solved components as they are.
LEMMA OtherStutters ==
  ASSUME ApplyInv,
         \/ LoadRhs \/ EndLevel \/ TurnBack \/ ReturnResult \/ UNCHANGED applyVars
         \/ \E i \in Rows : Start(i) \/ \E j \in Rows : Read(i, j)
  PROVE  UNCHANGED Serial!vars
<1> USE DEF Serial!vars, pattern
<1>1. CASE LoadRhs
  <2>1. \A i \in Rows : z[i] = "old" /\ z'[i] = "rhs"
    BY <1>1 DEF LoadRhs, ApplyInv, Vectors
  <2>2. ZSolved = {} /\ ZSolved' = {}
    BY <2>1 DEF ZSolved
  <2>3. QED BY <1>1, <2>2 DEF LoadRhs, ZSolved
<1>2. CASE ReturnResult
  <2>1. \A i \in Rows : z[i] = "final" /\ z'[i] \in {"final", "out"}
    BY <1>2, ReturnEffect DEF Result
  <2>2. y' = y /\ prob' = prob
    BY <1>2 DEF ReturnResult
  <2>3. ZSolved' = ZSolved
    BY <2>1 DEF ZSolved
  <2>4. QED BY <2>2, <2>3 DEF ZSolved
<1>3. CASE \/ EndLevel \/ TurnBack \/ UNCHANGED applyVars
           \/ \E i \in Rows : Start(i) \/ \E j \in Rows : Read(i, j)
  <2>1. y' = y /\ z' = z /\ prob' = prob
    BY <1>3 DEF EndLevel, TurnBack, Start, Read, applyVars
  <2>2. QED BY <2>1
<1>4. QED BY <1>1, <1>2, <1>3

(***************************************************************************)
(* Level-scheduled application implements serial substitution: each        *)
(* component is computed once per call, after all it needs.                *)
(***************************************************************************)
THEOREM RefinesSubstitution == ApplySpec => ImplementsSubstitution
<1>1. ApplyInit => Serial!Init
  <2> SUFFICES ASSUME ApplyInit PROVE Serial!Init
    OBVIOUS
  <2>1. YSolved = {} /\ ZSolved = {}
    BY DEF ApplyInit, YSolved, ZSolved
  <2>2. QED BY <2>1 DEF ApplyInit, Serial!Init, pattern, YSolved, ZSolved
<1>2. ApplyInv /\ [ApplyNext]_applyVars => [Serial!Next]_Serial!vars
  <2> SUFFICES ASSUME ApplyInv, [ApplyNext]_applyVars PROVE [Serial!Next]_Serial!vars
    OBVIOUS
  <2>1. CASE Call BY <2>1, CallRestarts
  <2>2. CASE \E i \in Rows : Store(i) BY <2>2, StoreSolves
  <2>3. CASE \/ LoadRhs \/ EndLevel \/ TurnBack \/ ReturnResult \/ UNCHANGED applyVars
             \/ \E i \in Rows : Start(i) \/ \E j \in Rows : Read(i, j)
    BY <2>3, OtherStutters
  <2>4. QED BY <2>1, <2>2, <2>3 DEF ApplyNext, Loop, RowStep
<1>3. QED
  BY <1>1, <1>2, ApplyInvHolds, PTL DEF ApplySpec, Serial!Spec, ImplementsSubstitution
=============================================================================
