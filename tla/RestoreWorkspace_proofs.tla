---------------------- MODULE RestoreWorkspace_proofs ----------------------
(* Proofs about RestoreWorkspace for any set of entries, rules, number of  *)
(* restores, failures and crashes.                                         *)
EXTENDS RestoreWorkspace, TLAPS

\* The constants of the vocabulary lie in their sets.
LEMMA Vocabulary ==
    /\ EmptyTree \in Trees /\ EmptyTree # NoTree
    /\ \A e \in Entries : EmptyTree[e] = Absent
    /\ NoSlot \notin Slots /\ Absent \in Versions
  BY BoundsAssumption, NoTreeAssumption
     DEF EmptyTree, Trees, Versions, Absent, NoSlot, Slots

\* A folder one entry of which is overwritten is a folder.
LEMMA OverwrittenTree ==
  ASSUME NEW t \in Trees, NEW e \in Entries, NEW v \in Versions
  PROVE  [t EXCEPT ![e] = v] \in Trees
  BY DEF Trees

\* A folder read as a directory is a tree.
LEMMA DirIsTree == ASSUME NEW t \in Folders PROVE Dir(t) \in Trees
  BY Vocabulary DEF Dir, Folders

-----------------------------------------------------------------------------
(* Types.  Where the code is tells which folders exist.                    *)

Located ==
    /\ pc \in {"moveAway", "copyAway", "extract", "preserve", "commit"} => target \in Trees
    /\ pc \in {"copyAway", "cleanup", "discard", "dropCopy", "moveBack", "copyBack", "preserve"}
         => slot \in Slots /\ slots[slot] \in Trees
    /\ pc = "moveAway" => slot \in Slots
    /\ pc \notin {"idle", "moveAway"} /\ phase = "Prepared" /\ slot # NoSlot => slots[slot] \in Trees
    /\ pc \notin {"idle", "cleanup"} => phase = "Prepared"
    /\ pc \in {"create", "extract", "preserve", "commit", "clear"} /\ existed => slot # NoSlot
    /\ pc # "idle" => attempts \in Slots

Typed == TypeOK /\ Located

\* The type invariant, strengthened by which folders exist at each step.
LEMMA TypedAlways == Spec => []Typed
<1> USE DEF Typed, Located, TypeOK, Labels, Outcomes
<1>1. Init => Typed
  <2> SUFFICES ASSUME Init PROVE Typed
    OBVIOUS
  <2>1. target \in Folders
    <3>1. [Entries -> 0..1] \subseteq Trees
      BY BoundsAssumption DEF Trees, Versions
    <3> QED
      BY <3>1 DEF Init, Folders
  <2> QED
    <3>1. TypeOK
      <4>1. existed \in BOOLEAN /\ isCopy \in BOOLEAN /\ stop \in BOOLEAN
        BY DEF Init
      <4>2. slots \in [Slots -> Folders]
        BY DEF Init, Folders
      <4>3. before \in [target : Folders, slots : [Slots -> Folders]]
        BY <2>1, <4>2 DEF Init
      <4>4. attempts \in 0..MaxAttempts /\ faults \in 0..MaxFaults /\ crashes \in 0..MaxCrashes
        BY BoundsAssumption DEF Init
      <4> QED
        BY <2>1, <4>1, <4>2, <4>3, <4>4 DEF Init
    <3>2. Located
      BY DEF Init
    <3> QED
      BY <3>1, <3>2
<1>2. Typed /\ [Next]_vars => Typed'
  <2> SUFFICES ASSUME Typed, [Next]_vars PROVE Typed'
    OBVIOUS
  <2> USE Vocabulary, BoundsAssumption, PreservedAssumption, NoTreeAssumption
          DEF Folders, End, Goto, Fault, state, request, counts
  <2>1. ASSUME NEW m \in {"Clean", "Overlay"}, NEW files \in SUBSET Entries, Begin(m, files)
        PROVE Typed'
    <3>1. attempts' \in Slots /\ pc' \in {"create", "moveAway", "copyAway"}
      BY <2>1 DEF Begin, Slots
    <3>2. before' \in [target : Folders, slots : [Slots -> Folders]]
      BY <2>1 DEF Begin
    <3> existed' \in BOOLEAN /\ isCopy' \in BOOLEAN /\ stop' \in BOOLEAN
      BY <2>1 DEF Begin
    <3> attempts' \in 0..MaxAttempts /\ todo' \subseteq Entries /\ archive' \subseteq Entries
      BY <2>1 DEF Begin, Slots
    <3> phase' = "Prepared" /\ outcome' = "None" /\ mode' \in {"Clean", "Overlay"}
      BY <2>1 DEF Begin
    <3> UNCHANGED <<target, faults, crashes, good>>
      BY <2>1 DEF Begin
    <3>3. CASE target = NoTree
      <4>1. pc' = "create" /\ slot' = NoSlot /\ slots' = slots /\ ~existed'
        BY <2>1, <3>3 DEF Begin
      <4> QED
        BY <3>1, <3>2, <4>1
    <3>4. CASE target # NoTree
      <4>1. target \in Trees /\ slot' \in Slots
        BY <2>1, <3>4 DEF Begin, FirstFree
      <4>2. CASE m = "Clean"
        <5>1. pc' = "moveAway" /\ slots' = slots
          BY <2>1, <3>4, <4>2 DEF Begin
        <5> QED
          BY <3>1, <3>2, <4>1, <5>1
      <4>3. CASE m = "Overlay"
        <5>1. pc' = "copyAway" /\ slots' = [slots EXCEPT ![slot'] = EmptyTree]
          BY <2>1, <3>4, <4>3 DEF Begin
        <5>2. slots' \in [Slots -> Folders] /\ slots'[slot'] \in Trees
          BY <4>1, <5>1
        <5> QED
          BY <3>1, <3>2, <4>1, <5>1, <5>2
      <4> QED
        BY <4>2, <4>3
    <3> QED
      BY <3>3, <3>4
  <2>2. CASE MoveAway \/ MoveAwayFails \/ Create \/ CreateFails
    BY <2>2 DEF MoveAway, MoveAwayFails, Create, CreateFails
  <2>3. CASE CopyAway \/ CopyAwayFails
    <3>1. ASSUME NEW e \in Entries, pc = "copyAway", slots' = [slots EXCEPT ![slot][e] = target[e]]
          PROVE slots' \in [Slots -> Folders] /\ slots'[slot] \in Trees
      <4>1. target[e] \in Versions
        BY <3>1 DEF Trees
      <4>2. [slots[slot] EXCEPT ![e] = target[e]] \in Trees
        BY <3>1, <4>1, OverwrittenTree
      <4>3. slots' = [slots EXCEPT ![slot] = [slots[slot] EXCEPT ![e] = target[e]]]
        BY <3>1
      <4> QED
        BY <3>1, <4>2, <4>3
    <3>2. CASE CopyAway
      BY <3>1, <3>2 DEF CopyAway
    <3>3. CASE CopyAwayFails
      BY <3>3 DEF CopyAwayFails
    <3> QED
      BY <2>3, <3>2, <3>3
  <2>4. CASE Extract \/ Extracted
    <3>1. ASSUME NEW e \in todo, pc = "extract", target' = [target EXCEPT ![e] = attempts + 1]
          PROVE target' \in Trees
      <4>1. attempts + 1 \in Versions
        BY DEF Versions
      <4> QED
        BY <3>1, <4>1, OverwrittenTree
    <3>2. CASE Extract
      BY <3>1, <3>2 DEF Extract
    <3>3. CASE Extracted
      BY <3>3 DEF Extracted, ToPreserve
    <3> QED
      BY <2>4, <3>2, <3>3
  <2>5. CASE Preserve \/ NotCommitted \/ CommitPoint
    <3>1. ASSUME NEW e \in todo, pc = "preserve", target' = [target EXCEPT ![e] = slots[slot][e]]
          PROVE target' \in Trees
      <4>1. slots[slot][e] \in Versions
        BY <3>1 DEF Trees
      <4> QED
        BY <3>1, <4>1, OverwrittenTree
    <3>2. CASE Preserve
      BY <3>1, <3>2 DEF Preserve
    <3>3. CASE NotCommitted
      BY <3>3 DEF NotCommitted
    <3>4. CASE CommitPoint
      BY <3>4 DEF CommitPoint
    <3> QED
      BY <2>5, <3>2, <3>3, <3>4
  <2>6. CASE RemoveSnapshotEntry
    <3>1. PICK e \in Entries : slots' = [slots EXCEPT ![slot][e] = Absent]
      BY <2>6 DEF RemoveSnapshotEntry
    <3>2. slot \in Slots /\ slots[slot] \in Trees
      BY <2>6 DEF RemoveSnapshotEntry, Removing
    <3>3. [slots[slot] EXCEPT ![e] = Absent] \in Trees
      BY <3>2, OverwrittenTree
    <3>4. slots' = [slots EXCEPT ![slot] = [slots[slot] EXCEPT ![e] = Absent]]
      BY <3>1
    <3>5. slots' \in [Slots -> Folders] /\ slots'[slot] \in Trees
      BY <3>2, <3>3, <3>4
    <3> QED
      BY <2>6, <3>5 DEF RemoveSnapshotEntry, Removing
  <2>7. CASE SnapshotRemoved \/ RemoveSnapshotFails
    <3>1. CASE SnapshotRemoved
      BY <3>1 DEF SnapshotRemoved, Removing
    <3>2. CASE RemoveSnapshotFails
      BY <3>2 DEF RemoveSnapshotFails, Removing
    <3> QED
      BY <2>7, <3>1, <3>2
  <2>8. CASE RollbackNothing \/ RollbackClear \/ ClearEntry \/ Cleared
    <3>1. CASE RollbackNothing
      BY <3>1 DEF RollbackNothing
    <3>2. CASE RollbackClear
      BY <3>2 DEF RollbackClear
    <3>3. CASE ClearEntry
      <4>1. PICK e \in Entries : target' = [target EXCEPT ![e] = Absent]
        BY <3>3 DEF ClearEntry
      <4>2. target' \in Trees
        BY <3>3, <4>1, OverwrittenTree DEF ClearEntry
      <4> QED
        BY <3>3, <4>2 DEF ClearEntry
    <3>4. CASE Cleared
      BY <3>4 DEF Cleared
    <3> QED
      BY <2>8, <3>1, <3>2, <3>3, <3>4
  <2>9. CASE MoveBack \/ CopyBack \/ RollbackFails
    <3>1. CASE MoveBack
      BY <3>1 DEF MoveBack
    <3>2. CASE CopyBack
      <4>1. ASSUME NEW e \in Entries, target' = [Dir(target) EXCEPT ![e] = slots[slot][e]]
            PROVE target' \in Trees
        <5>1. slots[slot][e] \in Versions
          BY <3>2 DEF CopyBack, Trees
        <5> QED
          BY <4>1, <5>1, DirIsTree, OverwrittenTree
      <4> QED
        BY <3>2, <4>1, DirIsTree DEF CopyBack
    <3>3. CASE RollbackFails
      BY <3>3 DEF RollbackFails, counts
    <3> QED
      BY <2>9, <3>1, <3>2, <3>3
  <2>10. CASE RequestStop \/ Crash \/ UNCHANGED vars
    <3>1. CASE RequestStop
      BY <3>1 DEF RequestStop
    <3>2. CASE Crash
      <4>1. existed' \in BOOLEAN /\ isCopy' \in BOOLEAN /\ stop' \in BOOLEAN
        BY <3>2 DEF Crash
      <4>2. crashes' \in 0..MaxCrashes /\ faults' \in 0..MaxFaults
        BY <3>2 DEF Crash
      <4>3. pc' \in Labels /\ outcome' \in Outcomes
        BY <3>2 DEF Crash
      <4>4. todo' \subseteq Entries /\ archive' \subseteq Entries
        BY <3>2 DEF Crash
      <4>5. Located'
        BY <3>2 DEF Crash
      <4>6. phase' = "Empty" /\ slot' = NoSlot
        BY <3>2 DEF Crash
      <4> QED
        BY <3>2, <4>1, <4>2, <4>3, <4>4, <4>5, <4>6 DEF Crash
    <3>3. CASE UNCHANGED vars
      BY <3>3 DEF vars
    <3> QED
      BY <2>10, <3>1, <3>2, <3>3
  <2> QED
    BY <2>1, <2>2, <2>3, <2>4, <2>5, <2>6, <2>7, <2>8, <2>9, <2>10 DEF Next, Restore, Step
<1> QED
  BY <1>1, <1>2, PTL DEF Spec

\* Every variable of the restore keeps its type, whatever fails and wherever it dies.
THEOREM Typing == Spec => []TypeOK
<1>1. Typed => TypeOK
  BY DEF Typed
<1> QED
  BY <1>1, TypedAlways, PTL

-----------------------------------------------------------------------------
(* Recoverability.  While a restore runs, the world it found is either     *)
(* untouched in place or whole in the snapshot of this restore, and the    *)
(* last good world is that one or lies in a snapshot of another restore.   *)

Elsewhere ==
    \/ good = NoTree
    \/ good = before.target
    \/ \E s \in Slots : s # slot /\ slots[s] = good

HoldsOriginal == {"create", "extract", "preserve", "commit", "rollback", "clear",
                  "moveBack", "copyBack"}

Kept ==
    /\ pc = "idle" => Recoverable
    /\ pc = "cleanup" => good = target
    /\ pc \notin {"idle", "cleanup"} => Elsewhere
    /\ pc # "idle" => (existed <=> before.target # NoTree)
    /\ pc \in {"moveAway", "copyAway", "discard", "dropCopy"} => target = before.target
    /\ pc = "rollback" /\ existed /\ slot = NoSlot => target = before.target
    /\ pc \in HoldsOriginal /\ slot # NoSlot => slots[slot] = before.target

\* The inductive invariant implies that the world can be recovered.
LEMMA KeptGivesRecoverable == Typed /\ Kept => Recoverable
<1> SUFFICES ASSUME Typed, Kept PROVE Recoverable
  OBVIOUS
<1> USE DEF Typed, TypeOK, Located, Kept
<1>1. CASE pc \in {"idle", "cleanup"}
  BY <1>1 DEF Recoverable
<1>2. CASE pc \in {"moveAway", "copyAway", "discard", "dropCopy"}
  BY <1>2 DEF Recoverable, Elsewhere
<1>3. CASE pc \in HoldsOriginal /\ slot # NoSlot
  BY <1>3 DEF Recoverable, Elsewhere, HoldsOriginal
<1>4. CASE pc \in HoldsOriginal /\ slot = NoSlot
  BY <1>4, Vocabulary DEF Recoverable, Elsewhere, HoldsOriginal
<1> QED
  BY <1>1, <1>2, <1>3, <1>4 DEF Labels, HoldsOriginal

\* Every step keeps the original where the invariant says it is.
LEMMA KeptStep == Typed /\ Typed' /\ Kept /\ [Next]_vars => Kept'
<1> SUFFICES ASSUME Typed, Typed', Kept, [Next]_vars PROVE Kept'
  OBVIOUS
<1> USE Vocabulary DEF Typed, TypeOK, Located, Goto, End, state, request, counts
<1>0. Recoverable
  BY KeptGivesRecoverable
<1>1. ASSUME NEW m \in {"Clean", "Overlay"}, NEW files \in SUBSET Entries, Begin(m, files)
      PROVE Kept'
  <2> before' = [target |-> target, slots |-> slots] /\ (existed' <=> target # NoTree)
    BY <1>1 DEF Begin
  <2> UNCHANGED <<target, good>>
    BY <1>1 DEF Begin
  <2>1. CASE target = NoTree
    <3>1. pc' = "create" /\ slot' = NoSlot /\ slots' = slots
      BY <1>1, <2>1 DEF Begin
    <3> QED
      BY <1>0, <2>1, <3>1 DEF Kept, Recoverable, Elsewhere, HoldsOriginal
  <2>2. CASE target # NoTree
    <3>1. slot' \in Slots /\ slots[slot'] = NoTree /\ pc' \in {"moveAway", "copyAway"}
      BY <1>1, <2>2 DEF Begin, FirstFree
    <3>2. \A s \in Slots : s # slot' => slots'[s] = slots[s]
      BY <1>1, <2>2 DEF Begin
    <3>3. Elsewhere'
      BY <1>0, <3>1, <3>2 DEF Recoverable, Elsewhere
    <3> QED
      BY <3>1, <3>3 DEF Kept, HoldsOriginal
  <2> QED
    BY <2>1, <2>2
<1>2. CASE MoveAway \/ MoveAwayFails \/ Create \/ CreateFails
  BY <1>2 DEF MoveAway, MoveAwayFails, Create, CreateFails, Fault, Kept, Elsewhere,
              HoldsOriginal
<1>3. CASE CopyAway \/ CopyAwayFails
  BY <1>3 DEF CopyAway, CopyAwayFails, Fault, Kept, Elsewhere, HoldsOriginal
<1>4. CASE Extract \/ Extracted \/ Preserve \/ NotCommitted
  BY <1>4 DEF Extract, Extracted, Preserve, NotCommitted, Fault, Kept, Elsewhere,
              HoldsOriginal
<1>5. CASE CommitPoint
  BY <1>5 DEF CommitPoint, Kept, Recoverable, HoldsOriginal
<1>6. CASE RemoveSnapshotEntry
  BY <1>6 DEF RemoveSnapshotEntry, Removing, Kept, Elsewhere, HoldsOriginal
<1>7. CASE SnapshotRemoved \/ RemoveSnapshotFails
  BY <1>7 DEF SnapshotRemoved, RemoveSnapshotFails, Removing, Fault, Kept, Elsewhere,
              Recoverable, HoldsOriginal
<1>8. CASE RollbackNothing \/ RollbackClear \/ ClearEntry \/ Cleared
  BY <1>8 DEF RollbackNothing, RollbackClear, ClearEntry, Cleared, Kept, Elsewhere,
              Recoverable, HoldsOriginal
<1>9. CASE MoveBack \/ CopyBack
  BY <1>9 DEF MoveBack, CopyBack, Kept, Elsewhere, Recoverable, HoldsOriginal
<1>10. CASE RollbackFails \/ Crash
  BY <1>0, <1>10 DEF RollbackFails, Crash, Fault, counts, Kept, Recoverable, HoldsOriginal
<1>11. CASE RequestStop \/ UNCHANGED vars
  BY <1>11 DEF RequestStop, vars, Kept, Elsewhere, Recoverable, HoldsOriginal
<1> QED
  BY <1>1, <1>2, <1>3, <1>4, <1>5, <1>6, <1>7, <1>8, <1>9, <1>10, <1>11 DEF Next, Restore, Step

\* The player's world is never lost, over any number of restores, failures and crashes.
THEOREM NothingLost == Spec => []Recoverable
<1>1. Init => Kept
  BY DEF Init, Kept, Recoverable, HoldsOriginal
<1> QED
  BY <1>1, TypedAlways, KeptStep, KeptGivesRecoverable, PTL DEF Spec

-----------------------------------------------------------------------------
(* Exact rollback.  A running restore changes no snapshot but its own, and *)
(* the name of its own was free when it began.                             *)

OwnSlotOnly ==
    /\ pc = "idle" => RollbackExact
    /\ pc # "idle" => outcome = "None"
    /\ pc # "idle" => \A s \in Slots : s # slot => slots[s] = before.slots[s]
    /\ pc # "idle" /\ slot # NoSlot => before.slots[slot] = NoTree
    /\ pc = "moveAway" => slots[slot] = NoTree

\* A restore that touches no snapshot but its own ends in an exact rollback.
LEMMA OwnSlotOnlyGivesExact == OwnSlotOnly => RollbackExact
  BY DEF OwnSlotOnly, RollbackExact

\* Every step touches no snapshot but that of the running restore.
LEMMA OwnSlotOnlyStep == Typed /\ Typed' /\ Kept /\ OwnSlotOnly /\ [Next]_vars => OwnSlotOnly'
<1> SUFFICES ASSUME Typed, Typed', Kept, OwnSlotOnly, [Next]_vars PROVE OwnSlotOnly'
  OBVIOUS
<1> USE Vocabulary DEF Typed, TypeOK, Located, Goto, End, state, request, counts
<1>1. ASSUME NEW m \in {"Clean", "Overlay"}, NEW files \in SUBSET Entries, Begin(m, files)
      PROVE OwnSlotOnly'
  <2>1. before'.slots = slots /\ pc' # "idle" /\ outcome' = "None"
    BY <1>1 DEF Begin
  <2>2. CASE target = NoTree
    BY <1>1, <2>1, <2>2 DEF Begin, OwnSlotOnly
  <2>3. CASE target # NoTree
    <3>1. slot' \in Slots /\ slots[slot'] = NoTree
      BY <1>1, <2>3 DEF Begin, FirstFree
    <3>2. \A s \in Slots : s # slot' => slots'[s] = slots[s]
      BY <1>1, <2>3 DEF Begin
    <3>3. pc' = "moveAway" => slots' = slots
      BY <1>1, <2>3 DEF Begin
    <3> QED
      BY <2>1, <3>1, <3>2, <3>3 DEF OwnSlotOnly
  <2> QED
    BY <2>2, <2>3
<1>2. CASE MoveAway \/ MoveAwayFails \/ Create \/ CreateFails
  BY <1>2 DEF MoveAway, MoveAwayFails, Create, CreateFails, Fault, OwnSlotOnly
<1>3. CASE CopyAway \/ CopyAwayFails
  BY <1>3 DEF CopyAway, CopyAwayFails, Fault, OwnSlotOnly
<1>4. CASE Extract \/ Extracted \/ Preserve \/ NotCommitted
  BY <1>4 DEF Extract, Extracted, Preserve, NotCommitted, Fault, OwnSlotOnly
<1>5. CASE CommitPoint
  BY <1>5 DEF CommitPoint, OwnSlotOnly, RollbackExact
<1>6. CASE RemoveSnapshotEntry
  BY <1>6 DEF RemoveSnapshotEntry, Removing, OwnSlotOnly
<1>7. CASE SnapshotRemoved
  <2>1. slots' = before.slots
    BY <1>7 DEF SnapshotRemoved, Removing, OwnSlotOnly
  <2>2. pc = "dropCopy" \/ pc = "discard" => target' = before'.target
    BY <1>7 DEF SnapshotRemoved, Kept
  <2> QED
    BY <1>7, <2>1, <2>2 DEF SnapshotRemoved, Removing, OwnSlotOnly, RollbackExact
<1>8. CASE RemoveSnapshotFails
  BY <1>8 DEF RemoveSnapshotFails, Removing, Kept, Fault, OwnSlotOnly, RollbackExact
<1>9. CASE RollbackNothing
  <2>1. slots = before.slots
    BY <1>9 DEF RollbackNothing, OwnSlotOnly
  <2> QED
    BY <1>9, <2>1 DEF RollbackNothing, Kept, OwnSlotOnly, RollbackExact
<1>10. CASE RollbackClear \/ ClearEntry
  BY <1>10 DEF RollbackClear, ClearEntry, OwnSlotOnly
<1>11. CASE Cleared
  <2>1. CASE slot = NoSlot
    <3>1. slots = before.slots /\ before.target = NoTree
      BY <1>11, <2>1 DEF Cleared, OwnSlotOnly, Kept
    <3> QED
      BY <1>11, <2>1, <3>1 DEF Cleared, OwnSlotOnly, RollbackExact
  <2>2. CASE slot # NoSlot
    BY <1>11, <2>2 DEF Cleared, OwnSlotOnly
  <2> QED
    BY <2>1, <2>2
<1>12. CASE MoveBack
  <2>1. slots' = before.slots
    BY <1>12 DEF MoveBack, OwnSlotOnly
  <2> QED
    BY <1>12, <2>1 DEF MoveBack, Kept, HoldsOriginal, OwnSlotOnly, RollbackExact
<1>13. CASE CopyBack
  BY <1>13 DEF CopyBack, OwnSlotOnly
<1>14. CASE RollbackFails \/ Crash
  BY <1>14 DEF RollbackFails, Crash, Fault, OwnSlotOnly, RollbackExact
<1>15. CASE RequestStop \/ UNCHANGED vars
  BY <1>15 DEF RequestStop, vars, OwnSlotOnly, RollbackExact
<1> QED
  BY <1>1, <1>2, <1>3, <1>4, <1>5, <1>6, <1>7, <1>8, <1>9, <1>10, <1>11, <1>12, <1>13,
     <1>14, <1>15 DEF Next, Restore, Step

\* A rollback reported as done has put the folder and its snapshots back exactly, for
\* any folder, rules, failures and earlier restores.
THEOREM RollbackIsExact == Spec => []RollbackExact
<1>1. Init => Kept /\ OwnSlotOnly
  BY DEF Init, Kept, Recoverable, HoldsOriginal, OwnSlotOnly, RollbackExact
<1> QED
  BY <1>1, TypedAlways, KeptStep, OwnSlotOnlyStep, OwnSlotOnlyGivesExact, PTL DEF Spec

-----------------------------------------------------------------------------
(* Exact commit.  At every step of a restore under way, the target is what *)
(* its mode starts from with the entries written so far over it.           *)

Original == Dir(before.target)

\* What is kept of the original by a Clean restore.
Rescued == {e \in Preserved : Original[e] # Absent}

\* What extraction has made of the target, with the entries of todo still to write.
Filled ==
    [e \in Entries |-> IF e \in archive \ todo THEN attempts + 1
                       ELSE IF isCopy THEN Original[e] ELSE Absent]

\* What copying back the preserved files has made of it.
Mended ==
    [e \in Entries |-> IF e \in Rescued \ todo THEN Original[e]
                       ELSE IF e \in archive THEN attempts + 1 ELSE Absent]

Built ==
    /\ pc = "idle" => CommitExact
    /\ pc \in {"moveAway", "copyAway", "create"} => todo = archive /\ ~isCopy
    /\ pc = "moveAway" => existed /\ mode = "Clean"
    /\ pc = "copyAway" => existed /\ mode = "Overlay"
    /\ pc = "create" /\ existed => mode = "Clean"
    /\ pc = "extract" => target = Filled /\ todo \subseteq archive
    /\ pc = "extract" /\ existed => (isCopy <=> mode = "Overlay")
    /\ pc = "extract" /\ isCopy => existed
    /\ pc = "preserve" => target = Mended /\ todo \subseteq Rescued
    /\ pc = "preserve" => existed /\ ~isCopy /\ mode = "Clean"
    /\ pc \in {"commit", "cleanup"} => target = Expected

\* Extraction writes one more entry of the archive.
LEMMA ExtractFills ==
  ASSUME Typed, Built, Extract PROVE target' = Filled' /\ todo' \subseteq archive'
<1>1. pc = "extract" /\ target = Filled /\ todo \subseteq archive
  BY DEF Extract, Built
<1>2. PICK e \in todo : target' = [target EXCEPT ![e] = attempts + 1] /\ todo' = todo \ {e}
  BY DEF Extract
<1>3. UNCHANGED <<before, archive, attempts, isCopy>>
  BY DEF Extract, state, request
<1>4. todo \subseteq Entries
  BY DEF Typed, TypeOK
<1> QED
  BY <1>1, <1>2, <1>3, <1>4 DEF Filled, Original

\* Copying back writes one more preserved entry.
LEMMA PreserveMends ==
  ASSUME Typed, Kept, Built, Preserve, todo # {}, todo' # todo
  PROVE  target' = Mended' /\ todo' \subseteq Rescued'
<1>1. pc = "preserve" /\ target = Mended /\ existed /\ todo \subseteq Rescued
  BY DEF Preserve, Built
<1>2. PICK e \in todo : target' = [target EXCEPT ![e] = slots[slot][e]] /\ todo' = todo \ {e}
  BY DEF Preserve
<1>3. UNCHANGED <<before, archive, attempts>>
  BY DEF Preserve, state, request
<1>4. slots[slot] = Original /\ todo \subseteq Entries
  BY <1>1 DEF Typed, TypeOK, Located, Kept, HoldsOriginal, Original, Dir
<1> QED
  BY <1>1, <1>2, <1>3, <1>4 DEF Mended, Rescued, Original

\* Every step builds the target the mode of the restore promises.
LEMMA BuiltStep ==
  Typed /\ Typed' /\ Kept /\ OwnSlotOnly /\ Built /\ [Next]_vars => Built'
<1> SUFFICES ASSUME Typed, Typed', Kept, OwnSlotOnly, Built, [Next]_vars PROVE Built'
  OBVIOUS
<1> USE DEF Goto, End, state, request, counts
<1>1. ASSUME NEW m \in {"Clean", "Overlay"}, NEW files \in SUBSET Entries, Begin(m, files)
      PROVE Built'
  BY <1>1 DEF Begin, Built, CommitExact
<1>2. CASE MoveAway \/ MoveAwayFails \/ CreateFails \/ CopyAwayFails
  BY <1>2 DEF MoveAway, MoveAwayFails, CreateFails, CopyAwayFails, Fault, Built
<1>3. CASE Create
  <2>1. target' = EmptyTree /\ todo = archive /\ ~isCopy /\ pc' = "extract"
    BY <1>3 DEF Create, Built
  <2>2. UNCHANGED <<before, archive, todo, attempts, isCopy>>
    BY <1>3 DEF Create
  <2>3. target' = Filled'
    BY <2>1, <2>2 DEF Filled, EmptyTree
  <2> QED
    BY <1>3, <2>1, <2>2, <2>3 DEF Create, Built
<1>4. CASE CopyAway
  <2>1. CASE pc' = "copyAway"
    BY <1>4, <2>1 DEF CopyAway, Built
  <2>2. CASE pc' # "copyAway"
    <3>1. pc = "copyAway" /\ pc' = "extract" /\ isCopy' /\ existed
      BY <1>4, <2>2 DEF CopyAway, Built
    <3>2. target = before.target /\ target \in Trees /\ todo = archive
      BY <3>1 DEF Kept, Typed, Located, Built
    <3>3. UNCHANGED <<target, before, archive, todo, attempts>>
      BY <1>4 DEF CopyAway
    <3>4. target' = Filled'
      BY <3>1, <3>2, <3>3, NoTreeAssumption DEF Filled, Original, Dir, Trees
    <3> QED
      BY <1>4, <3>1, <3>2, <3>3, <3>4 DEF CopyAway, Built
  <2> QED
    BY <2>1, <2>2
<1>5. CASE Extract
  BY <1>5, ExtractFills DEF Extract, Built
<1>6. CASE Extracted
  <2>1. pc = "extract" /\ todo = {} /\ target = Filled
    BY <1>6 DEF Extracted, Built
  <2>2. UNCHANGED <<target, before, archive, attempts, isCopy, mode, existed>>
    BY <1>6 DEF Extracted
  <2>3. CASE existed /\ ~isCopy
    <3>1. slots[slot] = Original
      BY <2>1, <2>3, NoTreeAssumption
         DEF Typed, TypeOK, Located, Kept, HoldsOriginal, Original, Dir
    <3>2. todo' = Rescued
      BY <1>6, <2>3, <3>1 DEF Extracted, ToPreserve, Rescued
    <3>3. target' = Mended'
      BY <2>1, <2>2, <2>3, <3>2 DEF Filled, Mended, Rescued, Original
    <3>4. mode = "Clean" /\ todo' \subseteq Rescued'
      BY <2>1, <2>2, <2>3, <3>2 DEF Built, Typed, TypeOK, Rescued, Original
    <3> QED
      BY <1>6, <2>2, <2>3, <3>3, <3>4 DEF Extracted, Built
  <2>4. CASE ~(existed /\ ~isCopy)
    <3>1. existed => mode = "Overlay" /\ isCopy
      BY <2>1, <2>4 DEF Built
    <3>2. ~existed => ~isCopy /\ before.target = NoTree
      BY <2>1 DEF Built, Kept
    <3>3. Filled = Expected
      BY <2>1, <3>1, <3>2 DEF Filled, Expected, Original, Dir, EmptyTree
    <3>4. Expected' = Expected
      BY <2>2 DEF Expected
    <3> QED
      BY <1>6, <2>1, <2>2, <2>4, <3>3, <3>4 DEF Extracted, Built
  <2> QED
    BY <2>3, <2>4
<1>7. CASE Preserve
  <2>1. CASE todo = {}
    <3>1. pc = "preserve" /\ target = Mended /\ mode = "Clean" /\ pc' = "commit"
      BY <1>7, <2>1 DEF Preserve, Built
    <3>2. target' = target /\ Expected' = Expected
      BY <1>7, <2>1 DEF Preserve, Expected
    <3>3. Mended = Expected
      BY <2>1, <3>1, PreservedAssumption DEF Mended, Rescued, Expected, Original
    <3> QED
      BY <3>1, <3>2, <3>3 DEF Built
  <2>2. CASE todo # {}
    <3>1. todo' # todo /\ pc = "preserve" /\ pc' = pc
      BY <1>7, <2>2 DEF Preserve
    <3>2. target' = Mended' /\ todo' \subseteq Rescued'
      BY <1>7, <2>2, <3>1, PreserveMends
    <3> QED
      BY <1>7, <3>1, <3>2 DEF Preserve, Built
  <2> QED
    BY <2>1, <2>2
<1>8. CASE NotCommitted
  BY <1>8 DEF NotCommitted, Fault, Built
<1>9. CASE CommitPoint
  <2>1. pc = "commit" /\ target' = Expected'
    BY <1>9 DEF CommitPoint, Built, Expected
  <2>2. slot = NoSlot => slots = before.slots
    BY <2>1, Vocabulary DEF Typed, TypeOK, OwnSlotOnly
  <2> QED
    BY <1>9, <2>1, <2>2 DEF CommitPoint, Built, CommitExact
<1>10. CASE RemoveSnapshotEntry
  BY <1>10 DEF RemoveSnapshotEntry, Removing, Built, Expected
<1>11. CASE SnapshotRemoved
  <2>1. slots' = before.slots
    BY <1>11, Vocabulary DEF SnapshotRemoved, Removing, OwnSlotOnly, Typed, TypeOK, Located
  <2>2. Expected' = Expected /\ UNCHANGED <<target, before>>
    BY <1>11 DEF SnapshotRemoved, Expected
  <2> QED
    BY <1>11, <2>1, <2>2 DEF SnapshotRemoved, Built, CommitExact
<1>12. CASE RemoveSnapshotFails
  <2>1. Expected' = Expected /\ UNCHANGED <<target, slots, before>>
    BY <1>12 DEF RemoveSnapshotFails, Fault, Expected
  <2>2. pc # "idle" /\ \A s \in Slots : before.slots[s] # NoTree => slots[s] = before.slots[s]
    BY <1>12, Vocabulary DEF RemoveSnapshotFails, Removing, OwnSlotOnly, Typed, TypeOK, Located
  <2> QED
    BY <1>12, <2>1, <2>2 DEF RemoveSnapshotFails, Fault, Built, CommitExact
<1>13. CASE RollbackNothing \/ RollbackClear \/ ClearEntry \/ Cleared
  BY <1>13 DEF RollbackNothing, RollbackClear, ClearEntry, Cleared, Built, CommitExact
<1>14. CASE MoveBack \/ CopyBack \/ RollbackFails
  BY <1>14 DEF MoveBack, CopyBack, RollbackFails, Fault, counts, Built, CommitExact
<1>15. CASE Crash
  BY <1>15 DEF Crash, Built, CommitExact
<1>16. CASE RequestStop \/ UNCHANGED vars
  BY <1>16 DEF RequestStop, vars, Built, CommitExact, Filled, Mended, Rescued, Original, Expected
<1> QED
  BY <1>1, <1>2, <1>3, <1>4, <1>5, <1>6, <1>7, <1>8, <1>9, <1>10, <1>11, <1>12, <1>13,
     <1>14, <1>15, <1>16 DEF Next, Restore, Step

\* A finished restore outside the run of another step is exactly what its mode promises.
LEMMA BuiltGivesExact == OwnSlotOnly /\ Built => CommitExact
  BY DEF OwnSlotOnly, Built, CommitExact

\* A restore reported as done has left exactly the files its mode promises, and touched
\* no snapshot of an earlier restore, for any folder, archive, rules, failures and crashes.
THEOREM CommitIsExact == Spec => []CommitExact
<1>1. Init => Kept /\ OwnSlotOnly /\ Built
  BY DEF Init, Kept, Recoverable, HoldsOriginal, OwnSlotOnly, RollbackExact, Built, CommitExact
<1> QED
  BY <1>1, TypedAlways, KeptStep, OwnSlotOnlyStep, BuiltStep, BuiltGivesExact, PTL DEF Spec

=============================================================================
