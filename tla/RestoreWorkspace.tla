-------------------------- MODULE RestoreWorkspace --------------------------
(***************************************************************************)
(* Replacing a world folder by the content of a backup: RestoreWorkspace   *)
(* (Prepare, Commit, Rollback) driven by RestoreService::Run.              *)
(*                                                                         *)
(* The world folder (target) and its snapshots are folder trees on disk.   *)
(* Recursive copies, removals and extractions touch one entry at a time    *)
(* and may fail after any of them; the process may die between any two     *)
(* steps, which leaves the folders as they are and forgets the State       *)
(* record.  A later restore then finds a partial target and old snapshots. *)
(* The restore may be cancelled at any moment.  The world is not open in   *)
(* the game: RestoreService::Run refuses an occupied world.                *)
(***************************************************************************)
EXTENDS Integers, FiniteSets

CONSTANTS
    Entries,      \* files of a world folder, by relative path
    Preserved,    \* those that match restorePreserve or are session.lock
    NoTree,       \* stands for a folder that does not exist
    MaxAttempts,  \* bound: restores started
    MaxFaults,    \* bound: file-system or 7-Zip steps that fail
    MaxCrashes    \* bound: deaths of the process

\* 0 means that the entry does not exist; attempt k extracts version k + 1.
Absent == 0
Versions == 0..(MaxAttempts + 1)
Trees == [Entries -> Versions]
EmptyTree == [e \in Entries |-> Absent]
Folders == Trees \cup {NoTree}
Slots == 1..MaxAttempts   \* the names NextSnapshotPath goes through
NoSlot == 0

ASSUME BoundsAssumption ==
    MaxAttempts \in Nat /\ MaxFaults \in Nat /\ MaxCrashes \in Nat
ASSUME PreservedAssumption == Preserved \subseteq Entries
ASSUME NoTreeAssumption == NoTree \notin Trees

VARIABLES
    target,    \* the world folder
    slots,     \* the snapshot folders beside it
    phase,     \* State::phase
    slot,      \* State::snapshot, NoSlot when the path is empty
    existed,   \* State::targetOriginallyExisted
    isCopy,    \* State::snapshotIsCopy
    mode,      \* RestoreRequest::mode
    archive,   \* entries the restore plan extracts
    todo,      \* entries the current loop has still to write
    stop,      \* the stop token
    pc,        \* the next step
    outcome,   \* how the last restore ended
    attempts, faults, crashes,
    before,    \* ghost: target and slots when the restore began
    good       \* ghost: the world as the last restore that took effect left it

state == <<phase, slot, existed, isCopy>>
request == <<mode, archive, attempts, before>>
counts == <<faults, crashes>>
vars == <<target, slots, phase, slot, existed, isCopy, mode, archive, todo, stop, pc,
          outcome, attempts, faults, crashes, before, good>>

Init ==
    /\ target \in {NoTree} \cup [Entries -> 0..1]
    /\ slots = [s \in Slots |-> NoTree]
    /\ phase = "Empty" /\ slot = NoSlot /\ existed = FALSE /\ isCopy = FALSE
    /\ mode = "Clean" /\ archive = {} /\ todo = {} /\ stop = FALSE
    /\ pc = "idle" /\ outcome = "None"
    /\ attempts = 0 /\ faults = 0 /\ crashes = 0
    /\ before = [target |-> target, slots |-> slots]
    /\ good = target

Fault == faults < MaxFaults /\ faults' = faults + 1 /\ UNCHANGED crashes

Goto(label) == pc' = label /\ UNCHANGED outcome
End(result) == pc' = "idle" /\ outcome' = result

Dir(t) == IF t = NoTree THEN EmptyTree ELSE t

-----------------------------------------------------------------------------
(* Prepare.                                                                *)

\* Mutant of FirstFree: a counter, one too far, instead of a look at the disk.
FirstFreeCounted == {attempts + 2}
FirstFree == {s \in Slots : slots[s] = NoTree /\ \A r \in 1..(s - 1) : slots[r] # NoTree}

\* The caller's request; the target is inspected and a snapshot name chosen.
Begin(m, files) ==
    /\ pc = "idle"
    /\ attempts < MaxAttempts
    /\ attempts' = attempts + 1
    /\ mode' = m /\ archive' = files
    /\ todo' = files /\ stop' = FALSE
    /\ before' = [target |-> target, slots |-> slots]
    /\ phase' = "Prepared" /\ isCopy' = FALSE /\ outcome' = "None"
    /\ existed' = (target # NoTree)
    /\ \/ /\ target = NoTree
          /\ slot' = NoSlot /\ pc' = "create" /\ UNCHANGED slots
       \/ /\ target # NoTree
          /\ slot' \in FirstFree
          /\ \/ m = "Clean" /\ pc' = "moveAway" /\ UNCHANGED slots
             \/ m = "Overlay" /\ pc' = "copyAway" /\ slots' = [slots EXCEPT ![slot'] = EmptyTree]
    /\ UNCHANGED <<target, counts, good>>

MoveAway ==
    /\ pc = "moveAway"
    /\ slots' = [slots EXCEPT ![slot] = target]
    /\ target' = NoTree
    /\ Goto("create")
    /\ UNCHANGED <<state, request, todo, stop, counts, good>>

\* The rename failed: the path is cleared, the caller rolls back an untouched target.
MoveAwayFails ==
    /\ pc = "moveAway"
    /\ Fault
    /\ slot' = NoSlot
    /\ Goto("rollback")
    /\ UNCHANGED <<target, slots, phase, existed, isCopy, request, todo, stop, good>>

Create ==
    /\ pc = "create"
    /\ target' = EmptyTree
    /\ Goto("extract")
    /\ UNCHANGED <<slots, state, request, todo, stop, counts, good>>

CreateFails ==
    /\ pc = "create"
    /\ Fault
    /\ Goto("rollback")
    /\ UNCHANGED <<target, slots, state, request, todo, stop, good>>

CopyAway ==
    /\ pc = "copyAway"
    /\ \/ /\ \E e \in Entries :
               /\ slots[slot][e] # target[e]
               /\ slots' = [slots EXCEPT ![slot][e] = target[e]]
          /\ UNCHANGED <<isCopy, pc, outcome>>
       \/ /\ slots[slot] = target
          /\ isCopy' = TRUE
          /\ Goto("extract")
          /\ UNCHANGED slots
    /\ UNCHANGED <<target, phase, slot, existed, request, todo, stop, counts, good>>

\* Mutant of CopyAwayFails: the partial copy is kept, and the caller rolls back from it.
CopyAwayFailsRollsBack ==
    /\ pc = "copyAway"
    /\ Fault
    /\ Goto("rollback")
    /\ UNCHANGED <<target, slots, state, request, todo, stop, good>>
\* The partial copy is removed; the workspace is not prepared.
CopyAwayFails ==
    /\ pc = "copyAway"
    /\ Fault
    /\ Goto("discard")
    /\ UNCHANGED <<target, slots, state, request, todo, stop, good>>

-----------------------------------------------------------------------------
(* ExtractChain, and Commit up to its commit point.                        *)

Extract ==
    /\ pc = "extract"
    /\ \E e \in todo :
         /\ target' = [target EXCEPT ![e] = attempts + 1]
         /\ todo' = todo \ {e}
    /\ UNCHANGED <<slots, state, request, stop, pc, outcome, counts, good>>

\* Mutant of ToPreserve: an extracted file is not overwritten.
ToPreserveMissing == {e \in Preserved : slots[slot][e] # Absent /\ target[e] = Absent}
ToPreserve == {e \in Preserved : slots[slot][e] # Absent}

Extracted ==
    /\ pc = "extract"
    /\ todo = {}
    /\ ~stop
    /\ IF existed /\ ~isCopy
       THEN Goto("preserve") /\ todo' = ToPreserve
       ELSE Goto("commit") /\ UNCHANGED todo
    /\ UNCHANGED <<target, slots, state, request, stop, counts, good>>

\* CopyPreserved: what the rules keep is copied back over the extracted files.
Preserve ==
    /\ pc = "preserve"
    /\ \/ /\ \E e \in todo :
               /\ target' = [target EXCEPT ![e] = slots[slot][e]]
               /\ todo' = todo \ {e}
          /\ UNCHANGED <<pc, outcome>>
       \/ todo = {} /\ Goto("commit") /\ UNCHANGED <<target, todo>>
    /\ UNCHANGED <<slots, state, request, stop, counts, good>>

\* Mutant of NotCommitted: the stop request is not turned into a rollback.
NotCommittedIgnoresStop ==
    /\ pc \in {"extract", "preserve"}
    /\ Fault
    /\ Goto("rollback")
    /\ UNCHANGED <<target, slots, state, request, todo, stop, good>>
\* A step fails, or the stop request is seen: at the next entry or at the commit point.
NotCommitted ==
    /\ pc \in {"extract", "preserve", "commit"}
    /\ \/ stop /\ UNCHANGED counts
       \/ pc # "commit" /\ Fault
    /\ Goto("rollback")
    /\ UNCHANGED <<target, slots, state, request, todo, stop, good>>

\* "Commit point: cleanup may partially destroy the snapshot; never roll back after this."
CommitPoint ==
    /\ pc = "commit"
    /\ ~stop
    /\ phase' = "Committed"
    /\ good' = target
    /\ IF slot = NoSlot THEN End("Success") ELSE Goto("cleanup")
    /\ UNCHANGED <<target, slots, slot, existed, isCopy, request, todo, stop, counts>>

-----------------------------------------------------------------------------
(* remove_all of a snapshot: after a commit, after a failed copy, and      *)
(* after an overlay rollback.                                              *)

Removing == pc \in {"cleanup", "discard", "dropCopy"}

RemoveSnapshotEntry ==
    /\ Removing
    /\ \E e \in Entries :
         /\ slots[slot][e] # Absent
         /\ slots' = [slots EXCEPT ![slot][e] = Absent]
    /\ UNCHANGED <<target, state, request, todo, stop, pc, outcome, counts, good>>

SnapshotRemoved ==
    /\ Removing
    /\ slots[slot] = EmptyTree
    /\ slots' = [slots EXCEPT ![slot] = NoTree]
    /\ slot' = NoSlot /\ isCopy' = FALSE
    /\ \/ pc = "cleanup" /\ End("Success") /\ UNCHANGED phase
       \/ pc = "discard" /\ End("Refused") /\ phase' = "Empty"
       \/ pc = "dropCopy" /\ End("RolledBack") /\ phase' = "RolledBack"
    /\ UNCHANGED <<target, existed, request, todo, stop, counts, good>>

\* What is left of the snapshot stays on disk.
RemoveSnapshotFails ==
    /\ Removing
    /\ Fault
    /\ \/ pc = "cleanup" /\ End("CleanupWarning") /\ UNCHANGED <<phase, slot>>
       \/ pc = "discard" /\ End("Refused") /\ phase' = "Empty" /\ slot' = NoSlot
       \/ pc = "dropCopy" /\ End("RollbackFailed") /\ UNCHANGED <<phase, slot>>
    /\ UNCHANGED <<target, slots, existed, isCopy, request, todo, stop, good>>

-----------------------------------------------------------------------------
(* Rollback.                                                               *)

\* Mutant of RollbackNothing: a copied snapshot is taken for an untouched target.
RollbackNothingCopied ==
    /\ pc = "rollback"
    /\ existed /\ (slot = NoSlot \/ isCopy)
    /\ phase' = "RolledBack"
    /\ End("RolledBack")
    /\ UNCHANGED <<target, slots, slot, existed, isCopy, request, todo, stop, counts, good>>
\* The original was never moved: nothing to undo.
RollbackNothing ==
    /\ pc = "rollback"
    /\ existed /\ slot = NoSlot
    /\ phase' = "RolledBack"
    /\ End("RolledBack")
    /\ UNCHANGED <<target, slots, slot, existed, isCopy, request, todo, stop, counts, good>>

\* "restore snapshot is missing": without the moved original the target is not touched.
SnapshotThere == slot # NoSlot /\ ~isCopy => slots[slot] # NoTree

\* Otherwise the target is removed, entry by entry.
RollbackClear ==
    /\ pc = "rollback"
    /\ ~existed \/ slot # NoSlot
    /\ SnapshotThere
    /\ Goto("clear")
    /\ UNCHANGED <<target, slots, state, request, todo, stop, counts, good>>

ClearEntry ==
    /\ pc = "clear"
    /\ target # NoTree
    /\ \E e \in Entries :
         /\ target[e] # Absent
         /\ target' = [target EXCEPT ![e] = Absent]
    /\ UNCHANGED <<slots, state, request, todo, stop, pc, outcome, counts, good>>

\* A target that was new is gone; the original of an existing one is put back.
Cleared ==
    /\ pc = "clear"
    /\ target \in {NoTree, EmptyTree}
    /\ target' = NoTree
    /\ \/ slot = NoSlot /\ phase' = "RolledBack" /\ End("RolledBack")
       \/ slot # NoSlot /\ Goto(IF isCopy THEN "copyBack" ELSE "moveBack") /\ UNCHANGED phase
    /\ UNCHANGED <<slots, slot, existed, isCopy, request, todo, stop, counts, good>>

MoveBack ==
    /\ pc = "moveBack"
    /\ target' = slots[slot]
    /\ slots' = [slots EXCEPT ![slot] = NoTree]
    /\ slot' = NoSlot
    /\ phase' = "RolledBack"
    /\ End("RolledBack")
    /\ UNCHANGED <<existed, isCopy, request, todo, stop, counts, good>>

CopyBack ==
    /\ pc = "copyBack"
    /\ \/ /\ \E e \in Entries :
               /\ Dir(target)[e] # slots[slot][e]
               /\ target' = [Dir(target) EXCEPT ![e] = slots[slot][e]]
          /\ UNCHANGED <<pc, outcome>>
       \/ /\ Dir(target) = slots[slot]
          /\ target' = Dir(target)
          /\ Goto("dropCopy")
    /\ UNCHANGED <<slots, state, request, todo, stop, counts, good>>

\* restore.rollback.failed: the user is told, the snapshot stays.
RollbackFails ==
    /\ pc \in {"rollback", "clear", "moveBack", "copyBack"}
    /\ ~existed \/ slot # NoSlot
    /\ IF pc = "rollback" /\ ~SnapshotThere THEN UNCHANGED counts ELSE Fault
    /\ End("RollbackFailed")
    /\ UNCHANGED <<target, slots, state, request, todo, stop, good>>

-----------------------------------------------------------------------------
RequestStop ==
    /\ pc # "idle"
    /\ ~stop
    /\ stop' = TRUE
    /\ UNCHANGED <<target, slots, state, request, todo, pc, outcome, counts, good>>

\* The process dies: the folders stay, the State record is lost.
Crash ==
    /\ pc # "idle"
    /\ crashes < MaxCrashes
    /\ crashes' = crashes + 1
    /\ phase' = "Empty" /\ slot' = NoSlot /\ existed' = FALSE /\ isCopy' = FALSE
    /\ todo' = {} /\ stop' = FALSE
    /\ End("Crashed")
    /\ UNCHANGED <<target, slots, request, faults, good>>

Step ==
    \/ MoveAway \/ MoveAwayFails \/ Create \/ CreateFails \/ CopyAway \/ CopyAwayFails
    \/ Extract \/ Extracted \/ Preserve \/ NotCommitted \/ CommitPoint
    \/ RemoveSnapshotEntry \/ SnapshotRemoved \/ RemoveSnapshotFails
    \/ RollbackNothing \/ RollbackClear \/ ClearEntry \/ Cleared
    \/ MoveBack \/ CopyBack \/ RollbackFails

Restore == \E m \in {"Clean", "Overlay"}, files \in SUBSET Entries \ {{}} : Begin(m, files)

Next == Restore \/ Step \/ RequestStop \/ Crash

Spec == Init /\ [][Next]_vars
FairSpec == Spec /\ WF_vars(Step)

-----------------------------------------------------------------------------
(* Properties.                                                             *)

Labels == {"idle", "moveAway", "copyAway", "discard", "create", "extract", "preserve",
           "commit", "cleanup", "rollback", "clear", "moveBack", "copyBack", "dropCopy"}
Outcomes == {"None", "Success", "CleanupWarning", "Refused", "RolledBack",
             "RollbackFailed", "Crashed"}

\* Every variable keeps its type.
TypeOK ==
    /\ target \in Folders /\ slots \in [Slots -> Folders]
    /\ phase \in {"Empty", "Prepared", "Committed", "RolledBack"}
    /\ slot \in Slots \cup {NoSlot} /\ existed \in BOOLEAN /\ isCopy \in BOOLEAN
    /\ mode \in {"Clean", "Overlay"}
    /\ archive \subseteq Entries /\ todo \subseteq Entries /\ stop \in BOOLEAN
    /\ pc \in Labels /\ outcome \in Outcomes
    /\ attempts \in 0..MaxAttempts /\ faults \in 0..MaxFaults /\ crashes \in 0..MaxCrashes
    /\ before \in [target : Folders, slots : [Slots -> Folders]]
    /\ good \in Folders

\* The player's world is never lost: whatever fails, and wherever the process dies, over
\* any number of restores, the world folder or one of the snapshots holds the world
\* exactly as the last restore that took effect (or the player) left it.
Recoverable ==
    good # NoTree => target = good \/ \E s \in Slots : slots[s] = good

\* A restore that reports a successful rollback has put the folder back exactly, down to
\* its absence, and leaves no snapshot of its own behind; one that Prepare refused has
\* not touched the folder.
RollbackExact ==
    /\ outcome = "RolledBack" => target = before.target /\ slots = before.slots
    /\ outcome = "Refused" => target = before.target

\* What each mode promises: Clean leaves the extracted files and the preserved originals,
\* Overlay the original with the extracted files over it.
Expected ==
    LET original == Dir(before.target) IN
    [e \in Entries |->
        IF mode = "Clean" /\ e \in Preserved /\ original[e] # Absent THEN original[e]
        ELSE IF e \in archive THEN attempts + 1
        ELSE IF mode = "Overlay" THEN original[e] ELSE Absent]

\* A restore reported as done has the promised content, and every other snapshot is
\* untouched; without a warning its own snapshot is gone.
CommitExact ==
    outcome \in {"Success", "CleanupWarning"} =>
        /\ target = Expected
        /\ outcome = "Success" => slots = before.slots
        /\ \A s \in Slots : before.slots[s] # NoTree => slots[s] = before.slots[s]

\* A step that fails or a cancellation always ends the restore with a report.
RestoreEnds == (pc # "idle") ~> (pc = "idle")

=============================================================================
