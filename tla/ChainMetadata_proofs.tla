------------------------ MODULE ChainMetadata_proofs ------------------------
(* Proofs about what BackupChain leaves on disk: a removal that fails is   *)
(* undone, every record describes its archive, state.json describes the    *)
(* last archive, a restore gives back what its backup scanned, and every   *)
(* entry can be restored, for any files, modes, limits and bounds.         *)
EXTENDS BackupChain_proofs

-----------------------------------------------------------------------------
(* Undoing a removal.  While a removal runs and no rollback has failed,    *)
(* what it holds in memory is enough to put everything back.               *)

Undoing == RemovalSteps \cup UndoSteps

\* The steps at which the metadata may have changed.
Mutated == {"directRecord", "mergeRecord", "mergeRefs", "mergeState", "mergeRemove", "commit",
            "undoClear", "undoCopy"}

\* No two archives carry one number, and every number was given out.
Numbered ==
    /\ \A m, n \in DOMAIN archives : m.id = n.id => m = n
    /\ \A n \in DOMAIN archives : n.id < nextId

Holds(n, files) == n \in DOMAIN archives /\ archives[n] = files

\* The target can be put back under its number.
TargetKept ==
    /\ trim.target.id < nextId
    /\ \A n \in DOMAIN archives : n.id = trim.target.id => n = trim.target
    /\ ~trim.removed \/ pc \in {"undoClear", "undoCopy"} => Holds(trim.target, trim.targetFiles)

\* The later archive is in place, under its old name or its new one.
NextKept ==
    /\ trim.next.id # trim.target.id /\ trim.final.id = trim.next.id
    /\ trim.next \in DOMAIN archives \/ (trim.final # trim.next /\ trim.final \in DOMAIN archives)
    /\ ~trim.replaced \/ pc \in {"undoRemoved", "undoClear", "undoCopy"} =>
          Holds(trim.next, trim.nextFiles)

\* The metadata is that of the snapshot as long as the removal says so.
SnapshotKept ==
    /\ ~trim.mutated => records = trim.records /\ state = trim.state
    /\ pc \in Mutated => trim.mutated
    /\ trim.next = NoName => trim.final = NoName /\ ~trim.replaced
    /\ pc = "mergeReplace" => ~trim.replaced
    /\ pc = "mergeRename" => trim.replaced
    /\ pc \in {"mergeReplace", "mergeRename"} => ~trim.mutated

Undoable ==
    ~retained =>
        /\ Numbered
        /\ pc \in Undoing => TargetKept /\ SnapshotKept /\ (trim.next # NoName => NextKept)

\* Archives and records are maps from names.
LEMMA ArchiveNames ==
  ASSUME Typed PROVE DOMAIN archives \subseteq Names /\ DOMAIN records \subseteq Names
<1>1. archives \in Maps(Names, Contents) /\ records \in Maps(Names, Record)
  BY DEF Typed, TypedDisk
<1> QED
  BY <1>1, MapElim

\* A rollback once reported incomplete stays on record.
LEMMA RetainedStays == [Next]_vars /\ retained => retained'
<1> SUFFICES ASSUME [Next]_vars, retained PROVE retained'
  OBVIOUS
<1> USE DEF counts, Fault, RollbackFault
<1>1. CASE Backup
  BY <1>1
     DEF Backup, WriteArchive, ArchiveFails, SaveRecord, SaveState, StateSnapshotFails,
         MetadataFails, AddHistory, AddHistoryFails, RestoreState, DropRecord, DropArchive,
         RollbackIncomplete
<1>2. CASE EndRound \/ PickOldest \/ StartDirect \/ StartMerge \/ Keep \/ DirectArchive \/ DirectRecord
  BY <1>2 DEF EndRound, PickOldest, StartDirect, StartMerge, Keep, DirectArchive, DirectRecord
<1>3. CASE Merging \/ Commit \/ RemovalFails
  BY <1>3 DEF Merging, MergeReplace, MergeRename, MergeRecord, MergeRefs, MergeState, MergeRemove,
              Commit, RemovalFails
<1>4. CASE UndoTarget \/ UndoRemoved \/ UndoClear \/ UndoCopy
  BY <1>4 DEF UndoTarget, UndoRemoved, UndoClear, UndoCopy
<1>5. CASE User
  BY <1>5 DEF User, StartBackup, DeleteHistoryOnly, DeleteLocalArchive, DeleteArchiveAndHistory,
              SafeDelete, Mark, RestoreWorld
<1>6. CASE Environment \/ UNCHANGED vars
  BY <1>6 DEF Environment, EditFile, SetClockBack, Crash, vars
<1> QED
  BY <1>1, <1>2, <1>3, <1>4, <1>5, <1>6 DEF Next, Worker, Removal, Merging

\* A step that adds no archive and ends or prepares an operation leaves nothing to undo.
LEMMA ShrinkUndoable ==
  ASSUME Undoable, retained' \/ retained' = retained, nextId' = nextId, pc' \notin Undoing,
         DOMAIN archives' \subseteq DOMAIN archives
  PROVE  Undoable'
  BY DEF Undoable, Numbered

\* A step that touches neither archives, metadata nor the removal keeps all as it was.
LEMMA QuietUndoable ==
  ASSUME Undoable, UNCHANGED <<archives, records, state, nextId, trim, pc, retained>>
  PROVE  Undoable'
  BY DEF Undoable, Numbered, TargetKept, NextKept, SnapshotKept, Holds

\* The steps of a backup give every archive a number of its own.
LEMMA BackupUndoable ==
  ASSUME Typed, Undoable, Backup PROVE Undoable'
<1> USE DEF Undoing, RemovalSteps, UndoSteps
<1>1. CASE WriteArchive
  <2>1. job.name.id = nextId /\ nextId \in Nat /\ nextId' = nextId + 1
    BY <1>1 DEF WriteArchive, Typed, TypedWork, TypedWorld
  <2>2. DOMAIN archives' = DOMAIN archives \cup {job.name}
    BY <1>1 DEF WriteArchive, With
  <2>3. \A n \in DOMAIN archives : n.id \in Nat
    BY ArchiveNames DEF Names, Ids
  <2>4. retained' = retained /\ pc' \notin Undoing
    BY <1>1 DEF WriteArchive, counts
  <2> QED
    BY <2>1, <2>2, <2>3, <2>4 DEF Undoable, Numbered
<1>2. CASE MetadataFails
  <2>1. DOMAIN archives' \subseteq DOMAIN archives
    BY <1>2 DEF MetadataFails, Without
  <2> QED
    BY <1>2, <2>1, ShrinkUndoable DEF MetadataFails, Finish
<1>3. CASE DropArchive
  <2>1. DOMAIN archives' \subseteq DOMAIN archives
    BY <1>3 DEF DropArchive, Without
  <2> QED
    BY <1>3, <2>1, ShrinkUndoable DEF DropArchive, Finish, counts
<1>4. CASE ArchiveFails \/ SaveRecord \/ SaveState \/ StateSnapshotFails \/ AddHistory
           \/ AddHistoryFails \/ RestoreState \/ DropRecord \/ RollbackIncomplete
  <2>1. archives' = archives /\ nextId' = nextId /\ pc' \notin Undoing /\ (retained' \/ retained' = retained)
    BY <1>4 DEF ArchiveFails, SaveRecord, SaveState, StateSnapshotFails, AddHistory,
                AddHistoryFails, RestoreState, DropRecord, RollbackIncomplete, Finish, Fault,
                RollbackFault, disk, counts
  <2> QED
    BY <2>1, ShrinkUndoable
<1> QED
  BY <1>1, <1>2, <1>3, <1>4 DEF Backup

\* Choosing an archive, or keeping it, changes nothing on disk.
LEMMA ChoiceUndoable ==
  ASSUME Undoable, EndRound \/ PickOldest \/ Keep PROVE Undoable'
<1>1. archives' = archives /\ nextId' = nextId /\ pc' \notin Undoing /\ retained' = retained
  BY DEF EndRound, PickOldest, Keep, Finish, Fault, disk, counts, Undoing, RemovalSteps, UndoSteps
<1> QED
  BY <1>1, ShrinkUndoable

\* The entry after another in the history is not that entry.
LEMMA NextDiffers ==
  ASSUME Typed, NEW j \in NextOf PROVE j # trim.target.id /\ j \in DOMAIN trim.seen
<1>1. j \in DOMAIN trim.seen /\ Before(trim.seen, trim.target.id, j)
  BY DEF NextOf, Successor, After
<1>2. trim.seen \in Maps(Ids, Entry)
  BY DEF Typed, TypedWork, Trim
<1>3. DOMAIN trim.seen \subseteq Ids /\ trim.seen \in [DOMAIN trim.seen -> Entry]
  BY <1>2, MapElim
<1>4. trim.seen[j].time \in Nat /\ j \in Nat
  BY <1>1, <1>3 DEF Entry, Ids
<1> QED
  BY <1>1, <1>4 DEF Before

\* Starting a removal takes a snapshot from which everything can be put back.
LEMMA StartUndoable ==
  ASSUME Typed, Undoable, StartDirect \/ StartMerge PROVE Undoable'
<1>0. UNCHANGED <<archives, records, state, nextId, retained>>
  <2>1. CASE StartDirect
    BY <2>1 DEF StartDirect, disk, counts
  <2>2. CASE StartMerge
    BY <2>2 DEF StartMerge, disk, counts
  <2> QED
    BY <2>1, <2>2
<1> SUFFICES ASSUME ~retained PROVE Undoable'
  BY <1>0 DEF Undoable
<1> USE DEF Undoing, RemovalSteps, UndoSteps, Mutated
<1>1. Numbered /\ Numbered'
  BY <1>0 DEF Undoable, Numbered
<1>2. trim \in Trim /\ NoName \notin Names
  BY Vocabulary DEF Typed, TypedWork
<1>3. CASE StartDirect
  <2>1. /\ trim'.target = trim.target /\ trim'.targetFiles = archives[trim.target]
        /\ trim'.next = NoName /\ trim'.final = NoName
        /\ trim'.records = records /\ trim'.state = state
        /\ ~trim'.replaced /\ ~trim'.removed /\ ~trim'.mutated
    BY <1>2, <1>3 DEF StartDirect, Snapshot, Trim
  <2>2. trim.target \in DOMAIN archives /\ pc' = "directArchive"
        /\ UNCHANGED <<archives, records, state, nextId>>
    BY <1>3 DEF StartDirect, disk
  <2> QED
    BY <1>1, <2>1, <2>2 DEF Undoable, Numbered, TargetKept, SnapshotKept, Holds
<1>4. CASE StartMerge
  <2>1. PICK j \in NextOf :
          LET next == NameOf(trim.seen, j) IN
          /\ next.kind = "Smart"
          /\ {next, trim.target} \subseteq DOMAIN archives \cap DOMAIN records
          /\ trim' = [Snapshot EXCEPT
                       !.next = next, !.nextFiles = archives[next], !.time = written[next.id],
                       !.final = IF FullLike(trim.target)
                                 THEN [next EXCEPT !.kind = "Full"] ELSE next]
    BY <1>4 DEF StartMerge
  <2> DEFINE next == NameOf(trim.seen, j)
  <2>2. /\ trim'.target = trim.target /\ trim'.targetFiles = archives[trim.target]
        /\ trim'.next = next /\ trim'.nextFiles = archives[next]
        /\ trim'.final = IF FullLike(trim.target) THEN [next EXCEPT !.kind = "Full"] ELSE next
        /\ trim'.records = records /\ trim'.state = state
        /\ ~trim'.replaced /\ ~trim'.removed /\ ~trim'.mutated
    BY <1>2, <2>1 DEF Snapshot, Trim
  <2>3. next.id = j /\ trim'.final.id = next.id
    BY <2>2 DEF NameOf
  <2>4. j # trim.target.id
    BY NextDiffers
  <2>5. pc' = "mergeReplace" /\ UNCHANGED <<archives, records, state, nextId>>
    BY <1>4 DEF StartMerge, disk
  <2>6. next \in DOMAIN archives /\ trim.target \in DOMAIN archives /\ next # NoName
    BY <1>2, <2>1, ArchiveNames
  <2> HIDE DEF next
  <2>7. TargetKept'
    BY <1>1, <2>2, <2>5, <2>6 DEF Numbered, TargetKept, Holds
  <2>8. NextKept'
    BY <2>2, <2>3, <2>4, <2>5, <2>6 DEF NextKept, Holds
  <2>9. SnapshotKept'
    BY <1>0, <2>2, <2>5, <2>6 DEF SnapshotKept
  <2> QED
    BY <1>1, <2>7, <2>8, <2>9 DEF Undoable
<1> QED
  BY <1>3, <1>4

\* The steps of a removal leave what the undo needs.
LEMMA DirectUndoable ==
  ASSUME Typed, Undoable, DirectArchive \/ DirectRecord PROVE Undoable'
<1>0. UNCHANGED <<nextId, retained>> /\ trim \in Trim
  BY DEF DirectArchive, DirectRecord, counts, Typed, TypedWork
<1> SUFFICES ASSUME ~retained PROVE Undoable'
  BY <1>0 DEF Undoable
<1> USE DEF Undoing, RemovalSteps, UndoSteps, Mutated
<1>1. pc \in Undoing /\ Numbered /\ TargetKept /\ SnapshotKept /\ (trim.next # NoName => NextKept)
  BY DEF DirectArchive, DirectRecord, Undoable
<1>2. CASE DirectArchive
  <2>1. /\ DOMAIN archives' = DOMAIN archives \ {trim.target}
        /\ \A n \in DOMAIN archives' : archives'[n] = archives[n]
    BY <1>2 DEF DirectArchive, Without
  <2>2. /\ trim'.removed /\ trim'.mutated /\ trim'.replaced = trim.replaced
        /\ trim'.target = trim.target /\ trim'.next = trim.next /\ trim'.final = trim.final
        /\ trim'.nextFiles = trim.nextFiles
    BY <1>0, <1>2 DEF DirectArchive, Trim
  <2>3. pc' = "directRecord"
    BY <1>2 DEF DirectArchive
  <2>4. trim.next # NoName => NextKept'
    BY <1>1, <2>1, <2>2, <2>3 DEF NextKept, TargetKept, Holds
  <2> QED
    BY <1>0, <1>1, <2>1, <2>2, <2>3, <2>4
       DEF Undoable, Numbered, TargetKept, SnapshotKept, Holds
<1>3. CASE DirectRecord
  <2>1. UNCHANGED <<archives, trim>> /\ pc' = "commit" /\ trim.mutated
    BY <1>1, <1>3 DEF DirectRecord, SnapshotKept
  <2> QED
    BY <1>0, <1>1, <2>1 DEF Undoable, Numbered, TargetKept, NextKept, SnapshotKept, Holds
<1> QED
  BY <1>2, <1>3

\* The steps of a merge leave what the undo needs, under the old name or the new one.
LEMMA MergeUndoable == ASSUME Typed, Undoable, Merging PROVE Undoable'
<1>0. UNCHANGED <<nextId, retained>> /\ trim \in Trim
  BY DEF Merging, MergeReplace, MergeRename, MergeRecord, MergeRefs, MergeState, MergeRemove,
         counts, Typed, TypedWork
<1> SUFFICES ASSUME ~retained PROVE Undoable'
  BY <1>0 DEF Undoable
<1> USE DEF Undoing, RemovalSteps, UndoSteps, Mutated
<1>1. pc \in MergeSteps /\ pc \in Undoing
  BY DEF Merging, MergeReplace, MergeRename, MergeRecord, MergeRefs, MergeState, MergeRemove,
         MergeSteps
<1>2. trim.next # NoName /\ trim.next \in Names /\ trim.final \in Names
  BY <1>1, Vocabulary DEF Typed, TypedWork
<1>3. Numbered /\ TargetKept /\ NextKept /\ SnapshotKept
  BY <1>1, <1>2 DEF Undoable
<1>4. CASE MergeReplace
  <2>1. /\ DOMAIN archives' = DOMAIN archives \cup {trim.next}
        /\ \A n \in DOMAIN archives : n # trim.next => archives'[n] = archives[n]
    BY <1>4 DEF MergeReplace, With
  <2>2. /\ trim'.replaced /\ trim'.removed = trim.removed /\ trim'.mutated = trim.mutated
        /\ trim'.target = trim.target /\ trim'.next = trim.next /\ trim'.final = trim.final
        /\ trim'.targetFiles = trim.targetFiles
        /\ trim'.records = trim.records /\ trim'.state = trim.state
    BY <1>0, <1>4 DEF MergeReplace, Trim
  <2>3. pc' = "mergeRename" /\ pc = "mergeReplace" /\ UNCHANGED <<records, state>>
    BY <1>4 DEF MergeReplace
  <2>4. trim.next \in DOMAIN archives
    BY <1>3, <2>3 DEF SnapshotKept, NextKept, Holds
  <2>5. Numbered'
    BY <1>0, <1>3, <2>1, <2>4 DEF Numbered
  <2> QED
    BY <1>0, <1>2, <1>3, <2>1, <2>2, <2>3, <2>4, <2>5
       DEF Undoable, TargetKept, NextKept, SnapshotKept, Holds
<1>5. CASE MergeRename
  <2>1. /\ trim'.mutated /\ trim'.replaced = trim.replaced /\ trim'.removed = trim.removed
        /\ trim'.target = trim.target /\ trim'.next = trim.next /\ trim'.final = trim.final
        /\ trim'.targetFiles = trim.targetFiles /\ trim'.nextFiles = trim.nextFiles
    BY <1>0, <1>5 DEF MergeRename, Trim
  <2>2. pc = "mergeRename" /\ pc' = "mergeRecord"
    BY <1>5 DEF MergeRename
  <2>3. trim.replaced /\ trim.next \in DOMAIN archives
    BY <1>3, <2>2 DEF SnapshotKept, Typed, TypedWork
  <2>4. CASE trim.final = trim.next
    <3>1. archives' = archives
      BY <1>5, <2>4 DEF MergeRename
    <3> QED
      BY <1>0, <1>2, <1>3, <2>1, <2>2, <2>3, <3>1
         DEF Undoable, Numbered, TargetKept, NextKept, SnapshotKept, Holds
  <2>5. CASE trim.final # trim.next
    <3>1. archives' = With(Without(archives, {trim.next}), trim.final, archives[trim.next])
      BY <1>5, <2>5 DEF MergeRename
    <3>2. /\ DOMAIN archives' = (DOMAIN archives \ {trim.next}) \cup {trim.final}
          /\ \A n \in DOMAIN archives \ {trim.next, trim.final} : archives'[n] = archives[n]
      BY <3>1 DEF With, Without
    <3>3. Numbered'
      BY <1>0, <1>3, <2>3, <3>2 DEF Numbered, NextKept
    <3>4. TargetKept' /\ NextKept'
      BY <1>0, <1>3, <2>1, <2>2, <2>3, <2>5, <3>2 DEF TargetKept, NextKept, Holds
    <3> QED
      BY <1>2, <2>1, <2>2, <3>3, <3>4 DEF Undoable, SnapshotKept
  <2> QED
    BY <2>4, <2>5
<1>6. CASE MergeRecord \/ MergeRefs \/ MergeState
  <2>1. UNCHANGED <<archives, trim>> /\ pc' \in Mutated /\ trim.mutated
        /\ pc' \notin {"undoRemoved", "undoClear", "undoCopy"}
    BY <1>3, <1>6 DEF MergeRecord, MergeRefs, MergeState, SnapshotKept
  <2> QED
    BY <1>0, <1>2, <1>3, <2>1 DEF Undoable, Numbered, TargetKept, NextKept, SnapshotKept, Holds
<1>7. CASE MergeRemove
  <2>1. /\ DOMAIN archives' = DOMAIN archives \ {trim.target}
        /\ \A n \in DOMAIN archives' : archives'[n] = archives[n]
    BY <1>7 DEF MergeRemove, Without
  <2>2. /\ trim'.removed /\ trim'.mutated = trim.mutated /\ trim'.replaced = trim.replaced
        /\ trim'.target = trim.target /\ trim'.next = trim.next /\ trim'.final = trim.final
        /\ trim'.nextFiles = trim.nextFiles
    BY <1>0, <1>7 DEF MergeRemove, Trim
  <2>3. pc' = "commit" /\ trim.mutated
    BY <1>3, <1>7 DEF MergeRemove, SnapshotKept
  <2> QED
    BY <1>0, <1>2, <1>3, <2>1, <2>2, <2>3
       DEF Undoable, Numbered, TargetKept, NextKept, SnapshotKept, Holds
<1> QED
  BY <1>4, <1>5, <1>6, <1>7 DEF Merging

\* The commit of a removal, and its failure.
LEMMA EndUndoable == ASSUME Undoable, Commit \/ RemovalFails PROVE Undoable'
<1> USE DEF Undoing, RemovalSteps, UndoSteps, Mutated
<1>1. CASE Commit
  <2>1. archives' = archives /\ nextId' = nextId /\ retained' = retained /\ pc' \notin Undoing
    BY <1>1 DEF Commit, Finish, counts
  <2> QED
    BY <2>1, ShrinkUndoable
<1>2. CASE RemovalFails
  <2>1. UNCHANGED <<archives, records, state, nextId, trim, retained>> /\ pc \in RemovalSteps
        /\ pc' = "undoTarget"
    BY <1>2 DEF RemovalFails, Fault, disk, counts
  <2> QED
    BY <2>1 DEF Undoable, Numbered, TargetKept, NextKept, SnapshotKept, Holds
<1> QED
  BY <1>1, <1>2

\* Every step of the undo puts one thing back; once one of them fails, copies are retained.
LEMMA UndoUndoable ==
  ASSUME Typed, Undoable, UndoTarget \/ UndoRemoved \/ UndoClear \/ UndoCopy PROVE Undoable'
<1>0. nextId' = nextId /\ (retained => retained') /\ pc \in UndoSteps /\ trim \in Trim
  BY DEF UndoTarget, UndoRemoved, UndoClear, UndoCopy, RollbackFault, counts, env, UndoSteps,
         Typed, TypedWork, TypedCounts
<1> SUFFICES ASSUME ~retained, ~retained' PROVE Undoable'
  BY <1>0 DEF Undoable
<1> USE DEF Undoing, RemovalSteps, UndoSteps, Mutated
<1>1. Numbered /\ TargetKept /\ SnapshotKept /\ (trim.next # NoName => NextKept)
  BY <1>0 DEF Undoable
<1>2. CASE UndoTarget
  <2>1. UNCHANGED <<records, state, trim>> /\ pc = "undoTarget" /\ pc' = "undoRemoved"
    BY <1>2 DEF UndoTarget
  <2>2. CASE ~trim.replaced
    <3>1. archives' = archives
      BY <1>2, <2>2 DEF UndoTarget
    <3> QED
      BY <1>0, <1>1, <2>1, <2>2, <3>1
         DEF Undoable, Numbered, TargetKept, NextKept, SnapshotKept, Holds
  <2>3. CASE trim.replaced
    <3>1. archives' = With(Without(archives, IF Renamed THEN {trim.final} ELSE {}),
                           trim.next, trim.nextFiles)
      BY <1>2, <2>3 DEF UndoTarget, RollbackFault
    <3>2. trim.next # NoName /\ NextKept
      BY <1>1, <2>3 DEF SnapshotKept
    <3> DEFINE gone == IF Renamed THEN {trim.final} ELSE {}
    <3>3. /\ DOMAIN archives' = (DOMAIN archives \ gone) \cup {trim.next}
          /\ archives'[trim.next] = trim.nextFiles
          /\ \A n \in DOMAIN archives \ (gone \cup {trim.next}) : archives'[n] = archives[n]
      BY <3>1 DEF With, Without
    <3>4. gone \subseteq {trim.final}
      OBVIOUS
    <3>5. \A n \in DOMAIN archives \ gone : n.id = trim.next.id => n = trim.next
      BY <1>1, <3>2 DEF Numbered, NextKept, Renamed
    <3>6. \A n \in DOMAIN archives' : n.id < nextId
      BY <1>1, <3>2, <3>3 DEF Numbered, NextKept
    <3> HIDE DEF gone
    <3>7. Numbered'
      BY <1>0, <1>1, <3>3, <3>5, <3>6 DEF Numbered
    <3>8. TargetKept' /\ NextKept'
      BY <1>0, <1>1, <2>1, <3>2, <3>3, <3>4 DEF TargetKept, NextKept, Holds
    <3> QED
      BY <1>1, <2>1, <3>2, <3>7, <3>8 DEF Undoable, SnapshotKept
  <2> QED
    BY <2>2, <2>3
<1>3. CASE UndoRemoved
  <2>1. UNCHANGED <<records, state>> /\ pc = "undoRemoved" /\ pc' \in {"undoClear", "idle"}
        /\ (trim.mutated <=> pc' = "undoClear") /\ (pc' = "undoClear" => trim' = trim)
    BY <1>0, <1>3 DEF UndoRemoved, Finish, Trim
  <2>2. CASE ~trim.removed
    <3>1. archives' = archives
      BY <1>3, <2>2 DEF UndoRemoved
    <3> QED
      BY <1>0, <1>1, <2>1, <2>2, <3>1
         DEF Undoable, Numbered, TargetKept, NextKept, SnapshotKept, Holds
  <2>3. CASE trim.removed
    <3>1. archives' = With(archives, trim.target, trim.targetFiles)
      BY <1>3, <2>3 DEF UndoRemoved, RollbackFault
    <3>2. /\ DOMAIN archives' = DOMAIN archives \cup {trim.target}
          /\ archives'[trim.target] = trim.targetFiles
          /\ \A n \in DOMAIN archives \ {trim.target} : archives'[n] = archives[n]
      BY <3>1 DEF With
    <3>3. Numbered'
      BY <1>0, <1>1, <3>2 DEF Numbered, TargetKept
    <3> QED
      BY <1>0, <1>1, <2>1, <3>2, <3>3 DEF Undoable, TargetKept, NextKept, SnapshotKept, Holds
  <2> QED
    BY <2>2, <2>3
<1>4. CASE UndoClear
  <2>1. UNCHANGED <<archives, trim>> /\ pc = "undoClear" /\ pc' = "undoCopy"
    BY <1>4 DEF UndoClear, RollbackFault, disk
  <2> QED
    BY <1>0, <1>1, <2>1 DEF Undoable, Numbered, TargetKept, NextKept, SnapshotKept, Holds
<1>5. CASE UndoCopy
  <2>1. archives' = archives /\ pc' = "idle"
    BY <1>5 DEF UndoCopy, Finish
  <2> QED
    BY <1>0, <1>1, <2>1 DEF Undoable, Numbered
<1> QED
  BY <1>2, <1>3, <1>4, <1>5

\* What the user, the game, the clock and a crash do leaves nothing that cannot be undone.
LEMMA OutsideUndoable == ASSUME Undoable, User \/ Environment PROVE Undoable'
<1> USE DEF Undoing, RemovalSteps, UndoSteps
<1>1. ASSUME NEW mode \in Modes, StartBackup(mode) PROVE Undoable'
  <2>1. archives' = archives /\ nextId' = nextId /\ retained' = retained /\ pc' = "archive"
    BY <1>1 DEF StartBackup, disk, counts
  <2> QED
    BY <2>1, ShrinkUndoable
<1>2. ASSUME NEW i \in DOMAIN history,
             DeleteLocalArchive(i) \/ DeleteArchiveAndHistory(i) \/ DeleteHistoryOnly(i)
               \/ SafeDelete(i) \/ RestoreWorld(i)
      PROVE  Undoable'
  <2>1. nextId' = nextId /\ retained' = retained /\ pc' \in {"idle", "remove"}
    BY <1>2 DEF DeleteLocalArchive, DeleteArchiveAndHistory, DeleteHistoryOnly, SafeDelete,
                RestoreWorld, counts
  <2>2. DOMAIN archives' \subseteq DOMAIN archives
    BY <1>2 DEF DeleteLocalArchive, DeleteArchiveAndHistory, DeleteHistoryOnly, SafeDelete,
                RestoreWorld, disk, Without
  <2> QED
    BY <2>1, <2>2, ShrinkUndoable
<1>3. CASE Environment \/ \E i \in DOMAIN history : Mark(i)
  <2>1. CASE Crash
    <3>1. archives' = archives /\ nextId' = nextId /\ retained' = retained /\ pc' = "idle"
      BY <2>1 DEF Crash, Finish, disk
    <3> QED
      BY <3>1, ShrinkUndoable
  <2>2. CASE ~Crash
    <3>1. UNCHANGED <<archives, records, state, nextId, trim, pc, retained>>
      BY <1>3, <2>2 DEF Environment, EditFile, SetClockBack, Mark, disk, counts
    <3> QED
      BY <3>1, QuietUndoable
  <2> QED
    BY <2>1, <2>2
<1> QED
  BY <1>1, <1>2, <1>3 DEF User

\* A running removal can be undone at any moment, as long as no rollback has failed.
LEMMA UndoableStep == Typed /\ Undoable /\ [Next]_vars => Undoable'
<1> SUFFICES ASSUME Typed, Undoable, [Next]_vars PROVE Undoable'
  OBVIOUS
<1>1. CASE UNCHANGED vars
  BY <1>1, QuietUndoable DEF vars
<1>2. CASE Removal
  BY <1>2, ChoiceUndoable, StartUndoable, DirectUndoable, MergeUndoable, EndUndoable,
     UndoUndoable DEF Removal, Merging
<1> QED
  BY <1>1, <1>2, BackupUndoable, OutsideUndoable DEF Next, Worker

\* The end of an undo that reported no incomplete rollback.
UndoEnds == pc \in {"undoRemoved", "undoCopy"} /\ pc' = "idle" /\ crashes' = crashes /\ ~retained'

PutBack ==
    /\ records' = trim.records
    /\ state' = trim.state
    /\ trim.target \in DOMAIN archives' /\ archives'[trim.target] = trim.targetFiles
    /\ trim.next # NoName =>
          /\ trim.next \in DOMAIN archives' /\ archives'[trim.next] = trim.nextFiles
          /\ trim.final # trim.next => trim.final \notin DOMAIN archives'

\* The last step of an undo ends with everything put back.
LEMMA UndoEndsRight == Typed /\ Undoable /\ [Next]_vars /\ UndoEnds => PutBack
<1> SUFFICES ASSUME Typed, Undoable, [Next]_vars, UndoEnds PROVE PutBack
  OBVIOUS
<1>0. pc \in {"undoRemoved", "undoCopy"} /\ pc' = "idle" /\ ~retained /\ ~retained'
      /\ TargetKept /\ SnapshotKept /\ (trim.next # NoName => NextKept) /\ Numbered
  <2>1. pc \in {"undoRemoved", "undoCopy"} /\ pc' = "idle" /\ ~retained'
    BY DEF UndoEnds
  <2>2. ~retained
    BY <2>1, RetainedStays
  <2> QED
    BY <2>1, <2>2 DEF Undoable, Undoing, UndoSteps
<1>1. UndoRemoved \/ UndoCopy
  <2>1. ~Crash
    BY DEF UndoEnds, Crash, Typed, TypedCounts
  <2>2. ~Backup
    BY <1>0
       DEF Backup, WriteArchive, ArchiveFails, SaveRecord, SaveState, StateSnapshotFails,
           MetadataFails, AddHistory, AddHistoryFails, RestoreState, DropRecord, DropArchive,
           RollbackIncomplete
  <2>3. Removal => UndoRemoved \/ UndoCopy
    BY <1>0
       DEF Removal, EndRound, PickOldest, StartDirect, StartMerge, Keep, DirectArchive,
           DirectRecord, MergeReplace, MergeRename, MergeRecord, MergeRefs, MergeState,
           MergeRemove, Commit, RemovalFails, RemovalSteps, UndoTarget, UndoClear
  <2>4. ~User
    BY <1>0
       DEF User, StartBackup, DeleteHistoryOnly, DeleteLocalArchive, DeleteArchiveAndHistory,
           SafeDelete, Mark, RestoreWorld
  <2>5. pc' # pc
    BY <1>0
  <2> QED
    BY <2>1, <2>2, <2>3, <2>4, <2>5 DEF Next, Worker, Environment, EditFile, SetClockBack, vars
<1>2. CASE UndoRemoved
  <2>1. pc = "undoRemoved" /\ ~trim.mutated /\ UNCHANGED <<records, state>>
    BY <1>0, <1>2 DEF UndoRemoved
  <2>2. CASE ~trim.removed
    <3>1. archives' = archives
      BY <1>2, <2>2 DEF UndoRemoved
    <3> QED
      BY <1>0, <2>1, <2>2, <3>1 DEF PutBack, TargetKept, NextKept, SnapshotKept, Numbered, Holds
  <2>3. CASE trim.removed
    <3>1. archives' = With(archives, trim.target, trim.targetFiles)
      BY <1>0, <1>2, <2>3 DEF UndoRemoved, RollbackFault
    <3>2. /\ DOMAIN archives' = DOMAIN archives \cup {trim.target}
          /\ archives'[trim.target] = trim.targetFiles
          /\ \A n \in DOMAIN archives \ {trim.target} : archives'[n] = archives[n]
      BY <3>1 DEF With
    <3> QED
      BY <1>0, <2>1, <3>2 DEF PutBack, NextKept, SnapshotKept, Numbered, Holds
  <2> QED
    BY <2>2, <2>3
<1>3. CASE UndoCopy
  <2>1. records' = trim.records /\ state' = trim.state /\ archives' = archives /\ pc = "undoCopy"
    BY <1>0, <1>3 DEF UndoCopy, RollbackFault
  <2> QED
    BY <1>0, <2>1 DEF PutBack, TargetKept, NextKept, SnapshotKept, Numbered, Holds
<1> QED
  BY <1>1, <1>2, <1>3

\* A removal that fails and whose rollback is not reported incomplete has left the archives,
\* the records and state.json as they were, over any history of operations and crashes.
THEOREM FailuresAreUndone == Spec => FailureUndone
<1>1. Init => Undoable
  BY DEF Init, Undoable, Numbered, Undoing, RemovalSteps, UndoSteps
<1>2. Typed /\ Undoable /\ [Next]_vars => [UndoEnds => PutBack]_vars
  BY UndoEndsRight
<1> QED
  BY <1>1, <1>2, InitTyped, TypedStep, UndoableStep, PTL DEF Spec, FailureUndone, UndoEnds, PutBack

-----------------------------------------------------------------------------
(* Records describe archives.  As long as the process has not died and no  *)
(* rollback was reported incomplete, every record describes its archive    *)
(* but in the middle of a merge, and the snapshot of a removal describes   *)
(* what an undo brings back.                                               *)

Calm == ~retained /\ crashes = 0

\* What a record says of its archive; a Full-like one lists all its files.
Fitting(n, r, files) ==
    /\ Describes(r, files)
    /\ FullLike(n) => r.full = r.added \cup r.modified

Described(r, c, S) == \A n \in (DOMAIN c \cap DOMAIN r) \ S : Fitting(n, r[n], c[n])

\* What the running backup will record is what it asks 7-Zip for.
JobFits ==
    /\ job.files = job.added \cup job.modified
    /\ job.added \cap job.modified = {} /\ job.deleted \cap job.files = {}

\* The new archive holds those files.
ArchiveFits ==
    /\ job.name \in DOMAIN archives /\ job.name.id < nextId
    /\ \A f \in Files : archives[job.name][f] # Absent <=> f \in job.files

\* The snapshot of a removal, with the archives that an undo puts back.
SnapshotFits ==
    /\ \A n \in DOMAIN trim.records : n.id < nextId
    /\ Described(trim.records, archives, {trim.target, trim.next, trim.final})
    /\ trim.target \in DOMAIN trim.records =>
          Fitting(trim.target, trim.records[trim.target], trim.targetFiles)
    /\ trim.next # NoName =>
          /\ trim.next \in DOMAIN trim.records
          /\ Fitting(trim.next, trim.records[trim.next], trim.nextFiles)
          /\ trim.next.kind = "Smart"
          /\ trim.final = IF FullLike(trim.target) THEN [trim.next EXCEPT !.kind = "Full"]
                          ELSE trim.next

\* Between the new archive and its record, in the middle of a merge.
Half == {"mergeRename", "mergeRecord"}
Merged == IF pc = "mergeRename" THEN trim.next ELSE trim.final

HalfMerged ==
    /\ records = trim.records /\ Holds(Merged, MergedFiles)
    /\ Described(records, archives, {Merged})

Recorded ==
    Calm =>
        /\ \A n \in DOMAIN records : n.id < nextId
        /\ pc \in {"archive", "record", "state"} => JobFits
        /\ pc \in {"record", "state"} => ArchiveFits
        /\ pc \notin Half \cup UndoSteps => Described(records, archives, {})
        /\ pc \in Undoing => SnapshotFits
        /\ pc \in Half => HalfMerged

\* No step makes an unquiet run calm again, and none but a crash makes a calm run crash.
LEMMA CalmBefore == Typed /\ [Next]_vars /\ Calm' => Calm /\ ~Crash
<1> SUFFICES ASSUME Typed, [Next]_vars, Calm' PROVE Calm /\ ~Crash
  OBVIOUS
<1>1. ~retained
  BY RetainedStays DEF Calm
<1>2. crashes \in Nat
  BY BoundsAssumption DEF Typed, TypedCounts
<1>3. ~Crash
  BY <1>2 DEF Crash, Calm
<1>4. crashes' = crashes
  <2> USE DEF counts, Fault, RollbackFault, Fails
  <2>1. CASE Backup
    BY <2>1
       DEF Backup, WriteArchive, ArchiveFails, SaveRecord, SaveState, StateSnapshotFails,
           MetadataFails, AddHistory, AddHistoryFails, RestoreState, DropRecord, DropArchive,
           RollbackIncomplete
  <2>2. CASE EndRound \/ PickOldest \/ StartDirect \/ StartMerge \/ Keep \/ DirectArchive \/ DirectRecord
    BY <2>2 DEF EndRound, PickOldest, StartDirect, StartMerge, Keep, DirectArchive, DirectRecord
  <2>3. CASE Merging \/ Commit \/ RemovalFails
    BY <2>3 DEF Merging, MergeReplace, MergeRename, MergeRecord, MergeRefs, MergeState,
                MergeRemove, Commit, RemovalFails
  <2>4. CASE UndoTarget \/ UndoRemoved \/ UndoClear \/ UndoCopy
    BY <2>4 DEF UndoTarget, UndoRemoved, UndoClear, UndoCopy
  <2>5. CASE User
    BY <2>5 DEF User, StartBackup, DeleteHistoryOnly, DeleteLocalArchive,
                DeleteArchiveAndHistory, SafeDelete, Mark, RestoreWorld
  <2>6. CASE Environment \/ UNCHANGED vars
    BY <1>3, <2>6 DEF Environment, EditFile, SetClockBack, vars
  <2> QED
    BY <2>1, <2>2, <2>3, <2>4, <2>5, <2>6 DEF Next, Worker, Removal, Merging
<1> QED
  BY <1>1, <1>3, <1>4 DEF Calm

\* The record that a merge computes describes the archive that it computes.
LEMMA RepairFits ==
  ASSUME Fitting(trim.target, records[trim.target], trim.targetFiles),
         Fitting(trim.next, records[trim.next], trim.nextFiles),
         trim.final = IF FullLike(trim.target) THEN [trim.next EXCEPT !.kind = "Full"] ELSE trim.next,
         trim.next \in Names, trim.next.kind = "Smart"
  PROVE  Fitting(trim.final, RepairedRecord, MergedFiles)
<1> DEFINE D == records[trim.target]
           N == records[trim.next]
<1>1. /\ \A f \in Files : trim.targetFiles[f] # Absent <=> f \in D.added \cup D.modified
      /\ \A f \in Files : trim.nextFiles[f] # Absent <=> f \in N.added \cup N.modified
      /\ D.added \cap D.modified = {} /\ D.deleted \cap (D.added \cup D.modified) = {}
      /\ N.added \cap N.modified = {} /\ N.deleted \cap (N.added \cup N.modified) = {}
  BY DEF Fitting, Describes
<1>2. \A f \in Files :
        MergedFiles[f] # Absent
          <=> f \in N.added \cup N.modified \/ (f \in D.added \cup D.modified /\ f \notin N.deleted)
  BY <1>1, MergedFile
<1>3. CASE FullLike(trim.target)
  <2>1. trim.final.kind = "Full" /\ FullLike(trim.final)
    BY <1>3 DEF Names, FullLike
  <2>2. D.full = D.added \cup D.modified
    BY <1>3 DEF Fitting
  <2>3. /\ RepairedRecord.added = FullList(D, N) /\ RepairedRecord.full = FullList(D, N)
        /\ RepairedRecord.modified = {} /\ RepairedRecord.deleted = {}
    BY <2>1 DEF RepairedRecord
  <2> HIDE DEF D, N
  <2> QED
    BY <1>1, <1>2, <2>1, <2>2, <2>3 DEF Fitting, Describes, FullList
<1>4. CASE ~FullLike(trim.target)
  <2>1. trim.final.kind = "Smart" /\ ~FullLike(trim.final)
    BY <1>4 DEF Names, FullLike
  <2>2. /\ RepairedRecord.added = ComposedAdded(D, N)
        /\ RepairedRecord.modified = ComposedModified(D, N)
        /\ RepairedRecord.deleted = ComposedDeleted(D, N)
    BY <2>1 DEF RepairedRecord
  <2> HIDE DEF D, N
  <2> QED
    BY <1>1, <1>2, <2>1, <2>2
       DEF Fitting, Describes, ComposedAdded, ComposedModified, ComposedDeleted
<1> QED
  BY <1>3, <1>4

\* Taking archives and records away leaves described what is left.
LEMMA DescribedShrinks ==
  ASSUME NEW r, NEW c, NEW r2, NEW c2, NEW S, Described(r, c, S),
         DOMAIN r2 \subseteq DOMAIN r, \A n \in DOMAIN r2 : r2[n] = r[n],
         DOMAIN c2 \subseteq DOMAIN c, \A n \in DOMAIN c2 : c2[n] = c[n]
  PROVE  Described(r2, c2, S)
  BY DEF Described

\* A step that touches none of it leaves records and archives as they were.
LEMMA QuietRecorded ==
  ASSUME Recorded, UNCHANGED <<archives, records, nextId, trim, job, pc, retained, crashes>>
  PROVE  Recorded'
<1>1. MergedFiles' = MergedFiles /\ Merged' = Merged
  BY DEF MergedFiles, Merged
<1> QED
  BY <1>1 DEF Recorded, Calm, JobFits, ArchiveFits, SnapshotFits, HalfMerged, Holds

\* The world is scanned into a list of files and changes that fit each other.
LEMMA StartBackupFits == ASSUME NEW mode \in Modes, StartBackup(mode) PROVE JobFits'
<1> DEFINE smart == KindFor(mode) = "Smart"
<1>1. /\ job'.files = IF smart THEN Added \cup Modified ELSE Present(world)
      /\ job'.added = IF smart THEN Added ELSE Present(world)
      /\ job'.modified = IF smart THEN Modified ELSE {}
      /\ job'.deleted = IF smart THEN Deleted ELSE {}
  BY DEF StartBackup
<1>2. Added \cap Modified = {} /\ Deleted \cap (Added \cup Modified) = {}
  BY DEF Added, Modified, Deleted
<1> QED
  BY <1>1, <1>2 DEF JobFits

\* The steps of a backup keep records and archives in step.
LEMMA BackupRecorded ==
  ASSUME Typed, Typed', Calm, Recorded, Backup PROVE Recorded'
<1> USE DEF Undoing, RemovalSteps, UndoSteps, Half
<1>0. /\ \A n \in DOMAIN records : n.id < nextId
      /\ pc \in {"archive", "record", "state"} => JobFits
      /\ pc \in {"record", "state"} => ArchiveFits
      /\ pc \in BackupSteps /\ Described(records, archives, {})
  BY DEF Recorded, Backup, WriteArchive, ArchiveFails, SaveRecord, SaveState, StateSnapshotFails,
         MetadataFails, AddHistory, AddHistoryFails, RestoreState, DropRecord, DropArchive,
         RollbackIncomplete, BackupSteps
<1>1. CASE WriteArchive
  <2>1. job.name.id = nextId /\ nextId' = nextId + 1 /\ nextId \in Nat /\ pc = "archive" /\ pc' = "record"
        /\ UNCHANGED <<records, job>>
    BY <1>1 DEF WriteArchive, Typed, TypedWork, TypedWorld
  <2> DEFINE new == [f \in Files |-> IF f \in job.files THEN world[f] ELSE Absent]
  <2>2. archives' = With(archives, job.name, new) /\ job.files \subseteq Present(world)
    BY <1>1 DEF WriteArchive
  <2>3. \A f \in Files : new[f] # Absent <=> f \in job.files
    BY <2>2 DEF Present
  <2> HIDE DEF new
  <2>4. /\ DOMAIN archives' = DOMAIN archives \cup {job.name} /\ archives'[job.name] = new
        /\ \A n \in DOMAIN archives \ {job.name} : archives'[n] = archives[n]
    BY <2>2 DEF With
  <2>5. \A n \in DOMAIN records : n.id \in Nat
    BY ArchiveNames DEF Names, Ids
  <2>6. job.name \notin DOMAIN records /\ \A n \in DOMAIN records : n.id < nextId'
    BY <1>0, <2>1, <2>5
  <2>7. Described(records', archives', {})
    BY <1>0, <2>1, <2>4, <2>6 DEF Described
  <2>8. ArchiveFits' /\ JobFits'
    BY <1>0, <2>1, <2>3, <2>4 DEF ArchiveFits, JobFits
  <2> QED
    BY <2>1, <2>6, <2>7, <2>8 DEF Recorded
<1>2. CASE SaveRecord
  <2>1. records' = With(records, job.name, NewRecord) /\ pc = "record" /\ pc' = "state"
        /\ UNCHANGED <<archives, job, nextId>>
    BY <1>2 DEF SaveRecord
  <2>2. JobFits /\ ArchiveFits
    BY <1>0, <2>1
  <2>3. Fitting(job.name, NewRecord, archives[job.name])
    BY <2>2 DEF Fitting, Describes, NewRecord, JobFits, ArchiveFits, FullLike
  <2>4. /\ DOMAIN records' = DOMAIN records \cup {job.name} /\ records'[job.name] = NewRecord
        /\ \A n \in DOMAIN records \ {job.name} : records'[n] = records[n]
    BY <2>1 DEF With
  <2>5. Described(records', archives', {})
    BY <1>0, <2>1, <2>3, <2>4 DEF Described
  <2> QED
    BY <1>0, <2>1, <2>2, <2>4, <2>5 DEF Recorded, JobFits, ArchiveFits
<1>3. CASE MetadataFails \/ DropRecord \/ DropArchive
  <2>1. /\ DOMAIN records' \subseteq DOMAIN records /\ \A n \in DOMAIN records' : records'[n] = records[n]
        /\ DOMAIN archives' \subseteq DOMAIN archives
        /\ \A n \in DOMAIN archives' : archives'[n] = archives[n]
    BY <1>3 DEF MetadataFails, DropRecord, DropArchive, Without
  <2>2. pc' \in {"idle", "dropArchive"} /\ nextId' = nextId
    BY <1>3 DEF MetadataFails, DropRecord, DropArchive, Finish
  <2>3. Described(records', archives', {})
    BY <1>0, <2>1, DescribedShrinks
  <2> QED
    BY <1>0, <2>1, <2>2, <2>3 DEF Recorded
<1>4. CASE ArchiveFails \/ SaveState \/ StateSnapshotFails \/ AddHistory \/ AddHistoryFails
           \/ RestoreState \/ RollbackIncomplete
  <2>1. UNCHANGED <<archives, records, nextId>>
        /\ pc' \in {"idle", "history", "enforce", "restoreState", "dropRecord"}
    BY <1>4 DEF ArchiveFails, SaveState, StateSnapshotFails, AddHistory, AddHistoryFails,
                RestoreState, RollbackIncomplete, Finish, disk
  <2> QED
    BY <1>0, <2>1 DEF Recorded
<1> QED
  BY <1>1, <1>2, <1>3, <1>4 DEF Backup

\* Choosing an archive takes a snapshot of what the records describe.
LEMMA ChoiceRecorded ==
  ASSUME Typed, Calm, Recorded, EndRound \/ PickOldest \/ Keep \/ StartDirect \/ StartMerge
  PROVE  Recorded'
<1> USE DEF Undoing, RemovalSteps, UndoSteps, Half
<1>0. /\ \A n \in DOMAIN records : n.id < nextId
      /\ Described(records, archives, {})
      /\ trim \in Trim /\ NoName \notin Names
  BY Vocabulary DEF Recorded, EndRound, PickOldest, Keep, StartDirect, StartMerge, Typed, TypedWork
<1>1. CASE EndRound \/ PickOldest \/ Keep
  <2>1. UNCHANGED <<archives, records, nextId>> /\ pc' \in {"idle", "remove"}
    BY <1>1 DEF EndRound, PickOldest, Keep, Finish, disk
  <2> QED
    BY <1>0, <2>1 DEF Recorded
<1>2. CASE StartDirect
  <2>1. /\ trim'.target = trim.target /\ trim'.targetFiles = archives[trim.target]
        /\ trim'.next = NoName /\ trim'.records = records
    BY <1>0, <1>2 DEF StartDirect, Snapshot, Trim
  <2>2. trim.target \in DOMAIN archives /\ pc' = "directArchive"
        /\ UNCHANGED <<archives, records, nextId>>
    BY <1>2 DEF StartDirect, disk
  <2>3. SnapshotFits'
    BY <1>0, <2>1, <2>2 DEF SnapshotFits, Described
  <2> QED
    BY <1>0, <2>2, <2>3 DEF Recorded
<1>3. CASE StartMerge
  <2>1. PICK j \in NextOf :
          LET next == NameOf(trim.seen, j) IN
          /\ next.kind = "Smart"
          /\ {next, trim.target} \subseteq DOMAIN archives \cap DOMAIN records
          /\ trim' = [Snapshot EXCEPT
                       !.next = next, !.nextFiles = archives[next], !.time = written[next.id],
                       !.final = IF FullLike(trim.target)
                                 THEN [next EXCEPT !.kind = "Full"] ELSE next]
    BY <1>3 DEF StartMerge
  <2> DEFINE next == NameOf(trim.seen, j)
  <2>2. /\ trim'.target = trim.target /\ trim'.targetFiles = archives[trim.target]
        /\ trim'.next = next /\ trim'.nextFiles = archives[next]
        /\ trim'.final = IF FullLike(trim.target) THEN [next EXCEPT !.kind = "Full"] ELSE next
        /\ trim'.records = records
    BY <1>0, <2>1 DEF Snapshot, Trim
  <2>3. next.kind = "Smart" /\ {next, trim.target} \subseteq DOMAIN archives \cap DOMAIN records
    BY <2>1
  <2>4. pc' = "mergeReplace" /\ UNCHANGED <<archives, records, nextId>>
    BY <1>3 DEF StartMerge, disk
  <2> HIDE DEF next
  <2>5. SnapshotFits'
    BY <1>0, <2>2, <2>3, <2>4 DEF SnapshotFits, Described
  <2> QED
    BY <1>0, <2>4, <2>5 DEF Recorded
<1> QED
  BY <1>1, <1>2, <1>3

\* Removing an archive and its record keeps what is left described.
LEMMA DirectRecorded ==
  ASSUME Typed, Calm, Undoable, Recorded, DirectArchive \/ DirectRecord PROVE Recorded'
<1> USE DEF Undoing, RemovalSteps, UndoSteps, Half
<1>0. /\ \A n \in DOMAIN records : n.id < nextId
      /\ Described(records, archives, {}) /\ SnapshotFits
      /\ trim \in Trim /\ nextId' = nextId
  BY DEF Recorded, DirectArchive, DirectRecord, Typed, TypedWork
<1>1. CASE DirectArchive
  <2>1. /\ DOMAIN archives' \subseteq DOMAIN archives
        /\ \A n \in DOMAIN archives' : archives'[n] = archives[n]
    BY <1>1 DEF DirectArchive, Without
  <2>2. /\ trim'.target = trim.target /\ trim'.next = trim.next /\ trim'.final = trim.final
        /\ trim'.targetFiles = trim.targetFiles /\ trim'.nextFiles = trim.nextFiles
        /\ trim'.records = trim.records
    BY <1>0, <1>1 DEF DirectArchive, Trim
  <2>3. records' = records /\ pc' = "directRecord"
    BY <1>1 DEF DirectArchive
  <2>4. Described(records', archives', {}) /\ SnapshotFits'
    BY <1>0, <2>1, <2>2, <2>3 DEF SnapshotFits, Described
  <2> QED
    BY <1>0, <2>3, <2>4 DEF Recorded
<1>2. CASE DirectRecord
  <2>1. /\ DOMAIN records' \subseteq DOMAIN records /\ \A n \in DOMAIN records' : records'[n] = records[n]
        /\ archives' = archives /\ trim' = trim /\ pc' = "commit"
    BY <1>2 DEF DirectRecord, Without
  <2>2. Described(records', archives', {}) /\ SnapshotFits'
    BY <1>0, <2>1 DEF SnapshotFits, Described
  <2> QED
    BY <1>0, <2>1, <2>2 DEF Recorded
<1> QED
  BY <1>1, <1>2

\* A merge computes the archive and its record in two ways, which agree.
LEMMA MergeRecorded ==
  ASSUME Typed, Calm, Undoable, Recorded, Merging PROVE Recorded'
<1> USE DEF Undoing, RemovalSteps, UndoSteps, Half
<1>0. /\ \A n \in DOMAIN records : n.id < nextId
      /\ SnapshotFits /\ trim \in Trim /\ nextId' = nextId /\ pc \in MergeSteps
      /\ Numbered /\ TargetKept /\ SnapshotKept /\ (trim.next # NoName => NextKept)
  BY DEF Recorded, Undoable, Calm, Merging, MergeReplace, MergeRename, MergeRecord, MergeRefs,
         MergeState, MergeRemove, MergeSteps, Typed, TypedWork
<1>01. trim.next # NoName /\ trim.next \in Names /\ NextKept
  BY <1>0, Vocabulary DEF Typed, TypedWork
<1>1. CASE MergeReplace
  <2>1. pc = "mergeReplace" /\ pc' = "mergeRename" /\ records' = records
    BY <1>1 DEF MergeReplace
  <2>2. archives' = With(archives, trim.next, MergedFiles)
    BY <1>1 DEF MergeReplace
  <2>3. /\ DOMAIN archives' = DOMAIN archives \cup {trim.next} /\ archives'[trim.next] = MergedFiles
        /\ \A n \in DOMAIN archives \ {trim.next} : archives'[n] = archives[n]
    BY <2>2 DEF With
  <2>4. /\ trim'.target = trim.target /\ trim'.next = trim.next /\ trim'.final = trim.final
        /\ trim'.targetFiles = trim.targetFiles /\ trim'.nextFiles = trim.nextFiles
        /\ trim'.records = trim.records
    BY <1>0, <1>1 DEF MergeReplace, Trim
  <2>5. MergedFiles' = MergedFiles
    BY <2>1, <2>4 DEF MergedFiles
  <2>6. Described(records, archives, {}) /\ records = trim.records
    BY <1>0, <2>1 DEF Recorded, SnapshotKept
  <2>7. SnapshotFits'
    BY <1>0, <2>3, <2>4 DEF SnapshotFits, Described
  <2>8. HalfMerged'
    BY <2>1, <2>3, <2>4, <2>5, <2>6 DEF HalfMerged, Merged, Holds, Described
  <2> QED
    BY <1>0, <2>1, <2>7, <2>8 DEF Recorded
<1>2. CASE MergeRename
  <2>1. pc = "mergeRename" /\ pc' = "mergeRecord" /\ records' = records
    BY <1>2 DEF MergeRename
  <2>2. /\ trim'.target = trim.target /\ trim'.next = trim.next /\ trim'.final = trim.final
        /\ trim'.targetFiles = trim.targetFiles /\ trim'.nextFiles = trim.nextFiles
        /\ trim'.records = trim.records
    BY <1>0, <1>2 DEF MergeRename, Trim
  <2>3. MergedFiles' = MergedFiles
    BY <2>1, <2>2 DEF MergedFiles
  <2>4. records = trim.records /\ Holds(trim.next, MergedFiles) /\ Described(records, archives, {trim.next})
    BY <2>1 DEF Recorded, HalfMerged, Merged
  <2>5. /\ trim.final \in DOMAIN archives' /\ archives'[trim.final] = MergedFiles
        /\ \A n \in DOMAIN archives' \ {trim.final} :
              n \in DOMAIN archives \ {trim.next} /\ archives'[n] = archives[n]
    <3>1. CASE trim.final = trim.next
      <4>1. archives' = archives
        BY <1>2, <3>1 DEF MergeRename
      <4> QED
        BY <2>4, <3>1, <4>1 DEF Holds
    <3>2. CASE trim.final # trim.next
      <4>1. archives' = With(Without(archives, {trim.next}), trim.final, archives[trim.next])
        BY <1>2, <3>2 DEF MergeRename
      <4> QED
        BY <2>4, <4>1 DEF With, Without, Holds
    <3> QED
      BY <3>1, <3>2
  <2>6. SnapshotFits'
    BY <1>0, <2>2, <2>5 DEF SnapshotFits, Described
  <2>7. HalfMerged'
    BY <2>1, <2>2, <2>3, <2>4, <2>5 DEF HalfMerged, Merged, Holds, Described
  <2> QED
    BY <1>0, <2>1, <2>6, <2>7 DEF Recorded
<1>3. CASE MergeRecord
  <2>1. pc = "mergeRecord" /\ pc' = "mergeRefs" /\ UNCHANGED <<archives, trim>>
    BY <1>3 DEF MergeRecord
  <2>2. records' = With(Without(records, {trim.target, trim.next}), trim.final, RepairedRecord)
    BY <1>3 DEF MergeRecord
  <2>3. /\ DOMAIN records' = (DOMAIN records \ {trim.target, trim.next}) \cup {trim.final}
        /\ records'[trim.final] = RepairedRecord
        /\ \A n \in DOMAIN records \ {trim.target, trim.next, trim.final} : records'[n] = records[n]
    BY <2>2 DEF With, Without
  <2>4. records = trim.records /\ Holds(trim.final, MergedFiles) /\ Described(records, archives, {trim.final})
    BY <2>1 DEF Recorded, HalfMerged, Merged
  <2>5. Fitting(trim.final, RepairedRecord, MergedFiles)
    <3>1. trim.target \in DOMAIN records
      BY <2>1 DEF Typed, TypedWork
    <3> QED
      BY <1>0, <1>01, <2>4, <3>1, RepairFits DEF SnapshotFits
  <2>6. Described(records', archives', {})
    BY <2>1, <2>3, <2>4, <2>5 DEF Described, Holds
  <2>7. \A n \in DOMAIN records' : n.id < nextId'
    <3>1. trim.final.id = trim.next.id /\ trim.next.id < nextId
      BY <1>0, <1>01, <2>4 DEF NextKept, SnapshotFits
    <3> QED
      BY <1>0, <2>3, <3>1
  <2>8. SnapshotFits'
    BY <1>0, <2>1 DEF SnapshotFits
  <2> QED
    BY <2>1, <2>6, <2>7, <2>8 DEF Recorded
<1>4. CASE MergeRefs
  <2>1. UNCHANGED <<archives, trim>> /\ pc = "mergeRefs" /\ pc' = "mergeState" /\ DOMAIN records' = DOMAIN records
    BY <1>4 DEF MergeRefs
  <2>2. Described(records, archives, {})
    BY <2>1 DEF Recorded
  <2>3. ASSUME NEW n \in DOMAIN records
        PROVE  /\ records'[n].added = records[n].added /\ records'[n].modified = records[n].modified
               /\ records'[n].deleted = records[n].deleted /\ records'[n].full = records[n].full
    <3>1. records \in Maps(Names, Record)
      BY DEF Typed, TypedDisk
    <3>2. records[n] \in Record
      BY <3>1, MapElim
    <3>3. records'[n] = [records[n] EXCEPT !.prev = Redirected(@), !.base = Redirected(@)]
      BY <1>4 DEF MergeRefs
    <3> QED
      BY <3>2, <3>3 DEF Record
  <2>4. Described(records', archives', {})
    BY <2>1, <2>2, <2>3 DEF Described, Fitting, Describes
  <2>5. SnapshotFits'
    BY <1>0, <2>1 DEF SnapshotFits
  <2> QED
    BY <1>0, <2>1, <2>4, <2>5 DEF Recorded
<1>5. CASE MergeState
  <2>1. UNCHANGED <<archives, records, trim>> /\ pc = "mergeState" /\ pc' = "mergeRemove"
    BY <1>5 DEF MergeState
  <2>2. SnapshotFits'
    BY <1>0, <2>1 DEF SnapshotFits
  <2> QED
    BY <1>0, <2>1, <2>2 DEF Recorded
<1>6. CASE MergeRemove
  <2>1. /\ DOMAIN archives' \subseteq DOMAIN archives
        /\ \A n \in DOMAIN archives' : archives'[n] = archives[n]
    BY <1>6 DEF MergeRemove, Without
  <2>2. /\ trim'.target = trim.target /\ trim'.next = trim.next /\ trim'.final = trim.final
        /\ trim'.targetFiles = trim.targetFiles /\ trim'.nextFiles = trim.nextFiles
        /\ trim'.records = trim.records
    BY <1>0, <1>6 DEF MergeRemove, Trim
  <2>3. records' = records /\ pc = "mergeRemove" /\ pc' = "commit"
    BY <1>6 DEF MergeRemove
  <2>4. Described(records, archives, {})
    BY <2>3 DEF Recorded
  <2>5. Described(records', archives', {}) /\ SnapshotFits'
    BY <1>0, <2>1, <2>2, <2>3, <2>4 DEF SnapshotFits, Described
  <2> QED
    BY <1>0, <2>3, <2>5 DEF Recorded
<1> QED
  BY <1>1, <1>2, <1>3, <1>4, <1>5, <1>6 DEF Merging

\* The commit of a removal leaves the disk as it is; its failure turns to the snapshot.
LEMMA EndRecorded == ASSUME Calm, Recorded, Commit \/ RemovalFails PROVE Recorded'
<1> USE DEF Undoing, RemovalSteps, UndoSteps, Half
<1>1. CASE Commit
  <2>1. UNCHANGED <<archives, records, nextId>> /\ pc = "commit" /\ pc' \in {"idle", "enforce"}
    BY <1>1 DEF Commit, Finish
  <2> QED
    BY <2>1 DEF Recorded
<1>2. CASE RemovalFails
  <2>1. UNCHANGED <<archives, records, nextId, trim>> /\ pc \in RemovalSteps /\ pc' = "undoTarget"
    BY <1>2 DEF RemovalFails, disk
  <2>2. SnapshotFits'
    BY <2>1 DEF Recorded, SnapshotFits
  <2> QED
    BY <2>1, <2>2 DEF Recorded
<1> QED
  BY <1>1, <1>2

\* Once everything is put back, the snapshot's records are on disk and describe the archives.
LEMMA PutBackDescribed ==
  ASSUME SnapshotFits, PutBack, trim.next = NoName => trim.final = NoName, NoName \notin DOMAIN archives',
         \A n \in DOMAIN archives' \ {trim.target, trim.next, trim.final} :
            n \in DOMAIN archives /\ archives'[n] = archives[n]
  PROVE  Described(records', archives', {})
  BY DEF SnapshotFits, PutBack, Described

\* An undo brings back archives and records that fit.
LEMMA UndoRecorded ==
  ASSUME Typed, Typed', Calm, Calm', Undoable, Recorded, [Next]_vars,
         UndoTarget \/ UndoRemoved \/ UndoClear \/ UndoCopy
  PROVE  Recorded'
<1> USE DEF Undoing, RemovalSteps, UndoSteps, Half
<1>0. /\ \A n \in DOMAIN records : n.id < nextId
      /\ SnapshotFits /\ trim \in Trim /\ nextId' = nextId /\ pc \in UndoSteps /\ SnapshotKept
      /\ ~retained /\ ~retained' /\ crashes' = crashes
  BY DEF Recorded, Undoable, Calm, UndoTarget, UndoRemoved, UndoClear, UndoCopy, env, Typed, TypedWork
<1>1. \A n \in DOMAIN archives' \ {trim.target, trim.next, trim.final} :
         n \in DOMAIN archives /\ archives'[n] = archives[n]
  <2>1. CASE UndoTarget
    <3>1. CASE trim.replaced
      <4>1. archives' = With(Without(archives, IF Renamed THEN {trim.final} ELSE {}),
                             trim.next, trim.nextFiles)
        BY <1>0, <2>1, <3>1 DEF UndoTarget, RollbackFault
      <4> QED
        BY <4>1 DEF With, Without
    <3>2. CASE ~trim.replaced
      BY <2>1, <3>2 DEF UndoTarget
    <3> QED
      BY <3>1, <3>2
  <2>2. CASE UndoRemoved
    BY <1>0, <2>2 DEF UndoRemoved, With, RollbackFault
  <2>3. CASE UndoClear \/ UndoCopy
    BY <2>3 DEF UndoClear, UndoCopy
  <2> QED
    BY <2>1, <2>2, <2>3
<1>2. CASE pc' \in UndoSteps
  <2>1. trim' = trim
    BY <1>2 DEF UndoTarget, UndoRemoved, UndoClear, UndoCopy, Finish
  <2>2. DOMAIN records' \subseteq DOMAIN records
    <3>1. CASE UndoTarget \/ UndoRemoved
      BY <3>1 DEF UndoTarget, UndoRemoved
    <3>2. CASE UndoClear
      <4>1. records' = [n \in {} |-> 0]
        BY <1>0, <3>2 DEF UndoClear, RollbackFault
      <4> QED
        BY <4>1
    <3>3. ~UndoCopy
      BY <1>2 DEF UndoCopy, Finish
    <3> QED
      BY <3>1, <3>2, <3>3
  <2>3. SnapshotFits'
    BY <1>0, <1>1, <2>1 DEF SnapshotFits, Described
  <2> QED
    BY <1>0, <1>2, <2>2, <2>3 DEF Recorded
<1>3. CASE pc' \notin UndoSteps
  <2>1. pc' = "idle" /\ pc \in {"undoRemoved", "undoCopy"}
    BY <1>0, <1>3 DEF UndoTarget, UndoRemoved, UndoClear, UndoCopy, Finish, RollbackFault
  <2>2. PutBack
    BY <1>0, <2>1, UndoEndsRight DEF UndoEnds
  <2>3. NoName \notin DOMAIN archives'
    <3>1. archives' \in Maps(Names, Contents)
      BY DEF Typed, TypedDisk
    <3> QED
      BY <3>1, MapElim, Vocabulary
  <2>4. Described(records', archives', {})
    BY <1>0, <1>1, <2>2, <2>3, PutBackDescribed DEF SnapshotKept
  <2>5. \A n \in DOMAIN records' : n.id < nextId'
    BY <1>0, <2>2 DEF PutBack, SnapshotFits
  <2> QED
    BY <2>1, <2>4, <2>5 DEF Recorded
<1> QED
  BY <1>2, <1>3

\* The user's deletions take an archive and its record together.
LEMMA OutsideRecorded ==
  ASSUME Typed, Calm, Recorded, User \/ Environment, ~Crash PROVE Recorded'
<1> USE DEF Undoing, RemovalSteps, UndoSteps, Half
<1>1. ASSUME NEW mode \in Modes, StartBackup(mode) PROVE Recorded'
  <2>1. UNCHANGED <<archives, records, nextId>> /\ pc = "idle" /\ pc' = "archive"
    BY <1>1 DEF StartBackup, disk
  <2>2. JobFits'
    BY <1>1, StartBackupFits
  <2> QED
    BY <2>1, <2>2 DEF Recorded
<1>2. ASSUME NEW i \in DOMAIN history,
             DeleteLocalArchive(i) \/ DeleteArchiveAndHistory(i) \/ DeleteHistoryOnly(i)
               \/ SafeDelete(i) \/ RestoreWorld(i)
      PROVE  Recorded'
  <2>1. nextId' = nextId /\ pc = "idle" /\ pc' \in {"idle", "remove"}
    BY <1>2 DEF DeleteLocalArchive, DeleteArchiveAndHistory, DeleteHistoryOnly, SafeDelete, RestoreWorld
  <2>2. /\ DOMAIN records' \subseteq DOMAIN records /\ \A n \in DOMAIN records' : records'[n] = records[n]
        /\ DOMAIN archives' \subseteq DOMAIN archives
        /\ \A n \in DOMAIN archives' : archives'[n] = archives[n]
    BY <1>2 DEF DeleteLocalArchive, DeleteArchiveAndHistory, DeleteHistoryOnly, SafeDelete,
                RestoreWorld, Invalidate, disk, Without
  <2>3. Described(records, archives, {}) /\ \A n \in DOMAIN records : n.id < nextId
    BY <2>1 DEF Recorded
  <2>4. Described(records', archives', {})
    BY <2>2, <2>3, DescribedShrinks
  <2> QED
    BY <2>1, <2>2, <2>3, <2>4 DEF Recorded
<1>3. CASE Environment \/ \E i \in DOMAIN history : Mark(i)
  <2>1. UNCHANGED <<archives, records, nextId, trim, job, pc, retained, crashes>>
    BY <1>3 DEF Environment, EditFile, SetClockBack, Mark, disk, counts
  <2> QED
    BY <2>1, QuietRecorded
<1> QED
  BY <1>1, <1>2, <1>3 DEF User

\* Every step keeps records and archives in step.
LEMMA RecordedStep == Typed /\ Typed' /\ Undoable /\ Recorded /\ [Next]_vars => Recorded'
<1> SUFFICES ASSUME Typed, Typed', Undoable, Recorded, [Next]_vars, Calm' PROVE Recorded'
  BY DEF Recorded
<1>0. Calm /\ ~Crash
  BY CalmBefore
<1>1. CASE UNCHANGED vars
  BY <1>1, QuietRecorded DEF vars
<1>2. CASE Removal
  BY <1>0, <1>2, ChoiceRecorded, DirectRecorded, MergeRecorded, EndRecorded, UndoRecorded
     DEF Removal, Merging
<1> QED
  BY <1>0, <1>1, <1>2, BackupRecorded, OutsideRecorded DEF Next, Worker

\* As long as the process has not died and no rollback was reported incomplete, every record
\* names the files its archive holds: after any backups, merges, failures, undone removals
\* and deletions by the user, for any files, modes, limits and clock.
THEOREM RecordsAreTrue == Spec => [](crashes = 0 => RecordsDescribeArchives)
<1>1. Init => Undoable /\ Recorded
  BY DEF Init, Undoable, Numbered, Recorded, Described, Undoing, RemovalSteps, UndoSteps, Half
<1>2. Recorded => (crashes = 0 => RecordsDescribeArchives)
  BY DEF Recorded, Calm, Described, Fitting, RecordsDescribeArchives, Half, UndoSteps
<1> QED
  BY <1>1, <1>2, InitTyped, TypedStep, UndoableStep, RecordedStep, PTL DEF Spec

-----------------------------------------------------------------------------
(* state.json describes the last archive.  With a clock that is not set    *)
(* back the history is in the order of the backups, so a merge joins an    *)
(* archive with the next one made after it.                                *)

Steady == Calm /\ setbacks = 0

\* The history is in the order of its numbers, all of them in the past.
InOrder ==
    /\ \A i, j \in DOMAIN history : i < j => history[i].time < history[j].time
    /\ \A i \in DOMAIN history : history[i].time < clock /\ i < nextId

\* The last backup of a state is the newest of the history.
Newest(s) ==
    /\ s.last \in Names /\ s.last.id < nextId
    /\ \A i \in DOMAIN history : i <= s.last.id
    /\ s.last.id \in DOMAIN history => Listed(s.last)

\* The state describes it.
LastFits(s, r) ==
    /\ Listed(s.last)
    /\ s.last \in DOMAIN r
    /\ s.files = scanned[s.last.id]
    /\ s.base = r[s.last].base

\* The base of a state is the newest Full-like archive of the history.
BaseFits(s, names) ==
    /\ s.base \in names /\ Listed(s.base) /\ FullLike(s.base)
    /\ s.base.id <= s.last.id
    /\ \A i \in DOMAIN history : FullLike(NameOf(history, i)) => i <= s.base.id

Fits(s, r, names) ==
    s # NoState =>
        /\ Newest(s)
        /\ s.last \in names => LastFits(s, r) /\ BaseFits(s, names)

\* What a running backup has chosen and written.
BaseChosen ==
    \/ job.base = job.name /\ FullLike(job.name)
    \/ /\ job.name.kind = "Smart" /\ job.old # NoState
       /\ job.base = job.old.base /\ job.old.last \in DOMAIN archives

JobInStep ==
    /\ Fits(job.old, records, DOMAIN archives)
    /\ job.old # NoState => job.old.last.id < job.name.id
    /\ \A i \in DOMAIN history : i < job.name.id
    /\ pc \notin {"history", "restoreState"} => state = job.old
    /\ pc \in {"archive", "record", "state", "history"} => BaseChosen
    /\ pc \in {"record", "state", "history"} =>
          scanned[job.name.id] = job.scan /\ job.name.id < nextId /\ job.name \in DOMAIN archives
    /\ pc \in {"state", "history"} => job.name \in DOMAIN records /\ records[job.name].base = job.base
    /\ pc = "history" => state = NewState

\* What a removal read of the history still holds, but for the marks.
SameEntries ==
    /\ DOMAIN trim.seen = DOMAIN history
    /\ \A i \in DOMAIN history :
          trim.seen[i].kind = history[i].kind /\ trim.seen[i].time = history[i].time

\* The archives there were when the removal began.
Around(names) == (names \ {trim.final}) \cup {trim.target} \cup ({trim.next} \ {NoName})

\* A removal without a merge does not take the base of a later archive.
DirectInStep ==
    /\ trim.state # NoState /\ trim.state.last \in Around(DOMAIN archives) \ {trim.target} =>
          trim.state.base # trim.target
    /\ pc \in {"directArchive", "directRecord"} => records = trim.records
    /\ pc = "commit" => records = Without(trim.records, {trim.target})
    /\ pc \in {"directArchive", "directRecord", "commit"} => state = trim.state
    /\ pc \in {"directRecord", "commit"} => trim.target \notin DOMAIN archives

\* A merge joins an archive and the Smart one made next.
Adjacent ==
    /\ trim.next.kind = "Smart" /\ Listed(trim.next)
    /\ trim.target.id < trim.next.id
    /\ \A k \in DOMAIN history : ~(trim.target.id < k /\ k < trim.next.id)
    /\ trim.final = IF FullLike(trim.target) THEN [trim.next EXCEPT !.kind = "Full"] ELSE trim.next

\* The record of the last archive, under the name it has after the merge.
LastMoved(r) ==
    trim.state # NoState /\ trim.state.last \in Around(DOMAIN archives) =>
        /\ Redirected(trim.state.last) \in DOMAIN r
        /\ r[Redirected(trim.state.last)].base = Redirected(trim.state.base)

MergeInStep ==
    /\ pc \in {"mergeReplace", "mergeRename", "mergeRecord"} => records = trim.records
    /\ pc \in {"mergeReplace", "mergeRename", "mergeRecord", "mergeRefs", "mergeState"} =>
          state = trim.state
    /\ pc = "mergeRefs" =>
          (trim.state # NoState /\ trim.state.last \in Around(DOMAIN archives) =>
              /\ Redirected(trim.state.last) \in DOMAIN records
              /\ Redirected(records[Redirected(trim.state.last)].base) = Redirected(trim.state.base))
    /\ pc \in {"mergeState", "mergeRemove", "commit"} => LastMoved(records)
    /\ pc \in {"mergeRemove", "commit"} =>
          state = [trim.state EXCEPT !.last = Redirected(@), !.base = Redirected(@)]
    /\ pc \in {"mergeRecord", "mergeRefs", "mergeState", "mergeRemove", "commit"} =>
          trim.final \in DOMAIN archives

RemovalInStep ==
    /\ Fits(trim.state, trim.records, Around(DOMAIN archives))
    /\ trim.next = NoName => DirectInStep
    /\ trim.next # NoName => Adjacent /\ MergeInStep
    /\ pc \in {"directArchive", "directRecord"} => trim.next = NoName

StateSound ==
    Steady =>
        /\ InOrder
        /\ pc \in {"idle", "enforce", "remove"} => Fits(state, records, DOMAIN archives)
        /\ pc \in BackupSteps => JobInStep
        /\ pc \in Undoing \cup {"enforce", "remove"} => SameEntries
        /\ pc \in Undoing \cup {"remove"} => Listed(trim.target)
        /\ pc \in Undoing => RemovalInStep

\* Every set of numbers has a least one.
LEMMA LeastNumber ==
  ASSUME NEW S \in SUBSET Nat, S # {}
  PROVE  \E m \in S : \A k \in S : m <= k
<1>1. \E m \in S : \A k \in S : <<k, m>> \notin OpToRel(<, Nat)
  BY WFMin, NatLessThanWellFounded
<1>2. \A k, m \in Nat : <<k, m>> \notin OpToRel(<, Nat) => m <= k
  BY DEF OpToRel
<1> QED
  BY <1>1, <1>2

\* A name is its number and its kind.
LEMMA NameDetermined ==
  ASSUME NEW m \in Names, NEW n \in Names, m.id = n.id, m.kind = n.kind PROVE m = n
  BY DEF Names

\* Numbers are numbers.
LEMMA Numbers ==
  ASSUME Typed
  PROVE  /\ DOMAIN history \subseteq Nat /\ nextId \in Nat /\ clock \in Nat
         /\ DOMAIN archives \subseteq Names /\ DOMAIN records \subseteq Names
         /\ \A n \in Names : n.id \in Nat /\ n.kind \in Kinds
         /\ \A i \in DOMAIN history : history[i] \in Entry
<1>1. history \in Maps(Ids, Entry)
  BY DEF Typed, TypedDisk
<1>2. DOMAIN history \subseteq Ids /\ \A i \in DOMAIN history : history[i] \in Entry
  BY <1>1, MapElim
<1> QED
  BY <1>2, ArchiveNames DEF Typed, TypedWorld, Names, Ids

\* No step makes an unsteady run steady again.
LEMMA SteadyBefore == Typed /\ [Next]_vars /\ Steady' => Steady /\ ~Crash /\ ~SetClockBack
<1> SUFFICES ASSUME Typed, [Next]_vars, Steady' PROVE Steady /\ ~Crash /\ ~SetClockBack
  OBVIOUS
<1>1. Calm /\ ~Crash
  BY CalmBefore DEF Steady
<1>2. setbacks \in Nat
  BY BoundsAssumption DEF Typed, TypedWorld
<1>3. ~SetClockBack
  BY <1>2 DEF SetClockBack, Steady
<1>4. setbacks' = setbacks
  <2> USE DEF env, game
  <2>1. CASE Backup
    BY <2>1
       DEF Backup, WriteArchive, ArchiveFails, SaveRecord, SaveState, StateSnapshotFails,
           MetadataFails, AddHistory, AddHistoryFails, RestoreState, DropRecord, DropArchive,
           RollbackIncomplete
  <2>2. CASE EndRound \/ PickOldest \/ StartDirect \/ StartMerge \/ Keep \/ DirectArchive \/ DirectRecord
    BY <2>2 DEF EndRound, PickOldest, StartDirect, StartMerge, Keep, DirectArchive, DirectRecord
  <2>3. CASE Merging \/ Commit \/ RemovalFails
    BY <2>3 DEF Merging, MergeReplace, MergeRename, MergeRecord, MergeRefs, MergeState,
                MergeRemove, Commit, RemovalFails
  <2>4. CASE UndoTarget \/ UndoRemoved \/ UndoClear \/ UndoCopy
    BY <2>4 DEF UndoTarget, UndoRemoved, UndoClear, UndoCopy
  <2>5. CASE User
    BY <2>5 DEF User, StartBackup, DeleteHistoryOnly, DeleteLocalArchive,
                DeleteArchiveAndHistory, SafeDelete, Mark, RestoreWorld
  <2>6. CASE Environment \/ UNCHANGED vars
    BY <1>1, <1>3, <2>6 DEF Environment, EditFile, vars
  <2> QED
    BY <2>1, <2>2, <2>3, <2>4, <2>5, <2>6 DEF Next, Worker, Removal, Merging
<1> QED
  BY <1>1, <1>3, <1>4 DEF Steady

\* A Smart backup starts from the base of the state it found.
LEMMA StartBackupSound ==
  ASSUME Typed, Steady, StateSound, NEW mode \in Modes, StartBackup(mode) PROVE StateSound'
<1> USE DEF Undoing, RemovalSteps, UndoSteps, BackupSteps
<1>1. UNCHANGED <<archives, records, state, history, nextId, clock, scanned>> /\ pc = "idle" /\ pc' = "archive"
  BY DEF StartBackup, disk, env, game, ghosts
<1>2. InOrder /\ Fits(state, records, DOMAIN archives)
  BY <1>1 DEF StateSound
<1> DEFINE kind == KindFor(mode)
           name == [id |-> nextId, kind |-> kind]
<1>3. /\ job'.name = name /\ job'.old = state
      /\ job'.base = IF kind # "Smart" THEN name ELSE IF state.base = NoName THEN state.last ELSE state.base
  BY DEF StartBackup
<1>4. kind \in Kinds
  BY ModesAssumption DEF KindFor, Kinds
<1>5. kind = "Smart" => ChainUsable
  BY ModesAssumption DEF KindFor, ForceFull
<1> HIDE DEF kind
<1>6. BaseChosen'
  <2>1. CASE kind # "Smart"
    BY <1>3, <1>4, <2>1 DEF BaseChosen, FullLike, Kinds
  <2>2. CASE kind = "Smart"
    <3>1. state # NoState /\ state.last \in DOMAIN archives
      BY <1>5, <2>2 DEF ChainUsable, HasState, BasePresent
    <3>2. state.base # NoName
      BY <1>2, <3>1 DEF Fits, BaseFits, FullLike, NoName
    <3> QED
      BY <1>1, <1>3, <2>2, <3>1, <3>2 DEF BaseChosen
  <2> QED
    BY <2>1, <2>2
<1>7. Fits(job.old, records, DOMAIN archives)'
  BY <1>1, <1>2, <1>3 DEF Fits, Newest, LastFits, BaseFits, Listed
<1>8. job'.old # NoState => job'.old.last.id < job'.name.id
  BY <1>2, <1>3 DEF Fits, Newest
<1>9. InOrder' /\ \A i \in DOMAIN history' : i < job'.name.id
  BY <1>1, <1>2, <1>3 DEF InOrder
<1>10. JobInStep'
  BY <1>1, <1>3, <1>6, <1>7, <1>8, <1>9 DEF JobInStep
<1> QED
  BY <1>1, <1>9, <1>10 DEF StateSound

\* The steps of a backup keep the state it found, until the new one is committed.
LEMMA BackupSound ==
  ASSUME Typed, Typed', Steady, Steady', StateSound, Backup PROVE StateSound'
<1> USE DEF Undoing, RemovalSteps, UndoSteps, BackupSteps
<1>0. /\ InOrder /\ JobInStep /\ pc \in BackupSteps /\ job.name \in Names
      /\ job.name.id \in Nat /\ nextId \in Nat /\ clock \in Nat /\ DOMAIN history \subseteq Nat
      /\ \A n \in Names : n.id \in Nat
  <2>1. pc \in BackupSteps
    BY DEF Backup, WriteArchive, ArchiveFails, SaveRecord, SaveState, StateSnapshotFails,
           MetadataFails, AddHistory, AddHistoryFails, RestoreState, DropRecord, DropArchive,
           RollbackIncomplete
  <2>2. job.name \in Names
    BY <2>1 DEF Typed, TypedWork
  <2> QED
    BY <2>1, <2>2, Numbers DEF StateSound
<1>01. /\ Fits(job.old, records, DOMAIN archives)
       /\ job.old # NoState => job.old.last.id < job.name.id
       /\ \A i \in DOMAIN history : i < job.name.id
  BY <1>0 DEF JobInStep
<1>1. CASE WriteArchive
  <2>1. /\ job.name.id = nextId /\ nextId' = nextId + 1 /\ pc = "archive" /\ pc' = "record"
        /\ UNCHANGED <<records, state, history, clock, job>>
    BY <1>1 DEF WriteArchive, Typed, TypedWork, env, game
  <2>2. DOMAIN archives' = DOMAIN archives \cup {job.name}
    BY <1>1, WithDomain DEF WriteArchive
  <2>3. /\ scanned'[job.name.id] = job.scan
        /\ \A n \in Names : n.id # job.name.id => scanned'[n.id] = scanned[n.id]
    BY <1>0, <1>1 DEF WriteArchive, Typed, TypedWorld, Names
  <2>4. Fits(job.old, records, DOMAIN archives)'
    <3> SUFFICES ASSUME job.old # NoState PROVE Fits(job.old, records, DOMAIN archives)'
      BY <2>1 DEF Fits
    <3>1. Newest(job.old) /\ job.old.last.id < job.name.id /\ job.old.last # job.name
      BY <1>0, <1>01 DEF Fits, Newest
    <3>2. job.old.last.id \in Nat /\ scanned'[job.old.last.id] = scanned[job.old.last.id]
      BY <1>0, <2>3, <3>1 DEF Newest
    <3>3. Newest(job.old)'
      BY <1>0, <2>1, <3>1, <3>2 DEF Newest, Listed
    <3> QED
      BY <1>01, <2>1, <2>2, <3>1, <3>2, <3>3 DEF Fits, LastFits, BaseFits, Listed
  <2>5. BaseChosen'
    BY <1>0, <2>1, <2>2 DEF JobInStep, BaseChosen
  <2>6. InOrder'
    BY <1>0, <2>1 DEF InOrder
  <2>7. JobInStep'
    BY <1>0, <1>01, <2>1, <2>2, <2>3, <2>4, <2>5 DEF JobInStep
  <2> QED
    BY <2>1, <2>6, <2>7 DEF StateSound
<1>2. CASE SaveRecord
  <2>1. /\ pc = "record" /\ pc' = "state"
        /\ UNCHANGED <<archives, state, history, clock, job, nextId, scanned>>
    BY <1>2 DEF SaveRecord, env, game, ghosts
  <2>2. /\ DOMAIN records' = DOMAIN records \cup {job.name}
        /\ records'[job.name].base = job.base
        /\ \A n \in DOMAIN records \ {job.name} : records'[n] = records[n]
    BY <1>2 DEF SaveRecord, With, NewRecord
  <2>3. Fits(job.old, records, DOMAIN archives)'
    BY <1>0, <1>01, <2>1, <2>2 DEF Fits, Newest, LastFits, BaseFits, Listed
  <2>4. InOrder' /\ BaseChosen'
    BY <1>0, <2>1 DEF InOrder, JobInStep, BaseChosen
  <2>5. JobInStep'
    BY <1>0, <1>01, <2>1, <2>2, <2>3, <2>4 DEF JobInStep
  <2> QED
    BY <2>1, <2>4, <2>5 DEF StateSound
<1>3. CASE SaveState \/ AddHistoryFails \/ RestoreState
  <2>1. /\ UNCHANGED <<archives, records, history, clock, job, nextId, scanned>>
        /\ \/ pc = "state" /\ pc' = "history" /\ state' = NewState
           \/ pc = "history" /\ pc' = "restoreState"
           \/ pc = "restoreState" /\ pc' = "dropRecord" /\ state' = job.old
    BY <1>3 DEF SaveState, AddHistoryFails, RestoreState, disk, env, game, ghosts
  <2>2. Fits(job.old, records, DOMAIN archives)' /\ InOrder'
    BY <1>0, <1>01, <2>1 DEF Fits, Newest, LastFits, BaseFits, Listed, InOrder
  <2>3. BaseChosen => BaseChosen'
    BY <2>1 DEF BaseChosen
  <2>4. NewState' = NewState
    BY <2>1 DEF NewState
  <2>5. JobInStep'
    BY <1>0, <1>01, <2>1, <2>2, <2>3, <2>4 DEF JobInStep
  <2> QED
    BY <2>1, <2>2, <2>5 DEF StateSound
<1>4. CASE ArchiveFails \/ StateSnapshotFails \/ MetadataFails \/ DropArchive
  <2>1. /\ UNCHANGED <<state, history, clock, nextId, scanned>>
        /\ pc \in {"archive", "record", "state", "dropArchive"} /\ pc' = "idle"
    BY <1>4 DEF ArchiveFails, StateSnapshotFails, MetadataFails, DropArchive, Finish, disk, env, game, ghosts
  <2>2. /\ DOMAIN archives \ {job.name} \subseteq DOMAIN archives' /\ DOMAIN archives' \subseteq DOMAIN archives
        /\ DOMAIN records \ {job.name} \subseteq DOMAIN records'
        /\ \A n \in DOMAIN records \ {job.name} : records'[n] = records[n]
    BY <1>4 DEF ArchiveFails, StateSnapshotFails, MetadataFails, DropArchive, Without, disk
  <2>3. state = job.old
    BY <1>0, <2>1 DEF JobInStep
  <2>4. Fits(state, records, DOMAIN archives)'
    BY <1>0, <1>01, <2>1, <2>2, <2>3 DEF Fits, Newest, LastFits, BaseFits, Listed
  <2>5. InOrder'
    BY <1>0, <2>1 DEF InOrder
  <2> QED
    BY <2>1, <2>4, <2>5 DEF StateSound
<1>5. CASE DropRecord
  <2>1. /\ pc = "dropRecord" /\ pc' = "dropArchive"
        /\ UNCHANGED <<archives, state, history, clock, job, nextId, scanned>>
    BY <1>5 DEF DropRecord, env, game, ghosts
  <2>2. /\ DOMAIN records' = DOMAIN records \ {job.name}
        /\ \A n \in DOMAIN records \ {job.name} : records'[n] = records[n]
    BY <1>5 DEF DropRecord, Without
  <2>3. Fits(job.old, records, DOMAIN archives)' /\ InOrder'
    BY <1>0, <1>01, <2>1, <2>2 DEF Fits, Newest, LastFits, BaseFits, Listed, InOrder
  <2>4. JobInStep'
    BY <1>0, <1>01, <2>1, <2>2, <2>3 DEF JobInStep
  <2> QED
    BY <2>1, <2>3, <2>4 DEF StateSound
<1>6. CASE AddHistory
  <2>1. /\ pc = "history" /\ pc' = "enforce" /\ clock' = clock + 1 /\ trim'.seen = history'
        /\ UNCHANGED <<archives, records, state, nextId, scanned>>
    BY <1>6 DEF AddHistory, NoTrim, ghosts
  <2>2. /\ DOMAIN history' = DOMAIN history \cup {job.name.id}
        /\ history'[job.name.id] = [kind |-> job.name.kind, important |-> FALSE, time |-> clock]
        /\ \A i \in DOMAIN history \ {job.name.id} : history'[i] = history[i]
    BY <1>6 DEF AddHistory, With
  <2>3. InOrder'
    <3>1. history'[job.name.id].time = clock /\ job.name.id < nextId
      BY <1>0, <2>1, <2>2 DEF JobInStep
    <3>2. \A i \in DOMAIN history : history'[i].time = history[i].time /\ history[i].time < clock
      BY <1>0, <1>01, <2>2 DEF InOrder
    <3>3. \A i \in DOMAIN history : history[i].time \in Nat
      BY Numbers DEF Entry
    <3> QED
      BY <1>0, <1>01, <2>1, <2>2, <3>1, <3>2, <3>3 DEF InOrder
  <2>4. /\ state.last = job.name /\ state.base = job.base /\ state.files = job.scan
        /\ scanned[job.name.id] = job.scan /\ job.name.id < nextId /\ job.name \in DOMAIN archives
        /\ job.name \in DOMAIN records /\ records[job.name].base = job.base /\ BaseChosen
    BY <1>0, <2>1 DEF JobInStep, NewState
  <2>5. Newest(state)' /\ LastFits(state, records)'
    BY <1>0, <1>01, <2>1, <2>2, <2>4 DEF Newest, LastFits, Listed
  <2>6. BaseFits(state, DOMAIN archives)'
    <3>1. CASE job.base = job.name /\ FullLike(job.name)
      BY <1>0, <1>01, <2>1, <2>2, <2>4, <3>1 DEF BaseFits, Listed
    <3>2. CASE job.name.kind = "Smart" /\ job.old # NoState /\ job.base = job.old.base
                 /\ job.old.last \in DOMAIN archives
      <4>1. Newest(job.old) /\ BaseFits(job.old, DOMAIN archives)
        BY <1>01, <3>2 DEF Fits
      <4>2. job.base.id < job.name.id /\ job.base.id \in DOMAIN history
        BY <1>0, <1>01, <3>2, <4>1 DEF Newest, BaseFits, Listed
      <4>3. \A i \in DOMAIN history' : FullLike(NameOf(history', i)) => i \in DOMAIN history /\ FullLike(NameOf(history, i))
        BY <2>2, <3>2 DEF FullLike, NameOf
      <4> QED
        BY <1>0, <2>1, <2>2, <2>4, <3>2, <4>1, <4>2, <4>3 DEF BaseFits, Listed
    <3> QED
      BY <2>4, <3>1, <3>2 DEF BaseChosen
  <2>7. SameEntries'
    BY <2>1 DEF SameEntries
  <2> QED
    BY <2>1, <2>3, <2>5, <2>6, <2>7 DEF StateSound, Fits
<1>7. ~RollbackIncomplete
  BY DEF RollbackIncomplete, RollbackFault, Steady, Calm
<1> QED
  BY <1>1, <1>2, <1>3, <1>4, <1>5, <1>6, <1>7 DEF Backup

\* What state.json must keep depends on nothing but these.
LEMMA QuietFits ==
  ASSUME Typed, UNCHANGED <<archives, records, state, history, nextId, scanned, clock>>
  PROVE  /\ InOrder => InOrder'
         /\ Fits(state, records, DOMAIN archives) => Fits(state, records, DOMAIN archives)'
  BY DEF Fits, Newest, LastFits, BaseFits, Listed, InOrder

\* The order of the history window is that of the numbers.
LEMMA SeenOrder ==
  ASSUME Typed, InOrder, SameEntries
  PROVE  \A i, j \in DOMAIN history : Before(trim.seen, i, j) <=> i < j
<1>1. \A i \in DOMAIN history : trim.seen[i].time = history[i].time /\ history[i].time \in Nat /\ i \in Nat
  BY Numbers DEF SameEntries, Entry
<1>2. \A i, j \in DOMAIN history : i < j => history[i].time < history[j].time
  BY DEF InOrder
<1>3. \A i, j \in DOMAIN history : i < j \/ i = j \/ j < i
  BY <1>1
<1> QED
  BY <1>1, <1>2, <1>3 DEF Before

\* The next entry of a removal is the one with the next number.
LEMMA NextInOrder ==
  ASSUME Typed, InOrder, SameEntries, Listed(trim.target), NEW j \in DOMAIN history
  PROVE  j \in NextOf <=>
            /\ trim.target.id < j
            /\ \A k \in DOMAIN history : ~(trim.target.id < k /\ k < j)
<1>1. /\ trim.target.id \in DOMAIN history /\ DOMAIN trim.seen = DOMAIN history
      /\ DOMAIN history \subseteq Nat
  BY Numbers DEF Listed, SameEntries
<1>2. After(trim.seen, trim.target.id) = {k \in DOMAIN history : trim.target.id < k}
  BY <1>1, SeenOrder DEF After
<1>3. j \in NextOf <=>
        /\ trim.target.id < j
        /\ \A k \in DOMAIN history : trim.target.id < k => k = j \/ j < k
  BY <1>1, <1>2, SeenOrder DEF NextOf, Successor
<1> QED
  BY <1>1, <1>3

\* A base that later archives need is followed by a Smart archive.
LEMMA BaseHasSuccessor ==
  ASSUME Typed, InOrder, SameEntries, Listed(trim.target), trim.target \in Names,
         \A j \in NextOf : FullLike(NameOf(trim.seen, j)),
         state # NoState, Fits(state, records, DOMAIN archives),
         state.last \in DOMAIN archives, state.last # trim.target
  PROVE  state.base # trim.target
<1> SUFFICES ASSUME state.base = trim.target PROVE FALSE
  OBVIOUS
<1>1. /\ Newest(state) /\ Listed(state.last) /\ trim.target.id <= state.last.id
      /\ \A i \in DOMAIN history : FullLike(NameOf(history, i)) => i <= trim.target.id
  BY DEF Fits, LastFits, BaseFits
<1>2. DOMAIN history \subseteq Nat /\ state.last \in Names /\ state.last.id \in DOMAIN history
  BY <1>1, Numbers DEF Newest, Listed
<1>3. state.last.id # trim.target.id
  BY <1>1, <1>2, NameDetermined DEF Listed
<1>4. state.last.id > trim.target.id
  BY <1>1, <1>2, <1>3, Numbers
<1> DEFINE later == {k \in DOMAIN history : trim.target.id < k}
<1>5. PICK m \in later : \A k \in later : m <= k
  BY <1>2, <1>4, LeastNumber
<1>6. m \in NextOf
  <2>1. \A k \in DOMAIN history : ~(trim.target.id < k /\ k < m)
    BY <1>2, <1>5
  <2> QED
    BY <1>5, <2>1, NextInOrder
<1>7. FullLike(NameOf(history, m))
  BY <1>5, <1>6 DEF SameEntries, NameOf, FullLike
<1> QED
  BY <1>1, <1>2, <1>5, <1>7, Numbers

\* Choosing an archive: a direct removal spares a base in use, a merge joins neighbours.
LEMMA ChoiceSound ==
  ASSUME Typed, Steady, Undoable, StateSound,
         EndRound \/ PickOldest \/ Keep \/ StartDirect \/ StartMerge
  PROVE  StateSound'
<1> USE DEF Undoing, RemovalSteps, UndoSteps, BackupSteps
<1>0. UNCHANGED <<archives, records, state, history, nextId, scanned, clock>> /\ pc \in {"enforce", "remove"}
  BY DEF EndRound, PickOldest, Keep, StartDirect, StartMerge, disk, env, game, ghosts
<1>01. /\ InOrder /\ Fits(state, records, DOMAIN archives) /\ SameEntries /\ trim \in Trim
       /\ pc = "remove" => Listed(trim.target) /\ trim.target \in Names
  BY <1>0 DEF StateSound, Typed, TypedWork
<1>02. InOrder' /\ Fits(state, records, DOMAIN archives)'
  BY <1>0, <1>01, QuietFits
<1>03. DOMAIN archives \subseteq Names /\ NoName \notin Names
  BY ArchiveNames, Vocabulary
<1>1. CASE EndRound \/ Keep
  <2>1. pc' = "idle"
    BY <1>1 DEF EndRound, Keep, Finish
  <2> QED
    BY <1>02, <2>1 DEF StateSound
<1>2. CASE PickOldest
  <2>1. PICK n \in Oldest(Candidates) :
          trim' = [trim EXCEPT !.target = n,
                     !.blocked = @ \cup {m \in Counted \ Candidates : Older(m, n)}]
    BY <1>2 DEF PickOldest
  <2>2. trim'.seen = trim.seen /\ trim'.target = n /\ pc' = "remove"
    BY <1>01, <1>2, <2>1 DEF Trim, PickOldest
  <2>3. Listed(n)
    BY <1>01, <2>1 DEF Oldest, Candidates, Removable, SameEntries, Listed
  <2>4. Listed(trim.target)' /\ SameEntries'
    BY <1>0, <1>01, <2>2, <2>3 DEF Listed, SameEntries
  <2> QED
    BY <1>02, <2>2, <2>4 DEF StateSound
<1>3. CASE StartDirect
  <2>1. /\ trim'.target = trim.target /\ trim'.next = NoName /\ trim'.final = NoName
        /\ trim'.records = records /\ trim'.state = state /\ trim'.seen = trim.seen
        /\ pc = "remove" /\ pc' = "directArchive" /\ trim.target \in DOMAIN archives
    BY <1>01, <1>3 DEF StartDirect, Snapshot, Trim
  <2>2. Around(DOMAIN archives)' = DOMAIN archives
    BY <1>0, <1>03, <2>1 DEF Around
  <2>3. Fits(trim.state, trim.records, Around(DOMAIN archives))'
    BY <1>0, <1>02, <2>1, <2>2
  <2>4. \A j \in NextOf : FullLike(NameOf(trim.seen, j))
    BY <1>3 DEF StartDirect
  <2>5. DirectInStep'
    BY <1>0, <1>01, <2>1, <2>2, <2>4, BaseHasSuccessor DEF DirectInStep
  <2>6. Listed(trim.target)' /\ SameEntries'
    BY <1>0, <1>01, <2>1 DEF Listed, SameEntries
  <2> QED
    BY <1>02, <2>1, <2>3, <2>5, <2>6 DEF StateSound, RemovalInStep
<1>4. CASE StartMerge
  <2>1. pc = "remove" /\ pc' = "mergeReplace"
    BY <1>4 DEF StartMerge
  <2>2. PICK j \in NextOf :
          LET next == NameOf(trim.seen, j) IN
          /\ next.kind = "Smart"
          /\ {next, trim.target} \subseteq DOMAIN archives \cap DOMAIN records
          /\ trim' = [Snapshot EXCEPT
                        !.next = next, !.nextFiles = archives[next], !.time = written[next.id],
                        !.final = IF FullLike(trim.target)
                                  THEN [next EXCEPT !.kind = "Full"] ELSE next]
    BY <1>4 DEF StartMerge
  <2> DEFINE next == NameOf(trim.seen, j)
  <2>3. /\ trim'.target = trim.target /\ trim'.next = next
        /\ trim'.final = IF FullLike(trim.target) THEN [next EXCEPT !.kind = "Full"] ELSE next
        /\ trim'.records = records /\ trim'.state = state /\ trim'.seen = trim.seen
    BY <1>01, <2>2 DEF Snapshot, Trim
  <2>4. /\ j \in DOMAIN history /\ next.id = j /\ next.kind = "Smart" /\ Listed(next)
        /\ next \in DOMAIN archives /\ trim.target \in DOMAIN archives
    BY <1>01, <2>2 DEF NextOf, Successor, After, SameEntries, NameOf, Listed
  <2>5. /\ trim.target.id < j /\ \A k \in DOMAIN history : ~(trim.target.id < k /\ k < j)
    BY <1>01, <2>1, <2>4, NextInOrder
  <2>6. Adjacent'
    <3>1. Listed(next)'
      BY <1>0, <2>3, <2>4 DEF Listed
    <3> HIDE DEF next
    <3> QED
      BY <1>0, <2>3, <2>4, <2>5, <3>1 DEF Adjacent, Listed
  <2>7. trim'.final.id = next.id /\ (trim'.final # next => trim'.final \notin DOMAIN archives)
    <3>1. next \in Names
      BY <1>03, <2>4
    <3>2. trim'.final.id = next.id
      BY <2>3, <3>1 DEF Names
    <3> HIDE DEF next
    <3> QED
      BY <2>4, <3>2 DEF Undoable, Numbered, Steady, Calm
  <2>8. Around(DOMAIN archives)' = DOMAIN archives
    <3> HIDE DEF next
    <3> QED
      BY <1>0, <1>03, <2>3, <2>4, <2>7 DEF Around
  <2>9. Fits(trim.state, trim.records, Around(DOMAIN archives))'
    BY <1>0, <1>02, <2>3, <2>8
  <2>10. MergeInStep'
    BY <1>0, <2>1, <2>3 DEF MergeInStep
  <2>11. Listed(trim.target)' /\ SameEntries' /\ trim'.next # NoName
    <3> HIDE DEF next
    <3> QED
      BY <1>0, <1>01, <1>03, <2>1, <2>3, <2>4 DEF Listed, SameEntries
  <2> QED
    BY <1>02, <2>1, <2>6, <2>9, <2>10, <2>11 DEF StateSound, RemovalInStep
<1> QED
  BY <1>1, <1>2, <1>3, <1>4

\* The steps of a direct removal leave state.json and the entries alone.
LEMMA DirectSound ==
  ASSUME Typed, Steady, Undoable, StateSound, DirectArchive \/ DirectRecord PROVE StateSound'
<1> USE DEF Undoing, RemovalSteps, UndoSteps, BackupSteps
<1>0. /\ pc \in {"directArchive", "directRecord"} /\ InOrder /\ SameEntries /\ Listed(trim.target)
      /\ RemovalInStep /\ trim.next = NoName /\ trim.final = NoName /\ DirectInStep
      /\ UNCHANGED <<state, history, nextId, clock, scanned>> /\ trim \in Trim
      /\ DOMAIN archives \subseteq Names /\ NoName \notin Names /\ trim.target \in Names
  <2>1. /\ pc \in {"directArchive", "directRecord"} /\ trim \in Trim /\ trim.target \in Names
        /\ UNCHANGED <<state, history, nextId, clock, scanned>>
    BY DEF DirectArchive, DirectRecord, env, game, ghosts, Typed, TypedWork
  <2>2. InOrder /\ SameEntries /\ Listed(trim.target) /\ RemovalInStep
    BY <2>1 DEF StateSound
  <2>3. trim.next = NoName /\ DirectInStep
    BY <2>1, <2>2 DEF RemovalInStep
  <2>4. trim.final = NoName
    BY <2>1, <2>3 DEF Undoable, Steady, Calm, SnapshotKept
  <2> QED
    BY <2>1, <2>2, <2>3, <2>4, ArchiveNames, Vocabulary
<1>1. CASE DirectArchive
  <2>1. /\ pc = "directArchive" /\ pc' = "directRecord" /\ records' = records
        /\ DOMAIN archives' = DOMAIN archives \ {trim.target}
    BY <1>1 DEF DirectArchive, Without
  <2>2. /\ trim'.target = trim.target /\ trim'.next = trim.next /\ trim'.final = trim.final
        /\ trim'.records = trim.records /\ trim'.state = trim.state /\ trim'.seen = trim.seen
    BY <1>0, <1>1 DEF DirectArchive, Trim
  <2>3. Around(DOMAIN archives)' = Around(DOMAIN archives)
    BY <1>0, <2>1, <2>2 DEF Around
  <2>4. Fits(trim.state, trim.records, Around(DOMAIN archives))'
    BY <1>0, <2>2, <2>3 DEF RemovalInStep, Fits, Newest, LastFits, BaseFits, Listed
  <2>5. DirectInStep'
    BY <1>0, <2>1, <2>2, <2>3 DEF DirectInStep
  <2>6. InOrder' /\ SameEntries' /\ Listed(trim.target)'
    BY <1>0, <2>2 DEF InOrder, SameEntries, Listed
  <2> QED
    BY <1>0, <2>1, <2>2, <2>4, <2>5, <2>6 DEF StateSound, RemovalInStep
<1>2. CASE DirectRecord
  <2>1. /\ pc = "directRecord" /\ pc' = "commit" /\ UNCHANGED <<archives, trim>>
        /\ records' = Without(records, {trim.target})
    BY <1>2 DEF DirectRecord
  <2>2. Around(DOMAIN archives)' = Around(DOMAIN archives)
    BY <2>1 DEF Around
  <2>3. Fits(trim.state, trim.records, Around(DOMAIN archives))'
    BY <1>0, <2>1, <2>2 DEF RemovalInStep, Fits, Newest, LastFits, BaseFits, Listed
  <2>4. DirectInStep'
    BY <1>0, <2>1, <2>2 DEF DirectInStep
  <2>5. InOrder' /\ SameEntries' /\ Listed(trim.target)'
    BY <1>0, <2>1 DEF InOrder, SameEntries, Listed
  <2> QED
    BY <1>0, <2>1, <2>3, <2>4, <2>5 DEF StateSound, RemovalInStep
<1> QED
  BY <1>1, <1>2

\* What a merge knows of its two archives.
LEMMA MergeFacts ==
  ASSUME Typed, Steady, StateSound, pc \in Undoing, trim.next # NoName
  PROVE  /\ InOrder /\ SameEntries /\ Listed(trim.target) /\ Adjacent /\ MergeInStep
         /\ Fits(trim.state, trim.records, Around(DOMAIN archives)) /\ trim \in Trim
         /\ trim.target \in Names /\ trim.next \in Names /\ trim.final \in Names
         /\ trim.target.id \in Nat /\ trim.next.id \in Nat /\ trim.target.id < trim.next.id
         /\ trim.final.id = trim.next.id
         /\ trim.final # trim.next => trim.final.kind = "Full" /\ FullLike(trim.target)
         /\ FullLike(trim.target) => trim.final.kind = "Full"
         /\ ~FullLike(trim.target) => trim.final = trim.next
<1>1. /\ InOrder /\ SameEntries /\ Listed(trim.target) /\ RemovalInStep
      /\ trim \in Trim /\ trim.target \in Names /\ trim.next \in Names /\ trim.final \in Names
  BY DEF StateSound, Typed, TypedWork, Undoing
<1>2. Adjacent /\ MergeInStep /\ Fits(trim.state, trim.records, Around(DOMAIN archives))
  BY <1>1 DEF RemovalInStep
<1>3. trim.target.id \in Nat /\ trim.next.id \in Nat /\ trim.target.id < trim.next.id
  BY <1>1, <1>2, Numbers DEF Adjacent
<1>4. CASE FullLike(trim.target)
  <2>1. trim.final.id = trim.next.id /\ trim.final.kind = "Full"
    BY <1>1, <1>2, <1>4 DEF Adjacent, Names
  <2> QED
    BY <1>1, <1>2, <1>3, <1>4, <2>1
<1>5. CASE ~FullLike(trim.target)
  BY <1>1, <1>2, <1>3, <1>5 DEF Adjacent
<1> QED
  BY <1>4, <1>5

\* The last archive is the later one of a merge, or one made after both.
LEMMA LastOfMerge ==
  ASSUME Typed, InOrder, Listed(trim.target), Adjacent, trim.target \in Names, trim.next \in Names,
         NEW s, Newest(s)
  PROVE  /\ s.last # trim.target /\ trim.next.id <= s.last.id
         /\ s.last.id = trim.next.id => s.last = trim.next
<1>1. trim.next.id \in DOMAIN history /\ trim.target.id < trim.next.id
  BY DEF Adjacent, Listed
<1>2. trim.next.id <= s.last.id
  BY <1>1 DEF Newest
<1>3. s.last # trim.target
  BY <1>1, <1>2, Numbers
<1>4. s.last.id = trim.next.id => s.last = trim.next
  BY <1>1, NameDetermined DEF Newest, Adjacent, Listed
<1> QED
  BY <1>2, <1>3, <1>4

\* An archive merged into a Full one is the base of the later one.
LEMMA BaseOfMerge ==
  ASSUME Typed, Listed(trim.target), Adjacent, trim.target \in Names, trim.next \in Names,
         FullLike(trim.target), NEW s, NEW names, BaseFits(s, names), names \subseteq Names
  PROVE  s.base = trim.target \/ trim.next.id < s.base.id
<1>1. /\ s.base \in Names /\ Listed(s.base) /\ FullLike(s.base) /\ trim.target.id <= s.base.id
  BY DEF BaseFits, Listed, NameOf, FullLike
<1>2. s.base.id = trim.target.id => s.base = trim.target
  BY <1>1, NameDetermined DEF Listed
<1>3. s.base.id # trim.next.id
  BY <1>1 DEF Listed, Adjacent, FullLike
<1>4. s.base.id <= trim.target.id \/ trim.next.id <= s.base.id
  BY <1>1, Numbers DEF Adjacent, Listed
<1> QED
  BY <1>1, <1>2, <1>3, <1>4, Numbers

\* Rebuilding and renaming the archive of a merge: neither metadata nor entries change.
LEMMA MergeArchivesSound ==
  ASSUME Typed, Steady, Undoable, StateSound, MergeReplace \/ MergeRename \/ MergeRemove
  PROVE  StateSound'
<1> USE DEF Undoing, RemovalSteps, UndoSteps, BackupSteps
<1>0. /\ pc \in {"mergeReplace", "mergeRename", "mergeRemove"} /\ trim.next # NoName
      /\ UNCHANGED <<records, state, history, nextId, clock, scanned>>
      /\ pc' = CASE pc = "mergeReplace" -> "mergeRename" [] pc = "mergeRename" -> "mergeRecord"
                 [] OTHER -> "commit"
  BY Vocabulary
     DEF MergeReplace, MergeRename, MergeRemove, env, game, ghosts, Typed, TypedWork, MergeSteps
<1>01. /\ InOrder /\ SameEntries /\ Listed(trim.target) /\ Adjacent /\ MergeInStep
       /\ Fits(trim.state, trim.records, Around(DOMAIN archives)) /\ trim \in Trim
       /\ trim.final # trim.target /\ trim.target \in Names
  BY <1>0, MergeFacts
<1>1. /\ trim'.target = trim.target /\ trim'.next = trim.next /\ trim'.final = trim.final
      /\ trim'.records = trim.records /\ trim'.state = trim.state /\ trim'.seen = trim.seen
  BY <1>01 DEF MergeReplace, MergeRename, MergeRemove, Trim
<1>2. /\ Around(DOMAIN archives)' = Around(DOMAIN archives)
      /\ pc \in {"mergeRename", "mergeRemove"} => trim.final \in DOMAIN archives'
  <2>1. CASE MergeReplace
    <3>1. DOMAIN archives' = DOMAIN archives \cup {trim.next} /\ pc = "mergeReplace"
      BY <2>1, WithDomain DEF MergeReplace
    <3> QED
      BY <1>0, <1>1, <3>1 DEF Around
  <2>2. CASE MergeRename
    <3>1. trim.next \in DOMAIN archives
      BY <2>2 DEF MergeRename, Typed, TypedWork
    <3>2. \/ trim.final = trim.next /\ archives' = archives
          \/ DOMAIN archives' = (DOMAIN archives \ {trim.next}) \cup {trim.final}
      BY <2>2 DEF MergeRename, With, Without
    <3> QED
      BY <1>0, <1>1, <3>1, <3>2 DEF Around
  <2>3. CASE MergeRemove
    <3>1. DOMAIN archives' = DOMAIN archives \ {trim.target} /\ pc = "mergeRemove"
      BY <2>3 DEF MergeRemove, Without
    <3>2. trim.final \in DOMAIN archives
      BY <1>01, <3>1 DEF MergeInStep
    <3> QED
      BY <1>01, <1>1, <3>1, <3>2 DEF Around
  <2> QED
    BY <2>1, <2>2, <2>3
<1>3. Fits(trim.state, trim.records, Around(DOMAIN archives))'
  BY <1>0, <1>01, <1>1, <1>2 DEF Fits, Newest, LastFits, BaseFits, Listed
<1>4. Adjacent'
  BY <1>0, <1>01, <1>1 DEF Adjacent, Listed
<1>5. \A n : Redirected(n)' = Redirected(n)
  BY <1>1 DEF Redirected
<1>6. LastMoved(records) => LastMoved(records)'
  BY <1>0, <1>1, <1>2, <1>5 DEF LastMoved
<1>7. MergeInStep'
  BY <1>0, <1>01, <1>1, <1>2, <1>5, <1>6 DEF MergeInStep
<1>8. InOrder' /\ SameEntries' /\ Listed(trim.target)'
  BY <1>0, <1>01, <1>1 DEF InOrder, SameEntries, Listed
<1> QED
  BY <1>0, <1>1, <1>3, <1>4, <1>7, <1>8 DEF StateSound, RemovalInStep

\* The record of the merged archive has the base the state will have.
LEMMA RepairedBase ==
  ASSUME Typed, Steady, Undoable, StateSound, MergeRecord, trim.state # NoState,
         trim.state.last \in Around(DOMAIN archives)
  PROVE  /\ Redirected(trim.state.last) \in DOMAIN records'
         /\ Redirected(records'[Redirected(trim.state.last)].base) = Redirected(trim.state.base)
<1> USE DEF Undoing, RemovalSteps
<1>0. pc = "mergeRecord" /\ trim.next # NoName
  BY Vocabulary DEF MergeRecord, Typed, TypedWork, MergeSteps
<1>1. /\ InOrder /\ Listed(trim.target) /\ Adjacent /\ MergeInStep
      /\ Fits(trim.state, trim.records, Around(DOMAIN archives))
      /\ trim.target \in Names /\ trim.next \in Names /\ trim.final \in Names
      /\ trim.target.id < trim.next.id /\ trim.final.id = trim.next.id
      /\ FullLike(trim.target) => trim.final.kind = "Full"
      /\ ~FullLike(trim.target) => trim.final = trim.next
  BY <1>0, MergeFacts
<1>2. records = trim.records
  BY <1>0, <1>1 DEF MergeInStep
<1>3. Newest(trim.state) /\ LastFits(trim.state, records) /\ BaseFits(trim.state, Around(DOMAIN archives))
  BY <1>1, <1>2 DEF Fits
<1>4. /\ trim.state.last # trim.target
      /\ trim.state.last.id = trim.next.id => trim.state.last = trim.next
  BY <1>1, <1>3, LastOfMerge
<1>5. records' = With(Without(records, {trim.target, trim.next}), trim.final, RepairedRecord)
  BY DEF MergeRecord
<1>6. /\ DOMAIN records' = (DOMAIN records \ {trim.target, trim.next}) \cup {trim.final}
      /\ records'[trim.final] = RepairedRecord
      /\ \A n \in DOMAIN records \ {trim.target, trim.next, trim.final} : records'[n] = records[n]
  BY <1>5 DEF With, Without
<1>7. CASE trim.state.last = trim.next
  <2>1. Redirected(trim.state.last) = trim.final /\ records[trim.next].base = trim.state.base
    BY <1>3, <1>7 DEF Redirected, LastFits
  <2>2. CASE ~FullLike(trim.target)
    <3>1. trim.final.kind = "Smart"
      BY <1>1, <2>2 DEF Adjacent
    <3>2. trim.state.base # NoName
      BY <1>3 DEF BaseFits, FullLike, NoName
    <3>3. RepairedRecord.base = trim.state.base
      BY <2>1, <3>1, <3>2 DEF RepairedRecord
    <3> QED
      BY <1>6, <2>1, <3>3
  <2>3. CASE FullLike(trim.target)
    <3>1. RepairedRecord.base = trim.final
      BY <1>1, <2>3 DEF RepairedRecord
    <3>2. trim.state.base = trim.target
      <4>1. Around(DOMAIN archives) \subseteq Names
        BY <1>1, ArchiveNames DEF Around
      <4>2. trim.state.base.id <= trim.next.id /\ trim.state.base \in Names
        BY <1>3, <1>7, <4>1 DEF BaseFits
      <4> QED
        BY <1>1, <1>3, <2>3, <4>1, <4>2, BaseOfMerge, Numbers
    <3> QED
      BY <1>6, <2>1, <3>1, <3>2 DEF Redirected
  <2> QED
    BY <2>2, <2>3
<1>8. CASE trim.state.last # trim.next
  <2>1. trim.state.last \notin {trim.target, trim.next, trim.final}
    BY <1>1, <1>4, <1>8
  <2>2. Redirected(trim.state.last) = trim.state.last
    BY <2>1 DEF Redirected
  <2>3. trim.state.last \in DOMAIN records /\ records[trim.state.last].base = trim.state.base
    BY <1>3 DEF LastFits
  <2> QED
    BY <1>6, <2>1, <2>2, <2>3
<1> QED
  BY <1>7, <1>8

\* Repairing the metadata of a merge step by step.
LEMMA MergeMetadataSound ==
  ASSUME Typed, Steady, Undoable, StateSound, MergeRecord \/ MergeRefs \/ MergeState
  PROVE  StateSound'
<1> USE DEF Undoing, RemovalSteps, UndoSteps, BackupSteps
<1>0. /\ pc \in {"mergeRecord", "mergeRefs", "mergeState"} /\ trim.next # NoName
      /\ UNCHANGED <<archives, trim, history, nextId, clock, scanned>>
  BY Vocabulary
     DEF MergeRecord, MergeRefs, MergeState, env, game, ghosts, Typed, TypedWork, MergeSteps
<1>1. /\ InOrder /\ SameEntries /\ Listed(trim.target) /\ Adjacent /\ MergeInStep
      /\ Fits(trim.state, trim.records, Around(DOMAIN archives))
  BY <1>0, MergeFacts
<1>2. /\ InOrder' /\ SameEntries' /\ Listed(trim.target)' /\ Adjacent'
      /\ Around(DOMAIN archives)' = Around(DOMAIN archives)
      /\ Fits(trim.state, trim.records, Around(DOMAIN archives))'
  BY <1>0, <1>1 DEF InOrder, SameEntries, Listed, Adjacent, Around, Fits, Newest, LastFits, BaseFits
<1>3. \A n : Redirected(n)' = Redirected(n)
  BY <1>0 DEF Redirected
<1>4. MergeInStep'
  <2>1. CASE MergeRecord
    <3>1. pc = "mergeRecord" /\ pc' = "mergeRefs" /\ state' = state
      BY <2>1 DEF MergeRecord
    <3> QED
      BY <1>0, <1>1, <1>2, <1>3, <2>1, <3>1, RepairedBase DEF MergeInStep
  <2>2. CASE MergeRefs
    <3>1. /\ pc = "mergeRefs" /\ pc' = "mergeState" /\ state' = state
          /\ DOMAIN records' = DOMAIN records
      BY <2>2 DEF MergeRefs
    <3>2. ASSUME NEW n \in DOMAIN records PROVE records'[n].base = Redirected(records[n].base)
      <4>1. records \in Maps(Names, Record)
        BY DEF Typed, TypedDisk
      <4>2. records[n] \in Record
        BY <4>1, MapElim
      <4>3. records'[n] = [records[n] EXCEPT !.prev = Redirected(@), !.base = Redirected(@)]
        BY <2>2 DEF MergeRefs
      <4> QED
        BY <4>2, <4>3 DEF Record
    <3>3. LastMoved(records)'
      BY <1>0, <1>1, <1>2, <1>3, <3>1, <3>2 DEF MergeInStep, LastMoved
    <3> QED
      BY <1>0, <1>1, <3>1, <3>3 DEF MergeInStep
  <2>3. CASE MergeState
    <3>1. /\ pc = "mergeState" /\ pc' = "mergeRemove" /\ records' = records
          /\ state' = [state EXCEPT !.last = Redirected(@), !.base = Redirected(@)]
      BY <2>3 DEF MergeState
    <3>2. state = trim.state /\ LastMoved(records)
      BY <1>1, <3>1 DEF MergeInStep
    <3>3. LastMoved(records)'
      BY <1>0, <1>2, <1>3, <3>1, <3>2 DEF LastMoved
    <3>4. state' = [trim.state EXCEPT !.last = Redirected(@), !.base = Redirected(@)]'
      BY <1>0, <1>3, <3>1, <3>2
    <3> QED
      BY <1>0, <1>1, <3>1, <3>3, <3>4 DEF MergeInStep
  <2> QED
    BY <2>1, <2>2, <2>3
<1>5. pc' \in {"mergeRefs", "mergeState", "mergeRemove"}
  BY DEF MergeRecord, MergeRefs, MergeState
<1> QED
  BY <1>0, <1>2, <1>4, <1>5 DEF StateSound, RemovalInStep

\* After the commit of a direct removal the state still describes the last archive.
LEMMA CommitDirect ==
  ASSUME Typed, Steady, Undoable, StateSound, Commit, trim.next = NoName
  PROVE  InOrder' /\ Fits(state, records, DOMAIN archives)'
<1> USE DEF Undoing, RemovalSteps
<1>0. /\ pc = "commit" /\ history' = Without(history, {trim.target.id})
      /\ UNCHANGED <<archives, records, state, nextId, clock, scanned>>
  BY DEF Commit, CommittedHistory, env, game, ghosts
<1>1. /\ InOrder /\ Listed(trim.target) /\ RemovalInStep /\ DirectInStep /\ trim.target \in Names
  BY <1>0 DEF StateSound, RemovalInStep, Typed, TypedWork
<1>2. /\ state = trim.state /\ records = Without(trim.records, {trim.target})
      /\ trim.target \notin DOMAIN archives /\ trim.final = NoName
  BY <1>0, <1>1 DEF DirectInStep, Undoable, Steady, Calm, SnapshotKept
<1>3. Fits(state, trim.records, DOMAIN archives \cup {trim.target})
  <2>1. Around(DOMAIN archives) = DOMAIN archives \cup {trim.target}
    BY <1>2, ArchiveNames, Vocabulary DEF Around
  <2> QED
    BY <1>1, <1>2, <2>1 DEF RemovalInStep
<1>4. /\ DOMAIN history' = DOMAIN history \ {trim.target.id}
      /\ \A i \in DOMAIN history' : history'[i] = history[i]
  BY <1>0 DEF Without
<1>5. \A n \in Names : Listed(n) /\ n # trim.target =>
                        n.id \in DOMAIN history' /\ history'[n.id].kind = n.kind
  BY <1>1, <1>4, NameDetermined DEF Listed
<1>6. InOrder'
  BY <1>0, <1>1, <1>4 DEF InOrder
<1>7. Fits(state, records, DOMAIN archives)'
  <2> SUFFICES ASSUME state # NoState PROVE Fits(state, records, DOMAIN archives)'
    BY <1>0 DEF Fits
  <2>1. Newest(state)'
    BY <1>0, <1>3, <1>4 DEF Fits, Newest, Listed
  <2>2. ASSUME state.last \in DOMAIN archives
        PROVE  LastFits(state, records)' /\ BaseFits(state, DOMAIN archives)'
    <3>1. /\ LastFits(state, trim.records) /\ BaseFits(state, DOMAIN archives \cup {trim.target})
          /\ state.last # trim.target
      BY <1>2, <1>3, <2>2 DEF Fits
    <3>2. state.base # trim.target
      <4>1. state.last \in Around(DOMAIN archives) \ {trim.target}
        BY <1>2, <2>2, <3>1, ArchiveNames, Vocabulary DEF Around
      <4> QED
        BY <1>1, <1>2, <4>1 DEF DirectInStep
    <3>3. state.base \in DOMAIN archives /\ state.base \in Names /\ state.last \in Names
      BY <2>2, <3>1, <3>2, ArchiveNames DEF BaseFits
    <3>4. Listed(state.last)' /\ Listed(state.base)'
      BY <1>0, <1>5, <3>1, <3>2, <3>3 DEF LastFits, BaseFits, Listed
    <3>5. state.last \in DOMAIN records /\ records[state.last] = trim.records[state.last]
      BY <1>2, <3>1 DEF LastFits, Without
    <3>6. LastFits(state, records)'
      BY <1>0, <3>1, <3>4, <3>5 DEF LastFits, Listed
    <3>7. BaseFits(state, DOMAIN archives)'
      BY <1>0, <1>4, <3>1, <3>3, <3>4 DEF BaseFits, Listed, NameOf, FullLike
    <3> QED
      BY <3>6, <3>7
  <2> QED
    BY <1>0, <2>1, <2>2 DEF Fits
<1> QED
  BY <1>6, <1>7

\* The new history of a merge: the later entry has the kind of the merged archive.
LEMMA MergedHistory ==
  ASSUME Typed, Steady, StateSound, Commit, trim.next # NoName
  PROVE  /\ DOMAIN history' = DOMAIN history \ {trim.target.id}
         /\ \A i \in DOMAIN history' : history'[i].time = history[i].time
         /\ \A i \in DOMAIN history' :
               history'[i].kind = IF i = trim.next.id THEN trim.final.kind ELSE history[i].kind
<1>1. history' = Without([history EXCEPT ![trim.next.id].kind = trim.final.kind], {trim.target.id})
  BY DEF Commit, CommittedHistory
<1>2. /\ DOMAIN history' = DOMAIN history \ {trim.target.id}
      /\ \A i \in DOMAIN history' :
            history'[i] = IF i = trim.next.id THEN [history[i] EXCEPT !.kind = trim.final.kind]
                          ELSE history[i]
  BY <1>1 DEF Without
<1>3. \A i \in DOMAIN history : history[i] \in Entry
  BY Numbers
<1> QED
  BY <1>2, <1>3 DEF Entry

\* After the commit of a merge the state describes the last archive under its new name.
LEMMA CommitMerge ==
  ASSUME Typed, Steady, Undoable, StateSound, Commit, trim.next # NoName
  PROVE  InOrder' /\ Fits(state, records, DOMAIN archives)'
<1> USE DEF Undoing, RemovalSteps
<1>0. /\ pc = "commit"
      /\ UNCHANGED <<archives, records, state, nextId, clock, scanned>>
  BY DEF Commit, env, game, ghosts
<1>1. /\ InOrder /\ Listed(trim.target) /\ Adjacent /\ MergeInStep
      /\ Fits(trim.state, trim.records, Around(DOMAIN archives)) /\ trim \in Trim
      /\ trim.target \in Names /\ trim.next \in Names /\ trim.final \in Names
      /\ trim.target.id \in Nat /\ trim.next.id \in Nat /\ trim.target.id < trim.next.id
      /\ trim.final.id = trim.next.id
      /\ trim.final # trim.next => trim.final.kind = "Full" /\ FullLike(trim.target)
      /\ FullLike(trim.target) => trim.final.kind = "Full"
      /\ ~FullLike(trim.target) => trim.final = trim.next
  BY <1>0, MergeFacts
<1>2. /\ LastMoved(records) /\ trim.final \in DOMAIN archives
      /\ state = [trim.state EXCEPT !.last = Redirected(@), !.base = Redirected(@)]
  BY <1>0, <1>1 DEF MergeInStep
<1> DEFINE S == trim.state
<1>3. state.last = Redirected(S.last) /\ state.base = Redirected(S.base) /\ state.files = S.files
  BY <1>1, <1>2 DEF Trim, MetadataState
<1>4. /\ DOMAIN history' = DOMAIN history \ {trim.target.id}
      /\ \A i \in DOMAIN history' : history'[i].time = history[i].time
      /\ \A i \in DOMAIN history' :
            history'[i].kind = IF i = trim.next.id THEN trim.final.kind ELSE history[i].kind
  BY MergedHistory
<1>5. InOrder'
  BY <1>0, <1>1, <1>4 DEF InOrder
<1>6. /\ trim.next.id \in DOMAIN history /\ trim.next.id \in DOMAIN history'
      /\ history'[trim.final.id].kind = trim.final.kind
  BY <1>1, <1>4 DEF Adjacent, Listed
<1>7. \A n \in Names : Listed(n) /\ n \notin {trim.target, trim.next} =>
                        n.id \in DOMAIN history' /\ history'[n.id].kind = n.kind
  BY <1>1, <1>4, NameDetermined DEF Listed, Adjacent
<1>8. Fits(state, records, DOMAIN archives)'
  <2> SUFFICES ASSUME state # NoState PROVE Fits(state, records, DOMAIN archives)'
    BY <1>0 DEF Fits
  <2>1. S # NoState
    <3> SUFFICES ASSUME S = NoState PROVE FALSE
      OBVIOUS
    <3>1. Redirected(NoName) = NoName
      BY <1>1, Vocabulary DEF Redirected
    <3>2. state.last = NoName /\ state.base = NoName /\ state.files = NoState.files
      BY <1>3, <3>1 DEF NoState
    <3>3. state \in MetadataState
      BY DEF Typed, TypedDisk
    <3> QED
      BY <3>2, <3>3 DEF NoState, MetadataState
  <2>2. Newest(S) /\ S.last \in Names /\ S.last.id \in Nat
    BY <1>1, <2>1, Numbers DEF Fits, Newest
  <2>3. /\ S.last # trim.target /\ trim.next.id <= S.last.id
        /\ S.last.id = trim.next.id => S.last = trim.next
    BY <1>1, <2>2, LastOfMerge
  <2>4. /\ state.last = IF S.last = trim.next THEN trim.final ELSE S.last
        /\ state.last.id = S.last.id /\ state.last \in Names
    BY <1>1, <1>3, <2>2, <2>3 DEF Redirected
  <2>5. S.last.id \in DOMAIN history => Listed(state.last)'
    <3>1. CASE S.last = trim.next
      BY <1>0, <1>1, <1>6, <2>4, <3>1 DEF Listed
    <3>2. CASE S.last # trim.next
      BY <1>0, <1>7, <2>2, <2>3, <2>4, <3>2 DEF Newest, Listed
    <3> QED
      BY <3>1, <3>2
  <2>6. Newest(state)'
    BY <1>0, <1>4, <2>2, <2>4, <2>5 DEF Newest, Listed
  <2>7. ASSUME state.last \in DOMAIN archives
        PROVE  LastFits(state, records)' /\ BaseFits(state, DOMAIN archives)'
    <3>1. S.last \in Around(DOMAIN archives)
      BY <1>1, <2>3, <2>4, <2>7, Vocabulary DEF Around
    <3>2. LastFits(S, trim.records) /\ BaseFits(S, Around(DOMAIN archives))
      BY <1>1, <2>1, <3>1 DEF Fits
    <3>3. state.last \in DOMAIN records /\ records[state.last].base = state.base
      BY <1>2, <1>3, <2>1, <3>1 DEF LastMoved
    <3>4. LastFits(state, records)'
      BY <1>0, <1>3, <2>4, <2>5, <3>2, <3>3 DEF LastFits, Listed
    <3>5. Around(DOMAIN archives) \subseteq Names
      BY <1>1, ArchiveNames DEF Around
    <3>6. /\ S.base \in Names /\ S.base.id \in Nat /\ Listed(S.base) /\ FullLike(S.base)
          /\ S.base.id <= S.last.id /\ S.base # trim.next
      BY <1>1, <3>2, <3>5, Numbers DEF BaseFits, Adjacent, FullLike
    <3>7. CASE S.base = trim.target
      <4>1. state.base = trim.final /\ FullLike(trim.final)
        BY <1>1, <1>3, <3>6, <3>7 DEF Redirected, FullLike
      <4>2. \A i \in DOMAIN history' : FullLike(NameOf(history', i)) => i <= trim.final.id
        BY <1>1, <1>4, <3>2, <3>7, Numbers DEF BaseFits, NameOf, FullLike
      <4>6. /\ state'.base \in DOMAIN archives' /\ FullLike(state'.base)
            /\ state'.base.id \in DOMAIN history' /\ history'[state'.base.id].kind = state'.base.kind
            /\ state'.base.id <= state'.last.id
        BY <1>0, <1>1, <1>2, <1>6, <2>3, <2>4, <4>1
      <4>7. \A i \in DOMAIN history' : FullLike(NameOf(history', i)) => i <= state'.base.id
        BY <1>0, <4>1, <4>2
      <4> QED
        BY <3>4, <4>6, <4>7 DEF BaseFits, Listed, FullLike, NameOf
    <3>8. CASE S.base # trim.target
      <4>1. state.base = S.base
        BY <1>3, <3>6, <3>8 DEF Redirected
      <4>2. S.base \in DOMAIN archives
        BY <3>2, <3>6, <3>8 DEF BaseFits, Around
      <4>3. S.base.id \in DOMAIN history' /\ history'[S.base.id].kind = S.base.kind
        BY <1>7, <3>6, <3>8
      <4>4. FullLike(trim.target) => trim.next.id < S.base.id
        BY <1>1, <3>2, <3>5, <3>8, BaseOfMerge
      <4>5. ASSUME NEW i \in DOMAIN history', FullLike(NameOf(history', i)) PROVE i <= S.base.id
        <5>1. CASE i = trim.next.id
          <6>1. trim.final.kind # "Smart"
            BY <1>4, <4>5, <5>1 DEF NameOf, FullLike
          <6> QED
            BY <1>1, <3>6, <4>4, <5>1, <6>1 DEF Adjacent
        <5>2. CASE i # trim.next.id
          BY <1>4, <3>2, <4>5, <5>2 DEF BaseFits, NameOf, FullLike
        <5> QED
          BY <5>1, <5>2
      <4>6. /\ state'.base \in DOMAIN archives' /\ FullLike(state'.base)
            /\ state'.base.id \in DOMAIN history' /\ history'[state'.base.id].kind = state'.base.kind
            /\ state'.base.id <= state'.last.id
        BY <1>0, <2>4, <3>6, <4>1, <4>2, <4>3
      <4>7. \A i \in DOMAIN history' : FullLike(NameOf(history', i)) => i <= state'.base.id
        BY <1>0, <4>1, <4>5
      <4> QED
        BY <3>4, <4>6, <4>7 DEF BaseFits, Listed, FullLike, NameOf
    <3> QED
      BY <3>4, <3>7, <3>8
  <2> QED
    BY <1>0, <2>6, <2>7 DEF Fits
<1> QED
  BY <1>5, <1>8

\* The end of a removal: its commit, or the turn to the snapshot.
LEMMA EndSound ==
  ASSUME Typed, Steady, Undoable, StateSound, Commit \/ RemovalFails PROVE StateSound'
<1> USE DEF Undoing, RemovalSteps, UndoSteps, BackupSteps
<1>1. CASE Commit
  <2>1. InOrder' /\ Fits(state, records, DOMAIN archives)'
    BY <1>1, CommitDirect, CommitMerge
  <2>2. pc' = "idle" \/ (pc' = "enforce" /\ trim'.seen = history')
    BY <1>1 DEF Commit, Finish, NoTrim
  <2> QED
    BY <2>1, <2>2 DEF StateSound, SameEntries
<1>2. CASE RemovalFails
  <2>1. /\ pc \in RemovalSteps /\ pc' = "undoTarget"
        /\ UNCHANGED <<archives, records, state, history, nextId, clock, scanned, trim>>
    BY <1>2 DEF RemovalFails, disk, env, game, ghosts
  <2>2. InOrder /\ SameEntries /\ Listed(trim.target) /\ RemovalInStep
    BY <2>1 DEF StateSound
  <2>3. /\ InOrder' /\ SameEntries' /\ Listed(trim.target)'
        /\ Around(DOMAIN archives)' = Around(DOMAIN archives)
    BY <2>1, <2>2 DEF InOrder, SameEntries, Listed, Around
  <2>4. Fits(trim.state, trim.records, Around(DOMAIN archives))'
    BY <2>1, <2>2, <2>3 DEF RemovalInStep, Fits, Newest, LastFits, BaseFits, Listed
  <2>5. trim.next = NoName => DirectInStep'
    BY <2>1, <2>2, <2>3 DEF RemovalInStep, DirectInStep
  <2>6. trim.next # NoName => Adjacent' /\ MergeInStep'
    BY <2>1, <2>2, <2>3 DEF RemovalInStep, Adjacent, Listed, MergeInStep
  <2> QED
    BY <2>1, <2>3, <2>4, <2>5, <2>6 DEF StateSound, RemovalInStep
<1> QED
  BY <1>1, <1>2

\* Undoing a removal brings back archives among the same names.
LEMMA UndoAround ==
  ASSUME Typed, Steady, Steady', Undoable, UndoTarget \/ UndoRemoved \/ UndoClear \/ UndoCopy
  PROVE  (DOMAIN archives' \ {trim.final}) \cup {trim.target} \cup ({trim.next} \ {NoName})
            = Around(DOMAIN archives)
<1>0. pc \in UndoSteps /\ SnapshotKept
  BY DEF UndoTarget, UndoRemoved, UndoClear, UndoCopy, UndoSteps, Undoable, Undoing, Steady, Calm
<1>1. CASE UndoTarget
  <2>1. ~retained'
    BY DEF Steady, Calm
  <2>2. CASE ~trim.replaced
    BY <1>1, <2>1, <2>2 DEF UndoTarget, Around
  <2>3. CASE trim.replaced
    <3>1. archives' = With(Without(archives, IF Renamed THEN {trim.final} ELSE {}),
                           trim.next, trim.nextFiles)
      BY <1>1, <2>1, <2>3 DEF UndoTarget, RollbackFault
    <3>2. DOMAIN archives' = (DOMAIN archives \ (IF Renamed THEN {trim.final} ELSE {})) \cup {trim.next}
      BY <3>1 DEF With, Without
    <3>3. trim.next # NoName
      BY <1>0, <2>3 DEF SnapshotKept
    <3> QED
      BY <3>2, <3>3 DEF Around, Renamed
  <2> QED
    BY <2>2, <2>3
<1>2. CASE UndoRemoved
  <2>1. archives' = archives \/ DOMAIN archives' = DOMAIN archives \cup {trim.target}
    BY <1>2, WithDomain DEF UndoRemoved
  <2> QED
    BY <2>1 DEF Around
<1>3. CASE UndoClear \/ UndoCopy
  BY <1>3 DEF UndoClear, UndoCopy, Around
<1> QED
  BY <1>1, <1>2, <1>3

\* An undo that ends leaves the archives that there were when the removal began.
LEMMA UndoEndsAround ==
  ASSUME Typed, Steady, Steady', Undoable, PutBack, pc' = "idle",
         UndoTarget \/ UndoRemoved \/ UndoClear \/ UndoCopy
  PROVE  DOMAIN archives' = Around(DOMAIN archives)
<1>0. pc \in UndoSteps
  BY DEF UndoTarget, UndoRemoved, UndoClear, UndoCopy, UndoSteps
<1>1. NoName \notin DOMAIN archives'
  <2>1. NoName \notin DOMAIN archives /\ trim.target # NoName
    BY <1>0, ArchiveNames, Vocabulary DEF Typed, TypedWork
  <2>2. DOMAIN archives' \subseteq DOMAIN archives \cup {trim.target}
    <3>1. ~UndoTarget
      BY DEF UndoTarget
    <3>2. UndoRemoved => archives' = archives \/ DOMAIN archives' = DOMAIN archives \cup {trim.target}
      BY WithDomain DEF UndoRemoved
    <3>3. UndoClear \/ UndoCopy => archives' = archives
      BY DEF UndoClear, UndoCopy
    <3> QED
      BY <3>1, <3>2, <3>3
  <2> QED
    BY <2>1, <2>2
<1>2. trim.next = NoName => trim.final = NoName
  BY <1>0 DEF Undoable, Undoing, SnapshotKept, Steady, Calm
<1>3. DOMAIN archives' = (DOMAIN archives' \ {trim.final}) \cup {trim.target} \cup ({trim.next} \ {NoName})
  BY <1>1, <1>2 DEF PutBack
<1> QED
  BY <1>3, UndoAround

\* A removal that is undone ends with the state it found, which still describes the last archive.
LEMMA UndoSound ==
  ASSUME Typed, Steady, Steady', Undoable, StateSound, [Next]_vars,
         UndoTarget \/ UndoRemoved \/ UndoClear \/ UndoCopy
  PROVE  StateSound'
<1> USE DEF Undoing, RemovalSteps, UndoSteps, BackupSteps
<1>0. /\ pc \in UndoSteps /\ UNCHANGED <<history, nextId, clock, scanned>>
      /\ crashes' = crashes /\ ~retained'
      /\ \/ pc' \in UndoSteps /\ trim' = trim
         \/ pc' = "idle" /\ pc \in {"undoRemoved", "undoClear", "undoCopy"}
      /\ pc' = "idle" => ~UndoClear
  BY DEF UndoTarget, UndoRemoved, UndoClear, UndoCopy, Finish, env, game, ghosts, counts,
         RollbackFault, Fails, Steady, Calm
<1>1. InOrder /\ SameEntries /\ Listed(trim.target) /\ RemovalInStep
  BY <1>0 DEF StateSound
<1>2. Fits(trim.state, trim.records, Around(DOMAIN archives)) /\ InOrder'
  BY <1>0, <1>1 DEF RemovalInStep, InOrder
<1>3. CASE pc' \in UndoSteps /\ trim' = trim
  <2>1. Around(DOMAIN archives)' = Around(DOMAIN archives)
    BY <1>3, UndoAround DEF Around
  <2>2. Fits(trim.state, trim.records, Around(DOMAIN archives))'
    BY <1>0, <1>2, <1>3, <2>1 DEF Fits, Newest, LastFits, BaseFits, Listed
  <2>3. trim.next = NoName => DirectInStep'
    BY <1>1, <1>3, <2>1 DEF RemovalInStep, DirectInStep
  <2>4. trim.next # NoName => Adjacent' /\ MergeInStep'
    BY <1>0, <1>1, <1>3 DEF RemovalInStep, Adjacent, Listed, MergeInStep
  <2>5. SameEntries' /\ Listed(trim.target)'
    BY <1>0, <1>1, <1>3 DEF SameEntries, Listed
  <2> QED
    BY <1>2, <1>3, <2>2, <2>3, <2>4, <2>5 DEF StateSound, RemovalInStep
<1>4. CASE pc' = "idle"
  <2>1. UndoEnds
    BY <1>0, <1>4 DEF UndoEnds, UndoTarget, UndoRemoved, UndoClear, UndoCopy
  <2>2. PutBack
    BY <2>1, UndoEndsRight
  <2>3. DOMAIN archives' = Around(DOMAIN archives)
    BY <1>4, <2>2, UndoEndsAround
  <2>4. state' = trim.state /\ records' = trim.records
    BY <2>2 DEF PutBack
  <2>5. Fits(state, records, DOMAIN archives)'
    BY <1>0, <1>2, <2>3, <2>4 DEF Fits, Newest, LastFits, BaseFits, Listed
  <2> QED
    BY <1>2, <1>4, <2>5 DEF StateSound
<1> QED
  BY <1>0, <1>3, <1>4

\* A step that touches none of it but the marks of the history.
LEMMA QuietSound ==
  ASSUME Typed, Typed', StateSound, UNCHANGED <<archives, records, state, nextId, clock, setbacks,
           scanned, trim, job, pc, retained, crashes>>,
         DOMAIN history' = DOMAIN history,
         \A i \in DOMAIN history : history'[i].kind = history[i].kind /\ history'[i].time = history[i].time
  PROVE  StateSound'
<1> SUFFICES ASSUME Steady' PROVE StateSound'
  BY DEF StateSound
<1>0. Steady
  BY DEF Steady, Calm
<1>1. \A i \in DOMAIN history : FullLike(NameOf(history', i)) <=> FullLike(NameOf(history, i))
  BY DEF FullLike, NameOf
<1>2. InOrder => InOrder'
  BY DEF InOrder
<1>3. SameEntries => SameEntries'
  BY DEF SameEntries
<1>4. JobInStep => JobInStep'
  <2>1. Fits(job.old, records, DOMAIN archives) => Fits(job.old, records, DOMAIN archives)'
    BY <1>1 DEF Fits, Newest, LastFits, BaseFits, FullLike, NameOf, Listed
  <2>2. BaseChosen' = BaseChosen /\ NewState' = NewState
    BY DEF BaseChosen, NewState
  <2> QED
    BY <2>1, <2>2 DEF JobInStep
<1>5. RemovalInStep => RemovalInStep'
  <2>1. Around(DOMAIN archives)' = Around(DOMAIN archives)
    BY DEF Around
  <2>2. Fits(trim.state, trim.records, Around(DOMAIN archives))
          => Fits(trim.state, trim.records, Around(DOMAIN archives))'
    BY <1>1, <2>1 DEF Fits, Newest, LastFits, BaseFits, FullLike, NameOf, Listed
  <2>3. DirectInStep => DirectInStep'
    BY <2>1 DEF DirectInStep
  <2>4. Adjacent => Adjacent'
    BY DEF Adjacent, Listed
  <2>5. \A n : Redirected(n)' = Redirected(n)
    BY DEF Redirected
  <2>6. LastMoved(records) => LastMoved(records)'
    BY <2>1, <2>5 DEF LastMoved
  <2>7. MergeInStep => MergeInStep'
    BY <2>1, <2>5, <2>6 DEF MergeInStep
  <2> QED
    BY <2>2, <2>3, <2>4, <2>7 DEF RemovalInStep
<1>6. Fits(state, records, DOMAIN archives) => Fits(state, records, DOMAIN archives)'
  BY <1>1 DEF Fits, Newest, LastFits, BaseFits, FullLike, NameOf, Listed
<1>7. Listed(trim.target) => Listed(trim.target)'
  BY DEF Listed
<1> QED
  BY <1>0, <1>2, <1>3, <1>4, <1>5, <1>6, <1>7 DEF StateSound

\* What the user and the game do: a deletion other than that of an entry alone drops state.json.
LEMMA OutsideSound ==
  ASSUME "HistoryOnly" \notin Deletions, Typed, Typed', Steady, Steady', StateSound,
         User \/ Environment, ~Crash, ~SetClockBack
  PROVE  StateSound'
<1> USE DEF Undoing, RemovalSteps, UndoSteps, BackupSteps, env, game, ghosts, counts, disk
<1>1. ASSUME NEW mode \in Modes, StartBackup(mode) PROVE StateSound'
  BY <1>1, StartBackupSound
<1>2. ASSUME NEW i \in DOMAIN history, DeleteLocalArchive(i) \/ DeleteArchiveAndHistory(i)
      PROVE  StateSound'
  <2>1. /\ state' = NoState /\ pc = "idle" /\ pc' = "idle" /\ UNCHANGED <<nextId, clock>>
        /\ DOMAIN history' \subseteq DOMAIN history /\ \A k \in DOMAIN history' : history'[k] = history[k]
    BY <1>2 DEF DeleteLocalArchive, DeleteArchiveAndHistory, Invalidate, Without
  <2>2. InOrder
    BY DEF StateSound
  <2>3. InOrder' /\ Fits(state, records, DOMAIN archives)'
    BY <2>1, <2>2 DEF InOrder, Fits
  <2> QED
    BY <2>1, <2>3 DEF StateSound
<1>3. ASSUME NEW i \in DOMAIN history, SafeDelete(i) PROVE StateSound'
  <2>1. /\ trim' = [NoTrim EXCEPT !.target = NameOf(history, i), !.seen = history]
        /\ pc = "idle" /\ pc' = "remove"
        /\ UNCHANGED <<archives, records, state, history, nextId, scanned, clock>>
    BY <1>3 DEF SafeDelete
  <2>2. trim'.target = NameOf(history, i) /\ trim'.seen = history
    BY <2>1 DEF NoTrim
  <2>3. InOrder' /\ Fits(state, records, DOMAIN archives)'
    BY <2>1, QuietFits DEF StateSound
  <2>4. SameEntries' /\ Listed(trim.target)'
    BY <2>1, <2>2 DEF SameEntries, Listed, NameOf
  <2> QED
    BY <2>1, <2>3, <2>4 DEF StateSound
<1>4. ASSUME NEW i \in DOMAIN history, Mark(i) PROVE StateSound'
  <2>1. history' = [history EXCEPT ![i].important = ~@]
    BY <1>4 DEF Mark
  <2>2. \A k \in DOMAIN history : history[k] \in Entry
    BY Numbers
  <2>3. /\ DOMAIN history' = DOMAIN history
        /\ \A k \in DOMAIN history : history'[k].kind = history[k].kind /\ history'[k].time = history[k].time
    BY <2>1, <2>2 DEF Entry
  <2> QED
    BY <1>4, <2>3, QuietSound DEF Mark
<1>5. ASSUME NEW i \in DOMAIN history, RestoreWorld(i) PROVE StateSound'
  BY <1>5, QuietSound DEF RestoreWorld
<1>6. ASSUME NEW f \in Files, NEW keeps \in BOOLEAN, EditFile(f, keeps) PROVE StateSound'
  BY <1>6, QuietSound DEF EditFile
<1>7. ~(\E i \in DOMAIN history : DeleteHistoryOnly(i))
  BY DEF DeleteHistoryOnly
<1> QED
  BY <1>1, <1>2, <1>3, <1>4, <1>5, <1>6, <1>7 DEF User, Environment

\* Every step of a run without crashes keeps the state in step with the chain.
LEMMA StateSoundStep ==
  ASSUME "HistoryOnly" \notin Deletions
  PROVE  Typed /\ Typed' /\ Undoable /\ StateSound /\ [Next]_vars => StateSound'
<1> SUFFICES ASSUME Typed, Typed', Undoable, StateSound, [Next]_vars, Steady' PROVE StateSound'
  BY DEF StateSound
<1>0. Steady /\ ~Crash /\ ~SetClockBack
  BY SteadyBefore
<1>1. CASE UNCHANGED vars
  BY <1>1, QuietSound DEF vars
<1>2. CASE Backup
  BY <1>0, <1>2, BackupSound
<1>3. CASE Removal
  <2>1. CASE EndRound \/ PickOldest \/ StartDirect \/ StartMerge \/ Keep
    BY <1>0, <2>1, ChoiceSound
  <2>2. CASE DirectArchive \/ DirectRecord
    BY <1>0, <2>2, DirectSound
  <2>3. CASE MergeReplace \/ MergeRename \/ MergeRemove
    BY <1>0, <2>3, MergeArchivesSound
  <2>4. CASE MergeRecord \/ MergeRefs \/ MergeState
    BY <1>0, <2>4, MergeMetadataSound
  <2>5. CASE Commit \/ RemovalFails
    BY <1>0, <2>5, EndSound
  <2>6. CASE UndoTarget \/ UndoRemoved \/ UndoClear \/ UndoCopy
    BY <1>0, <2>6, UndoSound
  <2> QED
    BY <1>3, <2>1, <2>2, <2>3, <2>4, <2>5, <2>6 DEF Removal
<1>4. CASE User \/ Environment
  BY <1>0, <1>4, OutsideSound
<1> QED
  BY <1>1, <1>2, <1>3, <1>4 DEF Next, Worker

\* As long as the process has not died, no rollback was reported incomplete, the clock was not
\* set back and no history entry was deleted alone, a state.json that the next backup would use
\* describes the last archive: its record is there, names the same base, and the files are
\* those its backup scanned.  Each hypothesis is needed.
THEOREM StateIsTrue ==
  ASSUME "HistoryOnly" \notin Deletions
  PROVE  Spec => [](crashes = 0 /\ setbacks = 0 => StateDescribesLast)
<1>1. Init => Undoable /\ StateSound
  BY DEF Init, Undoable, Numbered, StateSound, InOrder, Fits, Undoing, RemovalSteps, UndoSteps,
         BackupSteps
<1>2. StateSound => (crashes = 0 /\ setbacks = 0 => StateDescribesLast)
  BY DEF StateSound, Steady, Calm, StateDescribesLast, ChainUsable, HasState, BasePresent, Fits,
         LastFits
<1>3. Typed /\ Typed' /\ Undoable /\ StateSound /\ [Next]_vars => StateSound'
  BY StateSoundStep
<1> QED
  BY <1>1, <1>2, <1>3, InitTyped, TypedStep, UndoableStep, PTL DEF Spec

-----------------------------------------------------------------------------
(* A restore gives back what was saved.  First what the restore plan makes *)
(* of a chain whose links add up, then that they always do.                *)

\* One step of the walk from an archive to the oldest link of its chain.
Grown(c) ==
    IF Head(c) \in DOMAIN records /\ ~FullLike(Head(c)) /\ records[Head(c)].prev # NoName
    THEN <<records[Head(c)].prev>> \o c
    ELSE c

WalkUpTo(w, n, last) == w = [k \in 0..last |-> IF k = 0 THEN <<n>> ELSE Grown(w[k - 1])]

\* The walk is a function that exists, whatever the records say.
LEMMA WalkExists ==
  ASSUME NEW n, NEW last \in Nat PROVE \E w : WalkUpTo(w, n, last)
<1> DEFINE S == {j \in Nat : \A w : ~WalkUpTo(w, n, j)}
<1> SUFFICES ASSUME S # {} PROVE FALSE
  OBVIOUS
<1>1. PICK m \in S : \A k \in S : m <= k
  BY LeastNumber
<1>2. CASE m = 0
  <2> DEFINE w == [k \in 0..0 |-> <<n>>]
  <2>1. w = [k \in 0..0 |-> IF k = 0 THEN <<n>> ELSE Grown(w[k - 1])]
    OBVIOUS
  <2> QED
    BY <1>1, <1>2, <2>1 DEF WalkUpTo
<1>3. CASE m # 0
  <2>1. m - 1 \in Nat /\ m - 1 \notin S
    BY <1>1, <1>3
  <2>2. PICK v : WalkUpTo(v, n, m - 1)
    BY <2>1
  <2> DEFINE w == [k \in 0..m |-> IF k = m THEN Grown(v[m - 1]) ELSE v[k]]
  <2>3. \A k \in 0..(m - 1) : w[k] = v[k] /\ v[k] = IF k = 0 THEN <<n>> ELSE Grown(v[k - 1])
    BY <2>1, <2>2 DEF WalkUpTo
  <2>4. \A k \in 0..m : w[k] = IF k = 0 THEN <<n>> ELSE Grown(w[k - 1])
    <3> TAKE k \in 0..m
    <3>1. CASE k = m
      <4>1. w[m] = Grown(v[m - 1]) /\ w[m - 1] = v[m - 1]
        BY <2>1, <2>3
      <4> QED
        BY <1>3, <3>1, <4>1
    <3>2. CASE k # m
      <4>1. k \in 0..(m - 1) /\ (k # 0 => k - 1 \in 0..(m - 1))
        BY <2>1, <3>2
      <4> HIDE DEF w
      <4> QED
        BY <2>3, <4>1
    <3> QED
      BY <3>1, <3>2
  <2>5. w = [k \in 0..m |-> w[k]]
    OBVIOUS
  <2> HIDE DEF w
  <2>6. w = [k \in 0..m |-> IF k = 0 THEN <<n>> ELSE Grown(w[k - 1])]
    BY <2>4, <2>5
  <2> QED
    BY <1>1, <2>6 DEF WalkUpTo
<1> QED
  BY <1>2, <1>3

\* The chain of an archive is what the walk has reached after MaxBackups steps.
LEMMA ChainIsWalk ==
  ASSUME NEW n
  PROVE  \E w : /\ ChainTo(n) = w[MaxBackups] /\ w[0] = <<n>>
                /\ \A k \in 1..MaxBackups : w[k] = Grown(w[k - 1])
<1> DEFINE w == CHOOSE v : WalkUpTo(v, n, MaxBackups)
<1>0. MaxBackups \in Nat
  BY BoundsAssumption
<1>1. ChainTo(n) = w[MaxBackups]
  BY DEF ChainTo, WalkUpTo, Grown
<1>2. WalkUpTo(w, n, MaxBackups)
  BY <1>0, WalkExists
<1> HIDE DEF w
<1>3. \A k \in 0..MaxBackups : w[k] = IF k = 0 THEN <<n>> ELSE Grown(w[k - 1])
  BY <1>2 DEF WalkUpTo
<1> QED
  BY <1>0, <1>1, <1>3

\* A chain ends with its archive, and every link but the first names the one before.
Shaped(c, n) ==
    /\ c \in Seq(Names) /\ c # <<>>
    /\ c[Len(c)] = n
    /\ \A k \in 2..Len(c) :
          c[k] \in DOMAIN records /\ ~FullLike(c[k]) /\ records[c[k]].prev = c[k - 1]

\* The walk keeps that shape.
LEMMA GrownShaped ==
  ASSUME Typed, NEW n, NEW c, Shaped(c, n) PROVE Shaped(Grown(c), n)
<1> DEFINE p == records[Head(c)].prev
           longer == <<p>> \o c
<1>1. c \in Seq(Names) /\ Len(c) \in Nat \ {0} /\ Head(c) = c[1]
  BY DEF Shaped
<1>2. CASE Head(c) \in DOMAIN records /\ ~FullLike(Head(c)) /\ p # NoName
  <2>1. p \in Names
    <3>1. records \in Maps(Names, Record)
      BY DEF Typed, TypedDisk
    <3>2. records[Head(c)] \in Record
      BY <1>2, <3>1, MapElim
    <3> QED
      BY <1>2, <3>2 DEF Record, NamesOrNone
  <2>2. longer \in Seq(Names) /\ Len(longer) = Len(c) + 1
    BY <1>1, <2>1
  <2>3. longer[1] = p /\ \A k \in 2..(Len(c) + 1) : longer[k] = c[k - 1]
    BY <1>1, <2>1
  <2>4. Grown(c) = longer
    BY <1>2 DEF Grown
  <2> HIDE DEF longer, p
  <2>5. longer # <<>> /\ longer[Len(longer)] = n
    BY <1>1, <2>2, <2>3 DEF Shaped
  <2>6. ASSUME NEW k \in 2..Len(longer)
        PROVE  /\ longer[k] \in DOMAIN records /\ ~FullLike(longer[k])
               /\ records[longer[k]].prev = longer[k - 1]
    <3>1. CASE k = 2
      <4>1. longer[2] = c[1]
        BY <1>1, <2>3
      <4> QED
        BY <1>1, <1>2, <2>3, <3>1, <4>1 DEF p
    <3>2. CASE k # 2
      <4>1. k - 1 \in 2..Len(c) /\ k - 1 \in 2..(Len(c) + 1) /\ longer[k] = c[k - 1] /\ longer[k - 1] = c[(k - 1) - 1]
        BY <1>1, <2>2, <2>3, <3>2
      <4> QED
        BY <4>1 DEF Shaped
    <3> QED
      BY <3>1, <3>2
  <2> QED
    BY <2>2, <2>4, <2>5, <2>6 DEF Shaped
<1>3. CASE ~(Head(c) \in DOMAIN records /\ ~FullLike(Head(c)) /\ p # NoName)
  BY <1>3 DEF Grown
<1> QED
  BY <1>2, <1>3

\* So the chain of an archive has it.
LEMMA ChainShaped ==
  ASSUME Typed, NEW n \in Names PROVE Shaped(ChainTo(n), n)
<1>1. PICK w : /\ ChainTo(n) = w[MaxBackups] /\ w[0] = <<n>>
               /\ \A k \in 1..MaxBackups : w[k] = Grown(w[k - 1])
  BY ChainIsWalk
<1>2. MaxBackups \in Nat
  BY BoundsAssumption
<1>3. Shaped(<<n>>, n)
  BY DEF Shaped
<1> DEFINE S == {k \in 0..MaxBackups : ~Shaped(w[k], n)}
<1>4. S = {}
  <2> SUFFICES ASSUME S # {} PROVE FALSE
    OBVIOUS
  <2>0. S \in SUBSET Nat
    BY <1>2
  <2>1. PICK m \in S : \A k \in S : m <= k
    BY <2>0, LeastNumber
  <2>2. m # 0
    BY <1>1, <1>3, <2>1
  <2>3. m \in 1..MaxBackups /\ m - 1 \in 0..MaxBackups /\ m - 1 \notin S
    BY <1>2, <2>1, <2>2
  <2>4. Shaped(w[m - 1], n) /\ w[m] = Grown(w[m - 1])
    BY <1>1, <2>3
  <2> QED
    BY <2>1, <2>4, GrownShaped
<1> QED
  BY <1>1, <1>2, <1>4

\* What there was before an archive: nothing, or what the one it follows has saved (s is what
\* each backup scanned).
Earlier(s, n, r) == IF FullLike(n) THEN Empty ELSE s[r.prev.id]

\* An archive and its record lead from one world to another.
Leads(r, files, old, new) ==
    \A f \in Files : /\ new[f] = Applied(r, files, f, old[f])
                     /\ f \in r.added => old[f] = Absent

\* A Smart archive follows the entry before it in the history h.
Follows(h, n, r) ==
    ~FullLike(n) =>
        /\ r.prev \in Names /\ r.prev.id < n.id
        /\ r.prev.id \in DOMAIN h /\ h[r.prev.id].kind = r.prev.kind
        /\ \A k \in DOMAIN h : ~(r.prev.id < k /\ k < n.id)

\* It also holds what its backup has seen, unless 7-Zip read other files (t).
Linked(h, s, t, n, r, files) ==
    /\ Follows(h, n, r)
    /\ n.id \notin t => Leads(r, files, Earlier(s, n, r), s[n.id])

ChainTrue ==
    \A n \in DOMAIN archives :
        Listed(n) => /\ n \in DOMAIN records
                     /\ Linked(history, scanned, torn, n, records[n], archives[n])

\* In a chain that is complete every link is in the history.
LEMMA LinksListed ==
  ASSUME ChainTrue, NEW n, Listed(n), NEW c, Shaped(c, n),
         Links(c) \subseteq DOMAIN archives \cap DOMAIN records
  PROVE  \A k \in 1..Len(c) : Listed(c[k])
<1>1. Len(c) \in Nat \ {0} /\ DOMAIN c = 1..Len(c)
  BY DEF Shaped
<1> DEFINE S == {d \in 0..(Len(c) - 1) : ~Listed(c[Len(c) - d])}
<1>2. S = {}
  <2> SUFFICES ASSUME S # {} PROVE FALSE
    OBVIOUS
  <2>0. S \in SUBSET Nat
    BY <1>1
  <2>1. PICK d \in S : \A e \in S : d <= e
    BY <2>0, LeastNumber
  <2>2. d # 0
    BY <1>1, <2>1 DEF Shaped
  <2>3. d - 1 \in 0..(Len(c) - 1) /\ d - 1 \notin S
    BY <1>1, <2>1, <2>2
  <2> DEFINE k == Len(c) - (d - 1)
  <2>4. k \in 2..Len(c) /\ k \in DOMAIN c /\ Len(c) - d = k - 1 /\ Listed(c[k])
    BY <1>1, <2>1, <2>2, <2>3
  <2> HIDE DEF k
  <2>5. c[k] \in DOMAIN archives \cap DOMAIN records
    BY <2>4 DEF Links
  <2>6. ~FullLike(c[k]) /\ records[c[k]].prev = c[k - 1]
    BY <2>4 DEF Shaped
  <2>7. Listed(c[k - 1])
    BY <2>4, <2>5, <2>6 DEF ChainTrue, Linked, Follows, Listed
  <2> QED
    BY <2>1, <2>4, <2>7
<1> QED
  <2> TAKE k \in 1..Len(c)
  <2>1. Len(c) - k \in 0..(Len(c) - 1) /\ Len(c) - (Len(c) - k) = k
    BY <1>1
  <2> QED
    BY <1>2, <2>1

\* Every link of a complete chain leads from the world of the link before it to its own.
Adding(c) ==
    /\ \A f \in Files :
          scanned[c[1].id][f] = Applied(records[c[1]], archives[c[1]], f, Absent)
    /\ \A k \in 2..Len(c), f \in Files :
          scanned[c[k].id][f] = Applied(records[c[k]], archives[c[k]], f, scanned[c[k - 1].id][f])

\* That holds for every chain that a restore accepts, unless 7-Zip read other files.
LEMMA LinksAdd ==
  ASSUME ChainTrue, NEW n, Listed(n), NEW c, Shaped(c, n), FullLike(Head(c)),
         Links(c) \subseteq DOMAIN archives \cap DOMAIN records,
         \A m \in Links(c) : m.id \notin torn
  PROVE  Adding(c)
<1>1. Len(c) \in Nat \ {0} /\ DOMAIN c = 1..Len(c) /\ Head(c) = c[1]
  BY DEF Shaped
<1>2. ASSUME NEW k \in 1..Len(c)
      PROVE  Leads(records[c[k]], archives[c[k]], Earlier(scanned, c[k], records[c[k]]), scanned[c[k].id])
  <2>1. c[k] \in Links(c)
    BY <1>1, <1>2 DEF Links
  <2>2. Listed(c[k])
    BY LinksListed, <1>2
  <2> QED
    BY <2>1, <2>2 DEF ChainTrue, Linked
<1>3. ASSUME NEW f \in Files
      PROVE  scanned[c[1].id][f] = Applied(records[c[1]], archives[c[1]], f, Absent)
  <2>1. Earlier(scanned, c[1], records[c[1]])[f] = Absent
    BY <1>1 DEF Earlier, Empty
  <2>2. 1 \in 1..Len(c)
    BY <1>1
  <2> QED
    BY <1>2, <2>1, <2>2 DEF Leads
<1>4. ASSUME NEW k \in 2..Len(c), NEW f \in Files
      PROVE  scanned[c[k].id][f] = Applied(records[c[k]], archives[c[k]], f, scanned[c[k - 1].id][f])
  <2>1. Earlier(scanned, c[k], records[c[k]]) = scanned[c[k - 1].id]
    BY DEF Shaped, Earlier
  <2>2. k \in 1..Len(c)
    BY <1>1
  <2> QED
    BY <1>2, <2>1, <2>2 DEF Leads
<1> QED
  BY <1>3, <1>4 DEF Adding

\* The last link that changed a file decides what a restore puts there, which is what the
\* archive's own backup has seen.
LEMMA RestoredIsScanned ==
  ASSUME NEW n, NEW c, Shaped(c, n), Adding(c), NEW f \in Files,
         records[c[1]].full = Touched(c[1])
  PROVE  RestoredFile(c, f) = scanned[n.id][f]
<1> DEFINE L == Len(c)
           changes == {k \in DOMAIN c :
                         IF k = 1 THEN f \in records[c[k]].full
                         ELSE f \in Touched(c[k]) \cup records[c[k]].deleted}
           last == CHOOSE k \in changes : \A m \in changes : m <= k
           value(k) == scanned[c[k].id][f]
<1>1. L \in Nat \ {0} /\ DOMAIN c = 1..L /\ c[L] = n
  BY DEF Shaped
<1>2. RestoredFile(c, f) = IF changes = {} \/ (last > 1 /\ f \notin Touched(c[last])) THEN Absent
                           ELSE archives[c[last]][f]
  BY DEF RestoredFile
<1>3. value(1) = Applied(records[c[1]], archives[c[1]], f, Absent)
  BY DEF Adding
<1>4. \A k \in 2..L : value(k) = Applied(records[c[k]], archives[c[k]], f, value(k - 1))
  BY DEF Adding
<1>5. \A k \in 2..L : k \notin changes => value(k) = value(k - 1)
  BY <1>1, <1>4 DEF Applied, Touched
<1>6. 1 \notin changes => value(1) = Absent
  BY <1>1, <1>3 DEF Applied, Touched
<1> HIDE DEF value
<1>7. CASE changes = {}
  <2> DEFINE S == {k \in 1..L : value(k) # Absent}
  <2> HIDE DEF changes
  <2>1. S = {}
    <3> SUFFICES ASSUME S # {} PROVE FALSE
      OBVIOUS
    <3>0. S \in SUBSET Nat
      BY <1>1
    <3>1. PICK k \in S : \A m \in S : k <= m
      BY <3>0, LeastNumber
    <3>2. k # 1
      BY <1>6, <1>7, <3>1
    <3>3. k \in 2..L /\ k - 1 \in 1..L /\ k - 1 \notin S
      BY <1>1, <3>1, <3>2
    <3> QED
      BY <1>5, <1>7, <3>1, <3>3
  <2>2. value(L) = Absent
    BY <1>1, <2>1
  <2> QED
    BY <1>1, <1>2, <1>7, <2>2 DEF value
<1>8. CASE changes # {}
  <2>1. \E k \in changes : \A m \in changes : m <= k
    <3> DEFINE D == {d \in 0..L : L - d \in changes}
    <3>1. \A k \in changes : L - k \in D /\ k \in 1..L
      BY <1>1
    <3> HIDE DEF changes
    <3>2. D # {}
      BY <1>8, <3>1
    <3>0. D \in SUBSET Nat
      BY <1>1, <3>2
    <3>3. PICK d \in D : \A e \in D : d <= e
      BY <3>0, <3>2, LeastNumber
    <3>4. d \in 0..L /\ L - d \in changes
      BY <3>3
    <3>5. ASSUME NEW m \in changes PROVE m <= L - d
      <4>1. m \in 1..L /\ d <= L - m
        BY <3>1, <3>3
      <4> HIDE DEF D, L
      <4> QED
        BY <1>1, <3>4, <4>1
    <3> QED
      BY <3>4, <3>5
  <2>2. last \in changes /\ \A m \in changes : m <= last
    BY <2>1
  <2>3. last \in 1..L
    BY <1>1, <2>2
  <2> HIDE DEF last
  <2>4. value(last) = IF last > 1 /\ f \notin Touched(c[last]) THEN Absent ELSE archives[c[last]][f]
    <3>1. CASE last = 1
      BY <1>3, <2>2, <3>1 DEF Applied, Touched
    <3>2. CASE last # 1
      <4>1. last \in 2..L /\ last > 1
        BY <1>1, <2>3, <3>2
      <4>2. f \in Touched(c[last]) \cup records[c[last]].deleted
        BY <2>2, <3>2
      <4> QED
        BY <1>4, <4>1, <4>2 DEF Applied, Touched
    <3> QED
      BY <3>1, <3>2
  <2> HIDE DEF changes
  <2> DEFINE S == {k \in last..L : value(k) # value(last)}
  <2>5. S = {}
    <3> SUFFICES ASSUME S # {} PROVE FALSE
      OBVIOUS
    <3>0. S \in SUBSET Nat
      BY <1>1, <2>3
    <3>1. PICK k \in S : \A m \in S : k <= m
      BY <3>0, LeastNumber
    <3>2. k # last
      BY <3>1
    <3>3. k \in 2..L /\ k - 1 \in last..L /\ k - 1 \notin S /\ k > last
      BY <1>1, <2>3, <3>1, <3>2
    <3>4. k \notin changes
      BY <1>1, <2>2, <2>3, <3>1, <3>3
    <3> QED
      BY <1>5, <3>1, <3>3, <3>4
  <2>6. value(L) = value(last)
    BY <1>1, <2>3, <2>5
  <2> QED
    BY <1>1, <1>2, <1>8, <2>4, <2>6 DEF value
<1> QED
  BY <1>7, <1>8

\* An archive that holds all its files is a restore of its own.
LEMMA FullRestores ==
  ASSUME Typed, ChainTrue, Described(records, archives, {}), NEW n \in DOMAIN archives,
         Listed(n), FullLike(n), n.id \notin torn
  PROVE  archives[n] = scanned[n.id]
<1>1. n \in Names /\ n.id \in Ids /\ archives[n] \in Contents /\ scanned[n.id] \in Contents
  <2>1. archives \in Maps(Names, Contents) /\ scanned \in [Ids -> Contents]
    BY DEF Typed, TypedDisk, TypedWorld
  <2>2. n \in Names /\ archives[n] \in Contents
    BY <2>1, MapElim
  <2> QED
    BY <2>1, <2>2 DEF Names
<1>2. /\ Leads(records[n], archives[n], Empty, scanned[n.id])
      /\ Describes(records[n], archives[n])
  BY DEF ChainTrue, Linked, Earlier, Described, Fitting
<1>3. ASSUME NEW f \in Files PROVE archives[n][f] = scanned[n.id][f]
  BY <1>2 DEF Leads, Applied, Describes, Empty
<1> QED
  BY <1>1, <1>3 DEF Contents

\* A restore that the program accepts gives back what the archive's own backup has seen.
LEMMA ChainRestores ==
  ASSUME Typed, ChainTrue, Described(records, archives, {}), NEW n \in Names,
         Listed(n), Restorable(n), ~Tainted(n)
  PROVE  Restored(n) = scanned[n.id]
<1>0. n.id \notin torn
  BY DEF Tainted
<1>1. CASE FullLike(n)
  BY <1>0, <1>1, FullRestores DEF Restorable, Restored
<1>2. CASE ~FullLike(n)
  <2> DEFINE c == ChainTo(n)
  <2>1. /\ Links(c) \subseteq DOMAIN archives \cap DOMAIN records /\ FullLike(Head(c))
        /\ \A m \in Links(c) : m.id \notin torn
    BY <1>2 DEF Restorable, Tainted
  <2>2. Shaped(c, n)
    BY ChainShaped
  <2> HIDE DEF c
  <2>3. Adding(c)
    BY <2>1, <2>2, LinksAdd
  <2>4. records[c[1]].full = Touched(c[1])
    <3>1. Head(c) = c[1] /\ c[1] \in Links(c)
      BY <2>2 DEF Shaped, Links
    <3> QED
      BY <2>1, <3>1 DEF Described, Fitting, Touched
  <2>5. \A f \in Files : RestoredFile(c, f) = scanned[n.id][f]
    BY <2>2, <2>3, <2>4, RestoredIsScanned
  <2>6. scanned[n.id] \in Contents
    BY DEF Typed, TypedWorld, Names
  <2> QED
    BY <1>2, <2>5, <2>6 DEF Restored, Contents, c
<1> QED
  BY <1>1, <1>2

\* What a running backup has found out about the world.
JobDelta ==
    IF job.name.kind = "Smart"
    THEN /\ job.prev = job.old.last
         /\ job.added = Present(job.scan) \ Present(job.old.files)
         /\ job.modified = {f \in Present(job.scan) \cap Present(job.old.files) :
                              job.scan[f] # job.old.files[f]}
         /\ job.deleted = Present(job.old.files) \ Present(job.scan)
    ELSE job.added = Present(job.scan) /\ job.modified = {} /\ job.deleted = {}

JobTrue ==
    /\ pc \in {"archive", "record", "state", "history"} => JobDelta /\ JobFits
    /\ pc \in {"record", "state", "history"} =>
          /\ ArchiveFits
          /\ job.name.id \notin torn => \A f \in job.files : archives[job.name][f] = job.scan[f]
    /\ pc \in {"state", "history"} => records[job.name] = NewRecord

\* The files of an archive when the removal began.
Original(n) ==
    IF n = trim.target THEN trim.targetFiles
    ELSE IF n = trim.next THEN trim.nextFiles ELSE archives[n]

\* The chain that an undo brings back.
SnapshotTrue ==
    \A n \in Around(DOMAIN archives) :
        Listed(n) => /\ n \in DOMAIN trim.records
                     /\ Linked(history, scanned, torn, n, trim.records[n], Original(n))

\* No Smart archive follows one that is removed without a merge.
NoneFollows ==
    \A n \in Names : Listed(n) /\ n.kind = "Smart" /\ trim.target.id < n.id =>
        \E k \in DOMAIN history : trim.target.id < k /\ k < n.id

\* The merged archive leads from the world before the two to the world of the later one.
FinalEarlier ==
    IF FullLike(trim.final) THEN Empty ELSE scanned[trim.records[trim.target].prev.id]

FinalTrue ==
    /\ ~FullLike(trim.final) => records[trim.final].prev = trim.records[trim.target].prev
    /\ trim.next.id \notin torn =>
          Leads(records[trim.final], archives[trim.final], FinalEarlier, scanned[trim.next.id])

\* The other records are those of the snapshot, once redirected to the merged archive.
OthersKept(moved) ==
    /\ DOMAIN records = (DOMAIN trim.records \ {trim.target, trim.next}) \cup {trim.final}
    /\ \A n \in DOMAIN records \ {trim.final} :
          /\ records[n].added = trim.records[n].added
          /\ records[n].modified = trim.records[n].modified
          /\ records[n].deleted = trim.records[n].deleted
          /\ records[n].prev = IF moved THEN Redirected(trim.records[n].prev)
                               ELSE trim.records[n].prev

MergeTrue ==
    /\ pc \in {"mergeRename", "mergeRecord", "mergeRefs", "mergeState", "mergeRemove", "commit"} =>
          (trim.target.id \in torn => trim.next.id \in torn)
    /\ pc \in {"mergeRefs", "mergeState", "mergeRemove", "commit"} =>
          FinalTrue /\ OthersKept(pc # "mergeRefs")

RemovalTrue ==
    /\ SnapshotTrue
    /\ trim.next = NoName => NoneFollows
    /\ trim.next # NoName => MergeTrue

ChainSound ==
    Steady =>
        /\ pc \notin Undoing => ChainTrue
        /\ pc \in BackupSteps => JobTrue
        /\ pc \in Undoing => RemovalTrue

\* An archive stays linked as long as the one before it stays in the history, none comes
\* between them, and what the two have seen is not forgotten.
LEMMA LinkedStays ==
  ASSUME NEW h, NEW h2, NEW s, NEW s2, NEW t, NEW t2, NEW n, NEW r, NEW files,
         Linked(h, s, t, n, r, files),
         ~FullLike(n) => r.prev.id \in DOMAIN h2 /\ h2[r.prev.id].kind = h[r.prev.id].kind,
         \A k \in DOMAIN h2 \ DOMAIN h : ~(k < n.id),
         s2[n.id] = s[n.id],
         ~FullLike(n) => s2[r.prev.id] = s[r.prev.id],
         n.id \in t => n.id \in t2
  PROVE  Linked(h2, s2, t2, n, r, files)
  BY DEF Linked, Follows, Earlier

\* Entries that differ in their marks only.
SameKinds ==
    /\ DOMAIN history' = DOMAIN history
    /\ \A i \in DOMAIN history : history'[i].kind = history[i].kind

\* They leave an archive linked.
LEMMA SameLinks ==
  ASSUME NEW n, NEW r, NEW files, SameKinds, scanned' = scanned, n.id \in torn => n.id \in torn',
         Linked(history, scanned, torn, n, r, files)
  PROVE  Linked(history', scanned', torn', n, r, files)
  BY DEF SameKinds, Linked, Follows, Earlier

\* The chain is the same when archives and records are, or when some of them are gone together.
LEMMA ChainStays ==
  ASSUME ChainTrue, SameKinds, UNCHANGED <<scanned, torn>>,
         \A n \in DOMAIN archives' : Listed(n) =>
            /\ n \in DOMAIN archives /\ archives'[n] = archives[n]
            /\ n \in DOMAIN records => n \in DOMAIN records' /\ records'[n] = records[n]
  PROVE  ChainTrue'
<1>1. \A n : Listed(n)' => Listed(n)
  BY DEF Listed, SameKinds
<1> SUFFICES ASSUME NEW n \in DOMAIN archives', Listed(n)'
             PROVE  n \in DOMAIN records' /\ Linked(history', scanned', torn', n, records'[n], archives'[n])
  BY DEF ChainTrue
<1>2. Listed(n) /\ n \in DOMAIN archives /\ archives'[n] = archives[n]
  BY <1>1
<1>3. n \in DOMAIN records' /\ records'[n] = records[n]
  BY <1>2 DEF ChainTrue
<1> QED
  BY <1>2, <1>3, SameLinks DEF ChainTrue

\* A step that changes none of it but the marks keeps what a removal relies on.
LEMMA RemovalStays ==
  ASSUME RemovalTrue, SameKinds, UNCHANGED <<archives, records, scanned, torn, trim>>,
         pc' = pc \/ pc' = "undoTarget"
  PROVE  RemovalTrue'
<1>1. \A n : Listed(n)' <=> Listed(n)
  BY DEF Listed, SameKinds
<1>2. SnapshotTrue'
  <2> SUFFICES ASSUME NEW n \in Around(DOMAIN archives)', Listed(n)'
               PROVE  /\ n \in DOMAIN trim'.records
                      /\ Linked(history', scanned', torn', n, trim'.records[n], Original(n)')
    BY DEF SnapshotTrue
  <2>1. n \in Around(DOMAIN archives) /\ Listed(n) /\ Original(n)' = Original(n)
    BY <1>1 DEF Around, Original
  <2> QED
    BY <2>1, SameLinks DEF RemovalTrue, SnapshotTrue
<1>3. NoneFollows => NoneFollows'
  BY <1>1 DEF NoneFollows, SameKinds
<1>4. FinalTrue => FinalTrue'
  BY DEF FinalTrue, FinalEarlier
<1>5. ASSUME NEW moved, OthersKept(moved) PROVE OthersKept(moved)'
  BY <1>5 DEF OthersKept, Redirected
<1>6. MergeTrue => MergeTrue'
  <2>1. CASE pc' = pc
    BY <1>4, <1>5, <2>1 DEF MergeTrue
  <2>2. CASE pc' = "undoTarget"
    BY <2>2 DEF MergeTrue
  <2> QED
    BY <2>1, <2>2
<1> QED
  BY <1>2, <1>3, <1>6 DEF RemovalTrue

\* The new archive leads from the world the last backup has seen to the one this backup scanned.
LEMMA NewLeads ==
  ASSUME Typed, JobInStep, JobTrue, pc = "history"
  PROVE  Linked(history, scanned, torn, job.name, NewRecord, archives[job.name])
<1> DEFINE files == archives[job.name]
           old == Earlier(scanned, job.name, NewRecord)
<1>1. /\ JobDelta /\ JobFits /\ ArchiveFits /\ job.name \in Names /\ job.name.id \in Nat
      /\ scanned[job.name.id] = job.scan /\ BaseChosen
      /\ Fits(job.old, records, DOMAIN archives)
      /\ job.old # NoState => job.old.last.id < job.name.id
  BY Numbers DEF JobTrue, JobInStep, BackupSteps, Typed, TypedWork
<1>2. /\ NewRecord.prev = job.prev /\ NewRecord.added = job.added
      /\ NewRecord.modified = job.modified /\ NewRecord.deleted = job.deleted
  BY DEF NewRecord
<1>3. ASSUME NEW f \in Files
      PROVE  /\ files[f] # Absent <=> f \in job.added \cup job.modified
             /\ job.name.id \notin torn /\ f \in job.added \cup job.modified => files[f] = job.scan[f]
  BY <1>1 DEF ArchiveFits, JobFits, JobTrue
<1>4. CASE job.name.kind = "Smart"
  <2>1. /\ job.old # NoState /\ job.old.last \in DOMAIN archives /\ job.prev = job.old.last
        /\ job.name # job.base
    <3>1. ~FullLike(job.name) /\ job.old # NoState /\ job.base = job.old.base /\ job.old.last \in DOMAIN archives
      BY <1>1, <1>4 DEF BaseChosen, FullLike
    <3>2. FullLike(job.base)
      BY <1>1, <3>1 DEF Fits, BaseFits
    <3> QED
      BY <1>1, <1>4, <3>1, <3>2 DEF JobDelta
  <2>2. Newest(job.old) /\ LastFits(job.old, records)
    BY <1>1, <2>1 DEF Fits
  <2>3. Follows(history, job.name, NewRecord)
    <3>1. /\ job.prev \in Names /\ job.prev.id \in DOMAIN history
          /\ history[job.prev.id].kind = job.prev.kind
          /\ \A k \in DOMAIN history : k <= job.prev.id
      BY <2>1, <2>2 DEF Newest, LastFits, Listed
    <3> QED
      BY <1>1, <1>2, <2>1, <3>1, Numbers DEF Follows
  <2>4. old = job.old.files
    BY <1>2, <1>4, <2>1, <2>2 DEF Earlier, FullLike, LastFits
  <2> HIDE DEF files, old
  <2>5. job.name.id \notin torn => Leads(NewRecord, files, old, job.scan)
    BY <1>1, <1>2, <1>3, <1>4, <2>4 DEF Leads, Applied, JobDelta, Present
  <2> QED
    BY <1>1, <2>3, <2>5 DEF Linked, files, old
<1>5. CASE job.name.kind # "Smart"
  <2>1. FullLike(job.name) /\ old = Empty
    BY <1>1, <1>5, Numbers DEF FullLike, Kinds, Earlier
  <2> HIDE DEF files, old
  <2>2. job.name.id \notin torn => Leads(NewRecord, files, old, job.scan)
    BY <1>1, <1>2, <1>3, <1>5, <2>1 DEF Leads, Applied, JobDelta, Present, Empty
  <2> QED
    BY <1>1, <2>1, <2>2 DEF Linked, Follows, files, old
<1> QED
  BY <1>4, <1>5

\* A backup scans the world against what state.json says of the last one.
LEMMA StartBackupTrue ==
  ASSUME Typed, Steady, ChainSound, NEW mode \in Modes, StartBackup(mode) PROVE ChainSound'
<1> USE DEF Undoing, RemovalSteps, UndoSteps, BackupSteps
<1>1. UNCHANGED <<archives, records, history, scanned, torn>> /\ pc = "idle" /\ pc' = "archive"
  BY DEF StartBackup, disk, ghosts
<1>2. ChainTrue'
  BY <1>1, ChainStays DEF ChainSound, SameKinds
<1> DEFINE kind == KindFor(mode)
           smart == kind = "Smart"
<1>3. /\ job'.name = [id |-> nextId, kind |-> kind] /\ job'.old = state /\ job'.scan = world
      /\ job'.prev = IF smart THEN state.last ELSE NoName
      /\ job'.added = IF smart THEN Added ELSE Present(world)
      /\ job'.modified = IF smart THEN Modified ELSE {}
      /\ job'.deleted = IF smart THEN Deleted ELSE {}
  BY DEF StartBackup
<1>4. smart => ChainUsable
  BY ModesAssumption DEF KindFor, ForceFull
<1> HIDE DEF kind
<1>5. JobDelta'
  BY <1>3, <1>4 DEF JobDelta, Added, Modified, Deleted
<1> QED
  BY <1>1, <1>2, <1>5, StartBackupFits DEF ChainSound, JobTrue

\* The steps of a backup leave the chain alone; its commit adds a link to it.
LEMMA BackupTrue ==
  ASSUME Typed, Typed', Steady, Steady', StateSound, ChainSound, Backup PROVE ChainSound'
<1> USE DEF Undoing, RemovalSteps, UndoSteps, BackupSteps
<1>0. /\ InOrder /\ JobInStep /\ pc \in BackupSteps /\ job.name \in Names
      /\ job.name.id \in Ids /\ job.name.id \in Nat /\ DOMAIN history \subseteq Nat
      /\ ChainTrue /\ JobTrue
      /\ \A i \in DOMAIN history : i < job.name.id
  <2>1. pc \in BackupSteps
    BY DEF Backup, WriteArchive, ArchiveFails, SaveRecord, SaveState, StateSnapshotFails,
           MetadataFails, AddHistory, AddHistoryFails, RestoreState, DropRecord, DropArchive,
           RollbackIncomplete
  <2>2. job.name \in Names
    BY <2>1 DEF Typed, TypedWork
  <2>3. InOrder /\ JobInStep
    BY <2>1 DEF StateSound
  <2> QED
    BY <2>1, <2>2, <2>3, Numbers DEF ChainSound, JobInStep, Names
<1>01. \A n : Listed(n) => n # job.name /\ n.id < job.name.id
  BY <1>0 DEF Listed
<1>1. CASE WriteArchive
  <2>1. /\ pc = "archive" /\ pc' = "record" /\ UNCHANGED <<records, history, job>>
        /\ scanned' = [scanned EXCEPT ![job.name.id] = job.scan]
        /\ torn' = IF \E f \in job.files : world[f] # job.scan[f]
                   THEN torn \cup {job.name.id} ELSE torn
    BY <1>1 DEF WriteArchive
  <2> DEFINE new == [f \in Files |-> IF f \in job.files THEN world[f] ELSE Absent]
  <2>2. /\ DOMAIN archives' = DOMAIN archives \cup {job.name} /\ archives'[job.name] = new
        /\ \A n \in DOMAIN archives \ {job.name} : archives'[n] = archives[n]
    BY <1>1 DEF WriteArchive, With
  <2>3. \A i : i < job.name.id => scanned'[i] = scanned[i]
    BY <1>0, <2>1 DEF Typed, TypedWorld
  <2>4. ChainTrue'
    <3> SUFFICES ASSUME NEW n \in DOMAIN archives', Listed(n)'
                 PROVE  /\ n \in DOMAIN records'
                        /\ Linked(history', scanned', torn', n, records'[n], archives'[n])
      BY DEF ChainTrue
    <3>1. Listed(n) /\ n # job.name /\ n.id < job.name.id
      BY <1>01, <2>1 DEF Listed
    <3>2. n \in DOMAIN archives /\ archives'[n] = archives[n]
      BY <2>2, <3>1
    <3> HIDE DEF new
    <3>3. n \in DOMAIN records /\ Linked(history, scanned, torn, n, records[n], archives[n])
      BY <1>0, <3>1, <3>2 DEF ChainTrue
    <3>4. ~FullLike(n) => records[n].prev.id < job.name.id /\ records[n].prev.id \in DOMAIN history
      BY <1>0, <3>3 DEF Linked, Follows
    <3>5. /\ scanned'[n.id] = scanned[n.id]
          /\ n.id \in torn => n.id \in torn'
          /\ ~FullLike(n) => scanned'[records[n].prev.id] = scanned[records[n].prev.id]
      BY <2>1, <2>3, <3>1, <3>4
    <3>6. /\ ~FullLike(n) => /\ records[n].prev.id \in DOMAIN history'
                              /\ history'[records[n].prev.id].kind = history[records[n].prev.id].kind
          /\ \A k \in DOMAIN history' \ DOMAIN history : ~(k < n.id)
      BY <2>1, <3>4
    <3>7. Linked(history', scanned', torn', n, records[n], archives[n])
      BY <3>3, <3>5, <3>6, LinkedStays
    <3> QED
      BY <2>1, <3>2, <3>3, <3>7
  <2>5. JobTrue'
    <3>1. JobDelta' /\ JobFits'
      BY <1>0, <2>1 DEF JobTrue, JobDelta, JobFits
    <3>2. job.name.id \notin torn' => \A f \in job.files : world[f] = job.scan[f]
      BY <2>1
    <3>3. job.files \subseteq Files /\ \A f \in job.files : world[f] # Absent
      BY <1>1 DEF WriteArchive, Present
    <3>4. job.name.id < nextId'
      BY <1>0, <1>1, <2>1 DEF WriteArchive, Typed, TypedWork
    <3>5. ArchiveFits'
      BY <2>1, <2>2, <3>3, <3>4 DEF ArchiveFits
    <3> QED
      BY <2>1, <2>2, <3>1, <3>2, <3>3, <3>5 DEF JobTrue
  <2> QED
    BY <2>1, <2>4, <2>5 DEF ChainSound
<1>2. CASE SaveRecord \/ SaveState \/ AddHistoryFails \/ RestoreState \/ ArchiveFails
             \/ StateSnapshotFails \/ MetadataFails \/ DropRecord \/ DropArchive
  <2>1. /\ UNCHANGED <<history, scanned, torn>> /\ pc' \notin Undoing
        /\ pc' \in BackupSteps => job' = job
        /\ DOMAIN archives' \subseteq DOMAIN archives
        /\ \A n \in DOMAIN archives' : archives'[n] = archives[n]
        /\ \A n \in DOMAIN records \ {job.name} : n \in DOMAIN records' /\ records'[n] = records[n]
    BY <1>2
       DEF SaveRecord, SaveState, AddHistoryFails, RestoreState, ArchiveFails, StateSnapshotFails,
           MetadataFails, DropRecord, DropArchive, Finish, With, Without, disk, ghosts, env
  <2>2. ChainTrue'
    BY <1>0, <1>01, <2>1, ChainStays DEF SameKinds
  <2>3. ASSUME pc' \in BackupSteps PROVE JobTrue'
    <3>1. CASE SaveRecord
      <4>1. /\ pc = "record" /\ pc' = "state" /\ UNCHANGED <<archives, job, torn, nextId>>
            /\ records'[job.name] = NewRecord
        BY <3>1 DEF SaveRecord, With, ghosts
      <4> QED
        BY <1>0, <4>1 DEF JobTrue, JobDelta, JobFits, ArchiveFits, NewRecord
    <3>2. CASE SaveState
      <4>1. pc = "state" /\ pc' = "history" /\ UNCHANGED <<archives, records, job, torn, nextId>>
        BY <3>2 DEF SaveState, ghosts
      <4> QED
        BY <1>0, <4>1 DEF JobTrue, JobDelta, JobFits, ArchiveFits, NewRecord
    <3>3. CASE ~(SaveRecord \/ SaveState)
      <4>1. pc' \in {"restoreState", "dropRecord", "dropArchive"}
        BY <1>2, <2>3, <3>3
           DEF AddHistoryFails, RestoreState, ArchiveFails, StateSnapshotFails, MetadataFails,
               DropRecord, DropArchive, Finish
      <4> QED
        BY <4>1 DEF JobTrue
    <3> QED
      BY <3>1, <3>2, <3>3
  <2> QED
    BY <2>1, <2>2, <2>3 DEF ChainSound
<1>3. CASE AddHistory
  <2>1. /\ pc = "history" /\ pc' = "enforce" /\ UNCHANGED <<archives, records, scanned, torn>>
    BY <1>3 DEF AddHistory, ghosts
  <2>2. /\ DOMAIN history' = DOMAIN history \cup {job.name.id}
        /\ history'[job.name.id].kind = job.name.kind
        /\ \A i \in DOMAIN history \ {job.name.id} : history'[i] = history[i]
    BY <1>3 DEF AddHistory, With
  <2>3. ChainTrue'
    <3> SUFFICES ASSUME NEW n \in DOMAIN archives', Listed(n)'
                 PROVE  /\ n \in DOMAIN records'
                        /\ Linked(history', scanned', torn', n, records'[n], archives'[n])
      BY DEF ChainTrue
    <3>1. n \in Names
      BY <2>1, Numbers
    <3>2. CASE n.id = job.name.id
      <4>1. n = job.name
        BY <1>0, <2>2, <3>1, <3>2, NameDetermined DEF Listed
      <4>2. n \in DOMAIN records /\ records[n] = NewRecord
        BY <1>0, <2>1, <4>1 DEF JobTrue, JobInStep
      <4>3. Linked(history, scanned, torn, n, records[n], archives[n])
        BY <1>0, <2>1, <4>1, <4>2, NewLeads
      <4>4. ~FullLike(n) => records[n].prev.id \in DOMAIN history /\ records[n].prev.id # job.name.id
        BY <1>0, <4>3 DEF Linked, Follows
      <4>5. \A k \in DOMAIN history' \ DOMAIN history : ~(k < n.id)
        BY <1>0, <2>2, <4>1
      <4> QED
        BY <2>1, <2>2, <4>1, <4>2, <4>3, <4>4, <4>5, LinkedStays
    <3>3. CASE n.id # job.name.id
      <4>1. Listed(n) /\ n \in DOMAIN archives
        BY <2>1, <2>2, <3>3 DEF Listed
      <4>2. n \in DOMAIN records /\ Linked(history, scanned, torn, n, records[n], archives[n])
        BY <1>0, <4>1 DEF ChainTrue
      <4>3. ~FullLike(n) => records[n].prev.id \in DOMAIN history /\ records[n].prev.id # job.name.id
        BY <1>0, <4>2 DEF Linked, Follows
      <4>4. ~(job.name.id < n.id)
        BY <1>0, <1>01, <3>1, <4>1, Numbers
      <4> QED
        BY <2>1, <2>2, <4>2, <4>3, <4>4, LinkedStays
    <3> QED
      BY <3>2, <3>3
  <2> QED
    BY <2>1, <2>3 DEF ChainSound
<1>4. ~RollbackIncomplete
  BY DEF RollbackIncomplete, RollbackFault, Steady, Calm
<1> QED
  BY <1>1, <1>2, <1>3, <1>4 DEF Backup

\* A removal starts from the chain as it is.
LEMMA SnapshotTaken ==
  ASSUME ChainTrue, UNCHANGED <<archives, history, scanned, torn>>, trim'.records = records,
         Around(DOMAIN archives)' = DOMAIN archives,
         \A n \in DOMAIN archives : Original(n)' = archives[n]
  PROVE  SnapshotTrue'
  BY DEF ChainTrue, SnapshotTrue, Listed

\* An archive that goes without a merge is followed by a Full-like entry, if by any.
LEMMA NoSmartFollows ==
  ASSUME Typed, InOrder, SameEntries, Listed(trim.target), trim.target \in Names,
         \A j \in NextOf : FullLike(NameOf(trim.seen, j))
  PROVE  NoneFollows
<1> SUFFICES ASSUME NEW n \in Names, Listed(n), n.kind = "Smart", trim.target.id < n.id
             PROVE  \E k \in DOMAIN history : trim.target.id < k /\ k < n.id
  BY DEF NoneFollows
<1> DEFINE later == {k \in DOMAIN history : trim.target.id < k}
<1>1. later \in SUBSET Nat /\ n.id \in later
  BY Numbers DEF Listed
<1>2. PICK m \in later : \A k \in later : m <= k
  BY <1>1, LeastNumber
<1>3. m \in NextOf
  <2>1. \A k \in DOMAIN history : ~(trim.target.id < k /\ k < m)
    BY <1>1, <1>2
  <2> QED
    BY <1>2, <2>1, NextInOrder
<1>4. history[m].kind # "Smart"
  BY <1>2, <1>3 DEF SameEntries, NameOf, FullLike
<1> QED
  BY <1>1, <1>2, <1>4 DEF Listed

\* The names around the archives when a removal begins are theirs.
LEMMA StartAround ==
  ASSUME Typed, Steady, Undoable, StartDirect \/ StartMerge
  PROVE  Around(DOMAIN archives)' = DOMAIN archives
<1>0. UNCHANGED archives /\ pc = "remove" /\ trim \in Trim /\ trim.target \in Names
  BY DEF StartDirect, StartMerge, disk, Typed, TypedWork
<1>1. DOMAIN archives \subseteq Names /\ NoName \notin Names
  BY ArchiveNames, Vocabulary
<1>2. CASE StartDirect
  <2>1. /\ trim'.target = trim.target /\ trim'.next = NoName /\ trim'.final = NoName
        /\ trim.target \in DOMAIN archives
    BY <1>0, <1>2 DEF StartDirect, Snapshot, Trim
  <2> QED
    BY <1>0, <1>1, <2>1 DEF Around
<1>3. CASE StartMerge
  <2>1. PICK j \in NextOf :
          LET next == NameOf(trim.seen, j) IN
          /\ {next, trim.target} \subseteq DOMAIN archives \cap DOMAIN records
          /\ trim' = [Snapshot EXCEPT
                        !.next = next, !.nextFiles = archives[next], !.time = written[next.id],
                        !.final = IF FullLike(trim.target)
                                  THEN [next EXCEPT !.kind = "Full"] ELSE next]
    BY <1>3 DEF StartMerge
  <2> DEFINE next == NameOf(trim.seen, j)
  <2>2. /\ trim'.target = trim.target /\ trim'.next = next
        /\ trim'.final = IF FullLike(trim.target) THEN [next EXCEPT !.kind = "Full"] ELSE next
    BY <1>0, <2>1 DEF Snapshot, Trim
  <2>3. next \in DOMAIN archives /\ trim.target \in DOMAIN archives
    BY <2>1
  <2> HIDE DEF next
  <2>4. next \in Names /\ trim'.final.id = next.id
    BY <1>1, <2>2, <2>3 DEF Names
  <2>5. trim'.final # next => trim'.final \notin DOMAIN archives
    BY <2>3, <2>4 DEF Undoable, Numbered, Steady, Calm
  <2> QED
    BY <1>0, <1>1, <2>2, <2>3, <2>5 DEF Around
<1> QED
  BY <1>2, <1>3

\* Choosing an archive leaves the chain alone and remembers it.
LEMMA ChoiceTrue ==
  ASSUME Typed, Steady, Undoable, StateSound, ChainSound,
         EndRound \/ PickOldest \/ Keep \/ StartDirect \/ StartMerge
  PROVE  ChainSound'
<1> USE DEF Undoing, RemovalSteps, UndoSteps, BackupSteps
<1>0. UNCHANGED <<archives, records, history, scanned, torn>> /\ pc \in {"enforce", "remove"}
  BY DEF EndRound, PickOldest, Keep, StartDirect, StartMerge, disk, ghosts
<1>01. /\ InOrder /\ SameEntries /\ trim \in Trim /\ ChainTrue
       /\ pc = "remove" => Listed(trim.target) /\ trim.target \in Names
  BY <1>0 DEF StateSound, ChainSound, Typed, TypedWork
<1>02. DOMAIN archives \subseteq Names /\ NoName \notin Names
  BY ArchiveNames, Vocabulary
<1>1. CASE EndRound \/ Keep \/ PickOldest
  <2>1. pc' \in {"idle", "remove"}
    BY <1>1 DEF EndRound, Keep, PickOldest, Finish
  <2>2. ChainTrue'
    BY <1>0, <1>01, ChainStays DEF SameKinds
  <2> QED
    BY <2>1, <2>2 DEF ChainSound
<1>2. CASE StartDirect
  <2>1. /\ trim'.target = trim.target /\ trim'.next = NoName /\ trim'.final = NoName
        /\ trim'.records = records /\ trim'.targetFiles = archives[trim.target]
        /\ pc = "remove" /\ pc' = "directArchive" /\ trim.target \in DOMAIN archives
    BY <1>01, <1>2 DEF StartDirect, Snapshot, Trim
  <2>2. Around(DOMAIN archives)' = DOMAIN archives
    BY <1>2, StartAround
  <2>3. \A n \in DOMAIN archives : Original(n)' = archives[n]
    BY <1>0, <1>02, <2>1 DEF Original
  <2>4. SnapshotTrue'
    BY <1>0, <1>01, <2>1, <2>2, <2>3, SnapshotTaken
  <2>5. NoneFollows
    BY <1>01, <1>2, <2>1, NoSmartFollows DEF StartDirect
  <2>6. NoneFollows'
    BY <1>0, <2>1, <2>5 DEF NoneFollows, Listed
  <2> QED
    BY <2>1, <2>4, <2>6 DEF ChainSound, RemovalTrue
<1>3. CASE StartMerge
  <2>1. PICK j \in NextOf :
          LET next == NameOf(trim.seen, j) IN
          /\ {next, trim.target} \subseteq DOMAIN archives \cap DOMAIN records
          /\ trim' = [Snapshot EXCEPT
                        !.next = next, !.nextFiles = archives[next], !.time = written[next.id],
                        !.final = IF FullLike(trim.target)
                                  THEN [next EXCEPT !.kind = "Full"] ELSE next]
    BY <1>3 DEF StartMerge
  <2> DEFINE next == NameOf(trim.seen, j)
  <2>2. /\ trim'.target = trim.target /\ trim'.next = next
        /\ trim'.final = IF FullLike(trim.target) THEN [next EXCEPT !.kind = "Full"] ELSE next
        /\ trim'.records = records
        /\ trim'.targetFiles = archives[trim.target] /\ trim'.nextFiles = archives[next]
    BY <1>01, <2>1 DEF Snapshot, Trim
  <2>3. pc' = "mergeReplace" /\ next \in DOMAIN archives /\ trim.target \in DOMAIN archives
    BY <1>3, <2>1 DEF StartMerge
  <2> HIDE DEF next
  <2>4. Around(DOMAIN archives)' = DOMAIN archives
    BY <1>3, StartAround
  <2>5. \A n \in DOMAIN archives : Original(n)' = archives[n]
    BY <1>0, <2>2 DEF Original
  <2>6. SnapshotTrue'
    BY <1>0, <1>01, <2>2, <2>4, <2>5, SnapshotTaken
  <2>7. trim'.next # NoName
    BY <1>02, <2>2, <2>3
  <2> QED
    BY <2>3, <2>6, <2>7 DEF ChainSound, RemovalTrue, MergeTrue
<1> QED
  BY <1>1, <1>2, <1>3

\* A step of a removal or of its undo keeps the snapshot true, as long as it leaves alone the
\* archives that the undo does not put back.
LEMMA SnapshotStays ==
  ASSUME SnapshotTrue, UNCHANGED <<history, scanned>>, torn \subseteq torn',
         UNCHANGED <<trim.target, trim.next, trim.final, trim.records, trim.targetFiles, trim.nextFiles>>,
         Around(DOMAIN archives)' = Around(DOMAIN archives),
         \A n \in Around(DOMAIN archives) \ {trim.target, trim.next} : archives'[n] = archives[n]
  PROVE  SnapshotTrue'
<1> SUFFICES ASSUME NEW n \in Around(DOMAIN archives), Listed(n)
             PROVE  /\ n \in DOMAIN trim'.records
                    /\ Linked(history', scanned', torn', n, trim'.records[n], Original(n)')
  BY DEF SnapshotTrue, Listed
<1>1. Original(n)' = Original(n)
  BY DEF Original
<1>2. n \in DOMAIN trim.records /\ Linked(history, scanned, torn, n, trim.records[n], Original(n))
  BY DEF SnapshotTrue
<1>3. Linked(history', scanned', torn', n, trim.records[n], Original(n))
  BY <1>2, SameLinks DEF SameKinds
<1> QED
  BY <1>1, <1>2, <1>3

\* The steps of a direct removal leave the rest of the chain as it was.
LEMMA DirectTrue ==
  ASSUME Typed, Steady, Undoable, StateSound, ChainSound, DirectArchive \/ DirectRecord
  PROVE  ChainSound'
<1> USE DEF Undoing, RemovalSteps, UndoSteps, BackupSteps
<1>0. /\ pc \in {"directArchive", "directRecord"} /\ pc' \in {"directRecord", "commit"}
      /\ UNCHANGED <<history, scanned, torn>> /\ trim \in Trim /\ RemovalInStep
  BY DEF DirectArchive, DirectRecord, ghosts, Typed, TypedWork, StateSound
<1>01. trim.next = NoName /\ SnapshotTrue /\ NoneFollows /\ trim.final = NoName
       /\ NoName \notin DOMAIN archives
  <2>1. trim.next = NoName /\ SnapshotTrue /\ NoneFollows
    BY <1>0 DEF RemovalInStep, ChainSound, RemovalTrue
  <2> QED
    BY <1>0, <2>1, ArchiveNames, Vocabulary DEF Undoable, Steady, Calm, SnapshotKept
<1>1. /\ UNCHANGED <<trim.target, trim.next, trim.final, trim.records, trim.targetFiles, trim.nextFiles>>
      /\ DOMAIN archives' \cup {trim.target} = DOMAIN archives \cup {trim.target}
      /\ \A n \in DOMAIN archives \ {trim.target} : archives'[n] = archives[n]
  BY <1>0 DEF DirectArchive, DirectRecord, Without, Trim
<1>2. /\ Around(DOMAIN archives)' = Around(DOMAIN archives)
      /\ Around(DOMAIN archives) = DOMAIN archives \cup {trim.target}
  BY <1>01, <1>1 DEF Around
<1>3. SnapshotTrue'
  BY <1>0, <1>01, <1>1, <1>2, SnapshotStays
<1>4. NoneFollows'
  BY <1>0, <1>01, <1>1 DEF NoneFollows, Listed
<1> QED
  BY <1>0, <1>01, <1>1, <1>3, <1>4 DEF ChainSound, RemovalTrue

\* The Smart archive after the target follows it, and the snapshot tells what both have seen.
LEMMA MergedTwo ==
  ASSUME Typed, Steady, StateSound, ChainSound, pc \in Undoing, trim.next # NoName
  PROVE  LET D == trim.records[trim.target]
             N == trim.records[trim.next] IN
         /\ SnapshotTrue /\ MergeTrue
         /\ Linked(history, scanned, torn, trim.target, D, trim.targetFiles)
         /\ N.prev = trim.target
         /\ trim.next.id \notin torn =>
               Leads(N, trim.nextFiles, scanned[trim.target.id], scanned[trim.next.id])
<1> DEFINE D == trim.records[trim.target]
           N == trim.records[trim.next]
<1>1. /\ Listed(trim.target) /\ Adjacent /\ trim.target \in Names /\ trim.next \in Names
      /\ trim.target.id \in Nat /\ trim.next.id \in Nat /\ trim.target.id < trim.next.id
  BY MergeFacts
<1>2. SnapshotTrue /\ MergeTrue
  BY DEF ChainSound, RemovalTrue
<1>3. /\ {trim.target, trim.next} \subseteq Around(DOMAIN archives) /\ Listed(trim.next)
      /\ Original(trim.target) = trim.targetFiles /\ Original(trim.next) = trim.nextFiles
  BY <1>1 DEF Around, Original, Adjacent
<1>4. /\ Linked(history, scanned, torn, trim.target, D, trim.targetFiles)
      /\ Linked(history, scanned, torn, trim.next, N, trim.nextFiles)
  BY <1>1, <1>2, <1>3 DEF SnapshotTrue
<1>5. ~FullLike(trim.next)
  BY <1>1 DEF Adjacent, FullLike
<1>6. N.prev = trim.target
  <2>1. /\ N.prev \in Names /\ N.prev.id \in Nat /\ N.prev.id < trim.next.id
        /\ N.prev.id \in DOMAIN history /\ history[N.prev.id].kind = N.prev.kind
        /\ \A k \in DOMAIN history : ~(N.prev.id < k /\ k < trim.next.id)
    BY <1>4, <1>5, Numbers DEF Linked, Follows
  <2>2. N.prev.id = trim.target.id
    BY <1>1, <2>1 DEF Adjacent, Listed
  <2> QED
    BY <1>1, <2>1, <2>2, NameDetermined DEF Listed
<1> QED
  BY <1>2, <1>4, <1>5, <1>6 DEF Linked, Earlier

\* The rebuilt archive with its repaired record leads from the world before the two archives
\* to the world of the later one.
LEMMA RepairLeads ==
  ASSUME NEW old, trim.final \in Names,
         Leads(records[trim.target], trim.targetFiles, old, scanned[trim.target.id]),
         Leads(records[trim.next], trim.nextFiles, scanned[trim.target.id], scanned[trim.next.id]),
         Fitting(trim.target, records[trim.target], trim.targetFiles),
         Fitting(trim.next, records[trim.next], trim.nextFiles),
         trim.final.kind # "Smart" => FullLike(trim.target) /\ old = Empty
  PROVE  Leads(RepairedRecord, MergedFiles, old, scanned[trim.next.id])
<1> DEFINE D == records[trim.target]
           N == records[trim.next]
<1>1. Describes(D, trim.targetFiles) /\ Describes(N, trim.nextFiles)
  BY DEF Fitting
<1>2. /\ \A f \in Files : /\ scanned[trim.target.id][f] = Applied(D, trim.targetFiles, f, old[f])
                          /\ f \in D.added => old[f] = Absent
      /\ \A f \in Files :
            /\ scanned[trim.next.id][f] = Applied(N, trim.nextFiles, f, scanned[trim.target.id][f])
            /\ f \in N.added => scanned[trim.target.id][f] = Absent
  BY DEF Leads
<1>3. CASE trim.final.kind = "Smart"
  <2>1. ASSUME NEW f \in Files
        PROVE  Applied(RepairedRecord, MergedFiles, f, old[f]) = scanned[trim.next.id][f]
    BY <1>1, <1>2, <1>3, MergeKeepsContent
  <2>2. RepairedRecord.added = ComposedAdded(D, N)
    BY <1>3 DEF RepairedRecord
  <2> HIDE DEF D, N
  <2>3. ASSUME NEW f \in Files, f \in RepairedRecord.added PROVE old[f] = Absent
    <3>1. CASE f \in D.added
      BY <1>2, <3>1
    <3>2. CASE f \in N.added \ (D.added \cup D.modified \cup D.deleted)
      BY <1>2, <3>2 DEF Applied
    <3> QED
      BY <2>2, <2>3, <3>1, <3>2 DEF ComposedAdded
  <2> QED
    BY <2>1, <2>3 DEF Leads
<1>4. CASE trim.final.kind # "Smart"
  <2>1. /\ RepairedRecord.added = FullList(D, N) /\ RepairedRecord.full = FullList(D, N)
        /\ RepairedRecord.modified = {} /\ RepairedRecord.deleted = {}
    BY <1>4 DEF RepairedRecord
  <2>2. ASSUME NEW f \in Files
        PROVE  Applied(RepairedRecord, MergedFiles, f, Absent) = scanned[trim.next.id][f]
    <3>1. /\ D.full = D.added \cup D.modified /\ D.deleted \cap D.full = {}
          /\ f \in D.full <=> trim.targetFiles[f] # Absent
      BY <1>1, <1>4 DEF Fitting, Describes
    <3>2. AppliedHead(RepairedRecord, MergedFiles, f)
            = Applied(N, trim.nextFiles, f, AppliedHead(D, trim.targetFiles, f))
      BY <1>1, <1>4, <3>1, MergeKeepsHead
    <3>3. AppliedHead(D, trim.targetFiles, f) = scanned[trim.target.id][f]
      BY <1>2, <1>4, <3>1 DEF AppliedHead, Applied, Empty
    <3>4. AppliedHead(RepairedRecord, MergedFiles, f) = Applied(RepairedRecord, MergedFiles, f, Absent)
      BY <2>1 DEF AppliedHead, Applied
    <3> QED
      BY <1>2, <3>2, <3>3, <3>4
  <2> QED
    BY <1>4, <2>2 DEF Leads, Empty
<1> QED
  BY <1>3, <1>4

\* The steps of a merge put archives among the same names.
LEMMA MergeAround ==
  ASSUME Typed, Steady, StateSound, Merging
  PROVE  /\ UNCHANGED <<trim.target, trim.next, trim.final, trim.records, trim.targetFiles, trim.nextFiles>>
         /\ Around(DOMAIN archives)' = Around(DOMAIN archives)
         /\ \A n \in Around(DOMAIN archives) \ {trim.target, trim.next} : archives'[n] = archives[n]
<1>0. pc \in MergeSteps /\ trim.next # NoName /\ pc \in Undoing
  BY Vocabulary
     DEF Merging, MergeReplace, MergeRename, MergeRecord, MergeRefs, MergeState, MergeRemove,
         MergeSteps, Undoing, RemovalSteps, Typed, TypedWork
<1>01. trim \in Trim /\ trim.final # trim.target /\ MergeInStep
  BY <1>0, MergeFacts
<1>1. CASE MergeReplace
  <2>1. /\ DOMAIN archives' = DOMAIN archives \cup {trim.next}
        /\ \A n \in DOMAIN archives \ {trim.next} : archives'[n] = archives[n]
    BY <1>1 DEF MergeReplace, With
  <2>2. trim' = [trim EXCEPT !.replaced = TRUE]
    BY <1>1 DEF MergeReplace
  <2> QED
    BY <1>0, <1>01, <2>1, <2>2 DEF Around, Trim
<1>2. CASE MergeRename
  <2>1. trim' = [trim EXCEPT !.mutated = TRUE] /\ trim.next \in DOMAIN archives
    BY <1>2 DEF MergeRename, Typed, TypedWork
  <2>2. \/ archives' = archives
        \/ /\ DOMAIN archives' = (DOMAIN archives \ {trim.next}) \cup {trim.final}
           /\ trim.final \notin DOMAIN archives
           /\ \A n \in DOMAIN archives \ {trim.next, trim.final} : archives'[n] = archives[n]
    BY <1>2 DEF MergeRename, With, Without
  <2> QED
    BY <1>0, <1>01, <2>1, <2>2 DEF Around, Trim
<1>3. CASE MergeRecord \/ MergeRefs \/ MergeState
  BY <1>3 DEF MergeRecord, MergeRefs, MergeState, Around
<1>4. CASE MergeRemove
  <2>1. /\ DOMAIN archives' = DOMAIN archives \ {trim.target} /\ trim.final \in DOMAIN archives
        /\ \A n \in DOMAIN archives' : archives'[n] = archives[n]
        /\ trim' = [trim EXCEPT !.removed = TRUE]
    BY <1>01, <1>4 DEF MergeRemove, Without, MergeInStep
  <2> QED
    BY <1>0, <1>01, <2>1 DEF Around, Trim
<1> QED
  BY <1>1, <1>2, <1>3, <1>4 DEF Merging

\* The merged archive is recorded as one that leads over both.
LEMMA MergeRecordTrue ==
  ASSUME Typed, Steady, StateSound, Recorded, ChainSound, MergeRecord
  PROVE  FinalTrue' /\ OthersKept(FALSE)'
<1> USE DEF Undoing, RemovalSteps
<1> DEFINE D == trim.records[trim.target]
           N == trim.records[trim.next]
<1>0. /\ pc = "mergeRecord" /\ UNCHANGED <<archives, scanned, torn, trim>>
      /\ records' = With(Without(records, {trim.target, trim.next}), trim.final, RepairedRecord)
  BY DEF MergeRecord, ghosts
<1>1. trim.next # NoName
  BY <1>0, Vocabulary DEF Typed, TypedWork, MergeSteps
<1>2. /\ records = trim.records /\ trim.final \in Names /\ trim.next \in Names /\ trim.target \in Names
      /\ trim.final # trim.next => FullLike(trim.target)
      /\ FullLike(trim.target) => trim.final.kind = "Full"
      /\ ~FullLike(trim.target) => trim.final = trim.next
      /\ Adjacent
  BY <1>0, <1>1, MergeFacts DEF MergeInStep
<1>3. archives[trim.final] = MergedFiles
  BY <1>0 DEF Recorded, Steady, Half, HalfMerged, Merged, Holds
<1>4. Fitting(trim.target, D, trim.targetFiles) /\ Fitting(trim.next, N, trim.nextFiles)
  <2>1. {trim.target, trim.next} \subseteq DOMAIN records
    BY <1>0 DEF Typed, TypedWork
  <2> QED
    BY <1>0, <1>1, <1>2, <2>1 DEF Recorded, Steady, SnapshotFits
<1>5. /\ trim.target.id \in torn => trim.next.id \in torn
      /\ Linked(history, scanned, torn, trim.target, D, trim.targetFiles)
      /\ trim.next.id \notin torn =>
            Leads(N, trim.nextFiles, scanned[trim.target.id], scanned[trim.next.id])
  BY <1>0, <1>1, MergedTwo DEF MergeTrue
<1>6. /\ DOMAIN records' = (DOMAIN records \ {trim.target, trim.next}) \cup {trim.final}
      /\ records'[trim.final] = RepairedRecord
      /\ \A n \in DOMAIN records' \ {trim.final} : records'[n] = records[n]
  BY <1>0 DEF With, Without
<1>7. OthersKept(FALSE)'
  BY <1>0, <1>2, <1>6 DEF OthersKept
<1>8. FullLike(trim.target) <=> FullLike(trim.final)
  BY <1>2 DEF FullLike, Adjacent
<1>9. FinalEarlier = Earlier(scanned, trim.target, D)
  BY <1>8 DEF FinalEarlier, Earlier
<1>10. trim.final.kind # "Smart" => FullLike(trim.target) /\ FinalEarlier = Empty
  BY <1>2, <1>8 DEF FinalEarlier, Adjacent
<1>11. ASSUME trim.next.id \notin torn
       PROVE  Leads(RepairedRecord, MergedFiles, FinalEarlier, scanned[trim.next.id])
  <2>1. Leads(D, trim.targetFiles, FinalEarlier, scanned[trim.target.id])
    BY <1>5, <1>9, <1>11 DEF Linked
  <2> QED
    BY <1>2, <1>4, <1>5, <1>10, <1>11, <2>1, RepairLeads
<1>12. ~FullLike(trim.final) => RepairedRecord.prev = D.prev
  BY <1>2, Numbers DEF RepairedRecord, FullLike, Kinds
<1>13. FinalEarlier' = FinalEarlier
  BY <1>0 DEF FinalEarlier
<1>14. FinalTrue'
  BY <1>0, <1>3, <1>6, <1>11, <1>12, <1>13 DEF FinalTrue
<1> QED
  BY <1>7, <1>14

\* The records that follow the two archives follow the merged one.
LEMMA MergeRefsTrue ==
  ASSUME Typed, Steady, StateSound, ChainSound, MergeRefs
  PROVE  FinalTrue' /\ OthersKept(TRUE)'
<1> USE DEF Undoing, RemovalSteps
<1>0. /\ pc = "mergeRefs" /\ UNCHANGED <<archives, scanned, torn, trim>>
      /\ records' = [n \in DOMAIN records |->
                       [records[n] EXCEPT !.prev = Redirected(@), !.base = Redirected(@)]]
  BY DEF MergeRefs, ghosts
<1>1. trim.next # NoName
  BY <1>0, Vocabulary DEF Typed, TypedWork, MergeSteps
<1>2. /\ FinalTrue /\ OthersKept(FALSE)
      /\ Linked(history, scanned, torn, trim.target, trim.records[trim.target], trim.targetFiles)
  BY <1>0, <1>1, MergedTwo DEF MergeTrue
<1>3. /\ trim.target.id \in Nat /\ trim.next.id \in Nat /\ trim.target.id < trim.next.id
      /\ FullLike(trim.target) => trim.final.kind = "Full"
  BY <1>0, <1>1, MergeFacts
<1>4. /\ DOMAIN records' = DOMAIN records
      /\ \A n \in DOMAIN records :
            /\ records'[n].prev = Redirected(records[n].prev)
            /\ records'[n].added = records[n].added
            /\ records'[n].modified = records[n].modified
            /\ records'[n].deleted = records[n].deleted
  <2>1. records \in Maps(Names, Record)
    BY DEF Typed, TypedDisk
  <2>2. \A n \in DOMAIN records : records[n] \in Record
    BY <2>1, MapElim
  <2> QED
    BY <1>0, <2>2 DEF Record
<1>6. trim.final \in DOMAIN records
  BY <1>2 DEF OthersKept
<1>7. OthersKept(TRUE)'
  <2>1. DOMAIN records = (DOMAIN trim.records \ {trim.target, trim.next}) \cup {trim.final}
    BY <1>2 DEF OthersKept
  <2>2. ASSUME NEW n \in DOMAIN records \ {trim.final}
        PROVE  /\ records'[n].added = trim.records[n].added
               /\ records'[n].modified = trim.records[n].modified
               /\ records'[n].deleted = trim.records[n].deleted
               /\ records'[n].prev = Redirected(trim.records[n].prev)
    <3>1. /\ records[n].added = trim.records[n].added
          /\ records[n].modified = trim.records[n].modified
          /\ records[n].deleted = trim.records[n].deleted
          /\ records[n].prev = trim.records[n].prev
      BY <1>2 DEF OthersKept
    <3> QED
      BY <1>4, <3>1
  <2>3. trim' = trim /\ DOMAIN records' = DOMAIN records
    BY <1>0, <1>4
  <2> QED
    BY <2>1, <2>2, <2>3 DEF OthersKept, Redirected
<1>8. ~FullLike(trim.final) => records'[trim.final].prev = trim.records[trim.target].prev
  <2> SUFFICES ASSUME ~FullLike(trim.final)
               PROVE  records'[trim.final].prev = trim.records[trim.target].prev
    OBVIOUS
  <2>1. ~FullLike(trim.target)
    BY <1>3 DEF FullLike
  <2>2. trim.records[trim.target].prev \notin {trim.target, trim.next}
    BY <1>2, <1>3, <2>1 DEF Linked, Follows
  <2> QED
    BY <1>2, <1>4, <1>6, <2>2 DEF FinalTrue, Redirected
<1>9. FinalEarlier' = FinalEarlier
  BY <1>0 DEF FinalEarlier
<1>10. FinalTrue'
  BY <1>0, <1>2, <1>4, <1>6, <1>8, <1>9 DEF FinalTrue, Leads, Applied
<1> QED
  BY <1>7, <1>10

\* Every step of a merge keeps what its undo brings back, and what its commit will leave.
LEMMA MergingTrue ==
  ASSUME Typed, Steady, StateSound, Recorded, ChainSound, Merging PROVE ChainSound'
<1> USE DEF Undoing, RemovalSteps, UndoSteps, BackupSteps
<1>0. /\ pc \in MergeSteps /\ trim.next # NoName /\ UNCHANGED <<history, scanned>> /\ torn \subseteq torn'
      /\ ~MergeReplace => torn' = torn
  BY Vocabulary
     DEF Merging, MergeReplace, MergeRename, MergeRecord, MergeRefs, MergeState, MergeRemove,
         MergeSteps, ghosts, Typed, TypedWork
<1>1. SnapshotTrue /\ MergeTrue /\ trim.final # trim.target
  BY <1>0, MergedTwo, MergeFacts DEF MergeSteps
<1>2. /\ UNCHANGED <<trim.target, trim.next, trim.final, trim.records, trim.targetFiles, trim.nextFiles>>
      /\ Around(DOMAIN archives)' = Around(DOMAIN archives)
      /\ \A n \in Around(DOMAIN archives) \ {trim.target, trim.next} : archives'[n] = archives[n]
  BY MergeAround
<1>3. SnapshotTrue'
  BY <1>0, <1>1, <1>2, SnapshotStays
<1>4. MergeTrue'
  <2>1. CASE MergeReplace
    <3>1. /\ pc' = "mergeRename"
          /\ torn' = IF trim.target.id \in torn THEN torn \cup {trim.next.id} ELSE torn
      BY <2>1 DEF MergeReplace
    <3> QED
      BY <1>2, <3>1 DEF MergeTrue
  <2>2. CASE MergeRename
    <3>1. pc = "mergeRename" /\ pc' = "mergeRecord" /\ torn' = torn
      BY <2>2 DEF MergeRename, ghosts
    <3> QED
      BY <1>1, <1>2, <3>1 DEF MergeTrue
  <2>3. CASE MergeRecord
    <3>1. pc = "mergeRecord" /\ pc' = "mergeRefs" /\ torn' = torn
      BY <2>3 DEF MergeRecord, ghosts
    <3>2. FinalTrue' /\ OthersKept(FALSE)'
      BY <2>3, MergeRecordTrue
    <3> QED
      BY <1>1, <1>2, <3>1, <3>2 DEF MergeTrue
  <2>4. CASE MergeRefs
    <3>1. pc = "mergeRefs" /\ pc' = "mergeState" /\ torn' = torn
      BY <2>4 DEF MergeRefs, ghosts
    <3>2. FinalTrue' /\ OthersKept(TRUE)'
      BY <2>4, MergeRefsTrue
    <3> QED
      BY <1>1, <1>2, <3>1, <3>2 DEF MergeTrue
  <2>5. CASE MergeState
    <3>1. pc = "mergeState" /\ pc' = "mergeRemove" /\ UNCHANGED <<archives, records, scanned, torn, trim>>
      BY <2>5 DEF MergeState, ghosts
    <3>2. FinalTrue /\ OthersKept(TRUE)
      BY <1>1, <3>1 DEF MergeTrue
    <3>3. FinalTrue' /\ OthersKept(TRUE)'
      BY <3>1, <3>2 DEF FinalTrue, FinalEarlier, OthersKept, Redirected
    <3> QED
      BY <1>1, <1>2, <3>1, <3>3 DEF MergeTrue
  <2>6. CASE MergeRemove
    <3>1. /\ pc = "mergeRemove" /\ pc' = "commit" /\ UNCHANGED <<records, torn>>
          /\ trim.final \in DOMAIN archives => archives'[trim.final] = archives[trim.final]
      BY <1>1, <2>6 DEF MergeRemove, Without, ghosts
    <3>2. FinalTrue /\ OthersKept(TRUE) /\ trim.final \in DOMAIN archives
      BY <1>0, <1>1, <3>1, MergeFacts DEF MergeTrue, MergeInStep
    <3>3. FinalTrue' /\ OthersKept(TRUE)'
      BY <1>0, <1>2, <3>1, <3>2 DEF FinalTrue, FinalEarlier, OthersKept, Redirected
    <3> QED
      BY <1>1, <1>2, <3>1, <3>3 DEF MergeTrue
  <2> QED
    BY <2>1, <2>2, <2>3, <2>4, <2>5, <2>6 DEF Merging
<1>5. pc' \in Undoing
  BY DEF Merging, MergeReplace, MergeRename, MergeRecord, MergeRefs, MergeState, MergeRemove
<1> QED
  BY <1>0, <1>2, <1>3, <1>4, <1>5 DEF ChainSound, RemovalTrue

\* After a direct removal each link that is left has the one before it.
LEMMA CommitDirectTrue ==
  ASSUME Typed, Steady, Undoable, StateSound, ChainSound, Commit, trim.next = NoName
  PROVE  ChainTrue'
<1> USE DEF Undoing, RemovalSteps
<1>0. /\ pc = "commit" /\ history' = Without(history, {trim.target.id})
      /\ UNCHANGED <<archives, records, scanned, torn>>
  BY DEF Commit, CommittedHistory, ghosts
<1>1. SnapshotTrue /\ NoneFollows /\ DirectInStep
  BY <1>0 DEF ChainSound, RemovalTrue, StateSound, RemovalInStep
<1>2. /\ records = Without(trim.records, {trim.target})
      /\ trim.target \notin DOMAIN archives /\ trim.final = NoName
  BY <1>0, <1>1 DEF DirectInStep, Undoable, Steady, Calm, SnapshotKept
<1>3. DOMAIN archives \subseteq Names /\ NoName \notin Names
  BY ArchiveNames, Vocabulary
<1>4. /\ DOMAIN history' = DOMAIN history \ {trim.target.id}
      /\ \A i \in DOMAIN history' : history'[i] = history[i]
  BY <1>0 DEF Without
<1> SUFFICES ASSUME NEW n \in DOMAIN archives, Listed(n)'
             PROVE  n \in DOMAIN records /\ Linked(history', scanned', torn', n, records[n], archives[n])
  BY <1>0 DEF ChainTrue
<1>5. Listed(n) /\ n # trim.target /\ n # trim.next /\ n \in Around(DOMAIN archives)
  BY <1>2, <1>3, <1>4 DEF Listed, Around
<1>6. /\ n \in DOMAIN trim.records /\ Original(n) = archives[n]
      /\ Linked(history, scanned, torn, n, trim.records[n], Original(n))
  BY <1>1, <1>5 DEF SnapshotTrue, Original
<1>7. n \in DOMAIN records /\ records[n] = trim.records[n]
  BY <1>2, <1>5, <1>6 DEF Without
<1>8. ASSUME ~FullLike(n) PROVE records[n].prev.id \in DOMAIN history'
  <2>1. /\ records[n].prev.id \in DOMAIN history /\ records[n].prev.id < n.id
        /\ \A k \in DOMAIN history : ~(records[n].prev.id < k /\ k < n.id)
    BY <1>6, <1>7, <1>8 DEF Linked, Follows
  <2>2. n.kind = "Smart"
    BY <1>3, <1>8 DEF Names, Kinds, FullLike
  <2>3. records[n].prev.id # trim.target.id
    BY <1>1, <1>3, <1>5, <2>1, <2>2 DEF NoneFollows
  <2> QED
    BY <1>4, <2>1, <2>3
<1>9. /\ ~FullLike(n) => /\ records[n].prev.id \in DOMAIN history'
                         /\ history'[records[n].prev.id].kind = history[records[n].prev.id].kind
      /\ \A k \in DOMAIN history' \ DOMAIN history : ~(k < n.id)
  BY <1>4, <1>8
<1>10. Linked(history, scanned, torn, n, records[n], archives[n])
  BY <1>6, <1>7
<1>11. Linked(history', scanned, torn, n, records[n], archives[n])
  BY <1>9, <1>10, LinkedStays
<1> QED
  BY <1>0, <1>7, <1>11

\* After a merge the chain goes through the merged archive.
LEMMA CommitMergeTrue ==
  ASSUME Typed, Steady, StateSound, ChainSound, Commit, trim.next # NoName
  PROVE  ChainTrue'
<1> USE DEF Undoing, RemovalSteps
<1> DEFINE D == trim.records[trim.target]
           p == trim.target.id
           q == trim.next.id
<1>0. pc = "commit" /\ UNCHANGED <<archives, records, scanned, torn>>
  BY DEF Commit, ghosts
<1>1. /\ Listed(trim.target) /\ Adjacent /\ trim.target \in Names /\ trim.next \in Names
      /\ trim.final \in Names /\ p \in Nat /\ q \in Nat /\ p < q /\ trim.final.id = q
      /\ trim.final # trim.next => FullLike(trim.target)
      /\ FullLike(trim.target) => trim.final.kind = "Full"
  BY <1>0, MergeFacts
<1>2. /\ SnapshotTrue /\ FinalTrue /\ OthersKept(TRUE)
      /\ Linked(history, scanned, torn, trim.target, D, trim.targetFiles)
  BY <1>0, MergedTwo DEF MergeTrue
<1>3. /\ DOMAIN history' = DOMAIN history \ {p}
      /\ \A i \in DOMAIN history' : history'[i].kind = IF i = q THEN trim.final.kind ELSE history[i].kind
  BY MergedHistory
<1>4. /\ p \in DOMAIN history /\ q \in DOMAIN history /\ trim.next.kind = "Smart"
      /\ history[p].kind = trim.target.kind /\ history[q].kind = trim.next.kind
      /\ \A k \in DOMAIN history : ~(p < k /\ k < q) /\ k \in Nat
  BY <1>1, Numbers DEF Adjacent, Listed
<1>5. DOMAIN archives \subseteq Names /\ \A n \in Names : n.id \in Nat
  BY Numbers
<1> SUFFICES ASSUME NEW n \in DOMAIN archives, Listed(n)'
             PROVE  n \in DOMAIN records /\ Linked(history', scanned, torn, n, records[n], archives[n])
  BY <1>0 DEF ChainTrue
<1>6. n \in Names /\ n.id \in Nat /\ n.id \in DOMAIN history /\ n.id # p /\ n.id \in DOMAIN history'
      /\ history'[n.id].kind = n.kind
  BY <1>3, <1>5 DEF Listed
<1>7. CASE n.id = q
  <2>1. n = trim.final /\ n \in DOMAIN records
    BY <1>1, <1>2, <1>3, <1>6, <1>7, NameDetermined DEF OthersKept
  <2>2. ASSUME ~FullLike(n)
        PROVE  /\ records[n].prev = D.prev /\ D.prev \in Names /\ D.prev.id \in Nat /\ D.prev.id < q
               /\ D.prev.id \in DOMAIN history' /\ history'[D.prev.id].kind = D.prev.kind
               /\ \A k \in DOMAIN history' : ~(D.prev.id < k /\ k < n.id)
    <3>1. ~FullLike(trim.target)
      BY <1>1, <2>1, <2>2 DEF FullLike
    <3>2. /\ D.prev \in Names /\ D.prev.id < p
          /\ D.prev.id \in DOMAIN history /\ history[D.prev.id].kind = D.prev.kind
          /\ \A k \in DOMAIN history : ~(D.prev.id < k /\ k < p)
      BY <1>2, <3>1 DEF Linked, Follows
    <3>3. D.prev.id \in Nat /\ D.prev.id < q /\ D.prev.id # p /\ D.prev.id # q
      BY <1>1, <1>5, <3>2
    <3>4. \A k \in DOMAIN history' : ~(D.prev.id < k /\ k < q)
      BY <1>1, <1>3, <1>4, <3>2
    <3> QED
      BY <1>2, <1>3, <1>7, <2>1, <2>2, <3>2, <3>3, <3>4 DEF FinalTrue
  <2>3. FinalEarlier = Earlier(scanned, n, records[n])
    BY <2>1, <2>2 DEF FinalEarlier, Earlier
  <2>4. Follows(history', n, records[n])
    BY <1>7, <2>2 DEF Follows
  <2> QED
    BY <1>2, <1>7, <2>1, <2>3, <2>4 DEF Linked, FinalTrue
<1>8. CASE n.id # q
  <2> DEFINE r == trim.records[n]
  <2>1. /\ n \notin {trim.target, trim.next, trim.final} /\ Listed(n) /\ n \in Around(DOMAIN archives)
        /\ Original(n) = archives[n]
    BY <1>1, <1>3, <1>6, <1>8 DEF Listed, Around, Original
  <2>2. n \in DOMAIN trim.records /\ Linked(history, scanned, torn, n, r, archives[n])
    BY <1>2, <2>1 DEF SnapshotTrue
  <2>3. /\ n \in DOMAIN records /\ records[n].added = r.added /\ records[n].modified = r.modified
        /\ records[n].deleted = r.deleted /\ records[n].prev = Redirected(r.prev)
    BY <1>2, <2>1, <2>2 DEF OthersKept
  <2> HIDE DEF r, p, q
  <2>4. ASSUME ~FullLike(n)
        PROVE  /\ records[n].prev \in Names /\ records[n].prev.id = r.prev.id /\ r.prev.id < n.id
               /\ r.prev.id \in DOMAIN history' /\ history'[r.prev.id].kind = records[n].prev.kind
               /\ \A k \in DOMAIN history' : ~(r.prev.id < k /\ k < n.id)
    <3>1. /\ r.prev \in Names /\ r.prev.id < n.id
          /\ r.prev.id \in DOMAIN history /\ history[r.prev.id].kind = r.prev.kind
          /\ \A k \in DOMAIN history : ~(r.prev.id < k /\ k < n.id)
      BY <2>2, <2>4 DEF Linked, Follows
    <3>2. r.prev.id \in Nat
      BY <1>5, <3>1
    <3>3. r.prev.id # p
      BY <1>1, <1>4, <1>6, <1>8, <3>1
    <3>4. r.prev.id \in DOMAIN history' /\ \A k \in DOMAIN history' : ~(r.prev.id < k /\ k < n.id)
      BY <1>3, <3>1, <3>3
    <3>5. CASE r.prev.id = q
      <4>1. r.prev = trim.next
        BY <1>1, <1>4, <3>1, <3>5, NameDetermined DEF q
      <4>2. records[n].prev = trim.final
        BY <2>3, <4>1 DEF Redirected
      <4> QED
        BY <1>1, <1>3, <3>1, <3>4, <3>5, <4>2
    <3>6. CASE r.prev.id # q
      <4>1. records[n].prev = r.prev
        BY <2>3, <3>3, <3>6 DEF Redirected, p, q
      <4> QED
        BY <1>3, <3>1, <3>4, <3>6, <4>1
    <3> QED
      BY <3>5, <3>6
  <2>5. Follows(history', n, records[n])
    BY <2>4 DEF Follows
  <2>6. Earlier(scanned, n, records[n]) = Earlier(scanned, n, r)
    BY <2>4 DEF Earlier
  <2>7. n.id \notin torn => Leads(records[n], archives[n], Earlier(scanned, n, records[n]), scanned[n.id])
    BY <2>2, <2>3, <2>6 DEF Linked, Leads, Applied
  <2> QED
    BY <2>3, <2>5, <2>7 DEF Linked
<1> QED
  BY <1>7, <1>8

\* The end of a removal: its commit, or the turn to the snapshot.
LEMMA EndTrue ==
  ASSUME Typed, Steady, Undoable, StateSound, ChainSound, Commit \/ RemovalFails PROVE ChainSound'
<1> USE DEF Undoing, RemovalSteps, UndoSteps, BackupSteps
<1>1. CASE Commit
  <2>1. ChainTrue'
    BY <1>1, CommitDirectTrue, CommitMergeTrue
  <2>2. pc' \in {"idle", "enforce"}
    BY <1>1 DEF Commit, Finish
  <2> QED
    BY <2>1, <2>2 DEF ChainSound
<1>2. CASE RemovalFails
  <2>1. /\ pc \in RemovalSteps /\ pc' = "undoTarget"
        /\ UNCHANGED <<archives, records, history, scanned, torn, trim>>
    BY <1>2 DEF RemovalFails, disk, ghosts
  <2>2. RemovalTrue'
    BY <2>1, RemovalStays DEF ChainSound, SameKinds
  <2> QED
    BY <2>1, <2>2 DEF ChainSound
<1> QED
  BY <1>1, <1>2

\* An undo brings the chain back.
LEMMA UndoTrue ==
  ASSUME Typed, Steady, Steady', Undoable, ChainSound, [Next]_vars,
         UndoTarget \/ UndoRemoved \/ UndoClear \/ UndoCopy
  PROVE  ChainSound'
<1> USE DEF Undoing, RemovalSteps, UndoSteps, BackupSteps
<1>0. /\ pc \in UndoSteps /\ UNCHANGED <<history, scanned, torn>>
      /\ crashes' = crashes /\ ~retained'
      /\ \/ pc' \in UndoSteps /\ trim' = trim
         \/ pc' = "idle" /\ pc \in {"undoRemoved", "undoClear", "undoCopy"}
      /\ pc' = "idle" => ~UndoClear
  BY DEF UndoTarget, UndoRemoved, UndoClear, UndoCopy, Finish, ghosts, counts,
         RollbackFault, Fails, Steady, Calm
<1>1. SnapshotTrue /\ (trim.next = NoName => NoneFollows)
  BY <1>0 DEF ChainSound, RemovalTrue
<1>2. \A n \in Around(DOMAIN archives) \ {trim.target, trim.next} : archives'[n] = archives[n]
  <2>1. CASE UndoTarget
    <3>1. \/ archives' = archives
          \/ archives' = With(Without(archives, IF Renamed THEN {trim.final} ELSE {}),
                              trim.next, trim.nextFiles)
      BY <2>1 DEF UndoTarget, RollbackFault, Steady, Calm
    <3> QED
      BY <3>1 DEF Around, With, Without
  <2>2. CASE UndoRemoved
    BY <2>2 DEF UndoRemoved, With, Around
  <2>3. CASE UndoClear \/ UndoCopy
    BY <2>3 DEF UndoClear, UndoCopy
  <2> QED
    BY <2>1, <2>2, <2>3
<1>3. CASE pc' \in UndoSteps /\ trim' = trim
  <2>1. Around(DOMAIN archives)' = Around(DOMAIN archives)
    BY <1>3, UndoAround DEF Around
  <2>2. SnapshotTrue'
    BY <1>0, <1>1, <1>2, <1>3, <2>1, SnapshotStays
  <2>3. trim'.next = NoName => NoneFollows'
    BY <1>0, <1>1, <1>3 DEF NoneFollows, Listed
  <2> QED
    BY <1>3, <2>2, <2>3 DEF ChainSound, RemovalTrue, MergeTrue
<1>4. CASE pc' = "idle"
  <2>1. UndoEnds
    BY <1>0, <1>4 DEF UndoEnds, UndoTarget, UndoRemoved, UndoClear, UndoCopy
  <2>2. PutBack
    BY <2>1, UndoEndsRight
  <2>3. DOMAIN archives' = Around(DOMAIN archives)
    BY <1>4, <2>2, UndoEndsAround
  <2>4. trim.next \in DOMAIN archives' => trim.next # NoName
    BY <1>0, <2>3, ArchiveNames, Vocabulary DEF Around, Typed, TypedWork
  <2>5. records' = trim.records /\ \A n \in DOMAIN archives' : archives'[n] = Original(n)
    BY <1>2, <2>2, <2>3, <2>4 DEF PutBack, Original
  <2>6. ChainTrue'
    BY <1>0, <1>1, <2>3, <2>5 DEF ChainTrue, SnapshotTrue, Listed
  <2> QED
    BY <1>4, <2>6 DEF ChainSound
<1> QED
  BY <1>0, <1>3, <1>4

\* A step that touches none of it but the marks of the history.
LEMMA QuietTrue ==
  ASSUME ChainSound, SameKinds,
         UNCHANGED <<archives, records, nextId, setbacks, scanned, torn, trim, job, pc, retained, crashes>>
  PROVE  ChainSound'
<1> SUFFICES ASSUME Steady' PROVE ChainSound'
  BY DEF ChainSound
<1>0. Steady
  BY DEF Steady, Calm
<1>1. ChainTrue => ChainTrue'
  BY ChainStays
<1>2. JobTrue => JobTrue'
  BY DEF JobTrue, JobDelta, JobFits, ArchiveFits, NewRecord
<1>3. RemovalTrue => RemovalTrue'
  BY RemovalStays
<1> QED
  BY <1>0, <1>1, <1>2, <1>3 DEF ChainSound

\* What the user and the game do: an archive may go, but no entry does.
LEMMA OutsideTrue ==
  ASSUME Deletions \cap {"HistoryOnly", "LocalArchiveAndHistory"} = {},
         Typed, Steady, Steady', ChainSound, User \/ Environment, ~Crash, ~SetClockBack
  PROVE  ChainSound'
<1> USE DEF Undoing, RemovalSteps, UndoSteps, BackupSteps, env, game, ghosts, counts, disk
<1>1. ASSUME NEW mode \in Modes, StartBackup(mode) PROVE ChainSound'
  BY <1>1, StartBackupTrue
<1>2. ASSUME NEW i \in DOMAIN history, DeleteLocalArchive(i) PROVE ChainSound'
  <2>1. /\ pc = "idle" /\ pc' = "idle" /\ UNCHANGED <<history, scanned, torn>>
        /\ archives' = Without(archives, {NameOf(history, i)})
        /\ records' = Without(records, {NameOf(history, i)})
    BY <1>2 DEF DeleteLocalArchive, Invalidate
  <2>2. \A n \in DOMAIN archives' :
          /\ n \in DOMAIN archives /\ archives'[n] = archives[n]
          /\ n \in DOMAIN records => n \in DOMAIN records' /\ records'[n] = records[n]
    BY <2>1 DEF Without
  <2>3. ChainTrue'
    BY <2>1, <2>2, ChainStays DEF ChainSound, SameKinds
  <2> QED
    BY <2>1, <2>3 DEF ChainSound
<1>3. ASSUME NEW i \in DOMAIN history, SafeDelete(i) PROVE ChainSound'
  <2>1. pc = "idle" /\ pc' = "remove" /\ UNCHANGED <<archives, records, history, scanned, torn>>
    BY <1>3 DEF SafeDelete
  <2>2. ChainTrue'
    BY <2>1, ChainStays DEF ChainSound, SameKinds
  <2> QED
    BY <2>1, <2>2 DEF ChainSound
<1>4. ASSUME NEW i \in DOMAIN history, Mark(i) PROVE ChainSound'
  <2>1. history' = [history EXCEPT ![i].important = ~@] /\ \A k \in DOMAIN history : history[k] \in Entry
    BY <1>4, Numbers DEF Mark
  <2>2. SameKinds
    BY <2>1 DEF SameKinds, Entry
  <2> QED
    BY <1>4, <2>2, QuietTrue DEF Mark
<1>5. ASSUME NEW i \in DOMAIN history, RestoreWorld(i) PROVE ChainSound'
  BY <1>5, QuietTrue DEF RestoreWorld, SameKinds
<1>6. ASSUME NEW f \in Files, NEW keeps \in BOOLEAN, EditFile(f, keeps) PROVE ChainSound'
  BY <1>6, QuietTrue DEF EditFile, SameKinds
<1>7. ~(\E i \in DOMAIN history : DeleteHistoryOnly(i) \/ DeleteArchiveAndHistory(i))
  BY DEF DeleteHistoryOnly, DeleteArchiveAndHistory
<1> QED
  BY <1>1, <1>2, <1>3, <1>4, <1>5, <1>6, <1>7 DEF User, Environment

\* Every step keeps every listed archive linked.
LEMMA ChainSoundStep ==
  ASSUME Deletions \cap {"HistoryOnly", "LocalArchiveAndHistory"} = {}
  PROVE  Typed /\ Typed' /\ Undoable /\ StateSound /\ Recorded /\ ChainSound /\ [Next]_vars => ChainSound'
<1> SUFFICES ASSUME Typed, Typed', Undoable, StateSound, Recorded, ChainSound, [Next]_vars, Steady'
             PROVE  ChainSound'
  BY DEF ChainSound
<1>0. Steady /\ ~Crash /\ ~SetClockBack
  BY SteadyBefore
<1>1. CASE UNCHANGED vars
  BY <1>1, QuietTrue DEF vars, SameKinds
<1>2. CASE Backup
  BY <1>0, <1>2, BackupTrue
<1>3. CASE Removal
  <2>1. CASE EndRound \/ PickOldest \/ StartDirect \/ StartMerge \/ Keep
    BY <1>0, <2>1, ChoiceTrue
  <2>2. CASE DirectArchive \/ DirectRecord
    BY <1>0, <2>2, DirectTrue
  <2>3. CASE Merging
    BY <1>0, <2>3, MergingTrue
  <2>4. CASE Commit \/ RemovalFails
    BY <1>0, <2>4, EndTrue
  <2>5. CASE UndoTarget \/ UndoRemoved \/ UndoClear \/ UndoCopy
    BY <1>0, <2>5, UndoTrue
  <2> QED
    BY <1>3, <2>1, <2>2, <2>3, <2>4, <2>5 DEF Removal, Merging
<1>4. CASE User \/ Environment
  BY <1>0, <1>4, OutsideTrue
<1> QED
  BY <1>1, <1>2, <1>3, <1>4 DEF Next, Worker

\* As long as the process has not died, no rollback was reported incomplete, the clock was not
\* set back and the user took no entry out of the history directly, every restore that the
\* program accepts, of an archive whose files did not change under 7-Zip, gives back the world
\* that its backup scanned: through any sequence of backups, failed commits, retention rounds,
\* safe deletions, merges, renames, lost archives and undone removals.
THEOREM RestoresAreSound ==
  ASSUME Deletions \cap {"HistoryOnly", "LocalArchiveAndHistory"} = {}
  PROVE  Spec => [](crashes = 0 /\ setbacks = 0 => RestoreSound)
<1>1. Init => Undoable /\ StateSound /\ Recorded /\ ChainSound
  BY DEF Init, Undoable, Numbered, StateSound, InOrder, Fits, Recorded, Described, ChainSound,
         ChainTrue, Undoing, RemovalSteps, UndoSteps, BackupSteps, Half
<1>2. Typed /\ Recorded /\ ChainSound => (crashes = 0 /\ setbacks = 0 => RestoreSound)
  <2> SUFFICES ASSUME Typed, Recorded, ChainSound, crashes = 0, setbacks = 0, pc = "idle", ~retained,
                      NEW i \in DOMAIN history,
                      Restorable(NameOf(history, i)), ~Tainted(NameOf(history, i))
               PROVE  Restored(NameOf(history, i)) = scanned[i]
    BY DEF RestoreSound
  <2>1. ChainTrue /\ Described(records, archives, {})
    BY DEF ChainSound, Recorded, Steady, Calm, Undoing, RemovalSteps, UndoSteps, Half
  <2>2. NameOf(history, i) \in Names /\ Listed(NameOf(history, i)) /\ NameOf(history, i).id = i
    BY NameOfListed DEF Typed, NameOf, Listed
  <2> QED
    BY <2>1, <2>2, ChainRestores
<1>3. Typed /\ Typed' /\ Undoable /\ StateSound /\ [Next]_vars => StateSound'
  BY StateSoundStep
<1>4. Typed /\ Typed' /\ Undoable /\ StateSound /\ Recorded /\ ChainSound /\ [Next]_vars => ChainSound'
  BY ChainSoundStep
<1> QED
  BY <1>1, <1>2, <1>3, <1>4, InitTyped, TypedStep, UndoableStep, RecordedStep, PTL DEF Spec

-----------------------------------------------------------------------------
(* Every entry can be restored.  The game never deletes some of the files, *)
(* so that no Full-like archive is empty; and with no deletion but the     *)
(* safe one every listed archive is there, but in the middle of a removal. *)

\* The files the game never deletes are in every Full-like archive and deleted by none.
KeepsPermanent(r) ==
    \A n \in DOMAIN r :
        /\ r[n].deleted \cap Permanent = {}
        /\ FullLike(n) => Permanent \subseteq r[n].full

Rooted ==
    Steady =>
        /\ Permanent \subseteq Present(world)
        /\ pc \in BackupSteps => Permanent \subseteq Present(job.scan)
        /\ KeepsPermanent(records)
        /\ pc \in Undoing => KeepsPermanent(trim.records)

\* Every set of places has a last one.
LEMMA GreatestPlace ==
  ASSUME NEW L \in Nat, NEW S \in SUBSET (1..L), S # {}
  PROVE  \E k \in S : \A m \in S : m <= k
<1> DEFINE D == {d \in 0..L : L - d \in S}
<1>1. \A k \in S : k \in 1..L /\ L - k \in 0..L /\ L - (L - k) = k
  OBVIOUS
<1>2. D \in SUBSET Nat /\ D # {}
  <2>1. PICK k \in S : TRUE
    OBVIOUS
  <2>2. L - k \in D
    BY <1>1
  <2>3. D \in SUBSET Nat
    OBVIOUS
  <2> HIDE DEF D
  <2> QED
    BY <2>2, <2>3
<1>3. PICK d \in D : \A e \in D : d <= e
  BY <1>2, LeastNumber
<1>4. ASSUME NEW m \in S PROVE m <= L - d
  <2>1. d \in Nat /\ m \in Nat /\ d <= L - m
    BY <1>1, <1>3
  <2> QED
    BY <2>1
<1> QED
  BY <1>3, <1>4

\* A restore brings these files back.
LEMMA RestoredKeepsPermanent ==
  ASSUME Typed, ChainTrue, Described(records, archives, {}), KeepsPermanent(records),
         NEW n \in Names, Listed(n), Restorable(n)
  PROVE  Permanent \subseteq Present(Restored(n))
<1> SUFFICES ASSUME NEW f \in Permanent PROVE f \in Files /\ Restored(n)[f] # Absent
  BY DEF Present
<1>0. f \in Files
  BY FilesAssumption
<1>1. ASSUME NEW m \in DOMAIN archives \cap DOMAIN records
      PROVE  /\ f \notin records[m].deleted
             /\ archives[m][f] # Absent <=> f \in Touched(m)
             /\ FullLike(m) => f \in records[m].full /\ f \in Touched(m)
  BY <1>0, <1>1 DEF KeepsPermanent, Described, Fitting, Describes, Touched
<1>2. CASE FullLike(n)
  <2>1. n \in DOMAIN archives \cap DOMAIN records
    BY <1>2 DEF Restorable, ChainTrue
  <2> QED
    BY <1>0, <1>1, <1>2, <2>1 DEF Restored
<1>3. CASE ~FullLike(n)
  <2> DEFINE c == ChainTo(n)
  <2>1. Links(c) \subseteq DOMAIN archives \cap DOMAIN records /\ FullLike(Head(c))
    BY <1>3 DEF Restorable
  <2>2. Shaped(c, n)
    BY ChainShaped
  <2>3. Restored(n)[f] = RestoredFile(c, f)
    BY <1>0, <1>3 DEF Restored
  <2> HIDE DEF c
  <2>4. /\ Len(c) \in Nat \ {0} /\ DOMAIN c = 1..Len(c) /\ Head(c) = c[1]
        /\ \A k \in DOMAIN c : c[k] \in DOMAIN archives \cap DOMAIN records
    BY <2>1, <2>2 DEF Shaped, Links
  <2> DEFINE changes == {k \in DOMAIN c :
                           IF k = 1 THEN f \in records[c[k]].full
                           ELSE f \in Touched(c[k]) \cup records[c[k]].deleted}
             last == CHOOSE k \in changes : \A m \in changes : m <= k
  <2>5. RestoredFile(c, f) = IF changes = {} \/ (last > 1 /\ f \notin Touched(c[last])) THEN Absent
                             ELSE archives[c[last]][f]
    BY DEF RestoredFile
  <2>6. 1 \in changes /\ changes \in SUBSET (1..Len(c))
    BY <1>1, <2>1, <2>4
  <2>7. last \in changes
    BY <2>4, <2>6, GreatestPlace
  <2>8. f \in Touched(c[last])
    BY <1>1, <2>1, <2>4, <2>7
  <2>9. archives[c[last]][f] # Absent
    BY <1>1, <2>4, <2>7, <2>8
  <2> HIDE DEF changes, last
  <2> QED
    BY <1>0, <2>3, <2>5, <2>6, <2>8, <2>9
<1> QED
  BY <1>2, <1>3

\* Records that are left keep these files.
LEMMA KeepsShrinks ==
  ASSUME NEW r, NEW r2, KeepsPermanent(r), DOMAIN r2 \subseteq DOMAIN r, \A n \in DOMAIN r2 : r2[n] = r[n]
  PROVE  KeepsPermanent(r2)
  BY DEF KeepsPermanent

\* So do the steps of a backup.
LEMMA BackupRooted ==
  ASSUME Typed, Steady, ChainSound, Rooted, Backup PROVE Rooted'
<1> USE DEF Undoing, RemovalSteps, UndoSteps, BackupSteps
<1>0. /\ Permanent \subseteq Present(world) /\ Permanent \subseteq Present(job.scan) /\ KeepsPermanent(records)
      /\ JobTrue
      /\ world' = world /\ pc' \notin Undoing /\ (pc' \in BackupSteps => job' = job)
  BY DEF Rooted, ChainSound, Backup, WriteArchive, ArchiveFails, SaveRecord, SaveState,
         StateSnapshotFails, MetadataFails, AddHistory, AddHistoryFails, RestoreState, DropRecord,
         DropArchive, RollbackIncomplete, Finish, env, game
<1>1. KeepsPermanent(records')
  <2>1. CASE SaveRecord
    <3>1. /\ pc = "record" /\ records' = With(records, job.name, NewRecord)
      BY <2>1 DEF SaveRecord
    <3>2. /\ NewRecord.deleted = job.deleted
          /\ NewRecord.full = IF job.name.kind = "Smart" THEN {} ELSE job.files
      BY DEF NewRecord
    <3>3. JobDelta /\ JobFits
      BY <1>0, <3>1 DEF JobTrue
    <3>4. NewRecord.deleted \cap Permanent = {}
      BY <1>0, <3>2, <3>3 DEF JobDelta
    <3>5. FullLike(job.name) => Permanent \subseteq NewRecord.full
      BY <1>0, <3>2, <3>3 DEF JobDelta, JobFits, FullLike
    <3> QED
      BY <1>0, <3>1, <3>4, <3>5 DEF KeepsPermanent, With
  <2>2. CASE ~SaveRecord
    <3>1. DOMAIN records' \subseteq DOMAIN records /\ \A n \in DOMAIN records' : records'[n] = records[n]
      BY <2>2 DEF Backup, WriteArchive, ArchiveFails, SaveState,
         StateSnapshotFails, MetadataFails, AddHistory, AddHistoryFails, RestoreState, DropRecord,
         DropArchive, RollbackIncomplete, Without, disk
    <3> QED
      BY <1>0, <3>1, KeepsShrinks
  <2> QED
    BY <2>1, <2>2
<1> QED
  BY <1>0, <1>1 DEF Rooted, Present

\* Reading the archives to remove changes none of it.
LEMMA ChoiceRooted ==
  ASSUME Typed, Steady, Rooted, EndRound \/ PickOldest \/ Keep \/ StartDirect \/ StartMerge
  PROVE  Rooted'
<1> USE DEF Undoing, RemovalSteps, UndoSteps, BackupSteps
<1>1. /\ world' = world /\ records' = records /\ pc' \notin BackupSteps /\ trim \in Trim
      /\ KeepsPermanent(records) /\ Permanent \subseteq Present(world)
  BY DEF EndRound, PickOldest, Keep, StartDirect, StartMerge, Finish, disk, env, game, Rooted,
         Typed, TypedWork
<1>2. pc' \in Undoing => trim'.records = records
  BY <1>1 DEF EndRound, PickOldest, Keep, StartDirect, StartMerge, Finish, Snapshot, Trim
<1> QED
  BY <1>1, <1>2 DEF Rooted, Present, KeepsPermanent

\* The repaired record of a merge deletes what one of the two did, and lists the files of both.
LEMMA RepairKeeps ==
  ASSUME KeepsPermanent(records), trim.target \in DOMAIN records, trim.next \in DOMAIN records,
         trim.final.kind # "Smart" => FullLike(trim.target)
  PROVE  /\ RepairedRecord.deleted \cap Permanent = {}
         /\ trim.final.kind # "Smart" => Permanent \subseteq RepairedRecord.full
<1> DEFINE D == records[trim.target]
           N == records[trim.next]
<1>1. /\ D.deleted \cap Permanent = {} /\ N.deleted \cap Permanent = {}
      /\ trim.final.kind # "Smart" => Permanent \subseteq D.full
  BY DEF KeepsPermanent
<1>2. CASE trim.final.kind = "Smart"
  <2>1. RepairedRecord.deleted = ComposedDeleted(D, N)
    BY <1>2 DEF RepairedRecord
  <2> QED
    BY <1>1, <1>2, <2>1 DEF ComposedDeleted
<1>3. CASE trim.final.kind # "Smart"
  <2>1. RepairedRecord.deleted = {} /\ RepairedRecord.full = FullList(D, N)
    BY <1>3 DEF RepairedRecord
  <2> QED
    BY <1>1, <1>3, <2>1 DEF FullList
<1> QED
  BY <1>2, <1>3

\* The steps of a removal keep it, and so does their undo.
LEMMA RemovalRooted ==
  ASSUME Typed, Steady, Steady', StateSound, Undoable, ChainSound, Rooted, pc \in Undoing, Removal
  PROVE  Rooted'
<1>00. \A n \in DOMAIN records : records[n] \in Record
  <2>1. records \in Maps(Names, Record)
    BY DEF Typed, TypedDisk
  <2> QED
    BY <2>1, MapElim
<1> USE DEF Undoing, RemovalSteps, UndoSteps, BackupSteps
<1> USE DEF Removal, DirectArchive, DirectRecord, MergeReplace, MergeRename, MergeRecord, MergeRefs,
            MergeState, MergeRemove, Commit, RemovalFails, UndoTarget, UndoRemoved, UndoClear, UndoCopy
<1>0. /\ KeepsPermanent(records) /\ KeepsPermanent(trim.records) /\ Permanent \subseteq Present(world)
      /\ trim \in Trim
  BY DEF Rooted, Typed, TypedWork
<1>1. /\ world' = world /\ pc' \notin BackupSteps
      /\ pc' \in Undoing => trim'.records = trim.records
  BY <1>0 DEF EndRound, PickOldest, Keep, StartDirect, StartMerge, Finish, env, game, Trim
<1>2. KeepsPermanent(records')
  <2>1. CASE MergeRecord
    <3>1. pc = "mergeRecord" /\ trim.next # NoName
      BY <2>1, Vocabulary DEF Typed, TypedWork, MergeSteps
    <3>2. /\ records = trim.records
          /\ trim.final.kind # "Smart" => FullLike(trim.target)
      BY <3>1, MergeFacts DEF MergeInStep, Adjacent
    <3>3. trim.target \in DOMAIN records /\ trim.next \in DOMAIN records
      BY <2>1, <3>1 DEF Typed, TypedWork
    <3>4. /\ RepairedRecord.deleted \cap Permanent = {}
          /\ trim.final.kind # "Smart" => Permanent \subseteq RepairedRecord.full
      BY <1>0, <3>2, <3>3, RepairKeeps
    <3>5. FullLike(trim.final) => trim.final.kind # "Smart"
      BY DEF FullLike
    <3>6. records' = With(Without(records, {trim.target, trim.next}), trim.final, RepairedRecord)
      BY <2>1
    <3> QED
      BY <1>0, <3>4, <3>5, <3>6 DEF KeepsPermanent, With, Without
  <2>2. CASE MergeRefs
    <3>1. /\ DOMAIN records' = DOMAIN records
          /\ \A n \in DOMAIN records :
                records'[n].deleted = records[n].deleted /\ records'[n].full = records[n].full
      BY <1>00, <2>2 DEF Record
    <3> QED
      BY <1>0, <3>1 DEF KeepsPermanent
  <2>3. CASE UndoCopy
    <3>1. DOMAIN records' \subseteq DOMAIN trim.records /\ \A n \in DOMAIN records' : records'[n] = trim.records[n]
      BY <2>3 DEF Without
    <3> QED
      BY <1>0, <3>1, KeepsShrinks
  <2>4. CASE ~MergeRecord /\ ~MergeRefs /\ ~UndoCopy
    <3>1. DOMAIN records' \subseteq DOMAIN records /\ \A n \in DOMAIN records' : records'[n] = records[n]
      BY <2>4 DEF EndRound, PickOldest, Keep, StartDirect, StartMerge, Without, disk
    <3> QED
      BY <1>0, <3>1, KeepsShrinks
  <2> QED
    BY <2>1, <2>2, <2>3, <2>4
<1> QED
  BY <1>0, <1>1, <1>2 DEF Rooted, Present

\* The user and the game keep it: a restore brings these files back.
LEMMA OutsideRooted ==
  ASSUME Typed, Steady, Recorded, ChainSound, Rooted, User \/ Environment, ~Crash
  PROVE  Rooted'
<1> USE DEF Undoing, RemovalSteps, UndoSteps, BackupSteps
<1>0. /\ KeepsPermanent(records) /\ Permanent \subseteq Present(world)
      /\ pc \in BackupSteps => Permanent \subseteq Present(job.scan)
      /\ pc \in Undoing => KeepsPermanent(trim.records)
      /\ edits \in Nat /\ edits >= 1
  BY BoundsAssumption DEF Rooted, Typed, TypedWorld
<1>1. ASSUME NEW mode \in Modes, StartBackup(mode) PROVE Rooted'
  <2>1. /\ pc' = "archive" /\ world' = world /\ records' = records /\ job'.scan = world
    BY <1>1 DEF StartBackup, disk, env, game
  <2> QED
    BY <1>0, <2>1 DEF Rooted, Present, KeepsPermanent
<1>2. ASSUME NEW i \in DOMAIN history, RestoreWorld(i) PROVE Rooted'
  <2>1. /\ pc = "idle" /\ pc' = "idle" /\ records' = records
        /\ Restorable(NameOf(history, i)) /\ world' = Restored(NameOf(history, i))
    BY <1>2 DEF RestoreWorld, disk
  <2>2. ChainTrue /\ Described(records, archives, {})
    BY <2>1 DEF ChainSound, Recorded, Steady, Calm, Half
  <2>3. NameOf(history, i) \in Names /\ Listed(NameOf(history, i))
    BY NameOfListed DEF Typed, NameOf, Listed
  <2>4. Permanent \subseteq Present(world')
    BY <1>0, <2>1, <2>2, <2>3, RestoredKeepsPermanent
  <2> QED
    BY <1>0, <2>1, <2>4 DEF Rooted, KeepsPermanent, Present
<1>3. ASSUME NEW f \in Files, NEW keeps \in BOOLEAN, EditFile(f, keeps) PROVE Rooted'
  <2>1. /\ keeps \/ f \notin Permanent
        /\ world' = [world EXCEPT ![f] = IF keeps THEN edits + 1 ELSE Absent]
        /\ pc' = pc /\ UNCHANGED <<records, job, trim>>
    BY <1>3 DEF EditFile, disk
  <2>2. world \in Contents
    BY DEF Typed, TypedWorld
  <2>3. \A g \in Permanent : world'[g] # Absent
    BY <1>0, <2>1, <2>2, FilesAssumption DEF Present, Absent, Contents
  <2> QED
    BY <1>0, <2>1, <2>3, FilesAssumption DEF Rooted, Present, KeepsPermanent
<1>4. CASE SetClockBack \/ \E i \in DOMAIN history :
              DeleteHistoryOnly(i) \/ DeleteLocalArchive(i) \/ DeleteArchiveAndHistory(i)
                \/ SafeDelete(i) \/ Mark(i)
  <2>1. /\ world' = world /\ job' = job /\ (pc' \in Undoing => trim' = trim)
        /\ pc' = pc \/ pc' = "remove"
        /\ DOMAIN records' \subseteq DOMAIN records /\ \A n \in DOMAIN records' : records'[n] = records[n]
    BY <1>4 DEF SetClockBack, DeleteHistoryOnly, DeleteLocalArchive, DeleteArchiveAndHistory,
                SafeDelete, Mark, Invalidate, Without, disk, env, game
  <2>2. KeepsPermanent(records')
    BY <1>0, <2>1, KeepsShrinks
  <2> QED
    BY <1>0, <2>1, <2>2 DEF Rooted, Present
<1> QED
  BY <1>1, <1>2, <1>3, <1>4 DEF User, Environment

\* Every step keeps these files.
LEMMA RootedStep ==
  Typed /\ Undoable /\ StateSound /\ Recorded /\ ChainSound /\ Rooted /\ [Next]_vars => Rooted'
<1> SUFFICES ASSUME Typed, Undoable, StateSound, Recorded, ChainSound, Rooted, [Next]_vars, Steady'
             PROVE  Rooted'
  BY DEF Rooted
<1>0. Steady /\ ~Crash /\ ~SetClockBack
  BY SteadyBefore
<1>1. CASE UNCHANGED vars
  BY <1>0, <1>1 DEF vars, Rooted, Present, KeepsPermanent, Undoing
<1>2. CASE Backup
  BY <1>0, <1>2, BackupRooted
<1>3. CASE Removal
  <2>1. CASE EndRound \/ PickOldest \/ Keep \/ StartDirect \/ StartMerge
    BY <1>0, <2>1, ChoiceRooted
  <2>2. CASE ~(EndRound \/ PickOldest \/ Keep \/ StartDirect \/ StartMerge)
    <3>1. pc \in Undoing
      BY <1>3, <2>2
         DEF Removal, DirectArchive, DirectRecord, MergeReplace, MergeRename, MergeRecord, MergeRefs,
             MergeState, MergeRemove, Commit, RemovalFails, UndoTarget, UndoRemoved, UndoClear,
             UndoCopy, Undoing, RemovalSteps, UndoSteps
    <3> QED
      BY <1>0, <1>3, <3>1, RemovalRooted
  <2> QED
    BY <2>1, <2>2
<1>4. CASE User \/ Environment
  BY <1>0, <1>4, OutsideRooted
<1> QED
  BY <1>1, <1>2, <1>3, <1>4 DEF Next, Worker

\* Every entry of the history has its archive among these.
AllThere(names) == \A i \in DOMAIN history : NameOf(history, i) \in names

Complete ==
    Steady => AllThere(IF pc \in Undoing THEN Around(DOMAIN archives) ELSE DOMAIN archives)

\* A step that leaves archives and kinds alone leaves every entry its archive.
LEMMA QuietComplete ==
  ASSUME Complete, SameKinds, UNCHANGED archives, pc \notin Undoing, pc' \notin Undoing, Steady
  PROVE  Complete'
  BY DEF Complete, AllThere, SameKinds, NameOf

\* A backup that is taken back had no entry yet, and one that is committed has its archive.
LEMMA BackupComplete ==
  ASSUME Typed, Steady, StateSound, Complete, Backup PROVE Complete'
<1> USE DEF Undoing, RemovalSteps, UndoSteps, BackupSteps
<1>0. /\ pc \in BackupSteps /\ pc' \notin Undoing /\ AllThere(DOMAIN archives)
      /\ job.name \in Names /\ JobInStep
  BY DEF Backup, WriteArchive, ArchiveFails, SaveRecord, SaveState, StateSnapshotFails,
         MetadataFails, AddHistory, AddHistoryFails, RestoreState, DropRecord, DropArchive,
         RollbackIncomplete, Finish, Complete, Typed, TypedWork, StateSound
<1>1. CASE AddHistory
  <2>1. /\ archives' = archives /\ pc = "history"
        /\ history' = With(history, job.name.id,
                           [kind |-> job.name.kind, important |-> FALSE, time |-> clock])
    BY <1>1 DEF AddHistory
  <2>2. job.name \in DOMAIN archives
    BY <1>0, <2>1 DEF JobInStep
  <2>3. \A i \in DOMAIN history' :
           \/ i \in DOMAIN history /\ NameOf(history', i) = NameOf(history, i)
           \/ NameOf(history', i) = job.name
    BY <1>0, <2>1 DEF With, NameOf, Names
  <2> QED
    BY <1>0, <2>1, <2>2, <2>3 DEF Complete, AllThere
<1>2. CASE ~AddHistory
  <2>1. history' = history /\ DOMAIN archives \ {job.name} \subseteq DOMAIN archives'
    BY <1>2 DEF Backup, WriteArchive, ArchiveFails, SaveRecord, SaveState, StateSnapshotFails,
         MetadataFails, AddHistoryFails, RestoreState, DropRecord, DropArchive,
         RollbackIncomplete, With, Without, disk
  <2>2. \A i \in DOMAIN history : i \in Nat /\ i < job.name.id /\ job.name.id \in Nat
    BY <1>0, Numbers DEF JobInStep
  <2>3. \A i \in DOMAIN history : NameOf(history, i) # job.name
    BY <2>2 DEF NameOf
  <2> QED
    BY <1>0, <2>1, <2>3 DEF Complete, AllThere
<1> QED
  BY <1>1, <1>2

\* The steps of a removal move archives among the same names, and its commit takes the target
\* out of the history; an undo brings the names back.
LEMMA RemovalComplete ==
  ASSUME Typed, Steady, Steady', Undoable, StateSound, Complete, Removal, [Next]_vars
  PROVE  Complete'
<1> USE DEF Undoing, RemovalSteps, UndoSteps
<1>1. CASE EndRound \/ Keep \/ PickOldest
  BY <1>1, QuietComplete DEF EndRound, Keep, PickOldest, Finish, disk, SameKinds
<1>2. CASE StartDirect \/ StartMerge
  <2>1. pc \notin Undoing /\ pc' \in Undoing /\ history' = history
    BY <1>2 DEF StartDirect, StartMerge, disk
  <2>2. Around(DOMAIN archives)' = DOMAIN archives
    BY <1>2, StartAround
  <2> QED
    BY <2>1, <2>2 DEF Complete, AllThere
<1>3. CASE DirectArchive \/ DirectRecord \/ Merging \/ RemovalFails
  <2>1. pc \in Undoing /\ pc' \in Undoing /\ history' = history
    BY <1>3 DEF DirectArchive, DirectRecord, Merging, MergeReplace, MergeRename, MergeRecord,
                MergeRefs, MergeState, MergeRemove, RemovalFails, disk
  <2>2. Around(DOMAIN archives)' = Around(DOMAIN archives)
    <3>1. CASE Merging
      BY <3>1, MergeAround
    <3>2. CASE ~Merging
      <4>1. /\ trim \in Trim
            /\ DOMAIN archives' \cup {trim.target} = DOMAIN archives \cup {trim.target}
        BY <1>3, <3>2 DEF DirectArchive, DirectRecord, RemovalFails, Without, disk, Typed, TypedWork
      <4>2. trim'.target = trim.target /\ trim'.next = trim.next /\ trim'.final = trim.final
        BY <1>3, <3>2, <4>1 DEF DirectArchive, DirectRecord, RemovalFails, Trim
      <4> QED
        BY <4>1, <4>2 DEF Around
    <3> QED
      BY <3>1, <3>2
  <2> QED
    BY <2>1, <2>2 DEF Complete, AllThere
<1>4. CASE Commit
  <2>1. /\ pc = "commit" /\ pc' \notin Undoing /\ archives' = archives
        /\ AllThere(Around(DOMAIN archives)) /\ Listed(trim.target) /\ trim.target \in Names
        /\ history' = CommittedHistory
    BY <1>4 DEF Commit, Finish, Complete, StateSound, Typed, TypedWork
  <2>2. CASE trim.next = NoName
    <3>1. /\ DOMAIN history' = DOMAIN history \ {trim.target.id}
          /\ \A i \in DOMAIN history' : NameOf(history', i) = NameOf(history, i)
                                        /\ NameOf(history, i) # trim.target
      BY <2>1, <2>2 DEF CommittedHistory, Without, NameOf
    <3>2. \A i \in DOMAIN history' : NameOf(history, i) \in DOMAIN archives
      BY <2>1, <2>2, <3>1 DEF AllThere, Around
    <3> QED
      BY <2>1, <3>1, <3>2 DEF Complete, AllThere
  <2>3. CASE trim.next # NoName
    <3>1. /\ DOMAIN history' = DOMAIN history \ {trim.target.id}
          /\ \A i \in DOMAIN history' :
                history'[i].kind = IF i = trim.next.id THEN trim.final.kind ELSE history[i].kind
      BY <1>4, <2>3, MergedHistory
    <3>2. trim.final \in DOMAIN archives /\ trim.final \in Names /\ trim.final.id = trim.next.id
      BY <2>1, <2>3, MergeFacts DEF MergeInStep
    <3>3. ASSUME NEW i \in DOMAIN history' PROVE NameOf(history', i) \in DOMAIN archives
      <4>1. CASE i = trim.next.id
        <5>1. NameOf(history', i) = trim.final
          BY <3>1, <3>2, <4>1 DEF NameOf, Names
        <5> QED
          BY <3>2, <5>1
      <4>2. CASE i # trim.next.id
        <5>1. /\ NameOf(history', i) = NameOf(history, i) /\ NameOf(history, i).id = i
              /\ NameOf(history, i) \in Around(DOMAIN archives) /\ i # trim.target.id
          BY <2>1, <3>1, <4>2 DEF NameOf, AllThere
        <5> QED
          BY <4>2, <5>1 DEF Around
      <4> QED
        BY <4>1, <4>2
    <3> QED
      BY <2>1, <3>3 DEF Complete, AllThere
  <2> QED
    BY <2>2, <2>3
<1>5. CASE UndoTarget \/ UndoRemoved \/ UndoClear \/ UndoCopy
  <2>1. /\ pc \in UndoSteps /\ UNCHANGED history
        /\ crashes' = crashes /\ ~retained'
        /\ \/ pc' \in UndoSteps /\ trim' = trim
           \/ pc' = "idle" /\ pc \in {"undoRemoved", "undoClear", "undoCopy"}
        /\ pc' = "idle" => ~UndoClear
    BY <1>5 DEF UndoTarget, UndoRemoved, UndoClear, UndoCopy, Finish, counts,
           RollbackFault, Fails, Steady, Calm
  <2>2. AllThere(Around(DOMAIN archives))
    BY <2>1 DEF Complete
  <2>3. CASE pc' \in UndoSteps /\ trim' = trim
    <3>1. Around(DOMAIN archives)' = Around(DOMAIN archives)
      BY <1>5, <2>3, UndoAround DEF Around
    <3> QED
      BY <2>1, <2>2, <2>3, <3>1 DEF Complete, AllThere
  <2>4. CASE pc' = "idle"
    <3>1. UndoEnds
      BY <1>5, <2>1, <2>4 DEF UndoEnds, UndoTarget, UndoRemoved, UndoClear, UndoCopy
    <3>2. DOMAIN archives' = Around(DOMAIN archives)
      BY <1>5, <2>4, <3>1, UndoEndsRight, UndoEndsAround
    <3> QED
      BY <2>1, <2>2, <2>4, <3>2 DEF Complete, AllThere
  <2> QED
    BY <2>1, <2>3, <2>4
<1> QED
  BY <1>1, <1>2, <1>3, <1>4, <1>5 DEF Removal, Merging

\* With no deletion but the safe one no archive of an entry ever goes.
LEMMA CompleteStep ==
  ASSUME Deletions \subseteq {"Safe"}
  PROVE  Typed /\ Undoable /\ StateSound /\ Complete /\ [Next]_vars => Complete'
<1> SUFFICES ASSUME Typed, Undoable, StateSound, Complete, [Next]_vars, Steady' PROVE Complete'
  BY DEF Complete
<1>0. Steady /\ ~Crash /\ ~SetClockBack
  BY SteadyBefore
<1> USE DEF Undoing, RemovalSteps, UndoSteps
<1>1. CASE UNCHANGED vars
  BY <1>0, <1>1 DEF vars, Complete, AllThere, Around
<1>2. CASE Backup
  BY <1>0, <1>2, BackupComplete
<1>3. CASE Removal
  BY <1>0, <1>3, RemovalComplete
<1>4. ASSUME NEW i \in DOMAIN history, Mark(i) PROVE Complete'
  <2>1. history' = [history EXCEPT ![i].important = ~@] /\ \A k \in DOMAIN history : history[k] \in Entry
    BY <1>4, Numbers DEF Mark
  <2>2. SameKinds /\ pc' = pc /\ UNCHANGED <<archives, trim>>
    BY <1>4, <2>1 DEF Mark, SameKinds, Entry
  <2> QED
    BY <1>0, <2>2 DEF Complete, AllThere, Around, SameKinds, NameOf
<1>5. CASE \E i \in DOMAIN history :
              DeleteHistoryOnly(i) \/ DeleteLocalArchive(i) \/ DeleteArchiveAndHistory(i)
  BY <1>5 DEF DeleteHistoryOnly, DeleteLocalArchive, DeleteArchiveAndHistory
<1>6. CASE \/ \E mode \in Modes : StartBackup(mode)
           \/ \E i \in DOMAIN history : SafeDelete(i) \/ RestoreWorld(i)
           \/ \E f \in Files, keeps \in BOOLEAN : EditFile(f, keeps)
  <2>1. pc \notin Undoing /\ pc' \notin Undoing /\ UNCHANGED <<archives, history>>
    BY <1>6 DEF StartBackup, SafeDelete, RestoreWorld, EditFile, disk
  <2> QED
    BY <1>0, <2>1, QuietComplete DEF SameKinds
<1> QED
  BY <1>0, <1>1, <1>2, <1>3, <1>4, <1>5, <1>6 DEF Next, Worker, User, Environment

\* A part of the chain of n: its links are entries, and it goes back at least k numbers unless
\* it has come to a Full-like archive.
WalkedBack(c, n, k) ==
    /\ c \in Seq(Names) /\ c # <<>>
    /\ \A j \in DOMAIN c : Listed(c[j])
    /\ FullLike(Head(c)) \/ Head(c).id <= n.id - k

\* Each step of the walk goes on to an entry with a smaller number.
LEMMA WalkGoesBack ==
  ASSUME Typed, ChainTrue, AllThere(DOMAIN archives), NEW n \in Names, NEW k \in Nat, NEW c,
         WalkedBack(c, n, k)
  PROVE  WalkedBack(Grown(c), n, k + 1)
<1> DEFINE h == Head(c)
           p == records[h].prev
<1>1. /\ c \in Seq(Names) /\ Len(c) \in Nat \ {0} /\ DOMAIN c = 1..Len(c) /\ h = c[1] /\ h \in Names
      /\ Listed(h) /\ h.id \in Nat /\ n.id \in Nat
  BY Numbers DEF WalkedBack
<1>2. CASE FullLike(h)
  BY <1>2 DEF WalkedBack, Grown
<1>3. CASE ~FullLike(h)
  <2>1. NameOf(history, h.id) = h
    BY <1>1, Numbers, NameDetermined DEF Listed, NameOf, Names
  <2>2. h \in DOMAIN archives
    BY <1>1, <2>1 DEF AllThere, Listed
  <2>3. h \in DOMAIN records /\ Follows(history, h, records[h])
    BY <1>1, <2>2 DEF ChainTrue, Linked
  <2>4. p \in Names /\ p.id < h.id /\ Listed(p) /\ p.id \in Nat /\ p # NoName
    BY <1>3, <2>3, Numbers, Vocabulary DEF Follows, Listed
  <2>5. Grown(c) = <<p>> \o c
    BY <1>3, <2>3, <2>4 DEF Grown
  <2> HIDE DEF p, h
  <2>6. /\ <<p>> \o c \in Seq(Names) /\ Len(<<p>> \o c) = Len(c) + 1 /\ (<<p>> \o c)[1] = p
        /\ \A j \in 2..(Len(c) + 1) : (<<p>> \o c)[j] = c[j - 1]
    BY <1>1, <2>4
  <2>7. \A j \in 1..(Len(c) + 1) : Listed((<<p>> \o c)[j])
    <3> SUFFICES ASSUME NEW j \in 1..(Len(c) + 1) PROVE Listed((<<p>> \o c)[j])
      OBVIOUS
    <3>1. CASE j = 1
      BY <2>4, <2>6, <3>1
    <3>2. CASE j # 1
      <4>1. j \in 2..(Len(c) + 1) /\ j - 1 \in DOMAIN c
        BY <1>1, <3>2
      <4> QED
        BY <2>6, <4>1 DEF WalkedBack
    <3> QED
      BY <3>1, <3>2
  <2>8. h.id <= n.id - k
    BY <1>3 DEF WalkedBack, h
  <2>9. p.id <= n.id - (k + 1)
    BY <1>1, <2>4, <2>8
  <2> QED
    BY <1>1, <2>5, <2>6, <2>7, <2>9 DEF WalkedBack
<1> QED
  BY <1>2, <1>3

\* So the restore plan accepts every entry: its chain ends at a Full-like archive that is not empty.
LEMMA ChainAccepted ==
  ASSUME Typed, ChainTrue, AllThere(DOMAIN archives), KeepsPermanent(records), Permanent # {},
         NEW n \in Names, Listed(n)
  PROVE  Restorable(n)
<1>0. MaxBackups \in Nat /\ n.id \in 1..MaxBackups
  BY BoundsAssumption DEF Names, Ids
<1>1. \A m \in Names : Listed(m) => m \in DOMAIN archives
  <2> SUFFICES ASSUME NEW m \in Names, Listed(m) PROVE m \in DOMAIN archives
    OBVIOUS
  <2>1. NameOf(history, m.id) = m
    BY Numbers, NameDetermined DEF Listed, NameOf, Names
  <2> QED
    BY <2>1 DEF AllThere, Listed
<1>2. CASE FullLike(n)
  BY <1>1, <1>2 DEF Restorable
<1>3. CASE ~FullLike(n)
  <2>1. PICK w : /\ ChainTo(n) = w[MaxBackups] /\ w[0] = <<n>>
                 /\ \A k \in 1..MaxBackups : w[k] = Grown(w[k - 1])
    BY ChainIsWalk
  <2>2. WalkedBack(<<n>>, n, 0)
    BY <1>0 DEF WalkedBack
  <2> DEFINE S == {k \in 0..MaxBackups : ~WalkedBack(w[k], n, k)}
  <2>3. S = {}
    <3> SUFFICES ASSUME S # {} PROVE FALSE
      OBVIOUS
    <3>1. S \in SUBSET Nat
      BY <1>0
    <3>2. PICK m \in S : \A k \in S : m <= k
      BY <3>1, LeastNumber
    <3>3. m # 0
      BY <2>1, <2>2, <3>2
    <3>4. m \in 1..MaxBackups /\ m - 1 \in 0..MaxBackups /\ m - 1 \notin S /\ m - 1 \in Nat /\ (m - 1) + 1 = m
      BY <1>0, <3>2, <3>3
    <3>5. WalkedBack(w[m - 1], n, m - 1) /\ w[m] = Grown(w[m - 1])
      BY <2>1, <3>4
    <3>6. WalkedBack(w[m], n, (m - 1) + 1)
      BY <3>4, <3>5, WalkGoesBack
    <3> QED
      BY <3>2, <3>4, <3>6
  <2> DEFINE c == ChainTo(n)
  <2>4. WalkedBack(c, n, MaxBackups)
    BY <1>0, <2>1, <2>3
  <2> HIDE DEF c
  <2>5. /\ c \in Seq(Names) /\ DOMAIN c = 1..Len(c) /\ Len(c) \in Nat \ {0} /\ Head(c) = c[1]
        /\ Head(c) \in Names /\ Head(c).id \in 1..MaxBackups
        /\ \A j \in DOMAIN c : c[j] \in Names /\ Listed(c[j])
    <3>1. c \in Seq(Names) /\ c # <<>> /\ \A j \in DOMAIN c : Listed(c[j])
      BY <2>4 DEF WalkedBack
    <3>2. /\ DOMAIN c = 1..Len(c) /\ Len(c) \in Nat \ {0} /\ Head(c) = c[1]
          /\ Head(c) \in Names /\ \A j \in DOMAIN c : c[j] \in Names
      BY <3>1
    <3> QED
      BY <3>1, <3>2 DEF Names, Ids
  <2>6. \A j \in DOMAIN c : c[j] \in DOMAIN archives \cap DOMAIN records
    BY <1>1, <2>5 DEF ChainTrue
  <2>7. FullLike(Head(c))
    BY <1>0, <2>4, <2>5 DEF WalkedBack
  <2>8. records[Head(c)].full # {}
    BY <2>5, <2>6, <2>7 DEF KeepsPermanent
  <2> QED
    BY <1>3, <2>6, <2>7, <2>8 DEF Restorable, Links, c
<1> QED
  BY <1>2, <1>3

\* As long as the process has not died, no rollback was reported incomplete, the clock was not
\* set back and the user takes neither archives nor entries away directly, every entry of the
\* history can be restored: its chain is there from a Full-like archive on, through any sequence
\* of backups, failed commits, retention rounds, safe deletions, merges and undone removals.
THEOREM EntriesAreRestorable ==
  ASSUME Deletions \subseteq {"Safe"}, Permanent # {}
  PROVE  Spec => [](crashes = 0 /\ setbacks = 0 => HistoryRestorable)
<1>1. Init => Undoable /\ StateSound /\ Recorded /\ ChainSound /\ Rooted /\ Complete
  BY FilesAssumption
     DEF Init, Undoable, Numbered, StateSound, InOrder, Fits, Recorded, Described, ChainSound,
         ChainTrue, Undoing, RemovalSteps, UndoSteps, BackupSteps, Half, Rooted, Complete, AllThere,
         KeepsPermanent, Present, Absent
<1>2. Typed /\ ChainSound /\ Rooted /\ Complete => (crashes = 0 /\ setbacks = 0 => HistoryRestorable)
  <2> SUFFICES ASSUME Typed, ChainSound, Rooted, Complete, crashes = 0, setbacks = 0, pc = "idle",
                      ~retained, NEW i \in DOMAIN history
               PROVE  Restorable(NameOf(history, i))
    BY DEF HistoryRestorable
  <2>1. ChainTrue /\ KeepsPermanent(records) /\ AllThere(DOMAIN archives)
    BY DEF ChainSound, Rooted, Complete, Steady, Calm, Undoing, RemovalSteps, UndoSteps
  <2>2. NameOf(history, i) \in Names /\ Listed(NameOf(history, i))
    BY NameOfListed DEF Typed, NameOf, Listed
  <2> QED
    BY <2>1, <2>2, ChainAccepted
<1>3. Typed /\ Typed' /\ Undoable /\ StateSound /\ [Next]_vars => StateSound'
  BY StateSoundStep
<1>4. Typed /\ Typed' /\ Undoable /\ StateSound /\ Recorded /\ ChainSound /\ [Next]_vars => ChainSound'
  BY ChainSoundStep
<1>5. Typed /\ Undoable /\ StateSound /\ Recorded /\ ChainSound /\ Rooted /\ [Next]_vars => Rooted'
  BY RootedStep
<1>6. Typed /\ Undoable /\ StateSound /\ Complete /\ [Next]_vars => Complete'
  BY CompleteStep
<1> QED
  BY <1>1, <1>2, <1>3, <1>4, <1>5, <1>6, InitTyped, TypedStep, UndoableStep, RecordedStep, PTL DEF Spec

=============================================================================
