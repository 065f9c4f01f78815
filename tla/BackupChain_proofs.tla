------------------------- MODULE BackupChain_proofs -------------------------
(* Proofs about BackupChain for any files, modes, limits and bounds.       *)
EXTENDS BackupChain, FiniteSetTheorems, TLAPS

-----------------------------------------------------------------------------
(* Partial functions from D to R, and the operators that build them.       *)

Maps(D, R) == UNION {[S -> R] : S \in SUBSET D}

\* A function whose values lie in R is a map from its domain, a subset of D.
LEMMA MapIntro ==
  ASSUME NEW D, NEW R, NEW S \in SUBSET D, NEW g \in [S -> R]
  PROVE  g \in Maps(D, R)
  BY DEF Maps

\* What a map is: a function with a domain within D and values in R.
LEMMA MapElim ==
  ASSUME NEW D, NEW R, NEW g \in Maps(D, R)
  PROVE  DOMAIN g \subseteq D /\ g \in [DOMAIN g -> R]
  BY DEF Maps

\* A map in the set form satisfies the predicate the type invariant uses.
LEMMA MapIsMap ==
  ASSUME NEW D, NEW R, NEW g \in Maps(D, R)
  PROVE  IsMap(g, D, R)
  BY MapElim DEF IsMap

\* The empty function is a map.
LEMMA EmptyMap ==
  ASSUME NEW D, NEW R, NEW v
  PROVE  [x \in {} |-> v] \in Maps(D, R)
<1>1. [x \in {} |-> v] \in [{} -> R]
  OBVIOUS
<1> QED
  BY <1>1, MapIntro

\* Setting one value keeps a map a map.
LEMMA WithMap ==
  ASSUME NEW D, NEW R, NEW g \in Maps(D, R), NEW x \in D, NEW v \in R
  PROVE  With(g, x, v) \in Maps(D, R)
<1>1. With(g, x, v) \in [DOMAIN g \cup {x} -> R]
  BY MapElim DEF With
<1> QED
  BY <1>1, MapElim, MapIntro

\* Setting one value adds its key to the domain.
LEMMA WithDomain ==
  ASSUME NEW g, NEW x, NEW v
  PROVE  DOMAIN With(g, x, v) = DOMAIN g \cup {x}
  BY DEF With

\* Removing keys keeps a map a map.
LEMMA WithoutMap ==
  ASSUME NEW D, NEW R, NEW g \in Maps(D, R), NEW S
  PROVE  Without(g, S) \in Maps(D, R)
<1>1. Without(g, S) \in [DOMAIN g \ S -> R]
  BY MapElim DEF Without
<1> QED
  BY <1>1, MapElim, MapIntro

\* Removing keys takes them out of the domain.
LEMMA WithoutDomain ==
  ASSUME NEW g, NEW S
  PROVE  DOMAIN Without(g, S) = DOMAIN g \ S
  BY DEF Without

-----------------------------------------------------------------------------
(* Types, and what each step may rely on.                                  *)

Trim == [target : NamesOrNone, next : NamesOrNone, final : NamesOrNone,
         seen : Maps(Ids, Entry), blocked : SUBSET Names,
         records : Maps(Names, Record), state : MetadataState,
         targetFiles : Contents, nextFiles : Contents, time : 0..MaxBackups,
         replaced : BOOLEAN, removed : BOOLEAN, mutated : BOOLEAN]

TypedDisk ==
    /\ archives \in Maps(Names, Contents)
    /\ records \in Maps(Names, Record)
    /\ state \in MetadataState
    /\ history \in Maps(Ids, Entry)

TypedWorld ==
    /\ world \in Contents
    /\ edits \in 1..(MaxEdits + 1)
    /\ nextId \in 1..(MaxBackups + 1)
    /\ clock \in Nat /\ setbacks \in 0..MaxSetbacks
    /\ written \in [Ids -> 0..MaxBackups]
    /\ scanned \in [Ids -> Contents]
    /\ torn \subseteq Ids

TypedCounts ==
    /\ faults \in 0..MaxFaults /\ crashes \in 0..MaxCrashes
    /\ retained \in BOOLEAN

BackupSteps == {"archive", "record", "state", "history", "restoreState", "dropRecord", "dropArchive"}
MergeSteps == {"mergeReplace", "mergeRename", "mergeRecord", "mergeRefs", "mergeState", "mergeRemove"}
UndoSteps == {"undoTarget", "undoRemoved", "undoClear", "undoCopy"}

\* The archives and records an operation works on exist while it needs them.
TypedWork ==
    /\ pc \in Labels
    /\ job \in Job
    /\ trim \in Trim
    /\ pc \in BackupSteps \cup {"enforce"} => job.name \in Names
    /\ job # NoJob => job.name \in Names
    /\ pc = "archive" => job.name.id = nextId
    /\ pc = "remove" => trim.target.id \in DOMAIN trim.seen
    /\ pc \in RemovalSteps \cup UndoSteps \cup {"remove"} => trim.target \in Names
    /\ pc \in MergeSteps => trim.next \in Names /\ trim.final \in Names
    /\ pc \in RemovalSteps \cup UndoSteps /\ trim.next # NoName =>
          trim.next \in Names /\ trim.final \in Names
    /\ pc \in UndoSteps /\ trim.replaced => trim.next \in Names
    /\ pc \in {"directArchive", "directRecord"} => ~trim.replaced
    /\ pc = "commit" /\ trim.replaced => trim.next \in Names
    /\ pc \in {"mergeReplace", "mergeRename", "mergeRecord"} =>
          {trim.target, trim.next} \subseteq DOMAIN records
    /\ pc = "mergeRename" => trim.next \in DOMAIN archives

Typed == TypedDisk /\ TypedWorld /\ TypedCounts /\ TypedWork

\* The grouped form of the type invariant implies the one the runs check.
LEMMA TypedGivesTypeOK == Typed => TypeOK
<1> SUFFICES ASSUME Typed PROVE TypeOK
  OBVIOUS
<1> USE DEF Typed, TypedDisk, TypedWorld, TypedCounts, TypedWork
<1>1. IsMap(archives, Names, Contents) /\ IsMap(records, Names, Record) /\ IsMap(history, Ids, Entry)
  BY MapIsMap
<1>2. TypeOKTrim
  <2>1. IsMap(trim.seen, Ids, Entry) /\ IsMap(trim.records, Names, Record)
    BY MapIsMap DEF Trim
  <2> QED
    BY <2>1 DEF TypeOKTrim, Trim
<1> QED
  BY <1>1, <1>2 DEF TypeOK

\* The constants of the vocabulary lie in their sets.
LEMMA Vocabulary ==
    /\ Empty \in Contents /\ NoState \in MetadataState
    /\ NoName \in NamesOrNone /\ NoName \notin Names
    /\ Absent \in Versions
  BY BoundsAssumption
     DEF Empty, Contents, Versions, Absent, NoState, MetadataState, NamesOrNone, NoName,
         Names, Ids, Kinds

\* The empty job is a job.
LEMMA NoJobIsJob == NoJob \in Job
  BY Vocabulary DEF NoJob, Job

\* The empty removal is a removal.
LEMMA NoTrimIsTrim == NoTrim \in Trim
<1>1. [i \in {} |-> 0] \in Maps(Ids, Entry) /\ [n \in {} |-> 0] \in Maps(Names, Record)
  BY EmptyMap
<1>2. 0 \in 0..MaxBackups
  BY BoundsAssumption
<1> QED
  BY <1>1, <1>2, Vocabulary DEF NoTrim, Trim

\* A failing step keeps the counters within their bounds.
LEMMA FaultTyped ==
  ASSUME TypedCounts, Fault \/ RollbackFault
  PROVE  TypedCounts'
<1>1. faults' \in 0..MaxFaults
  BY BoundsAssumption DEF TypedCounts, Fault, RollbackFault, Fails
<1>2. retained' \in BOOLEAN
  BY DEF TypedCounts, Fault, RollbackFault
<1> QED
  BY <1>1, <1>2 DEF TypedCounts, Fault, RollbackFault, Fails

\* The end of an operation leaves typed working memory.
LEMMA FinishTyped == Finish => TypedWork'
  BY NoJobIsJob, NoTrimIsTrim
     DEF Finish, TypedWork, Labels, BackupSteps, RemovalSteps, UndoSteps, MergeSteps

-----------------------------------------------------------------------------
(* A backup.                                                               *)

\* The initial state is typed.
LEMMA InitTyped == Init => Typed
<1> SUFFICES ASSUME Init PROVE Typed
  OBVIOUS
<1>1. TypedDisk
  BY EmptyMap, Vocabulary DEF Init, TypedDisk
<1>2. TypedWorld
  <2>1. world \in Contents
    BY BoundsAssumption DEF Init, Contents, Versions
  <2>2. written \in [Ids -> 0..MaxBackups]
    BY BoundsAssumption DEF Init, Ids
  <2> QED
    BY <2>1, <2>2, Vocabulary, BoundsAssumption DEF Init, TypedWorld
<1>3. TypedCounts
  <2>1. faults \in 0..MaxFaults /\ crashes \in 0..MaxCrashes
    BY BoundsAssumption DEF Init
  <2> QED
    BY <2>1 DEF Init, TypedCounts
<1>4. TypedWork
  BY NoJobIsJob, NoTrimIsTrim
     DEF Init, TypedWork, Labels, BackupSteps, RemovalSteps, UndoSteps, MergeSteps
<1> QED
  BY <1>1, <1>2, <1>3, <1>4 DEF Typed

\* Starting a backup keeps the types.
LEMMA StartBackupTyped ==
  ASSUME Typed, NEW mode \in Modes, StartBackup(mode)
  PROVE  Typed'
<1> USE DEF Typed
<1>1. TypedDisk' /\ TypedWorld' /\ TypedCounts'
  BY DEF StartBackup, disk, env, game, counts, ghosts, TypedDisk, TypedWorld, TypedCounts
<1>2. KindFor(mode) \in Kinds
  BY ModesAssumption DEF KindFor, Kinds
<1>3. Added \subseteq Files /\ Modified \subseteq Files /\ Deleted \subseteq Files /\ Present(world) \subseteq Files
  BY DEF Added, Modified, Deleted, Present
<1>4. state.last \in NamesOrNone /\ state.base \in NamesOrNone
  BY DEF TypedDisk, MetadataState
<1> DEFINE name == [id |-> nextId, kind |-> KindFor(mode)]
<1>5. name \in Names
  BY <1>2 DEF StartBackup, Names
<1>6. mode \in Kinds
  BY ModesAssumption DEF Kinds
<1>7. job' \in Job /\ job'.name = name
  BY <1>3, <1>4, <1>5, <1>6, Vocabulary
     DEF StartBackup, Job, TypedDisk, TypedWorld, NamesOrNone
<1>8. pc' = "archive" /\ trim' = trim /\ job'.name.id = nextId'
  BY <1>7 DEF StartBackup
<1>9. TypedWork'
  BY <1>5, <1>7, <1>8 DEF TypedWork, Labels, BackupSteps, RemovalSteps, UndoSteps, MergeSteps
<1> QED
  BY <1>1, <1>9

\* Every step of a backup, its commit and its rollback keeps the types.
LEMMA BackupTyped ==
  ASSUME Typed, Backup
  PROVE  Typed'
<1> USE DEF Typed
<1>0. pc \in BackupSteps /\ job.name \in Names /\ job.name.id \in Ids
  BY DEF Backup, WriteArchive, ArchiveFails, SaveRecord, SaveState, StateSnapshotFails, MetadataFails, AddHistory,
         AddHistoryFails, RestoreState, DropRecord, DropArchive, RollbackIncomplete,
         BackupSteps, TypedWork, Names
<1>1. CASE WriteArchive
  <2>1. [f \in Files |-> IF f \in job.files THEN world[f] ELSE Absent] \in Contents
    BY Vocabulary DEF TypedWorld, Contents
  <2>2. TypedDisk'
    BY <1>0, <1>1, <2>1, WithMap DEF WriteArchive, TypedDisk
  <2>3. TypedWorld'
    <3>1. nextId' \in 1..(MaxBackups + 1)
      BY <1>0, <1>1, BoundsAssumption DEF WriteArchive, TypedWork, TypedWorld, Ids
    <3>2. scanned' \in [Ids -> Contents]
      BY <1>1 DEF WriteArchive, TypedWork, TypedWorld, Job
    <3> QED
      BY <1>0, <1>1, <3>1, <3>2 DEF WriteArchive, TypedWorld, env, game
  <2> QED
    BY <1>0, <1>1, <2>2, <2>3
       DEF WriteArchive, counts, TypedCounts, TypedWork, Labels, BackupSteps, RemovalSteps,
           UndoSteps, MergeSteps
<1>2. CASE ArchiveFails
  <2>1. TypedCounts'
    BY <1>2, FaultTyped DEF ArchiveFails, counts, TypedCounts
  <2> QED
    BY <1>2, <2>1, FinishTyped DEF ArchiveFails, disk, env, game, ghosts, TypedDisk, TypedWorld
<1>3. CASE SaveRecord
  <2>1. NewRecord \in Record
    BY Vocabulary DEF NewRecord, Record, TypedWork, Job
  <2>2. TypedDisk'
    BY <1>0, <1>3, <2>1, WithMap DEF SaveRecord, TypedDisk
  <2> QED
    BY <1>0, <1>3, <2>2
       DEF SaveRecord, env, game, counts, ghosts, TypedWorld, TypedCounts, TypedWork, Labels,
           BackupSteps, RemovalSteps, UndoSteps, MergeSteps
<1>4. CASE SaveState \/ RestoreState
  <2>1. NewState \in MetadataState /\ job.old \in MetadataState
    BY <1>0 DEF NewState, MetadataState, NamesOrNone, TypedWork, Job
  <2>2. TypedDisk'
    BY <1>4, <2>1 DEF SaveState, RestoreState, TypedDisk
  <2> QED
    BY <1>0, <1>4, <2>2
       DEF SaveState, RestoreState, env, game, counts, ghosts, TypedWorld, TypedCounts, TypedWork,
           Labels, BackupSteps, RemovalSteps, UndoSteps, MergeSteps
<1>5. CASE MetadataFails
  <2>1. PICK kept \in SUBSET {"record", "archive"} :
          /\ faults + 1 + Cardinality(kept) <= MaxFaults
          /\ faults' = faults + 1 + Cardinality(kept)
          /\ records' = IF "record" \in kept THEN records ELSE Without(records, {job.name})
          /\ archives' = IF "archive" \in kept THEN archives ELSE Without(archives, {job.name})
    BY <1>5 DEF MetadataFails
  <2>2. Cardinality(kept) \in Nat
    <3>1. IsFiniteSet({"record", "archive"})
      <4>1. IsFiniteSet({"record"} \cup {"archive"})
        BY FS_Singleton, FS_AddElement
      <4>2. {"record", "archive"} = {"record"} \cup {"archive"}
        OBVIOUS
      <4> QED
        BY <4>1, <4>2
    <3> QED
      BY <3>1, FS_Subset, FS_CardinalityType
  <2>3. TypedDisk'
    BY <1>5, <2>1, WithoutMap DEF MetadataFails, TypedDisk
  <2>4. TypedCounts'
    BY <1>5, <2>1, <2>2, BoundsAssumption DEF MetadataFails, TypedCounts
  <2> QED
    BY <1>5, <2>3, <2>4, FinishTyped DEF MetadataFails, env, game, ghosts, TypedWorld
<1>6. CASE AddHistory
  <2>1. [kind |-> job.name.kind, important |-> FALSE, time |-> clock] \in Entry
    BY <1>0 DEF Entry, Names, TypedWorld
  <2>2. history' \in Maps(Ids, Entry)
    BY <1>0, <1>6, <2>1, WithMap DEF AddHistory, TypedDisk
  <2>3. TypedDisk' /\ TypedWorld' /\ TypedCounts'
    BY <1>6, <2>2 DEF AddHistory, TypedDisk, TypedWorld, TypedCounts, counts, ghosts
  <2>4. trim' \in Trim
    BY <1>6, <2>2, NoTrimIsTrim DEF AddHistory, Trim
  <2> QED
    BY <1>0, <1>6, <2>3, <2>4
       DEF AddHistory, TypedWork, Labels, BackupSteps, RemovalSteps, UndoSteps, MergeSteps
<1>7. CASE AddHistoryFails
  BY <1>0, <1>7, FaultTyped
     DEF AddHistoryFails, disk, env, game, ghosts, TypedDisk, TypedWorld, TypedWork, Labels, BackupSteps, RemovalSteps, UndoSteps, MergeSteps
<1>8. CASE DropRecord
  <2>1. TypedDisk'
    BY <1>8, WithoutMap DEF DropRecord, TypedDisk
  <2> QED
    BY <1>0, <1>8, <2>1
       DEF DropRecord, env, game, counts, ghosts, TypedWorld, TypedCounts, TypedWork, Labels,
           BackupSteps, RemovalSteps, UndoSteps, MergeSteps
<1>9. CASE DropArchive
  <2>1. TypedDisk'
    BY <1>9, WithoutMap DEF DropArchive, TypedDisk
  <2> QED
    BY <1>9, <2>1, FinishTyped DEF DropArchive, env, game, counts, ghosts, TypedWorld, TypedCounts
<1>10. CASE RollbackIncomplete \/ StateSnapshotFails
  BY <1>10, FaultTyped, FinishTyped
     DEF RollbackIncomplete, StateSnapshotFails, disk, env, game, ghosts, TypedDisk, TypedWorld
<1> QED
  BY <1>1, <1>2, <1>3, <1>4, <1>5, <1>6, <1>7, <1>8, <1>9, <1>10 DEF Backup

-----------------------------------------------------------------------------
(* Choosing and removing an archive.                                       *)

\* Several steps change nothing but where the operation is and what it remembers.
QuietStep == UNCHANGED <<disk, env, nextId, ghosts>> /\ (UNCHANGED counts \/ Fault)

\* A step that changes no file keeps the types of disk, world and counters.
LEMMA QuietTyped ==
  ASSUME TypedDisk, TypedWorld, TypedCounts, QuietStep
  PROVE  TypedDisk' /\ TypedWorld' /\ TypedCounts'
<1>1. TypedDisk' /\ TypedWorld'
  BY DEF QuietStep, disk, env, game, ghosts, TypedDisk, TypedWorld
<1>2. CASE UNCHANGED counts
  BY <1>1, <1>2 DEF counts, TypedCounts
<1>3. CASE Fault
  BY <1>1, <1>3, FaultTyped
<1> QED
  BY <1>2, <1>3 DEF QuietStep

\* Choosing the archive to remove keeps the types.
LEMMA ChoiceTyped ==
  ASSUME Typed, EndRound \/ PickOldest \/ StartDirect \/ StartMerge \/ Keep
  PROVE  Typed'
<1> USE DEF Typed
<1>0. QuietStep
  BY DEF EndRound, PickOldest, StartDirect, StartMerge, Keep, QuietStep
<1>1. CASE EndRound \/ Keep
  BY <1>0, <1>1, QuietTyped, FinishTyped DEF EndRound, Keep
<1>2. CASE PickOldest
  <2>1. PICK n \in Oldest(Candidates) :
          trim' = [trim EXCEPT !.target = n,
                     !.blocked = @ \cup {m \in Counted \ Candidates : Older(m, n)}]
    BY <1>2 DEF PickOldest
  <2>2. n \in Names /\ n.id \in DOMAIN trim.seen /\ Counted \subseteq Names
    BY <2>1, MapElim DEF Oldest, Candidates, Counted, Removable, TypedDisk
  <2>3. trim' \in Trim /\ trim'.target = n /\ trim'.seen = trim.seen
    BY <2>1, <2>2 DEF TypedWork, Trim, NamesOrNone
  <2>4. pc' = "remove" /\ job' = job
    BY <1>2 DEF PickOldest
  <2>5. TypedWork'
    BY <2>2, <2>3, <2>4
       DEF TypedWork, Labels, BackupSteps, RemovalSteps, UndoSteps, MergeSteps
  <2> QED
    BY <1>0, <2>5, QuietTyped
<1>3. CASE StartDirect
  <2>1. trim.target \in DOMAIN archives /\ archives[trim.target] \in Contents
    BY <1>3, MapElim DEF StartDirect, TypedDisk
  <2>2. Snapshot \in Trim /\ Snapshot.target = trim.target
    BY <2>1 DEF Snapshot, Trim, TypedWork, TypedDisk
  <2>3. trim' \in Trim /\ trim'.target = trim.target /\ trim'.next = NoName /\ ~trim'.replaced
    BY <1>3, <2>2, Vocabulary DEF StartDirect, Snapshot, Trim, TypedWork
  <2>4. pc' = "directArchive" /\ job' = job /\ trim.target \in Names
    BY <1>3 DEF StartDirect, TypedWork
  <2>5. TypedWork'
    BY <2>3, <2>4 DEF TypedWork, Labels, BackupSteps, RemovalSteps, UndoSteps, MergeSteps
  <2> QED
    BY <1>0, <2>5, QuietTyped
<1>4. CASE StartMerge
  <2>1. PICK j \in NextOf :
          LET next == NameOf(trim.seen, j) IN
          /\ next.kind = "Smart"
          /\ {next, trim.target} \subseteq DOMAIN archives \cap DOMAIN records
          /\ trim' = [Snapshot EXCEPT
                        !.next = next, !.nextFiles = archives[next], !.time = written[next.id],
                        !.final = IF FullLike(trim.target)
                                  THEN [next EXCEPT !.kind = "Full"] ELSE next]
    BY <1>4 DEF StartMerge
  <2> DEFINE next == NameOf(trim.seen, j)
  <2>2. next \in Names /\ trim.target \in Names
    BY <2>1, MapElim DEF TypedDisk
  <2>3. archives[next] \in Contents /\ archives[trim.target] \in Contents
    BY <2>1, MapElim DEF TypedDisk
  <2>4. [next EXCEPT !.kind = "Full"] \in Names
    BY <2>2 DEF Names, Kinds
  <2>5. Snapshot \in Trim /\ written[next.id] \in 0..MaxBackups
    <3>1. next.id \in Ids
      BY <2>2 DEF Names
    <3> QED
      BY <2>3, <3>1 DEF Snapshot, Trim, TypedWork, TypedDisk, TypedWorld
  <2>6. trim' \in Trim
    BY <2>1, <2>2, <2>3, <2>4, <2>5 DEF Trim, NamesOrNone
  <2>7. trim'.target = trim.target /\ trim'.next = next /\ trim'.final \in Names
    BY <2>1, <2>2, <2>4, <2>5 DEF Snapshot, Trim, TypedWork
  <2>8. pc' = "mergeReplace" /\ job' = job /\ records' = records
    BY <1>4 DEF StartMerge, disk
  <2>9. TypedWork'
    BY <2>1, <2>2, <2>6, <2>7, <2>8
       DEF TypedWork, Labels, BackupSteps, RemovalSteps, UndoSteps, MergeSteps
  <2> QED
    BY <1>0, <2>9, QuietTyped
<1> QED
  BY <1>1, <1>2, <1>3, <1>4

\* The steps below leave the world, the bounds and the running backup alone.
BodyStep == UNCHANGED <<game, nextId, job, counts, scanned>>

\* A removal step that changes only archives, metadata and write times keeps the other types.
LEMMA BodyTyped ==
  ASSUME TypedWorld, TypedCounts, BodyStep, torn' \subseteq Ids,
         written' \in [Ids -> 0..MaxBackups]
  PROVE  TypedWorld' /\ TypedCounts'
  BY DEF BodyStep, env, game, counts, TypedWorld, TypedCounts

\* A new write time is a write time.
LEMMA WrittenTyped ==
  ASSUME TypedWorld, NEW i \in Ids, NEW time \in 0..MaxBackups, WrittenAt(i, time)
  PROVE  written' \in [Ids -> 0..MaxBackups]
  BY DEF WrittenAt, TypedWorld

\* The current write time is within its bound.
LEMMA NowTyped == TypedWorld => Now \in 0..MaxBackups
  BY BoundsAssumption DEF TypedWorld, Now

\* The steps of a direct removal keep the types.
LEMMA DirectTyped ==
  ASSUME Typed, DirectArchive \/ DirectRecord
  PROVE  Typed'
<1> USE DEF Typed
<1>1. TypedWorld' /\ TypedCounts'
  <2>1. BodyStep /\ torn' = torn /\ written' = written
    BY DEF DirectArchive, DirectRecord, BodyStep, env, ghosts
  <2> QED
    BY <2>1, BodyTyped DEF TypedWorld
<1>2. TypedDisk'
  BY WithoutMap DEF DirectArchive, DirectRecord, TypedDisk
<1>3. trim' \in Trim /\ trim'.target = trim.target /\ trim'.next = trim.next
        /\ trim'.final = trim.final /\ trim'.replaced = trim.replaced
  BY DEF DirectArchive, DirectRecord, TypedWork, Trim
<1>4. pc \in {"directArchive", "directRecord"} /\ pc' \in {"directRecord", "commit"} /\ job' = job
  BY DEF DirectArchive, DirectRecord
<1>5. TypedWork'
  BY <1>3, <1>4 DEF TypedWork, Labels, BackupSteps, RemovalSteps, UndoSteps, MergeSteps
<1> QED
  BY <1>1, <1>2, <1>5

\* A redirected reference is a reference.
LEMMA RedirectedTyped ==
  ASSUME trim.final \in Names, NEW n \in NamesOrNone
  PROVE  Redirected(n) \in NamesOrNone
  BY DEF Redirected, NamesOrNone

Merging == MergeReplace \/ MergeRename \/ MergeRecord \/ MergeRefs \/ MergeState \/ MergeRemove

\* The steps of a merge keep the types.
LEMMA MergeTyped ==
  ASSUME Typed, Merging
  PROVE  Typed'
<1> USE DEF Typed, Merging
<1>0. pc \in MergeSteps /\ trim.target \in Names /\ trim.next \in Names /\ trim.final \in Names
  BY DEF MergeReplace, MergeRename, MergeRecord, MergeRefs, MergeState, MergeRemove,
         MergeSteps, RemovalSteps, TypedWork
<1>1. TypedWorld' /\ TypedCounts'
  <2>1. torn' \subseteq Ids
    BY <1>0 DEF MergeReplace, MergeRename, MergeRecord, MergeRefs, MergeState, MergeRemove, ghosts,
                TypedWorld, Names
  <2>2. BodyStep
    BY DEF MergeReplace, MergeRename, MergeRecord, MergeRefs, MergeState, MergeRemove, BodyStep,
           env, ghosts
  <2>3. written' \in [Ids -> 0..MaxBackups]
    <3>1. trim.next.id \in Ids /\ trim.time \in 0..MaxBackups
      BY <1>0 DEF TypedWork, Trim, Names
    <3>2. CASE MergeReplace
      BY <3>1, <3>2, NowTyped, WrittenTyped DEF MergeReplace
    <3>3. CASE MergeRename
      BY <3>1, <3>3, WrittenTyped DEF MergeRename
    <3>4. CASE ~MergeReplace /\ ~MergeRename
      BY <3>4 DEF MergeRecord, MergeRefs, MergeState, MergeRemove, env, TypedWorld
    <3> QED
      BY <3>2, <3>3, <3>4
  <2> QED
    BY <2>1, <2>2, <2>3, BodyTyped
<1>2. trim' \in Trim /\ trim'.target = trim.target /\ trim'.next = trim.next
        /\ trim'.final = trim.final
  BY DEF MergeReplace, MergeRename, MergeRecord, MergeRefs, MergeState, MergeRemove, TypedWork, Trim
<1>3. job' = job /\ pc' \in Labels
  BY DEF MergeReplace, MergeRename, MergeRecord, MergeRefs, MergeState, MergeRemove, Labels,
         RemovalSteps
<1>4. CASE MergeReplace
  <2>1. MergedFiles \in Contents
    BY <1>0, Vocabulary DEF MergedFiles, Contents, TypedWork, Trim
  <2>2. TypedDisk'
    BY <1>0, <1>4, <2>1, WithMap DEF MergeReplace, TypedDisk
  <2>3. trim.next \in DOMAIN archives'
    BY <1>4 DEF MergeReplace, With
  <2> QED
    BY <1>0, <1>1, <1>2, <1>3, <1>4, <2>2, <2>3
       DEF MergeReplace, TypedWork, BackupSteps, RemovalSteps, UndoSteps, MergeSteps
<1>5. CASE MergeRename
  <2>1. archives[trim.next] \in Contents
    BY <1>5, MapElim DEF MergeRename, TypedWork, TypedDisk
  <2>2. archives' \in Maps(Names, Contents)
    BY <1>0, <1>5, <2>1, WithMap, WithoutMap DEF MergeRename, TypedDisk
  <2>3. TypedDisk'
    BY <1>5, <2>2 DEF MergeRename, TypedDisk
  <2> QED
    BY <1>0, <1>1, <1>2, <1>3, <1>5, <2>3
       DEF MergeRename, TypedWork, BackupSteps, RemovalSteps, UndoSteps, MergeSteps
<1>6. CASE MergeRecord
  <2>1. records[trim.target] \in Record /\ records[trim.next] \in Record
    BY <1>6, MapElim DEF MergeRecord, TypedWork, TypedDisk
  <2>2. RepairedRecord \in Record
    <3> DEFINE D == records[trim.target]
               N == records[trim.next]
    <3>1. ComposedAdded(D, N) \subseteq Files /\ ComposedDeleted(D, N) \subseteq Files
            /\ ComposedModified(D, N) \subseteq Files
      BY <2>1 DEF ComposedAdded, ComposedDeleted, ComposedModified, Record
    <3>2. (D.full \ N.deleted) \cup N.added \cup N.modified \subseteq Files
      BY <2>1 DEF Record
    <3>3. CASE trim.final.kind = "Smart"
      BY <2>1, <3>1, <3>3 DEF RepairedRecord, FullList, Record
    <3>4. CASE trim.final.kind # "Smart"
      BY <1>0, <3>2, <3>4, Vocabulary DEF RepairedRecord, FullList, Record, NamesOrNone
    <3> QED
      BY <3>3, <3>4
  <2>3. TypedDisk'
    BY <1>0, <1>6, <2>2, WithMap, WithoutMap DEF MergeRecord, TypedDisk
  <2> QED
    BY <1>0, <1>1, <1>2, <1>3, <1>6, <2>3
       DEF MergeRecord, TypedWork, BackupSteps, RemovalSteps, UndoSteps, MergeSteps
<1>7. CASE MergeRefs
  <2>1. \A n \in DOMAIN records :
          [records[n] EXCEPT !.prev = Redirected(@), !.base = Redirected(@)] \in Record
    <3> SUFFICES ASSUME NEW n \in DOMAIN records
                 PROVE  [records[n] EXCEPT !.prev = Redirected(@), !.base = Redirected(@)] \in Record
      OBVIOUS
    <3>1. records[n] \in Record
      BY MapElim DEF TypedDisk
    <3>2. Redirected(records[n].prev) \in NamesOrNone /\ Redirected(records[n].base) \in NamesOrNone
      BY <1>0, <3>1, RedirectedTyped DEF Record
    <3> QED
      BY <3>1, <3>2 DEF Record
  <2>2. records' \in [DOMAIN records -> Record]
    BY <1>7, <2>1 DEF MergeRefs
  <2>3. TypedDisk'
    BY <1>7, <2>2, MapIntro, MapElim DEF MergeRefs, TypedDisk
  <2> QED
    BY <1>0, <1>1, <1>2, <1>3, <1>7, <2>3
       DEF MergeRefs, TypedWork, BackupSteps, RemovalSteps, UndoSteps, MergeSteps
<1>8. CASE MergeState
  <2>1. Redirected(state.last) \in NamesOrNone /\ Redirected(state.base) \in NamesOrNone
    BY <1>0, RedirectedTyped DEF TypedDisk, MetadataState
  <2>2. state' \in MetadataState
    BY <1>8, <2>1 DEF MergeState, TypedDisk, MetadataState
  <2>3. TypedDisk'
    BY <1>8, <2>2 DEF MergeState, TypedDisk
  <2> QED
    BY <1>0, <1>1, <1>2, <1>3, <1>8, <2>3
       DEF MergeState, TypedWork, BackupSteps, RemovalSteps, UndoSteps, MergeSteps
<1>9. CASE MergeRemove
  <2>1. TypedDisk'
    BY <1>9, WithoutMap DEF MergeRemove, TypedDisk
  <2> QED
    BY <1>0, <1>1, <1>2, <1>3, <1>9, <2>1
       DEF MergeRemove, TypedWork, BackupSteps, RemovalSteps, UndoSteps, MergeSteps
<1> QED
  BY <1>4, <1>5, <1>6, <1>7, <1>8, <1>9

-----------------------------------------------------------------------------
(* The commit of a removal, and its undoing.                               *)

\* The commit of a removal keeps the types.
LEMMA CommitTyped ==
  ASSUME Typed, Commit
  PROVE  Typed'
<1> USE DEF Typed
<1>0. pc = "commit" /\ trim.target \in Names /\ Accepted
  BY DEF Commit, TypedWork, RemovalSteps
<1>1. CommittedHistory \in Maps(Ids, Entry)
  <2>1. CASE trim.next = NoName
    BY <2>1, WithoutMap DEF CommittedHistory, TypedDisk
  <2>2. CASE trim.next # NoName
    <3> DEFINE h == [history EXCEPT ![trim.next.id].kind = trim.final.kind]
    <3>1. trim.next.id \in DOMAIN history /\ trim.final.kind \in Kinds
      BY <1>0, <2>2 DEF Accepted, Listed, TypedWork, RemovalSteps, Names
    <3>2. DOMAIN history \subseteq Ids /\ history \in [DOMAIN history -> Entry]
      BY MapElim DEF TypedDisk
    <3>3. h \in [DOMAIN history -> Entry]
      BY <3>1, <3>2 DEF Entry
    <3>4. h \in Maps(Ids, Entry)
      BY <3>2, <3>3, MapIntro
    <3>5. CommittedHistory = Without(h, {trim.target.id})
      BY <2>2 DEF CommittedHistory
    <3> HIDE DEF h
    <3> QED
      BY <3>4, <3>5, WithoutMap
  <2> QED
    BY <2>1, <2>2
<1>2. TypedDisk' /\ TypedWorld' /\ TypedCounts'
  BY <1>1 DEF Commit, env, game, counts, ghosts, TypedDisk, TypedWorld, TypedCounts
<1>3. CASE job = NoJob
  BY <1>2, <1>3, FinishTyped DEF Commit
<1>4. CASE job # NoJob
  <2>1. trim' = [NoTrim EXCEPT !.seen = history', !.blocked = trim.blocked] /\ pc' = "enforce"
          /\ job' = job
    BY <1>4 DEF Commit
  <2>2. trim' \in Trim
    BY <1>2, <2>1, NoTrimIsTrim DEF Trim, TypedDisk, TypedWork
  <2> QED
    BY <1>2, <1>0, <1>4, <2>1, <2>2
       DEF TypedWork, Labels, BackupSteps, RemovalSteps, UndoSteps, MergeSteps
<1> QED
  BY <1>3, <1>4

\* A failing removal keeps the types.
LEMMA RemovalFailsTyped ==
  ASSUME Typed, RemovalFails
  PROVE  Typed'
<1> USE DEF Typed
<1>1. TypedCounts'
  BY FaultTyped DEF RemovalFails, counts, TypedCounts
<1>2. TypedDisk' /\ TypedWorld'
  BY DEF RemovalFails, disk, env, game, ghosts, TypedDisk, TypedWorld
<1>3. TypedWork'
  BY DEF RemovalFails, TypedWork, Labels, BackupSteps, RemovalSteps, UndoSteps, MergeSteps
<1> QED
  BY <1>1, <1>2, <1>3

\* The steps of a removal's rollback keep the types.
LEMMA UndoTyped ==
  ASSUME Typed, UndoTarget \/ UndoRemoved \/ UndoClear \/ UndoCopy
  PROVE  Typed'
<1> USE DEF Typed
<1>0. pc \in UndoSteps /\ trim.target \in Names /\ (trim.replaced => trim.next \in Names)
  BY DEF UndoTarget, UndoRemoved, UndoClear, UndoCopy, UndoSteps, TypedWork
<1>1. TypedCounts'
  BY FaultTyped DEF UndoTarget, UndoRemoved, UndoClear, UndoCopy, counts, TypedCounts
<1>2. TypedWorld'
  <2>1. written' \in [Ids -> 0..MaxBackups]
    <3>1. trim.target.id \in Ids /\ (trim.replaced => trim.next.id \in Ids)
            /\ trim.time \in 0..MaxBackups
      BY <1>0 DEF TypedWork, Trim, Names
    <3>2. CASE UndoTarget
      BY <3>1, <3>2, NowTyped, WrittenTyped DEF UndoTarget, TypedWorld
    <3>3. CASE UndoRemoved
      BY <3>1, <3>3, NowTyped, WrittenTyped DEF UndoRemoved, TypedWorld
    <3>4. CASE UndoClear \/ UndoCopy
      BY <3>4 DEF UndoClear, UndoCopy, env, TypedWorld
    <3> QED
      BY <3>2, <3>3, <3>4
  <2> QED
    BY <2>1 DEF UndoTarget, UndoRemoved, UndoClear, UndoCopy, env, game, ghosts, TypedWorld
<1>3. trim.targetFiles \in Contents /\ trim.nextFiles \in Contents
        /\ trim.records \in Maps(Names, Record) /\ trim.state \in MetadataState
  BY DEF TypedWork, Trim
<1>4. CASE UndoTarget
  <2>1. archives' \in Maps(Names, Contents)
    BY <1>0, <1>3, <1>4, WithMap, WithoutMap DEF UndoTarget, TypedDisk
  <2>2. TypedDisk'
    BY <1>4, <2>1 DEF UndoTarget, TypedDisk
  <2> QED
    BY <1>0, <1>1, <1>2, <1>4, <2>2
       DEF UndoTarget, TypedWork, Labels, BackupSteps, RemovalSteps, UndoSteps, MergeSteps
<1>5. CASE UndoRemoved
  <2>1. archives' \in Maps(Names, Contents)
    BY <1>0, <1>3, <1>5, WithMap DEF UndoRemoved, TypedDisk
  <2>2. TypedDisk'
    BY <1>5, <2>1 DEF UndoRemoved, TypedDisk
  <2>3. CASE trim.mutated
    BY <1>0, <1>1, <1>2, <1>5, <2>2, <2>3
       DEF UndoRemoved, TypedWork, Labels, BackupSteps, RemovalSteps, UndoSteps, MergeSteps
  <2>4. CASE ~trim.mutated
    BY <1>1, <1>2, <1>5, <2>2, <2>4, FinishTyped DEF UndoRemoved
  <2> QED
    BY <2>3, <2>4
<1>6. CASE UndoClear
  <2>1. records' \in Maps(Names, Record) /\ state' \in MetadataState
    BY <1>6, EmptyMap, WithoutMap, Vocabulary DEF UndoClear, TypedDisk
  <2>2. TypedDisk'
    BY <1>6, <2>1 DEF UndoClear, TypedDisk
  <2>3. CASE Finish
    BY <1>1, <1>2, <2>2, <2>3, FinishTyped
  <2>4. CASE pc' = "undoCopy" /\ UNCHANGED <<job, trim>>
    BY <1>0, <1>1, <1>2, <2>2, <2>4
       DEF TypedWork, Labels, BackupSteps, RemovalSteps, UndoSteps, MergeSteps
  <2> QED
    BY <1>6, <2>3, <2>4 DEF UndoClear
<1>7. CASE UndoCopy
  <2>1. records' \in Maps(Names, Record) /\ state' \in MetadataState
    BY <1>3, <1>7, WithoutMap, Vocabulary DEF UndoCopy
  <2>2. TypedDisk'
    BY <1>7, <2>1 DEF UndoCopy, TypedDisk
  <2> QED
    BY <1>1, <1>2, <1>7, <2>2, FinishTyped DEF UndoCopy
<1> QED
  BY <1>4, <1>5, <1>6, <1>7

-----------------------------------------------------------------------------
(* The user, the game, the clock and the crash.                            *)

\* The name of a listed entry is a name.
LEMMA NameOfListed ==
  ASSUME TypedDisk, NEW i \in DOMAIN history
  PROVE  NameOf(history, i) \in Names /\ i \in Ids
<1>1. i \in Ids /\ history[i] \in Entry
  BY MapElim DEF TypedDisk
<1> QED
  BY <1>1 DEF NameOf, Names, Entry

\* What the user does keeps the types.
LEMMA UserTyped ==
  ASSUME Typed, User
  PROVE  Typed'
<1> USE DEF Typed
<1>1. ASSUME NEW i \in DOMAIN history, DeleteHistoryOnly(i) PROVE Typed'
  <2>1. TypedDisk'
    BY <1>1, WithoutMap DEF DeleteHistoryOnly, TypedDisk
  <2> QED
    BY <1>1, <2>1
       DEF DeleteHistoryOnly, env, game, counts, ghosts, TypedWorld, TypedCounts, TypedWork, Labels,
           BackupSteps, RemovalSteps, UndoSteps, MergeSteps
<1>2. ASSUME NEW i \in DOMAIN history, DeleteLocalArchive(i) \/ DeleteArchiveAndHistory(i)
      PROVE Typed'
  <2>1. TypedDisk'
    BY <1>2, WithoutMap, Vocabulary
       DEF DeleteLocalArchive, DeleteArchiveAndHistory, Invalidate, TypedDisk
  <2> QED
    BY <1>2, <2>1
       DEF DeleteLocalArchive, DeleteArchiveAndHistory, env, game, counts, ghosts, TypedWorld,
           TypedCounts, TypedWork, Labels, BackupSteps, RemovalSteps, UndoSteps, MergeSteps
<1>3. ASSUME NEW i \in DOMAIN history, SafeDelete(i) PROVE Typed'
  <2>1. trim' \in Trim /\ trim'.target = NameOf(history, i) /\ trim'.seen = history
    BY <1>3, NameOfListed, NoTrimIsTrim DEF SafeDelete, Trim, TypedDisk, NamesOrNone
  <2>2. trim'.target \in Names /\ trim'.target.id \in DOMAIN trim'.seen
    BY <1>3, <2>1, NameOfListed DEF NameOf
  <2> QED
    BY <1>3, <2>1, <2>2
       DEF SafeDelete, disk, env, game, counts, ghosts, TypedDisk, TypedWorld, TypedCounts, TypedWork,
           Labels, BackupSteps, RemovalSteps, UndoSteps, MergeSteps
<1>4. ASSUME NEW i \in DOMAIN history, Mark(i) PROVE Typed'
  <2>1. DOMAIN history \subseteq Ids /\ history \in [DOMAIN history -> Entry]
    BY MapElim DEF TypedDisk
  <2>2. history' \in [DOMAIN history -> Entry]
    BY <1>4, <2>1 DEF Mark, Entry
  <2>3. TypedDisk'
    BY <1>4, <2>1, <2>2, MapIntro DEF Mark, TypedDisk
  <2> QED
    BY <1>4, <2>3
       DEF Mark, env, game, counts, ghosts, TypedWorld, TypedCounts, TypedWork, Labels, BackupSteps,
           RemovalSteps, UndoSteps, MergeSteps
<1>5. ASSUME NEW i \in DOMAIN history, RestoreWorld(i) PROVE Typed'
  <2>1. world' \in Contents
    BY <1>5 DEF RestoreWorld
  <2> QED
    BY <1>5, <2>1
       DEF RestoreWorld, disk, counts, ghosts, TypedDisk, TypedWorld, TypedCounts, TypedWork,
           Labels, BackupSteps, RemovalSteps, UndoSteps, MergeSteps
<1> QED
  BY <1>1, <1>2, <1>3, <1>4, <1>5, StartBackupTyped DEF User

\* What the game, the clock and a crash do keeps the types.
LEMMA EnvironmentTyped ==
  ASSUME Typed, Environment
  PROVE  Typed'
<1> USE DEF Typed
<1>1. ASSUME NEW f \in Files, NEW keeps \in BOOLEAN, EditFile(f, keeps) PROVE Typed'
  <2>1. edits + 1 \in Versions /\ edits' \in 1..(MaxEdits + 1)
    BY <1>1, BoundsAssumption DEF EditFile, TypedWorld, Versions
  <2>2. world' \in Contents
    BY <1>1, <2>1, Vocabulary DEF EditFile, TypedWorld, Contents
  <2>3. TypedWorld'
    BY <1>1, <2>1, <2>2 DEF EditFile, ghosts, TypedWorld
  <2> QED
    BY <1>1, <2>3
       DEF EditFile, disk, counts, TypedDisk, TypedCounts, TypedWork, Labels, BackupSteps,
           RemovalSteps, UndoSteps, MergeSteps
<1>2. CASE SetClockBack
  <2>1. clock' \in Nat /\ setbacks' \in 0..MaxSetbacks
    BY <1>2, BoundsAssumption DEF SetClockBack, TypedWorld
  <2>2. TypedWorld'
    BY <1>2, <2>1 DEF SetClockBack, ghosts, TypedWorld
  <2> QED
    BY <1>2, <2>2
       DEF SetClockBack, disk, counts, TypedDisk, TypedCounts, TypedWork, Labels, BackupSteps,
           RemovalSteps, UndoSteps, MergeSteps
<1>3. CASE Crash
  <2>1. crashes' \in 0..MaxCrashes
    BY <1>3, BoundsAssumption DEF Crash, TypedCounts
  <2>2. TypedCounts'
    BY <1>3, <2>1 DEF Crash, TypedCounts
  <2> QED
    BY <1>3, <2>2, FinishTyped DEF Crash, disk, env, game, ghosts, TypedDisk, TypedWorld
<1> QED
  BY <1>1, <1>2, <1>3 DEF Environment

\* A stuttering step keeps the types.
LEMMA StutterTyped == ASSUME Typed, UNCHANGED vars PROVE Typed'
  BY DEF vars, Typed, TypedDisk, TypedWorld, TypedCounts, TypedWork, Labels, BackupSteps,
         RemovalSteps, UndoSteps, MergeSteps

\* Every step keeps the types.
LEMMA TypedStep == Typed /\ [Next]_vars => Typed'
  BY BackupTyped, ChoiceTyped, DirectTyped, MergeTyped, CommitTyped, RemovalFailsTyped, UndoTyped,
     UserTyped, EnvironmentTyped, StutterTyped
     DEF Next, Worker, Removal, Merging

\* Every variable of the chain keeps its type, for any files, modes, limits and bounds.
THEOREM Typing == Spec => []TypeOK
  BY InitTyped, TypedStep, TypedGivesTypeOK, PTL DEF Spec

-----------------------------------------------------------------------------
(* Important entries.  Only the commit of a removal takes an entry out of  *)
(* the history, and it decides on the latest history.                      *)

KeepsImportant ==
    \A i \in DOMAIN history : history[i].important => i \in DOMAIN history'

\* The commit of a removal looks the mark up again, so it takes no important entry.
LEMMA CommitKeepsImportant == Commit => KeepsImportant
<1> SUFFICES ASSUME Commit, NEW i \in DOMAIN history, history[i].important
             PROVE  i \in DOMAIN history'
  BY DEF KeepsImportant
<1>1. i # trim.target.id
  BY DEF Commit, Accepted
<1>2. DOMAIN CommittedHistory = DOMAIN history \ {trim.target.id}
  BY DEF CommittedHistory, Without
<1>3. history' = CommittedHistory
  BY DEF Commit
<1> QED
  BY <1>1, <1>2, <1>3

\* No step of a backup takes an important entry.
LEMMA BackupKeepsImportant == Backup => KeepsImportant
<1> SUFFICES ASSUME Backup PROVE KeepsImportant
  OBVIOUS
<1>1. CASE AddHistory
  BY <1>1 DEF AddHistory, With, KeepsImportant
<1>2. CASE ~AddHistory
  BY <1>2
     DEF Backup, WriteArchive, ArchiveFails, SaveRecord, SaveState, StateSnapshotFails, MetadataFails,
         AddHistoryFails, RestoreState, DropRecord, DropArchive, RollbackIncomplete, disk,
         KeepsImportant
<1> QED
  BY <1>1, <1>2

\* No step of a removal takes an important entry.
LEMMA RemovalKeepsImportant == Removal => KeepsImportant
<1> SUFFICES ASSUME Removal PROVE KeepsImportant
  OBVIOUS
<1>1. CASE Commit
  BY <1>1, CommitKeepsImportant
<1>2. CASE ~Commit
  BY <1>2
     DEF Removal, EndRound, PickOldest, StartDirect, StartMerge, Keep, DirectArchive,
         DirectRecord, MergeReplace, MergeRename, MergeRecord, MergeRefs, MergeState, MergeRemove,
         RemovalFails, UndoTarget, UndoRemoved, UndoClear, UndoCopy, disk, KeepsImportant
<1> QED
  BY <1>1, <1>2

\* Backups, retention rounds and safe deletions never take an important entry out of the
\* history, even when it is marked while a removal of its archive is under way, whatever
\* deletions the user makes between them.
THEOREM ImportantNeverLost == Spec => ImportantKept
<1>1. [Next]_vars => [pc # "idle" => KeepsImportant]_history
  <2> SUFFICES ASSUME [Next]_vars, pc # "idle", history' # history PROVE KeepsImportant
    OBVIOUS
  <2>1. CASE Worker
    BY <2>1, BackupKeepsImportant, RemovalKeepsImportant DEF Worker
  <2>2. CASE User
    <3>1. ASSUME NEW i \in DOMAIN history, Mark(i) PROVE KeepsImportant
      BY <3>1 DEF Mark, KeepsImportant
    <3>2. ASSUME NEW i \in DOMAIN history, SafeDelete(i) \/ RestoreWorld(i) PROVE history' = history
      BY <3>2 DEF SafeDelete, RestoreWorld, disk
    <3>3. ASSUME NEW mode \in Modes, StartBackup(mode) PROVE history' = history
      BY <3>3 DEF StartBackup, disk
    <3> QED
      BY <2>2, <3>1, <3>2, <3>3
         DEF User, DeleteHistoryOnly, DeleteLocalArchive, DeleteArchiveAndHistory
  <2>3. CASE Environment \/ UNCHANGED vars
    BY <2>3 DEF Environment, EditFile, SetClockBack, Crash, disk, vars
  <2> QED
    BY <2>1, <2>2, <2>3 DEF Next
<1> QED
  BY <1>1, PTL DEF Spec, ImportantKept, KeepsImportant

-----------------------------------------------------------------------------
(* What a merge computes.  A restore goes through the records of a chain;  *)
(* the merged archive with its repaired record must do to every file what  *)
(* the two archives did one after the other.                               *)

\* What a restore makes of a file f that had content v before the archive.
Applied(r, files, f, v) ==
    IF f \in r.added \cup r.modified THEN files[f] ELSE IF f \in r.deleted THEN Absent ELSE v

\* What it takes from the Full-like archive at the head of a chain.
AppliedHead(r, files, f) == IF f \in r.full THEN files[f] ELSE Absent

\* The merged archive's file, without the CASE of its definition.
LEMMA MergedFile ==
  ASSUME NEW f \in Files
  PROVE  /\ f \in records[trim.next].deleted => MergedFiles[f] = Absent
         /\ f \notin records[trim.next].deleted /\ trim.nextFiles[f] # Absent
              => MergedFiles[f] = trim.nextFiles[f]
         /\ f \notin records[trim.next].deleted /\ trim.nextFiles[f] = Absent
              => MergedFiles[f] = trim.targetFiles[f]
  BY DEF MergedFiles

\* Two Smart archives: the merged one does to a file what both did, whatever it was before,
\* provided that a file the earlier one added was not there.
THEOREM MergeKeepsContent ==
  ASSUME NEW f \in Files, NEW v,
         trim.final.kind = "Smart",
         Describes(records[trim.target], trim.targetFiles),
         Describes(records[trim.next], trim.nextFiles),
         f \in records[trim.target].added => v = Absent
  PROVE  Applied(RepairedRecord, MergedFiles, f, v)
           = Applied(records[trim.next], trim.nextFiles, f,
                     Applied(records[trim.target], trim.targetFiles, f, v))
<1> DEFINE D == records[trim.target]
           N == records[trim.next]
<1>1. /\ RepairedRecord.added = ComposedAdded(D, N)
      /\ RepairedRecord.modified = ComposedModified(D, N)
      /\ RepairedRecord.deleted = ComposedDeleted(D, N)
  BY DEF RepairedRecord
<1>2. /\ trim.targetFiles[f] # Absent <=> f \in D.added \cup D.modified
      /\ trim.nextFiles[f] # Absent <=> f \in N.added \cup N.modified
  BY DEF Describes
<1>3. f \in RepairedRecord.added \cup RepairedRecord.modified
        <=> f \in N.added \cup N.modified \/ (f \in D.added \cup D.modified /\ f \notin N.deleted)
  BY <1>1 DEF Describes, ComposedAdded, ComposedModified
<1>4. f \in RepairedRecord.deleted
        <=> (f \in N.deleted /\ f \notin D.added)
            \/ (f \in D.deleted /\ f \notin N.added \cup N.modified)
  BY <1>1 DEF ComposedDeleted
<1>5. CASE f \in N.added \cup N.modified
  BY <1>2, <1>3, <1>5, MergedFile DEF Applied, Describes
<1>6. CASE f \in N.deleted
  BY <1>3, <1>4, <1>6 DEF Applied, Describes
<1>7. CASE f \notin N.added \cup N.modified \cup N.deleted
  BY <1>2, <1>3, <1>4, <1>7, MergedFile DEF Applied, Describes
<1> QED
  BY <1>5, <1>6, <1>7

\* A Full-like archive and the Smart one after it: the merged Full archive puts at the head of
\* the chain what the two put there.
THEOREM MergeKeepsHead ==
  ASSUME NEW f \in Files,
         trim.final.kind # "Smart",
         f \in records[trim.target].full <=> trim.targetFiles[f] # Absent,
         Describes(records[trim.next], trim.nextFiles)
  PROVE  AppliedHead(RepairedRecord, MergedFiles, f)
           = Applied(records[trim.next], trim.nextFiles, f,
                     AppliedHead(records[trim.target], trim.targetFiles, f))
<1> DEFINE D == records[trim.target]
           N == records[trim.next]
<1>1. RepairedRecord.full = FullList(D, N)
  BY DEF RepairedRecord
<1>2. /\ f \in FullList(D, N) <=> (f \in D.full /\ f \notin N.deleted) \/ f \in N.added \cup N.modified
      /\ trim.nextFiles[f] # Absent <=> f \in N.added \cup N.modified
      /\ f \in N.deleted => f \notin N.added \cup N.modified
  BY DEF FullList, Describes
<1>3. CASE f \in N.added \cup N.modified
  BY <1>1, <1>2, <1>3, MergedFile DEF Applied, AppliedHead
<1>4. CASE f \in N.deleted
  BY <1>1, <1>2, <1>4 DEF Applied, AppliedHead
<1>5. CASE f \notin N.added \cup N.modified \cup N.deleted
  BY <1>1, <1>2, <1>5, MergedFile DEF Applied, AppliedHead
<1> QED
  BY <1>3, <1>4, <1>5

=============================================================================
