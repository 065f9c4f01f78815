---------------------------- MODULE BackupChain ----------------------------
(***************************************************************************)
(* The backup chain of one world: the archives in its backup directory,   *)
(* the metadata the program keeps about them (records/<archive>.json and   *)
(* state.json), and the entries of history.json, as BackupService::RunCore *)
(* (BackupManager.cpp), BackupChangeDetector, FolderRewindMetadataStore,   *)
(* RuntimeRetentionService and ChainSafeRetention change them.             *)
(*                                                                         *)
(* One operation runs at a time: the world resource key and the            *)
(* WorldOperationGuard serialise backups, deletions and restores of one    *)
(* world.  Concurrent with an operation are the game, which edits the      *)
(* world's files, and the user, who marks history entries as important.    *)
(* Any file-system or 7-Zip step may fail, and the process may die between *)
(* any two steps; what is on disk stays, what the operation knew is gone.  *)
(*                                                                         *)
(* Abstractions.  A file's size and UTC write time are one version number  *)
(* (every edit writes a new one, a restore brings an old one back).  The   *)
(* GUID in an archive name is the number of the backup that created it.    *)
(***************************************************************************)
EXTENDS Integers, Sequences, FiniteSets

CONSTANTS
    Files,            \* relative paths of the world's files
    Permanent,        \* those the game never deletes (level.dat)
    MaxBackups,       \* bound: backups created
    MaxEdits,         \* bound: edits of the game
    MaxFaults,        \* bound: steps that fail
    MaxCrashes,       \* bound: deaths of the process
    MaxSetbacks,      \* bound: times the local clock is set back
    MaxMarked,        \* bound: entries marked important at one time
    Modes,            \* the values config.backupMode takes
    KeepCount,        \* config.keepCount, 0 for no retention
    MaxSmart,         \* config.maxSmartBackupsPerFull, 0 for no limit
    SkipIfUnchanged,  \* config.skipIfUnchanged
    Deletions         \* the deletion modes the user picks in the history window

ASSUME BoundsAssumption ==
    /\ MaxBackups \in Nat /\ MaxEdits \in Nat /\ MaxFaults \in Nat
    /\ MaxCrashes \in Nat /\ MaxSetbacks \in Nat /\ MaxMarked \in Nat
    /\ KeepCount \in Nat /\ MaxSmart \in Nat /\ SkipIfUnchanged \in BOOLEAN
ASSUME FilesAssumption == Permanent \subseteq Files
ASSUME ModesAssumption == Modes \subseteq {"Full", "Smart", "Overwrite"}
ASSUME DeletionsAssumption ==
    Deletions \subseteq {"HistoryOnly", "LocalArchiveOnly", "LocalArchiveAndHistory", "Safe"}

VARIABLES
    world,     \* the version of every file in the save directory
    edits,     \* number of edits so far: the next version number
    archives,  \* archive name -> the files in it
    records,   \* archive name -> its change record
    state,     \* state.json, or NoState
    history,   \* backup number -> its history entry
    nextId,    \* number of the next backup
    clock,     \* the local clock that stamps history entries
    setbacks,  \* times it was set back
    written,   \* backup number -> its archive's write time: the last backup made by then
    pc,        \* the next step of the running operation
    job,       \* what the running backup holds in memory, or NoJob
    trim,      \* what the running removal holds in memory, or NoTrim
    faults,    \* steps that have failed
    crashes,   \* deaths of the process so far
    retained,  \* a rollback was reported incomplete and its recovery copies kept
    scanned,   \* ghost: the world that backup number i scanned
    torn       \* ghost: backups whose files changed between scan and archive

disk == <<archives, records, state, history>>
game == <<world, edits, clock, setbacks>>
env == <<game, written>>
ghosts == <<scanned, torn>>
counts == <<faults, crashes, retained>>
vars == <<world, edits, archives, records, state, history, nextId, clock, setbacks,
          written, pc, job, trim, faults, crashes, retained, scanned, torn>>

-----------------------------------------------------------------------------
(* Data.                                                                   *)

Absent == 0
Versions == 0..(MaxEdits + 1)
Contents == [Files -> Versions]
Ids == 1..MaxBackups
Kinds == {"Full", "Smart", "Overwrite"}
Names == [id : Ids, kind : Kinds]
NoName == [id |-> 0, kind |-> "none"]
NamesOrNone == Names \cup {NoName}

FullLike(n) == n.kind \in {"Full", "Overwrite"}

Record == [prev : NamesOrNone, base : NamesOrNone,
           added : SUBSET Files, modified : SUBSET Files,
           deleted : SUBSET Files, full : SUBSET Files]
Entry == [kind : Kinds, important : BOOLEAN, time : Nat]
MetadataState == [last : NamesOrNone, base : NamesOrNone, files : Contents]
NoState == [last |-> NoName, base |-> NoName, files |-> [f \in Files |-> Absent]]

With(g, x, v) == [y \in DOMAIN g \cup {x} |-> IF y = x THEN v ELSE g[y]]
Without(g, S) == [y \in DOMAIN g \ S |-> g[y]]
Present(c) == {f \in Files : c[f] # Absent}
Empty == [f \in Files |-> Absent]

NameOf(h, i) == [id |-> i, kind |-> h[i].kind]

\* WorldHistory: entries in commit order, stably sorted by their local time.
Before(h, i, j) == h[i].time < h[j].time \/ (h[i].time = h[j].time /\ i < j)
After(h, i) == {j \in DOMAIN h : Before(h, i, j)}
\* The entry after i in that order, as a set of at most one element.
Successor(h, i) == {j \in After(h, i) : \A k \in After(h, i) : k = j \/ Before(h, j, k)}

NoJob == [name |-> NoName, mode |-> "none", files |-> {}, scan |-> Empty,
          added |-> {}, modified |-> {}, deleted |-> {},
          prev |-> NoName, base |-> NoName, old |-> NoState]

NoTrim == [target |-> NoName, next |-> NoName, final |-> NoName,
           seen |-> [i \in {} |-> 0], blocked |-> {},
           records |-> [n \in {} |-> 0], state |-> NoState,
           targetFiles |-> Empty, nextFiles |-> Empty, time |-> 0,
           replaced |-> FALSE, removed |-> FALSE, mutated |-> FALSE]

Init ==
    /\ world = [f \in Files |-> 1]
    /\ edits = 1
    /\ archives = [n \in {} |-> Empty]
    /\ records = [n \in {} |-> 0]
    /\ state = NoState
    /\ history = [i \in {} |-> 0]
    /\ nextId = 1
    /\ clock = 0 /\ setbacks = 0
    /\ written = [i \in Ids |-> i]
    /\ pc = "idle"
    /\ job = NoJob
    /\ trim = NoTrim
    /\ faults = 0 /\ crashes = 0
    /\ retained = FALSE
    /\ scanned = [i \in Ids |-> Empty]
    /\ torn = {}

Finish ==
    /\ pc' = "idle"
    /\ job' = NoJob
    /\ trim' = NoTrim

Fails ==
    /\ faults < MaxFaults
    /\ faults' = faults + 1
    /\ UNCHANGED crashes

\* A step that fails, and a step of a rollback that fails.
Fault == Fails /\ UNCHANGED retained
RollbackFault == Fails /\ retained' = TRUE

-----------------------------------------------------------------------------
(* Scanning the world and choosing the kind of the backup.                 *)

HasState == state # NoState
\* BackupScanStatus::BaseBackupMissing when one of the two archives is gone.
BasePresent ==
    /\ state.last \in DOMAIN archives
    /\ state.base = NoName \/ state.base \in DOMAIN archives

ChainUsable == HasState /\ BasePresent

Added == IF ChainUsable THEN Present(world) \ Present(state.files) ELSE {}
Modified == IF ChainUsable
            THEN {f \in Present(world) \cap Present(state.files) : world[f] # state.files[f]}
            ELSE {}
Deleted == IF ChainUsable THEN Present(state.files) \ Present(world) ELSE {}
Changed == Added \cup Modified \cup Deleted # {}

\* The order of write times; a file that a rollback copied back is newer than the archive
\* that was the last one by then.
Older(m, n) ==
    \/ written[m.id] < written[n.id]
    \/ written[m.id] = written[n.id] /\ written[m.id] = m.id /\ m.id # n.id

\* Smart archives written after the newest Full-like one.
SmartsSinceFull ==
    {n \in DOMAIN archives : n.kind = "Smart" /\
        \A m \in DOMAIN archives : FullLike(m) => Older(m, n)}

SmartLimitReached(mode) ==
    mode = "Smart" /\ MaxSmart > 0 /\ Cardinality(SmartsSinceFull) >= MaxSmart

ForceFull(mode) ==
    \/ \A n \in DOMAIN archives : ~FullLike(n)
    \/ ~ChainUsable
    \/ SmartLimitReached(mode)

KindFor(mode) ==
    CASE mode = "Overwrite" -> "Overwrite"
      [] mode = "Full" -> "Full"
      [] mode = "Smart" -> IF ForceFull(mode) THEN "Full" ELSE "Smart"

\* The three early returns that report OperationCode::NoChanges.
NoChanges(mode) ==
    \/ ChainUsable /\ ~Changed /\ SkipIfUnchanged
    \/ ~ForceFull(mode) /\ ~Changed /\ (SkipIfUnchanged \/ mode = "Smart")
    \/ mode # "Overwrite" /\ KindFor(mode) = "Full" /\ Present(world) = {}

\* WorldOperationGuard acquired, world scanned, archive type and file list chosen.
StartBackup(mode) ==
    /\ pc = "idle"
    /\ nextId \in Ids
    /\ ~NoChanges(mode)
    /\ LET kind == KindFor(mode)
           name == [id |-> nextId, kind |-> kind]
           smart == kind = "Smart"
       IN job' = [name |-> name, mode |-> mode, scan |-> world, old |-> state,
                  files |-> IF smart THEN Added \cup Modified ELSE Present(world),
                  added |-> IF smart THEN Added ELSE Present(world),
                  modified |-> IF smart THEN Modified ELSE {},
                  deleted |-> IF smart THEN Deleted ELSE {},
                  prev |-> IF smart THEN state.last ELSE NoName,
                  base |-> IF ~smart THEN name
                           ELSE IF state.base = NoName THEN state.last ELSE state.base]
    /\ pc' = "archive"
    /\ UNCHANGED <<disk, env, nextId, trim, counts, ghosts>>

\* 7z into the staging directory, 7z t, rename into the backup directory.  7-Zip
\* reads the live world; a listed file that vanished makes the command fail.
WriteArchive ==
    /\ pc = "archive"
    /\ job.files \subseteq Present(world)
    /\ archives' = With(archives, job.name,
                        [f \in Files |-> IF f \in job.files THEN world[f] ELSE Absent])
    /\ scanned' = [scanned EXCEPT ![job.name.id] = job.scan]
    /\ torn' = IF \E f \in job.files : world[f] # job.scan[f]
               THEN torn \cup {job.name.id} ELSE torn
    /\ nextId' = nextId + 1
    /\ pc' = "record"
    /\ UNCHANGED <<records, state, history, env, job, trim, counts>>

ArchiveFails ==
    /\ pc = "archive"
    /\ \/ ~(job.files \subseteq Present(world)) /\ UNCHANGED counts
       \/ Fault
    /\ Finish
    /\ UNCHANGED <<disk, env, nextId, ghosts>>

-----------------------------------------------------------------------------
(* Committing the backup: record, state.json, history, each rolled back    *)
(* when a later one fails.                                                 *)

NewRecord ==
    [prev |-> job.prev, base |-> job.base, added |-> job.added, modified |-> job.modified,
     deleted |-> job.deleted, full |-> IF job.name.kind = "Smart" THEN {} ELSE job.files]

\* Mutant of NewState: the world is scanned again when state.json is written.
NewStateRescanned ==
    [last |-> job.name, base |-> job.base, files |-> world]
NewState ==
    [last |-> job.name, base |-> job.base, files |-> job.scan]

SaveRecord ==
    /\ pc = "record"
    /\ records' = With(records, job.name, NewRecord)
    /\ pc' = "state"
    /\ UNCHANGED <<archives, state, history, env, nextId, job, trim, counts, ghosts>>

SaveState ==
    /\ pc = "state"
    /\ state' = NewState
    /\ pc' = "history"
    /\ UNCHANGED <<archives, records, history, env, nextId, job, trim, counts, ghosts>>

\* state.json cannot be copied for a later rollback; the new archive is left.
StateSnapshotFails ==
    /\ pc = "record"
    /\ Fault
    /\ Finish
    /\ UNCHANGED <<disk, env, nextId, ghosts>>

\* SaveDetailed fails: the record is rolled back and the new archive removed; either
\* clean-up may itself fail and leave its file behind.
MetadataFails ==
    /\ pc \in {"record", "state"}
    /\ \E kept \in SUBSET {"record", "archive"} :
         /\ faults + 1 + Cardinality(kept) <= MaxFaults
         /\ faults' = faults + 1 + Cardinality(kept)
         /\ records' = IF "record" \in kept THEN records ELSE Without(records, {job.name})
         /\ archives' = IF "archive" \in kept THEN archives ELSE Without(archives, {job.name})
    /\ Finish
    /\ UNCHANGED <<state, history, crashes, retained, env, nextId, ghosts>>

\* addHistory succeeded: the backup is committed.  Retention follows.
AddHistory ==
    /\ pc = "history"
    /\ history' = With(history, job.name.id,
                       [kind |-> job.name.kind, important |-> FALSE, time |-> clock])
    /\ clock' = clock + 1
    /\ pc' = "enforce"
    /\ trim' = [NoTrim EXCEPT !.seen = history']
    /\ UNCHANGED <<archives, records, state, world, edits, setbacks, written, nextId, job, counts,
                   ghosts>>

AddHistoryFails ==
    /\ pc = "history"
    /\ Fault
    /\ pc' = "restoreState"
    /\ UNCHANGED <<disk, env, nextId, job, trim, ghosts>>

\* The rollback: state.json, then the record, then the archive, stopping at the first
\* step that fails (backup.rollback.incomplete).
RestoreState ==
    /\ pc = "restoreState"
    /\ state' = job.old
    /\ pc' = "dropRecord"
    /\ UNCHANGED <<archives, records, history, env, nextId, job, trim, counts, ghosts>>

DropRecord ==
    /\ pc = "dropRecord"
    /\ records' = Without(records, {job.name})
    /\ pc' = "dropArchive"
    /\ UNCHANGED <<archives, state, history, env, nextId, job, trim, counts, ghosts>>

DropArchive ==
    /\ pc = "dropArchive"
    /\ archives' = Without(archives, {job.name})
    /\ Finish
    /\ UNCHANGED <<records, state, history, env, nextId, counts, ghosts>>

RollbackIncomplete ==
    /\ pc \in {"restoreState", "dropRecord", "dropArchive"}
    /\ RollbackFault
    /\ Finish
    /\ UNCHANGED <<disk, env, nextId, ghosts>>

-----------------------------------------------------------------------------
(* RuntimeRetentionService::Enforce: the oldest archive that may go.       *)

OverwriteRound == job.mode = "Overwrite"
Limit == IF OverwriteRound THEN 1 ELSE KeepCount
Counted == {n \in DOMAIN archives : OverwriteRound => n.kind = "Overwrite"}

\* An Overwrite archive goes only when every record can be read and none refers to it.
Unreferenced(n) ==
    /\ n # job.name
    /\ \A m \in DOMAIN archives :
         /\ m \in DOMAIN records
         /\ m # n => n \notin {records[m].prev, records[m].base}

Removable(n) ==
    /\ n.id \in DOMAIN trim.seen
    /\ trim.seen[n.id].kind = n.kind
    /\ ~trim.seen[n.id].important
    /\ OverwriteRound => Unreferenced(n)

Candidates == {n \in Counted \ trim.blocked : Removable(n)}
Oldest(S) == {n \in S : \A m \in S : ~Older(m, n)}

RoundOver == Limit = 0 \/ Cardinality(Counted) <= Limit \/ Candidates = {}

\* The round is over, is cancelled, or cannot list the archives.
EndRound ==
    /\ pc = "enforce"
    /\ \/ RoundOver /\ UNCHANGED counts
       \/ Fault
    /\ Finish
    /\ UNCHANGED <<disk, env, nextId, ghosts>>

PickOldest ==
    /\ pc = "enforce"
    /\ ~RoundOver
    /\ \E n \in Oldest(Candidates) :
         trim' = [trim EXCEPT !.target = n,
                    !.blocked = @ \cup {m \in Counted \ Candidates : Older(m, n)}]
    /\ pc' = "remove"
    /\ UNCHANGED <<disk, env, nextId, job, counts, ghosts>>

-----------------------------------------------------------------------------
(* ChainSafeRetention::Remove.                                             *)

\* What the removal snapshots before it changes anything.
Snapshot ==
    [trim EXCEPT !.records = records, !.state = state, !.replaced = FALSE,
                 !.removed = FALSE, !.mutated = FALSE,
                 !.targetFiles = archives[trim.target]]

NextOf == Successor(trim.seen, trim.target.id)
TargetMarked == trim.seen[trim.target.id].important

\* No Smart archive follows in the history: the archive goes by itself.
StartDirect ==
    /\ pc = "remove"
    /\ ~TargetMarked
    /\ \A j \in NextOf : FullLike(NameOf(trim.seen, j))
    /\ trim.target \in DOMAIN archives
    /\ trim' = [Snapshot EXCEPT !.next = NoName, !.final = NoName]
    /\ pc' = "directArchive"
    /\ UNCHANGED <<disk, env, nextId, job, counts, ghosts>>

\* A Smart archive follows: the two are merged under the later one's number.
StartMerge ==
    /\ pc = "remove"
    /\ ~TargetMarked
    /\ \E j \in NextOf :
         LET next == NameOf(trim.seen, j) IN
         /\ next.kind = "Smart"
         /\ ~trim.seen[j].important
         /\ {next, trim.target} \subseteq DOMAIN archives \cap DOMAIN records
         /\ trim' = [Snapshot EXCEPT
                       !.next = next, !.nextFiles = archives[next], !.time = written[next.id],
                       !.final = IF FullLike(trim.target)
                                 THEN [next EXCEPT !.kind = "Full"] ELSE next]
    /\ pc' = "mergeReplace"
    /\ UNCHANGED <<disk, env, nextId, job, counts, ghosts>>

\* Mutant of Keep: the round goes on with the next archive.
KeepGoesOn ==
    /\ pc = "remove"
    /\ \/ TargetMarked
       \/ \E j \in NextOf : trim.seen[j].kind = "Smart" /\ trim.seen[j].important
    /\ IF job = NoJob THEN Finish ELSE pc' = "enforce" /\ UNCHANGED <<job, trim>>
    /\ UNCHANGED <<disk, env, nextId, counts, ghosts>>

\* A warning: nothing was changed, and the retention round stops.
Keep ==
    /\ pc = "remove"
    /\ \/ TargetMarked
       \/ trim.target \notin DOMAIN archives
       \/ \E j \in NextOf :
            LET next == NameOf(trim.seen, j) IN
            /\ next.kind = "Smart"
            /\ \/ trim.seen[j].important
               \/ ~({next, trim.target} \subseteq DOMAIN archives \cap DOMAIN records)
    /\ Finish
    /\ UNCHANGED <<disk, env, nextId, counts, ghosts>>

-----------------------------------------------------------------------------
(* DirectRemove.                                                           *)

DirectArchive ==
    /\ pc = "directArchive"
    /\ archives' = Without(archives, {trim.target})
    /\ trim' = [trim EXCEPT !.removed = TRUE, !.mutated = TRUE]
    /\ pc' = "directRecord"
    /\ UNCHANGED <<records, state, history, env, nextId, job, counts, ghosts>>

DirectRecord ==
    /\ pc = "directRecord"
    /\ records' = Without(records, {trim.target})
    /\ pc' = "commit"
    /\ UNCHANGED <<archives, state, history, env, nextId, job, trim, counts, ghosts>>

-----------------------------------------------------------------------------
(* The merge: the rebuilt archive replaces the later one, a Smart archive  *)
(* merged with a Full-like one is renamed to Full, the metadata is         *)
(* repaired, and the earlier archive is removed.                           *)

\* Mutant of MergedFiles: the later record's deletions are not applied.
MergedFilesOverlaid ==
    [f \in Files |-> IF trim.nextFiles[f] # Absent THEN trim.nextFiles[f] ELSE trim.targetFiles[f]]
\* Both archives extracted over each other, the later record's deletions applied.
MergedFiles ==
    [f \in Files |->
        CASE f \in records[trim.next].deleted -> Absent
          [] f \notin records[trim.next].deleted /\ trim.nextFiles[f] # Absent -> trim.nextFiles[f]
          [] OTHER -> trim.targetFiles[f]]

Now == nextId - 1
WrittenAt(i, time) == written' = [written EXCEPT ![i] = time]

MergeReplace ==
    /\ pc = "mergeReplace"
    /\ WrittenAt(trim.next.id, Now)
    /\ archives' = With(archives, trim.next, MergedFiles)
    /\ torn' = IF trim.target.id \in torn THEN torn \cup {trim.next.id} ELSE torn
    /\ trim' = [trim EXCEPT !.replaced = TRUE]
    /\ pc' = "mergeRename"
    /\ UNCHANGED <<records, state, history, game, nextId, job, counts, scanned>>

\* The rename, and the old write time put back on the merged archive.
MergeRename ==
    /\ pc = "mergeRename"
    /\ \/ trim.final = trim.next /\ UNCHANGED archives
       \/ /\ trim.final # trim.next
          /\ trim.final \notin DOMAIN archives
          /\ archives' = With(Without(archives, {trim.next}), trim.final, archives[trim.next])
    /\ WrittenAt(trim.next.id, trim.time)
    /\ trim' = [trim EXCEPT !.mutated = TRUE]
    /\ pc' = "mergeRecord"
    /\ UNCHANGED <<records, state, history, game, nextId, job, counts, ghosts>>

\* ComposeDelta on sets: what a file's change D followed by its change N amounts to.
ComposedAdded(D, N) ==
    (D.added \ N.deleted) \cup (N.added \ (D.added \cup D.modified \cup D.deleted))
\* Mutant of ComposedDeleted: what only the earlier change deleted is forgotten.
ComposedDeletedLater(D, N) == N.deleted \ D.added
ComposedDeleted(D, N) ==
    (N.deleted \ D.added) \cup (D.deleted \ (N.added \cup N.modified))
ComposedModified(D, N) ==
    (D.modified \ N.deleted)
      \cup (N.modified \ D.added)
      \cup (N.added \cap (D.modified \cup D.deleted))

\* The file list of the merged Full archive.
FullList(D, N) == (D.full \ N.deleted) \cup N.added \cup N.modified

RepairedRecord ==
    LET D == records[trim.target]
        N == records[trim.next]
        full == FullList(D, N)
    IN IF trim.final.kind = "Smart"
       THEN [prev |-> D.prev, base |-> IF N.base = NoName THEN D.base ELSE N.base,
             added |-> ComposedAdded(D, N), modified |-> ComposedModified(D, N),
             deleted |-> ComposedDeleted(D, N), full |-> {}]
       ELSE [prev |-> NoName, base |-> trim.final, added |-> full,
             modified |-> {}, deleted |-> {}, full |-> full]

FullListMissing == trim.final.kind = "Full" /\ records[trim.target].full = {}

MergeRecord ==
    /\ pc = "mergeRecord"
    /\ ~FullListMissing
    /\ records' = With(Without(records, {trim.target, trim.next}), trim.final, RepairedRecord)
    /\ pc' = "mergeRefs"
    /\ UNCHANGED <<archives, state, history, env, nextId, job, trim, counts, ghosts>>

\* Mutant of Redirected: references to the renamed archive are left.
RedirectedTarget(n) == IF n = trim.target THEN trim.final ELSE n
Redirected(n) == IF n \in {trim.target, trim.next} THEN trim.final ELSE n

MergeRefs ==
    /\ pc = "mergeRefs"
    /\ records' = [n \in DOMAIN records |->
                     [records[n] EXCEPT !.prev = Redirected(@), !.base = Redirected(@)]]
    /\ pc' = "mergeState"
    /\ UNCHANGED <<archives, state, history, env, nextId, job, trim, counts, ghosts>>

MergeState ==
    /\ pc = "mergeState"
    /\ state' = [state EXCEPT !.last = Redirected(@), !.base = Redirected(@)]
    /\ pc' = "mergeRemove"
    /\ UNCHANGED <<archives, records, history, env, nextId, job, trim, counts, ghosts>>

MergeRemove ==
    /\ pc = "mergeRemove"
    /\ archives' = Without(archives, {trim.target})
    /\ trim' = [trim EXCEPT !.removed = TRUE]
    /\ pc' = "commit"
    /\ UNCHANGED <<records, state, history, env, nextId, job, counts, ghosts>>

-----------------------------------------------------------------------------
(* ApplyHistoryChanges against the latest history, and the way back.       *)

Listed(n) == n.id \in DOMAIN history /\ history[n.id].kind = n.kind

\* Mutant of Accepted: the mark is not looked up again in the latest history.
AcceptedUnmarked ==
    /\ Listed(trim.target)
    /\ trim.next # NoName => Listed(trim.next)
Accepted ==
    /\ Listed(trim.target)
    /\ ~history[trim.target.id].important
    /\ trim.next # NoName => Listed(trim.next)

\* Mutant of CommittedHistory: the later entry is rebuilt from the new name alone.
CommittedHistoryRebuilt ==
    Without(IF trim.next = NoName THEN history
            ELSE [history EXCEPT ![trim.next.id] = trim.final],
            {trim.target.id})
CommittedHistory ==
    Without(IF trim.next = NoName THEN history
            ELSE [history EXCEPT ![trim.next.id].kind = trim.final.kind],
            {trim.target.id})

\* The commit point.  A retention round goes on with the new history.
Commit ==
    /\ pc = "commit"
    /\ Accepted
    /\ history' = CommittedHistory
    /\ IF job = NoJob
       THEN Finish
       ELSE /\ pc' = "enforce"
            /\ trim' = [NoTrim EXCEPT !.seen = history', !.blocked = trim.blocked]
            /\ UNCHANGED job
    /\ UNCHANGED <<archives, records, state, env, nextId, counts, ghosts>>

RemovalSteps == {"directArchive", "directRecord", "mergeReplace", "mergeRename",
                 "mergeRecord", "mergeRefs", "mergeState", "mergeRemove", "commit"}

\* A step fails, the operation is cancelled, or the latest history refuses the change.
RemovalFails ==
    /\ pc \in RemovalSteps
    /\ \/ Fault
       \/ /\ UNCHANGED counts
          /\ \/ pc = "mergeRename" /\ trim.final # trim.next /\ trim.final \in DOMAIN archives
             \/ pc = "mergeRecord" /\ FullListMissing
             \/ pc = "commit" /\ ~Accepted
    /\ pc' = "undoTarget"
    /\ UNCHANGED <<disk, env, nextId, job, trim, ghosts>>

Renamed == trim.final # trim.next /\ trim.next \notin DOMAIN archives

\* Mutant of UndoTarget: the renamed copy stays beside the original.
UndoTargetKeepsCopy ==
    /\ pc = "undoTarget"
    /\ archives' = IF trim.replaced THEN With(archives, trim.next, trim.nextFiles) ELSE archives
    /\ pc' = "undoRemoved"
    /\ UNCHANGED <<records, state, history, env, nextId, job, trim, counts, ghosts>>
\* The original later archive is put back, then its renamed copy is removed.
UndoTarget ==
    /\ pc = "undoTarget"
    /\ \/ ~trim.replaced /\ UNCHANGED <<archives, written, counts>>
       \/ /\ trim.replaced
          /\ archives' = With(Without(archives, IF Renamed THEN {trim.final} ELSE {}),
                              trim.next, trim.nextFiles)
          /\ WrittenAt(trim.next.id, trim.time)
          /\ UNCHANGED counts
       \/ /\ trim.replaced /\ RollbackFault
          /\ \/ UNCHANGED <<archives, written>>
             \/ /\ Renamed
                /\ archives' = With(archives, trim.next, trim.nextFiles)
                /\ WrittenAt(trim.next.id, Now)
    /\ pc' = "undoRemoved"
    /\ UNCHANGED <<records, state, history, game, nextId, job, trim, ghosts>>

\* copy_file keeps the write time on Windows and sets a new one elsewhere.
UndoRemoved ==
    /\ pc = "undoRemoved"
    /\ \/ ~trim.removed /\ UNCHANGED <<archives, written, counts>>
       \/ /\ trim.removed
          /\ archives' = With(archives, trim.target, trim.targetFiles)
          /\ UNCHANGED written \/ WrittenAt(trim.target.id, Now)
          /\ UNCHANGED counts
       \/ trim.removed /\ UNCHANGED <<archives, written>> /\ RollbackFault
    /\ IF trim.mutated THEN pc' = "undoClear" /\ UNCHANGED <<job, trim>> ELSE Finish
    /\ UNCHANGED <<records, state, history, game, nextId, ghosts>>

\* RestoreMetadata: remove_all, then copy the snapshot back.
UndoClear ==
    /\ pc = "undoClear"
    /\ \/ /\ records' = [n \in {} |-> 0] /\ state' = NoState
          /\ pc' = "undoCopy"
          /\ UNCHANGED <<job, trim, counts>>
       \/ /\ RollbackFault
          /\ \E left \in SUBSET DOMAIN records : records' = Without(records, left)
          /\ state' \in {state, NoState}
          /\ Finish
    /\ UNCHANGED <<archives, history, env, nextId, ghosts>>

UndoCopy ==
    /\ pc = "undoCopy"
    /\ \/ records' = trim.records /\ state' = trim.state /\ UNCHANGED counts
       \/ /\ RollbackFault
          /\ \E left \in SUBSET DOMAIN trim.records : records' = Without(trim.records, left)
          /\ state' \in {trim.state, NoState}
    /\ Finish
    /\ UNCHANGED <<archives, history, env, nextId, ghosts>>

-----------------------------------------------------------------------------
(* The restore plan: the metadata chain, and for each file the archive     *)
(* whose copy a Clean restore takes.                                       *)

\* BuildMetadataChain from the oldest link to n; a chain it rejects starts with a
\* Smart archive or lacks a file.
ChainTo(n) ==
    LET walk[k \in 0..MaxBackups] ==
          IF k = 0 THEN <<n>>
          ELSE LET c == walk[k - 1] IN
               IF Head(c) \in DOMAIN records /\ ~FullLike(Head(c)) /\ records[Head(c)].prev # NoName
               THEN <<records[Head(c)].prev>> \o c
               ELSE c
    IN walk[MaxBackups]

Touched(n) == records[n].added \cup records[n].modified
Links(c) == {c[k] : k \in DOMAIN c}

Restorable(n) ==
    IF FullLike(n) THEN n \in DOMAIN archives
    ELSE LET c == ChainTo(n) IN
         /\ Links(c) \subseteq DOMAIN archives \cap DOMAIN records
         /\ FullLike(Head(c))
         /\ records[Head(c)].full # {}

\* The last link that changed f decides what a restore puts there.
RestoredFile(c, f) ==
    LET changes == {k \in DOMAIN c :
                      IF k = 1 THEN f \in records[c[k]].full
                      ELSE f \in Touched(c[k]) \cup records[c[k]].deleted}
        last == CHOOSE k \in changes : \A m \in changes : m <= k
    IN IF changes = {} \/ (last > 1 /\ f \notin Touched(c[last])) THEN Absent
       ELSE archives[c[last]][f]

Restored(n) ==
    IF FullLike(n) THEN archives[n]
    ELSE [f \in Files |-> RestoredFile(ChainTo(n), f)]

RestoreWorld(i) ==
    /\ pc = "idle"
    /\ Restorable(NameOf(history, i))
    /\ \E content \in Contents :
         /\ content = Restored(NameOf(history, i))
         /\ world' = content
    /\ UNCHANGED <<disk, edits, clock, setbacks, written, nextId, pc, job, trim, counts, ghosts>>

-----------------------------------------------------------------------------
(* The history window's deletions, marks, the game, the clock, a crash.    *)

\* Removing state.json and the record of one archive (InvalidateBackupMetadata).
Invalidate(n) ==
    /\ records' = Without(records, {n})
    /\ state' = NoState

DeleteHistoryOnly(i) ==
    /\ pc = "idle" /\ "HistoryOnly" \in Deletions
    /\ history' = Without(history, {i})
    /\ UNCHANGED <<archives, records, state, env, nextId, pc, job, trim, counts, ghosts>>

DeleteLocalArchive(i) ==
    /\ pc = "idle" /\ "LocalArchiveOnly" \in Deletions
    /\ NameOf(history, i) \in DOMAIN archives
    /\ archives' = Without(archives, {NameOf(history, i)})
    /\ Invalidate(NameOf(history, i))
    /\ UNCHANGED <<history, env, nextId, pc, job, trim, counts, ghosts>>

DeleteArchiveAndHistory(i) ==
    /\ pc = "idle" /\ "LocalArchiveAndHistory" \in Deletions
    /\ archives' = Without(archives, {NameOf(history, i)})
    /\ Invalidate(NameOf(history, i))
    /\ history' = Without(history, {i})
    /\ UNCHANGED <<env, nextId, pc, job, trim, counts, ghosts>>

\* Safe deletion of a Smart entry: one ChainSafeRetention::Remove, outside a round.
SafeDelete(i) ==
    /\ pc = "idle" /\ "Safe" \in Deletions
    /\ history[i].kind = "Smart"
    /\ trim' = [NoTrim EXCEPT !.target = NameOf(history, i), !.seen = history]
    /\ pc' = "remove"
    /\ UNCHANGED <<disk, env, nextId, job, counts, ghosts>>

\* The star of the history window; it takes no world lock.
Mark(i) ==
    /\ \/ history[i].important
       \/ Cardinality({j \in DOMAIN history : history[j].important}) < MaxMarked
    /\ history' = [history EXCEPT ![i].important = ~@]
    /\ UNCHANGED <<archives, records, state, env, nextId, pc, job, trim, counts, ghosts>>

\* Files change while no operation reads them, or between the scan and 7-Zip's read.
EditFile(f, keeps) ==
    /\ pc \in {"idle", "archive"}
    /\ edits <= MaxEdits
    /\ keeps \/ (f \notin Permanent /\ world[f] # Absent)
    /\ world' = [world EXCEPT ![f] = IF keeps THEN edits + 1 ELSE Absent]
    /\ edits' = edits + 1
    /\ UNCHANGED <<disk, clock, setbacks, written, nextId, pc, job, trim, counts, ghosts>>

\* Daylight saving ends, or the user sets the clock back.
SetClockBack ==
    /\ setbacks < MaxSetbacks
    /\ setbacks' = setbacks + 1
    /\ clock' \in 0..(clock - 1)
    /\ UNCHANGED <<disk, world, edits, written, nextId, pc, job, trim, counts, ghosts>>

\* The process dies; no code resumes or undoes what it was doing.
Crash ==
    /\ pc # "idle"
    /\ crashes < MaxCrashes
    /\ crashes' = crashes + 1
    /\ Finish
    /\ UNCHANGED <<disk, env, nextId, faults, retained, ghosts>>

-----------------------------------------------------------------------------
Backup ==
    \/ WriteArchive \/ ArchiveFails
    \/ SaveRecord \/ SaveState \/ StateSnapshotFails \/ MetadataFails
    \/ AddHistory \/ AddHistoryFails
    \/ RestoreState \/ DropRecord \/ DropArchive \/ RollbackIncomplete

Removal ==
    \/ EndRound \/ PickOldest
    \/ StartDirect \/ StartMerge \/ Keep
    \/ DirectArchive \/ DirectRecord
    \/ MergeReplace \/ MergeRename \/ MergeRecord \/ MergeRefs \/ MergeState \/ MergeRemove
    \/ Commit \/ RemovalFails
    \/ UndoTarget \/ UndoRemoved \/ UndoClear \/ UndoCopy

Worker == Backup \/ Removal

User ==
    \/ \E mode \in Modes : StartBackup(mode)
    \/ \E i \in DOMAIN history :
         \/ DeleteHistoryOnly(i) \/ DeleteLocalArchive(i) \/ DeleteArchiveAndHistory(i)
         \/ SafeDelete(i) \/ Mark(i) \/ RestoreWorld(i)

Environment ==
    \/ \E f \in Files, keeps \in BOOLEAN : EditFile(f, keeps)
    \/ SetClockBack
    \/ Crash

Next == Worker \/ User \/ Environment

Spec == Init /\ [][Next]_vars
FairSpec == Spec /\ WF_vars(Worker)

-----------------------------------------------------------------------------
(* Properties.                                                             *)

IsMap(g, D, R) ==
    /\ DOMAIN g \subseteq D
    /\ g = [x \in DOMAIN g |-> g[x]]
    /\ \A x \in DOMAIN g : g[x] \in R

Job == [name : NamesOrNone, mode : Kinds \cup {"none"}, files : SUBSET Files,
        scan : Contents, added : SUBSET Files, modified : SUBSET Files,
        deleted : SUBSET Files, prev : NamesOrNone, base : NamesOrNone, old : MetadataState]

Labels == {"idle", "archive", "record", "state", "history", "restoreState", "dropRecord",
           "dropArchive", "enforce", "remove", "undoTarget", "undoRemoved", "undoClear",
           "undoCopy"} \cup RemovalSteps

TypeOKTrim ==
    /\ trim.target \in NamesOrNone /\ trim.next \in NamesOrNone /\ trim.final \in NamesOrNone
    /\ IsMap(trim.seen, Ids, Entry)
    /\ trim.blocked \subseteq Names
    /\ IsMap(trim.records, Names, Record)
    /\ trim.state \in MetadataState
    /\ trim.targetFiles \in Contents /\ trim.nextFiles \in Contents
    /\ trim.time \in 0..MaxBackups
    /\ {trim.replaced, trim.removed, trim.mutated} \subseteq BOOLEAN

\* Every variable keeps its type.
TypeOK ==
    /\ world \in Contents
    /\ edits \in 1..(MaxEdits + 1)
    /\ IsMap(archives, Names, Contents)
    /\ IsMap(records, Names, Record)
    /\ state \in MetadataState
    /\ IsMap(history, Ids, Entry)
    /\ nextId \in 1..(MaxBackups + 1)
    /\ clock \in Nat /\ setbacks \in 0..MaxSetbacks
    /\ written \in [Ids -> 0..MaxBackups]
    /\ pc \in Labels
    /\ job \in Job
    /\ TypeOKTrim
    /\ faults \in 0..MaxFaults /\ crashes \in 0..MaxCrashes
    /\ retained \in BOOLEAN
    /\ scanned \in [Ids -> Contents]
    /\ torn \subseteq Ids

\* Whether 7-Zip read another version than the scan saw, somewhere in the chain.
Tainted(n) ==
    \/ n.id \in torn
    \/ ~FullLike(n) /\ \E m \in Links(ChainTo(n)) : m.id \in torn

\* Restoring a history entry, when the program accepts it, gives back the world that
\* its backup scanned: the deltas of a chain still add up after every backup, failed
\* commit, retention round, merge, rename and complete rollback.
RestoreSound ==
    pc = "idle" /\ ~retained =>
        \A i \in DOMAIN history :
            LET n == NameOf(history, i) IN
            Restorable(n) /\ ~Tainted(n) => Restored(n) = scanned[i]

\* Every entry of the history can be restored, unless a rollback was reported incomplete.
HistoryRestorable ==
    pc = "idle" /\ ~retained => \A i \in DOMAIN history : Restorable(NameOf(history, i))

\* A record names each file once, and its archive holds exactly the files it added or modified.
Describes(r, files) ==
    /\ r.added \cap r.modified = {}
    /\ r.deleted \cap (r.added \cup r.modified) = {}
    /\ \A f \in Files : files[f] # Absent <=> f \in r.added \cup r.modified

\* Every archive that has a record holds exactly what the record says: a merge computes the
\* files and the record in two ways, which agree, and a rollback brings both back.
RecordsDescribeArchives ==
    pc = "idle" /\ ~retained =>
        \A n \in DOMAIN archives \cap DOMAIN records : Describes(records[n], archives[n])

\* state.json describes the archive it names: the next delta starts from there.
StateDescribesLast ==
    pc = "idle" /\ ~retained /\ ChainUsable =>
        /\ state.last \in DOMAIN records
        /\ state.files = scanned[state.last.id]
        /\ state.base = records[state.last].base

\* No backup, retention round or safe deletion takes an important entry out of the history,
\* whenever the mark was set; only the user's direct deletions, made while none runs, may.
ImportantKept ==
    [][pc # "idle" =>
         \A i \in DOMAIN history :
           history[i].important => i \in DOMAIN history']_history

\* A removal that fails leaves archives and metadata as they were before it.
FailureUndone ==
    [][ (pc \in {"undoRemoved", "undoCopy"} /\ pc' = "idle" /\ crashes' = crashes /\ ~retained') =>
          /\ records' = trim.records
          /\ state' = trim.state
          /\ trim.target \in DOMAIN archives' /\ archives'[trim.target] = trim.targetFiles
          /\ trim.next # NoName =>
                /\ trim.next \in DOMAIN archives' /\ archives'[trim.next] = trim.nextFiles
                /\ trim.final # trim.next => trim.final \notin DOMAIN archives' ]_vars

\* Every operation ends.
OperationEnds == (pc # "idle") ~> (pc = "idle")

=============================================================================
