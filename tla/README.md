# MineBackup: specifications

MineBackup backs up and restores Minecraft worlds. It archives a world with 7-Zip, in full or as a
chain of deltas ("Smart" backups), keeps JSON metadata about every archive, removes old archives,
and puts a world back in place of the current one, also while the game runs, through a mod that
saves and leaves the world when asked; it shares the archives among computers through rclone, and
runs with a window or as a server (`mb serve`). The specifications below describe the parts of it
in which a mistake costs a player a world or blocks the program: the chain of archives and the files that
describe it, the replacement of the world folder, hot restores, the shared remote, and the threads
and locks of the two forms of the program. Paths are relative to
`src/MineBackup/src/` of the repository unless they start with another folder.

| Module | What it is |
|---|---|
| `BackupChain` | one world's archives, records, `state.json` and history, under backup, retention, deletion, failure and crash |
| `BackupChain_proofs` | its type invariant, the safety of important entries and the algebra of one merge, for all constants |
| `ChainMetadata_proofs` | more about `BackupChain`: failed removals are undone, records describe archives, `state.json` describes the last one |
| `RestoreWorkspace` | the world folder and its snapshots while a restore replaces it |
| `RestoreWorkspace_proofs` | types, recoverability, exact rollback and exact commit, for all constants |
| `TaskCoordinator` | background tasks, their resource keys, stopping and joining |
| `TaskCoordinator_proofs` | types, mutual exclusion and complete shutdown, for all constants |
| `AtomicStore` | what callers may assume of an atomic file write |
| `AtomicFile` | the atomic file writer, step by step, and its refinement of `AtomicStore` |
| `BackupCommit` | the three metadata writes of a new backup on top of `AtomicFile`, next to a user who edits the history |
| `BackupCommit_proofs` | types, the refinement of `AtomicStore`, and what a backup reports and names, for all constants |
| `HotRestore` | hot backups and hot restores of the desktop program, the mod, the game and the player |
| `HotRestore_proofs` | types, one writer per world, no restore under the game, one hot restore, for all constants |
| `CloudHistory` | several machines that share one rclone remote |
| `CloudHistory_proofs` | types, what is listed was uploaded, what others wrote stays, for all constants |
| `ServeRuntime` | `mb serve`: its threads, locks, jobs, KnotLink commands and shutdown |
| `ServeRuntime_proofs` | types and locks, jobs, services, events and the one race, for all constants |
| `MCBackupChain`, `MCRestoreWorkspace`, `MCTaskCoordinator`, `MCBackupCommit`, `MCHotRestore`, `MCCloudHistory`, `MCServeRuntime` | model values and instances for TLC |

A definition called `XSomething` under a comment "Mutant of X" is a plausible bug in the code X
models; it is used by no specification and exists to show that a property can fail.

## 1. Inventory

**Backup** (`core/BackupManager.cpp`, `core/BackupChangeDetector.cpp`). Takes the
`WorldOperationGuard`, scans the world, compares it with `state.json`, chooses Full, Smart or
Overwrite, runs 7-Zip into a staging folder, verifies and renames the archive, saves its record and
`state.json`, adds the history entry and lets retention run. Correct when every listed backup
restores what was scanned, and when a commit that fails leaves nothing behind.

**Metadata store** (`core/FolderRewindMetadataStore.cpp`). `records/<archive>.json` per archive
(previous archive, base, added, modified, deleted and, for a Full-like archive, all files) and
`state.json` (last archive, its base, every file's size and time). Two files that must agree and are
saved one after the other.

**Atomic file replacement** (`infra/AtomicFileWriter.cpp`). Writes a temporary file, flushes it, reads
it back, copies the old content, renames, syncs the directory. Tells its caller whether the target was
replaced, and whether that is known to be on disk. Correct when a file is whole at every moment and the
answer is true.

**Retention** (`core/RuntimeRetentionService.cpp`, `core/ChainSafeRetention.cpp`). Removes the oldest
archive above `keepCount`. When a Smart archive follows, the two are merged: extracted over each
other, rebuilt, the later archive replaced (and renamed to Full when the earlier one was),
the record recomputed, references redirected, the earlier archive removed and the history changed.
Any failure is rolled back from copies. Correct when no restore changes its result.

**Deletion** (`core/BackupRetention.cpp`). Four modes of the history window: history only, archive
only, both, and "safe", which is the merge above.

**Restore plan** (`core/RestoreService.cpp`). Follows the records from the selected archive to the
Full-like one it rests on and decides for each file which archive to extract it from.

**Restore workspace** (`core/RestoreWorkspace.cpp`). Prepare moves the world folder away (Clean) or
copies it (Overlay); after the extraction Commit copies preserved files back and removes the
snapshot; Rollback puts the original back. Correct when the original or the restored world always
survives in full.

**Task coordinator** (`core/TaskCoordinator.cpp`). One thread per task, resource keys as mutexes, a
stop token per task, join at shutdown. Correct when tasks of one world exclude each other, accepted
tasks run, and nothing runs after shutdown.

**History repository** (`core/HistoryRepository.cpp`, `core/HistoryManager.cpp`). The history in
memory behind a mutex; a mutation is applied to a copy, saved, then published.

**World operation guard** (`core/BackupManager.cpp:171`, `core/GameSessionManager.cpp`). At most one
operation per world path, refusing others at once. Correct when no two operations touch one world's
files, whatever keys their tasks had.

**Hot backup and hot restore** (`core/HotRestoreCoordinator.cpp`, `core/BackupRestore.cpp`,
`core/BackupManagerDesktop.cpp`). A handshake with the game mod, with timeouts, before a live world
is saved or closed. One set of response flags and one hot-restore state for the whole program.
Correct when no open world is overwritten and the state always returns to idle.

**Cloud** (`core/CloudSyncService.cpp`, `core/CloudHistorySync.cpp`, `core/CloudHistoryAnalysis.cpp`).
rclone uploads, downloads and history merges in one queue per profile. State: the `cloud` fields of
history entries, the remote's archives, metadata, `history.json` and manifest. Correct when what is
called a cloud copy is one, an upload takes away nothing of other configurations that it could read, and
downloads do not make a wrong restore acceptable.

**Jobs** (`core/JobRunner.cpp`). Stages one after the other, the steps of a stage in parallel.

**Profile runtime** (`core/ProfileRuntime.cpp`, `core/RuntimeIntegration.cpp`). Two mutexes, the
services of a profile, which a reload replaces, and the bridge to the mod. Correct when nobody works
with replaced services, and when nobody waits for ever.

**KnotLink** (`core/ProfileKnotLinkCommands.cpp`, `infra/KnotLink*.cpp`). Commands from clients, each in a
thread of its own, with accepted, started and terminal events.

**Migration**, **single instance**, **configuration and discovery**, **user interface** and **command
line**: see section 10 and `PROJECT.json` for what of them is modelled.

How they interact: the interface, KnotLink, the automatic timer and the command line submit tasks to
the coordinator with a world's key. The task runs Backup or Restore, which take the world guard.
Backup calls the detector, the metadata store, the history repository and retention. Restore
calls the plan, the workspace and, for its safety backup, Backup. The game writes the world's files
and the user marks history entries while all this runs, without taking any of these locks. Cloud tasks
take the profile's cloud key instead of the world's, so that backups and merges run between their
steps. The server has no coordinator: its commands and jobs run on threads of their own and meet at
the runtime's two mutexes, and answers of the mod reach them through the bridge's one reader thread.

How the modules divide this: `BackupChain`, `RestoreWorkspace` and `BackupCommit` each look at one
operation on one world in depth; `TaskCoordinator`, `HotRestore` and `ServeRuntime` look at several
operations and abstract the operation itself to a few steps; `CloudHistory` abstracts an archive to
the span of backups it covers. `BackupCommit` is `AtomicFile` composed with the backup and the history
repository (it extends it, and both share the file variables).

## 2. `BackupChain`

State: `archives`, `records`, `state` and `history` are what is on disk. `job` and `trim` are the
local variables of the running `RunCore` and `Remove`; `pc` is the step it is at; a crash forgets
them. `world` is the save directory, whose files carry a version in place of size and write time.
`written` holds archive write times, which order retention and the Smart limit. `scanned` and
`torn` are ghosts: what each backup scanned, and which backups read a file that changed meanwhile.

| Code | Actions |
|---|---|
| `RunCore`: guard, scan, choice of type | `StartBackup` (`NoChanges`, `ForceFull`, `KindFor`) |
| 7-Zip, verification, rename | `WriteArchive`, `ArchiveFails` |
| `UpdateMetadataFiles`, `SaveDetailed` | `SaveRecord`, `SaveState`, `StateSnapshotFails`, `MetadataFails` |
| `addHistory` and its rollback | `AddHistory`, `AddHistoryFails`, `RestoreState`, `DropRecord`, `DropArchive`, `RollbackIncomplete` |
| `Enforce` | `PickOldest`, `EndRound`, and `Commit` going back to "enforce" |
| `Remove`: checks | `StartDirect`, `StartMerge`, `Keep` |
| `DirectRemove` | `DirectArchive`, `DirectRecord` |
| the merge, `RepairMetadata` | `MergeReplace`, `MergeRename`, `MergeRecord`, `MergeRefs`, `MergeState`, `MergeRemove` |
| `ApplyHistoryChanges` | `Accepted`, `CommittedHistory`, `Commit` |
| rollback, `RestoreMetadata` | `RemovalFails`, `UndoTarget`, `UndoRemoved`, `UndoClear`, `UndoCopy` |
| `BuildMetadataChain`, `BuildSmartFilePlan`, `ExtractChain` | `ChainTo`, `RestoredFile`, `Restored`, `RestoreWorld` |
| `DeleteBackupWithMode` | `DeleteHistoryOnly`, `DeleteLocalArchive`, `DeleteArchiveAndHistory`, `SafeDelete` |
| the star in the history window | `Mark`, enabled at every step |
| the game, the clock, the process | `EditFile`, `SetClockBack`, `Crash` |

One operation runs at a time, which the world key and the guard are there to ensure. The composed
delta (`ComposedAdded`, `ComposedDeleted`, `ComposedModified`) states on sets what `ComposeDelta`,
`ApplyDelta` and `BuildDeltaLists` compute on maps. What `MergedFiles` puts in the archive and what
the repaired record says of it are defined independently, as in the code, so that they could
disagree.

Properties: `RestoreSound` is the heart: an entry whose restore the program accepts gives back
exactly the world its backup scanned. `HistoryRestorable` adds that it does accept.
`RecordsDescribeArchives` says that an archive and its record, which a merge computes in two
separate ways, still agree.
`StateDescribesLast` says that the next delta will start from the archive it claims to.
`FailureUndone` compares a failed removal with the moment it began. `ImportantKept` covers a mark
set during a merge, and `OperationEnds` the termination of rounds and rollbacks. After a rollback
that was reported incomplete (`retained`) the invariants of the chain promise nothing: the program has told
the user to recover by hand. `RestoreSound` also exempts chains with a torn backup, since without
the hot-backup handshake the code does not promise a consistent copy of a live world.

Runs (one of the two files is permanent, like `level.dat`, so that the world is never empty;
`chain_chaos` has one file and no permanent one):

| Run | Bounds | What it shows |
|---|---|---|
| `chain_core` | 5 backups, Smart and Overwrite, 2 edits, limit of 2 Smarts, keep 3 | merges at the head, in the middle and next to a forced Full; Overwrite archives as heads, removed only when nothing refers to them. Five is the least at which a merged archive is merged again while a later one refers to it |
| `chain_faults` | 4 backups, Full and Smart, 1 failing step | every rollback, followed by further backups and merges |
| `chain_chaos` | 2 backups, 2 failing steps, crash, setback, mark, all deletions | a mark at every step, failure of a rollback, crash in a rollback, termination |
| `chain_gap` | 5 backups, plain deletion | violated: see Findings |

Two files are enough for the chain: what a restore puts in a place depends on that file's changes
only, the second file makes archives and deltas non-trivial while the first is unchanged, added or
deleted. `chain_core` and `chain_faults` have neither crash, setback nor plain deletion, because each of these
leads to the wrong merge of `chain_gap`. Where `CHECK_DEADLOCK FALSE` is set the bounds may be used
up with an empty history, so that nothing can happen any more; elsewhere a restore is always possible.

Fairness: weak fairness of the steps of the running operation. It is a sequence of calls in one
thread with no waiting between them, and 7-Zip ends or is cancelled, which is a failing step. No
fairness is assumed of the user, the game or the clock, and failures are bounded.

## 3. `RestoreWorkspace`

State: `target` and `slots` are folders (a version per entry, or `NoTree`); `phase`, `slot`,
`existed`, `isCopy` are the fields of `RestoreWorkspace::State`. Recursive copying, removal and
extraction are one action per entry, so that a failure, a cancellation or a crash can strike in the
middle. `NextSnapshotPath` is `FirstFree`. The code's `Prepare` is `Begin` to `CopyAwayFails`,
`ExtractChain` is `Extract`, `Commit` is `Extracted`, `Preserve`, `CommitPoint` and the removal
of the snapshot, `Rollback` is the rest. Several restores follow each other, so that leftovers of an
earlier one (`CleanupWarning`, `Crashed`, `RollbackFailed`) are met by the next.

`workspace` checks three restores of a two-entry world (`session.lock` is preserved, the other entry
is not), two failing steps and one crash: three restores are the least at which a restore meets the
leftovers of a restore that met leftovers. It shows that

- the world as the last effective restore left it survives in the target or in one snapshot
  (`Recoverable`), although the program never resumes a crashed restore by itself;
- "rolled back" means restored exactly, and no snapshot is left (`RollbackExact`);
- "done" means the content each mode promises (`CommitExact`);
- every restore ends (`RestoreEnds`), under weak fairness of its steps: one thread, no waiting.

The world is not open in the game meanwhile: `RestoreService::Run` refuses an occupied world.

## 4. `TaskCoordinator`

State: `records` is `Impl::tasks`, `joining` the vector `StopAndJoin` swapped out, `held` the
mutexes of each worker, `status` where its thread is, `submitting` the holder of `stateMutex` in a
`Submit` that may block (erasing a done task joins its thread). Other calls under `stateMutex` are
one step each. Keys are numbered in sorted order; `Lock` takes the next one, `Abandon` is the early
return that sets `done` while locks are held.

`tasks` has a periodic task without keys that submits a run for world 2 and two tasks that hold the
keys of worlds 1 and 2, with stop requests by name and a shutdown at any time. It checks
`Exclusion`, `ShutdownComplete`, `ShutdownEnds` and `AcceptedRuns`; the last is where a cycle of
waiting tasks would show, since a stop request is always possible and deadlock checking says little.
Two tasks with two shared keys are the least that can wait on each other; a third task adds one
that waits for the second of their keys. Fairness: a thread that can run does; a task's function ends
(a periodic one when its stop token is set). Each task is submitted once, so that no key is
contended for ever and weak fairness is enough.

`SubmissionOrder` is stated in the module and checked by no run: the code breaks it (Findings).

## 5. `AtomicStore`, `AtomicFile` and `BackupCommit`

`AtomicStore` is what a caller may assume: `content` of each file as a reader sees it, `survivors`, the
contents a power loss may leave, and the one `call` in progress. A call takes effect at one moment
or never, its answer is given after that, and `Stop` lets every file fall back to one of its
survivors, all of them whole.

`AtomicFile` is `WriteStreamed`. `target` is the file, `temporary` the temporary file with `flushed`
for its fsync, `backup` the `.bak` copy, `writing` the next step, `job` the arguments, `answer` the
commit state.

| Code | Actions |
|---|---|
| mutex, target and parent | `Acquire`, `Release` |
| `WriteExclusiveTemporary` | `WriteTemporary` (other bytes may arrive unnoticed), `FlushTemporary` |
| `VerifyFile` | `VerifyTemporary` |
| backup copy, `Replace`, `SyncDirectory` | `KeepBackup`, `ReplaceTarget`, `SyncParent` |
| the error returns | `Abandon` |
| `ReplacePreparedFile`, `filesystem::remove` | `ReplacePrepared`, `RemoveFile` |
| process death, power loss | `Forget`, `FallBack` |

The refinement maps `target` to `content` and the step to the call's effect (`EffectOf`): "taken"
between rename and sync and for an answer `ReplacedNotDurable`, "settled" for `Durable`, else "none". A
rename of a file that was not flushed would put `Garbage` in `survivors`, which no value of the abstract
store is.

`BackupCommit` adds the backup from the rename of its archive on: `StartBackup` (the rename and the copy of
`state.json`, which may fail: the backup is reported failed, outcome "unprepared"), then `SaveDetailed`
(`SaveRecord`, `RecordSaved`, `SaveState`, `StateSaved`, `UndoRecord`, `RecordRestored`,
`DropArchiveOnly`), then `HistoryRepository::Mutate` (`AddHistory`, `Publish`, `HistorySaved`) with the
rollback of a failed save (`RestoreState`, `DropRecord`, `DropArchive`, `RollbackFails`). The user's
`RemoveEntry` takes the same mutex and the same writer. A file's content is the set of backups it
names. Archive names may repeat: a failed backup frees its name and a later one of the same second
takes it, record and history entry included.

`commit` checks two backups, three failing steps, a crash or power loss and an edit:

- `ImplementsStore`: the writer keeps the promise of `AtomicStore` through everything around it, whole
  files after a power loss at any moment included;
- `OutcomeTrue`: what a backup reports is what the files say. A committed one has its archive, record and
  `state.json`; a failed one is in no history and has put the record and `state.json` back, and its archive is
  gone, unless it failed already at the copy of `state.json`: then its archive stays under its name with the
  metadata untouched (`core/BackupManager.cpp:922` returns after the rename at `:909`; section 10). The history in
  memory is the history on disk, whoever saved last (`MemoryIsSaved`);
- `NamedHasRecord`: `state.json` and `history.json` never name a backup without its record, the reason
  for the order record, state, history.

Two backups let one start from what a failed or crashed one left; three failures let a save, its
rollback and the rollback's clean-up fail. `doubt` marks what the code does not promise: a rollback
reported incomplete, an unconfirmed save rolled back (Findings), and power losses that take back a
change no call had confirmed. `lagging` marks a history save answered `ReplacedNotDurable`.
`CHECK_DEADLOCK FALSE`: the bounds end the system. No fairness: nothing here waits but for the two
mutexes, each of whose holders goes on by itself, and liveness of the commit would say no more.

## 6. `HotRestore`

State: `pc` of each operation (a task of the coordinator), `guard` (`g_worldOpInProgress`), `hotState`
(`g_appState.hotkeyRestoreState`) with `hot`, the operations that passed its compare-exchange, `flags`
and `detected` (`KnotLinkModInfo`), `asks` (events on their way to the mod) and `mail` (commands on their way
back, in any order). The mod, the game and the player are external.

| Code | Actions |
|---|---|
| task key, guard, lock test of a backup | `Begin`, `BackupStart`, `BackupBusy` |
| `PrepareDesktopHotBackup` | `Shake`, `BackupAsk`, `BackupUnavailable`, `BackupSaved` |
| the archive | `BackupEnd`, `BackupFails` |
| `compare_exchange_strong` and the handshake, with its one retry after a safety backup | `Cold`, `Enter`, `InProgress`, `Compatible`, `Incompatible`, `ShakeTimesOut` |
| `HotRestoreCoordinator::Run` | `AskExit`, `ExitAnswered`, `ExitTimesOut`, `WorldReleased`, `ReleaseTimesOut`, `AskRejoin`, `RejoinEnds` |
| `RestoreService::Run`: both looks at the world, guard, safety backup, workspace | `Check`, `Recheck`, `Register`, `RestoreFails`, `Applied` |
| `KnotLinkService` | `Deliver` |
| mod, game, player (external) | `ModShakes`, `ModSaves`, `ModLeaves`, `ModRejoins`, `GameReleases`, `PlayerOpens` |

A timeout may end a wait at any moment, a command may stay in the mail for ever, and an answer does not say
which operation it answers. `hot` runs every pair of operations: backup, restore from the window or
by the mod's command, with or without safety backup, of one or two worlds, in one or two
configurations (tasks of two configurations have different keys, so that only the guard separates
them). Operations, configurations and worlds are interchangeable, and `MCDemands` keeps one of each set of
alike pairs. Two operations are enough for one to meet the flags, mail, guard or state
of another; `MaxOpens` = 1 lets the player reopen a world once.

`NotUnderTheGame` (no open world is overwritten) rests on the second look after the safety backup;
`OneWriter` on the guard being asked again; `HotStateOwned` and `HotRestoreEnds` on every early return
giving the state back. Fairness: a thread that can go on does, since its waits are bounded and
7-Zip ends; none for mod, game or player. Assumed (`MayOpen`): nobody opens a world between a
restore's last look at it and its end, a window the code cannot close; in it fall the player and a
mod that handles a rejoin after the wait for it has timed out. The session watchers are not modelled.

## 7. `CloudHistory`

One world of one configuration on several machines. Per machine `history`, `archives`, `records`,
`state` and the cloud `task` that holds `g_cloudMutex`; shared, `remote`. An archive is the span of backups
it covers: a Full one from 0 to its backup, a Smart one from the backup it builds on, a merged one
the union. A restore gives the right world when the spans of the archives it reads follow each
other from 0 to the backup (`Contiguous`).

| Code | Actions |
|---|---|
| backup, merge with rename, deletion on the machine (detail in `BackupChain`) | `Backup`, `Merge`, `DropLocal` |
| upload of one entry | `StartUpload`, `PutArchive`, `PutState`, `PutRecord`, `MarkUploaded` |
| upload of the folder | `StartFolder`, `PutFolder`, `PutMetadata`, `MarkFolder` |
| history snapshot, also after an upload | `StartSnapshot`, `Load`, `PutHistory` (`Share`), `PutManifest` |
| the same by another configuration, on its own machine | `OtherLoads`, `OtherPuts` |
| synchronisation, completion of a restore chain, download of one entry | `StartSync`, `StartEnsure`, `StartDownload`, `LoadManifest`, `Import`, `Plan`, `NextDownload`, `GetArchive`, `GetState`, `GetRecord` |

Each rclone command is a step and may fail; backups, merges and deletions come between the steps.
`cloud` has two machines, two backups, two tasks, one merge, one deletion and one failing command: one
machine uploads and the other takes over, or both upload. `ListedIsUploaded`: a path any history
calls a cloud copy exists in the remote, but for entries a folder upload marked without sending them
(`unsent`, which the code does: the hazard at `core/CloudHistorySync.cpp:240` is not caught by it). `RestoreSound`: metadata and archives of another machine downloaded
over local ones never make a wrong restore acceptable; backups a merge has touched are the subject of
`cloud_stale` (Findings). `OthersKept`: an upload takes away none of the other configuration's entries that were in
the shared file when the upload read it, because a history that could not be read is not taken for a missing one and
what is read is written back. `CloudTaskEnds`: under weak fairness of a task's
steps, since rclone commands have timeouts and the user need not act.

All configurations of a remote share one `history.json`. The other configuration is one more reader and writer of
it: `OtherLoads` keeps in `other` what it has read, `OtherPuts` writes that back, at any later moment, with its own
entries exchanged for any others. It counts towards the bound on tasks, so that it comes in place of one of the two
tasks of the machines, before, after or in the middle of the other; that is enough for a write between the read
and the write-back of an upload. Nothing locks the file in the remote, so such a write is lost, in both
directions. The ghost `late` of a machine holds the others' entries that were added since its upload read the file;
`OthersKept` exempts exactly them and says nothing for them (section 10).

Simplified: `cloudSyncHistoryAfterUpload` is on; a synchronisation without downloads is a prefix of one with; the
manifest is taken from the same snapshot as the history; backups have distinct times; one process
and so one cloud task per machine.

## 8. `ServeRuntime`

The threads of `mb serve`: the main loop (`main`, `stopping`), the bridge's reader (`reader`), a worker per
KnotLink command and per step of a job (`pc`), a thread per control command (`control`). Locks:
`execution` (`executionMutex`), `operation` (`operationMutex_`), `state` (`stateMutex_`). `generation`
counts the implementations a reload has put in place and `using` says which one a worker works with. `operations`,
`attached` and `raced` follow the map of running commands, the moment its `jthread` is stored, and the
race on it.

| Code | Actions |
|---|---|
| clients and mod (external) | `ClientSends`, `Ask` |
| `HandleCommand`, `Handle`, `Submit`, `Cleanup` on the reader | `ReadMessage`, `Query`, `Submit`, `StartThread`, `AttachThread` |
| `Backup` with `HeadlessKnotLinkBridge::Prepare` | `LockBoth`, `Preflight`, `ResetFlags`, `AskToSave`, `Saved`, `GiveUpMod`, `Archive` |
| `RunHotRestore` | `Verify`, `Shake`, `AskToLeave`, `Left`, `GiveUpRestore`, `LockState`, `Apply`, `Rejoined` |
| end of a command's thread | `Unlock`, `Exit` |
| `RunJob`, `JobRunner::Run`, `Aggregate` | `LockExecution`, `LockRuntime`, `StartStage`, `JoinStage`, `EndJob` |
| `Reload` | `Reload` |
| control loop | `SubmitControl`, `CancelControl`, `Reap`, `Status`, `StopServe`, `LeaveLoop` |
| `~ProfileRuntime` | `CancelCommands`, `CloseBridge`, `JoinReader`, `JoinWorkers` |

The mod puts its answer on the connection at once or never; how late it is read is up to the reader,
which the model may delay by queries that wait for `stateMutex_`. `scoped_lock` over two mutexes is one step,
since `std::lock` holds none while it waits. Request identities are unique.

`serve` admits any two requests among a BACKUP, a hot RESTORE, queries, a job of two parallel steps and one
after them, and a reload; status, cancel and stop requests are free. Two are the least at
which one waits for what another holds, and a job by itself has three workers. `TypeOK` includes the
order of the locks. `ServicesStay`: a reload replaces no services in use, also not those of a hot
restore that waits without `stateMutex_`, nor under the job's steps, which own no lock. `JobSound`,
`EventsInOrder`: results and events are what happened. `SelfJoinOnlyInRace`: a worker joins itself
(`std::terminate`) only if a status request falls between the start of its thread and the store of its
`jthread`; that race is in the code (`core/ProfileKnotLinkCommands.cpp:338`). `CommandEnds` and
`ServeEnds` say that every command and the shutdown end although the mod's answers queue behind queries
that wait for the command's own lock; they hold because the waits have deadlines. Fairness: threads run,
waits have deadlines, 7-Zip ends; none for clients, mod or user. `serve_stop`: see Findings.

## 9. What is proved

TLAPS proves the following for every value of the constants that the named assumptions allow: the bounds
are naturals, modes and deletions are among those of the program (`BoundsAssumption`, `ModesAssumption`,
`DeletionsAssumption`), a file that is missing or garbage is no content (`FileAssumption`), `state.json`,
`history.json` and the records are different files (`CommitAssumption`), `None` is no operation
(`NoneAssumption`), `Demands` are demands (`DemandsAssumption`), an operation of the server is of one kind and is
none of its control commands (`DistinctAssumption`), a job has two stages (`ServeAssumption`), machines and other
configurations are finitely many (`CloudAssumption`). Every inductive invariant was first checked by TLC on
the configurations of the runs.

`BackupChain_proofs`:

- `Typing` (`TypeOK`). The strengthening `Typed` groups the variables (disk, world, counters, working memory)
  and says what each `pc` may rely on: the archives a removal names are real names and its snapshot was
  taken, which is what makes `archives[trim.next]` or `records[trim.target]` typed values when they are used.
- `ImportantNeverLost` (`ImportantKept`): while an operation runs no step takes an important entry out of the
  history, whatever the user deletes between operations. No invariant is needed: the only step of a removal
  that shortens the history tests the mark in the same step.
- `MergeKeepsContent` and `MergeKeepsHead`: the algebra of one merge. If the two records describe their
  archives (`Describes`), the merged archive with its composed record, or its new file list, does to
  every file what the two did one after the other.

`ChainMetadata_proofs`, on the same module:

- `FailuresAreUndone` (`FailureUndone`). The invariant `Undoable` says what a removal still has in memory or on
  disk at each of its steps, while no rollback has failed: no two archives have one number (`Numbered`),
  the target is in place or can be put back under its number (`TargetKept`), the later archive is there under its old
  or its new name and its original content is kept once it was replaced (`NextKept`), and the metadata are those of
  the snapshot unless `mutated` says otherwise (`SnapshotKept`). It survives any crash.
- `RecordsAreTrue` (`RecordsDescribeArchives`). The invariant `Recorded` extends "every record describes its
  archive" to the steps at which it does not hold: what a backup has asked 7-Zip for before its record is written,
  the snapshot that an undo puts back, and the two steps of a merge between the new archive and its new
  record. `RepairFits` shows that the two agree there. It assumes `crashes = 0`: a process that dies between
  those two steps of a merge leaves the old record beside the new archive, which TLC shows.
- `StateIsTrue` (`StateDescribesLast`). The argument is about order: `StateSound` says that the history is in the
  order of the backups (`InOrder`), that the last archive of a state is the newest of the history and its base the newest
  Full one (`Fits`), that a backup under way holds a state that fits (`JobInStep`), that a removal without
  a merge never takes a base in use (`DirectInStep`: a base that is not the last has a Smart successor) and
  that a merge joins two neighbours (`Adjacent`), so that redirecting both names of the state is right at each
  of its steps (`MergeInStep`). The theorem has three hypotheses, each of which is needed (TLC finds a
  counterexample without it): `crashes = 0`; `setbacks = 0`, because with a clock set back the order of the history
  window is not that of the backups; and no deletion of a history entry alone, because the base of
  `state.json` can then be removed as if nothing followed it.
- `RestoresAreSound` (`RestoreSound`). The invariant `ChainSound` says of every archive that the history lists that
  it is linked (`Linked`): it has a record, a Smart one follows the entry before it in the history
  (`Follows`), and its record and files take the world that the one before it has scanned to the world its own
  backup has scanned (`Leads`). At the steps where this does not hold, it says what a backup has found out
  (`JobTrue`), that the chain which an undo would bring back is linked (`SnapshotTrue`), that no Smart archive follows
  one which goes without a merge (`NoneFollows`), and that the merged archive leads over both (`FinalTrue`,
  by `MergeKeepsContent` and `MergeKeepsHead`) while the other records are redirected (`OthersKept`). Whole chains: what
  `ChainTo` walks is a chain of predecessors (`ChainShaped`), all of them listed (`LinksListed`), so that the last
  link that changed a file gives it the content of the newest scan (`RestoredIsScanned`); these are inductions along the
  chain, carried out on a least counterexample (`LeastNumber`). The hypotheses are those of `StateIsTrue` and that the
  user deletes no entry together with its archive; without any one of them TLC finds a counterexample
  (`chain_gap`, and Finding 1).
- `EntriesAreRestorable` (`HistoryRestorable`). The invariant `Rooted` says that the files the game never deletes
  are in every Full-like record and are deleted by none, through backups, merges and restores, so that no
  Full-like archive is empty. `Complete` says that every entry of the history has its archive, in the middle of a
  removal under one of the names `Around` it. With `ChainSound` the walk then goes back one entry at each step
  (`WalkGoesBack`) and ends at a Full-like archive within `MaxBackups` steps. Next to the hypotheses of
  `StateIsTrue`, the theorem asks that the user deletes only safely, because the other ways take an archive and leave
  what is built on it, and that some file is permanent, because a Full-like archive of an empty world is refused
  (`core/RestoreService.cpp:181`, section 10).

`RestoreWorkspace_proofs`:

- `Typing`, `NothingLost` (`Recoverable`) and `RollbackIsExact` (`RollbackExact`). The inductive invariant
  `Kept` says where the original is at each step (in place while the target is untouched, in the
  restore's own snapshot afterwards) and that the last good world is that original or lies in another
  snapshot (`Elsewhere`). `OwnSlotOnly` adds that no other snapshot is touched and that the
  restore's own name was free when it began.
- `CommitIsExact` (`CommitExact`). `Built` says what the staging directory or the target holds at each
  step: the extracted entries, the preserved ones from the original (`Filled`), the target so far (`Mended`).

`TaskCoordinator_proofs`: `Typing`, `MutualExclusion` (`Exclusion`, from `Owned`: a key has one holder, a
running task holds all of its keys) and `ShutdownIsComplete` (`ShutdownComplete`, from `Accounted`: a live
task is on record or being joined, and after the flag is cleared no record is added).

`BackupCommit_proofs`:

- `Typing` (`TypeOK`), from `Inv`: who holds the writer and for which file (`Owned`), what the writer has done by
  each of its steps (`Written`), and which of the old and the new content `state.json` and the record have
  at each place of the backup thread (`Tracked`).
- `WriterImplementsStore` (`ImplementsStore`): the refinement. The initial states map to those of `AtomicStore`, and
  every step of writer, backup, user and crash maps to a step of it or to none.
- `BackupsReportTruly` (`OutcomeTrue`), from `Told`: what is reported is so on disk (`Reported`, for each of the two
  ways to fail), nothing names
  an attempt that was not begun (`Bounded`), and the history in memory is the saved one except while a save is
  unconfirmed (`Fresh`).
- `NamedBackupsHaveRecords` (`NamedHasRecord`), from `Sound`: every name that a reader may find, also after a power
  loss, has its record.

`HotRestore_proofs`: `Typing`; `FilesHaveOneWriter` (`OneWriter`, from `Held`: an operation that touches files has
the guard of its world); `RestoresClosedWorlds` (`NotUnderTheGame`, from `Closed`); `OneHotRestore` (`HotStateOwned`,
from `HotHeld`: the places of a hot restore and the values of `hotkeyRestoreState` that go with them).

`ServeRuntime_proofs`: `Typing` with the order of the locks (`Locked`); `JobsReportTruly` (`JobSound`, from
`Staged`); `ServicesAreKept` (`ServicesStay`, from both); `SelfJoinNeedsRace` (`SelfJoinOnlyInRace`, from `Once`: a
command is on the connection, with the reader or started, never two of them, and `Mapped`); `EventsComeInOrder`
(`EventsInOrder`, from `Told`: the events of a command are those of the places it has passed).

`CloudHistory_proofs`: `Typing`; `ListedWasUploaded` (`ListedIsUploaded`, from `Known`: every history, also one that
a task has read or will send, marks only what is in the remote); `UploadsKeepWhatTheyRead` (`OthersKept`, from
`Kept`: a machine about to write the shared file holds all that others have in it but what is `late`); and `DownloadsAreSound` (`RestoreSound`).
The invariant of the last has two parts. `Direct`: the cloud path of every entry, also of those a task has read, will
send or is going to download, is the entry's name, but for a merge that renamed it, so that every transfer copies an
archive or a record to the name it has on the other side (`Copied`). `Spanned`: every copy of an archive
and every copy of its record, on whichever machine or in the remote, agree on the backup it builds on, and records
point to older backups. A restore follows the records of its machine; what it reaches contains the predecessor of
each link (`BackClosed`, on a least counterexample: records lead to smaller numbers), so that the spans of the links
join. No hypothesis is needed: `RestoreSound` itself leaves out the chains that a merge has touched, for which
`cloud_stale` shows that they need not join.

Every invariant that a passing run checks, and every action property, is stated by a theorem. Checked by TLC only:
the three runs that expect a violation; and all liveness (`OperationEnds`, `RestoreEnds`, `ShutdownEnds`,
`AcceptedRuns`, `HotRestoreEnds`, `CloudTaskEnds`, `CommandEnds`, `ServeEnds`): temporal properties under
fairness, and `ENABLED`, are out of the prover's reach.

## 10. Findings

1. **A gap in a Smart chain is merged over** (`chain_gap`, `core/ChainSafeRetention.cpp:427`). The
   successor of the removed archive is the next history entry; its record is not asked whether it
   builds on that archive. After a link was deleted in full, a later merge redirects the record
   across the gap and a restore that used to be refused is accepted with wrong content. Two more ways
   lead to the same line: a crash between `state.json` and the history entry
   (`core/BackupManager.cpp:925`, `:954`), after which the next Smart backup builds on an archive the
   history does not list (set `MaxCrashes` = 1 in `chain_core.cfg`, with `RestoreSound` as the only
   property), and a clock set back between two backups (`core/ChainSafeRetention.cpp:283`;
   `MaxSetbacks` = 1, the same way).
2. **A merged entry keeps the remote path of its delta** (`cloud_stale`,
   `core/ChainSafeRetention.cpp:386`). Full backup, Smart backup, upload of the Smart one, merge into it: the
   entry is now Full and its cloud path still leads to the delta. A download puts the delta in the place of the
   Full archive, even over a good one, and a restore of it is accepted.
3. **A stop request drops the terminal event of a running backup** (`serve_stop`,
   `core/ProfileRuntime.cpp:71`). The bridge is closed before the workers are joined, so that the mod
   is not told to release its auto-save freeze.

The text each one contradicts is quoted in `PROJECT.json`. Other divergences met while modelling, which no
run demonstrates:

- A Smart backup built on an Overwrite archive of an emptied world cannot be restored: an empty file list is
  taken for a missing one (`core/RestoreService.cpp:181`; `Permanent = {}` in `chain_core.cfg` shows it).
- The cloud queue is a mutex and not in submission order (`core/TaskCoordinator.cpp:71`, `src/CONTEXT.md:34`;
  `SubmissionOrder` with the tasks `backup`, `upload` and `sync` of `MCTaskCoordinator`).
- A history save answered `ReplacedNotDurable` is rolled back as if nothing had happened
  (`core/FolderRewindHistoryStore.cpp:247`, `infra/AtomicFileWriter.h:12`; `FailedNotListed` in `BackupCommit`).
- A late `WORLD_SAVED` of an earlier backup makes a later one count as coordinated
  (`core/BackupManagerDesktop.cpp:53`; `CoordinatedIsSaved` in `HotRestore`).
- A backup whose copy of `state.json` fails is reported failed and leaves its renamed archive, which no record and
  no history names (`core/BackupManager.cpp:909`, `:922`); every later failure removes it. An exception in these
  lines ends the same way.
- Two configurations that upload to one remote from two machines can lose each other's history entries: the file is
  read (`core/CloudSyncService.cpp:388`), merged and written back (`:429`) under `g_cloudMutex`, which is a lock of
  one process, and nothing locks the remote (drop `\subseteq late[m]` for `= {}` in `OthersKept` and `cloud` shows it).
  The next upload of the configuration that lost them puts its own entries back.
- `core/RuntimeCloudPostHook.cpp:171` uploads the local history as the shared one without reading the remote's.

## 11. What is not modelled, and simplifications

- The user's plain deletions are one step each; the removal, its failures and crashes are not.
- The two deletions of records in `RepairMetadata` and the save of the merged one are one step.
- A copy to a temporary file that fails before anything was changed is the failure of the first
  changing step: nothing is undone in either case.
- Writing a JSON file is atomic in `BackupChain`; `AtomicFile` and `BackupCommit` justify it for the commit
  of a backup, with the answers and the power losses this leaves out. The metadata writes of a merge are
  not composed with the writer.
- A workspace entry is extracted once; the archives of a plan are not told apart there. Two file
  names never collide with a directory.
- In `BackupChain` a restore replaces the world at once (its steps are `RestoreWorkspace`) and is of
  Clean mode without preserved files; the safety backup that precedes it is a `StartBackup` like any.
- Legacy forward and reverse restore chains, `VerifyAndRepair`, auxiliary sources, filters, the migration
  gate, the session watchers.
- `SubmitAndWait` (used by tests only), the event queue and `ActiveTaskCount`.
- Cloud: the 1.15 snapshot and its conversion, important marks and deletions of entries in the remote,
  import by hand, portable configuration, remote content, `RuntimeCloudPostHook`.
- Migration of old installations, configuration and discovery: sequential translation and search, where
  what can go wrong is in the data and unit tests reach it. Single instance and process I/O: what
  they do is what the operating system's objects do. Window, command-line parsing, translation tables
  and icons: no state the properties depend on.

Most lines of the repository belong to that last group: the window, its themes and icon tables, two
translation tables, parsers and their validation, vendored code. The part with concurrency,
failures and order is a small share of it, and the modules cover that share; a larger coverage would have to name
lines no definition stands for.

## 12. Plan

Done in this order: `BackupChain`, `RestoreWorkspace`, `TaskCoordinator`; `AtomicStore`, `AtomicFile`,
`BackupCommit`; `HotRestore`; `CloudHistory`; `ServeRuntime`; then the proofs of section 9. No safety property that a
passing run checks is left without a proof.

Still open for modelling: `RuntimeCloudPostHook` next to `CloudHistory`, remote deletions of entries,
`RestoreService::Run` composed with `RestoreWorkspace` as the refinement of an abstract restore.
