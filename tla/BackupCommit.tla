---------------------------- MODULE BackupCommit ----------------------------
(* The commit of a new backup (core/BackupManager.cpp, from the rename of   *)
(* its archive): the record and state.json (SaveDetailed), then the history *)
(* entry (HistoryRepository::Mutate), each written by AtomicFile, with the  *)
(* rollback of every failure, a user who edits the history meanwhile, and   *)
(* crashes.                                                                 *)
EXTENDS AtomicFile, FiniteSets

CONSTANTS
    Names,      \* archive names; each has a record file
    State,      \* state.json
    History,    \* history.json
    MaxBackups, \* bound: backups attempted
    MaxEdits,   \* bound: history edits by the user
    MaxCrashes  \* bound: crashes and power losses

\* A file's content is the set of backups it names: state.json and a record one,
\* history.json those listed.
Attempts == 1..MaxBackups

ASSUME CommitAssumption ==
    /\ Paths = Names \cup {State, History}
    /\ State # History /\ {State, History} \cap Names = {}
    /\ Values = SUBSET Attempts
    /\ Callers = {"backup", "user"}
    /\ MaxBackups \in Nat /\ MaxEdits \in Nat /\ MaxCrashes \in Nat

VARIABLES
    archives,  \* the archive files: a backup, or Missing
    nameOf,    \* the archive name of each backup attempted
    memory,    \* the history snapshot of the process
    mutating,  \* who holds the history repository's mutex
    pc,        \* the backup thread
    attempt,   \* the backup it commits; the number of backups so far
    before,    \* what it found: state.json and the record of its name
    outcome,   \* what the last backup reported
    edits, crashes,
    lagging,   \* ghost: memory is behind history.json after an unconfirmed save
    doubt      \* ghost: a rollback was reported incomplete or undid a history save that had
               \* replaced the file, or a power loss took back a change not yet confirmed

backupVars == <<pc, attempt, before, outcome, archives, nameOf>>
historyVars == <<memory, mutating, edits, lagging>>
vars == <<fileVars, backupVars, historyVars, crashes, doubt>>

\* "unprepared" is a failed backup too, with backup.metadata.snapshot_failed or an exception.
Outcomes == {"none", "committed", "failed", "incomplete", "unprepared"}
Stages == {"idle", "record", "recordSaved", "state", "stateSaved", "undoRecord", "recordRestored",
           "history", "historySaved", "restoreState", "dropRecord", "dropArchive", "dropArchiveOnly"}

TypeOK ==
    /\ FileTypeOK
    /\ archives \in [Names -> Attempts \cup {0}]
    /\ nameOf \in [Attempts -> Names]
    /\ memory \in SUBSET Attempts
    /\ mutating \in Callers \cup {"none"}
    /\ pc \in Stages
    /\ attempt \in 0..MaxBackups
    /\ before \in [state : Contents, record : Contents]
    /\ outcome \in Outcomes
    /\ edits \in 0..MaxEdits
    /\ crashes \in 0..MaxCrashes
    /\ lagging \in BOOLEAN
    /\ doubt \in BOOLEAN

Init ==
    /\ FileInit
    /\ archives = [n \in Names |-> 0]
    /\ nameOf \in [Attempts -> Names]
    /\ memory = {}
    /\ mutating = "none"
    /\ pc = "idle"
    /\ attempt = 0
    /\ before = [state |-> Missing, record |-> Missing]
    /\ outcome = "none"
    /\ edits = 0 /\ crashes = 0
    /\ lagging = FALSE /\ doubt = FALSE

name == nameOf[attempt]
Answered(c) == writing = "done" /\ job.caller = c

End(o) ==
    /\ pc' = "idle"
    /\ outcome' = o
    /\ doubt' = (doubt \/ o = "incomplete")

-----------------------------------------------------------------------------
(* BackupManager                                                            *)

\* The archive is in place under a name no other archive has; state.json is copied.  When the
\* copy or its folder fails, the backup has failed, and its archive stays.
StartBackup ==
    /\ pc = "idle"
    /\ attempt < MaxBackups
    /\ LET n == nameOf[attempt + 1]
       IN  /\ archives[n] = 0
           /\ archives' = [archives EXCEPT ![n] = attempt + 1]
           /\ before' = [state |-> target[State], record |-> target[n]]
    /\ attempt' = attempt + 1
    /\ \/ pc' = "record" /\ outcome' = "none" /\ UNCHANGED faults
       \/ pc' = "idle" /\ outcome' = "unprepared" /\ Fault
    /\ UNCHANGED <<target, survivors, backup, temporary, flushed, job, writing, answer,
                   historyVars, nameOf, crashes, doubt>>

SaveRecord ==
    /\ pc = "record"
    /\ Acquire("backup", name, {attempt}, TRUE)
    /\ pc' = "recordSaved"
    /\ UNCHANGED <<attempt, before, outcome, archives, nameOf, historyVars, crashes, doubt>>

RecordSaved ==
    /\ pc = "recordSaved"
    /\ Answered("backup")
    /\ Release
    /\ pc' = IF answer = "NotReplaced" THEN "dropArchiveOnly" ELSE "state"
    /\ UNCHANGED <<attempt, before, outcome, archives, nameOf, historyVars, crashes, doubt>>

SaveState ==
    /\ pc = "state"
    /\ Acquire("backup", State, {attempt}, TRUE)
    /\ pc' = "stateSaved"
    /\ UNCHANGED <<attempt, before, outcome, archives, nameOf, historyVars, crashes, doubt>>

\* Mutant of StateSaved: a state that was replaced but not confirmed counts as not written.
StateSavedWhenDurable ==
    /\ pc = "stateSaved"
    /\ Answered("backup")
    /\ Release
    /\ pc' = IF answer # "Durable" THEN "undoRecord" ELSE "history"
    /\ UNCHANGED <<attempt, before, outcome, archives, nameOf, historyVars, crashes, doubt>>
StateSaved ==
    /\ pc = "stateSaved"
    /\ Answered("backup")
    /\ Release
    /\ pc' = IF answer = "NotReplaced" THEN "undoRecord" ELSE "history"
    /\ UNCHANGED <<attempt, before, outcome, archives, nameOf, historyVars, crashes, doubt>>

\* The record is rolled back: from its backup copy when there was one before, else removed.
\* A record that stays is told in the error text.
UndoRecord ==
    /\ pc = "undoRecord"
    /\ \/ /\ before.record # Missing
          /\ Acquire("backup", name, backup[name], FALSE)
          /\ pc' = "recordRestored"
          /\ UNCHANGED outcome
       \/ /\ before.record = Missing
          /\ RemoveFile(name)
          /\ pc' = "dropArchiveOnly"
          /\ UNCHANGED <<outcome, backup, temporary, flushed, job, writing, answer, faults>>
       \/ /\ before.record = Missing
          /\ Fault
          /\ pc' = "dropArchiveOnly"
          /\ outcome' = "incomplete"
          /\ UNCHANGED <<target, survivors, backup, temporary, flushed, job, writing, answer>>
    /\ UNCHANGED <<attempt, before, archives, nameOf, historyVars, crashes, doubt>>

RecordRestored ==
    /\ pc = "recordRestored"
    /\ Answered("backup")
    /\ Release
    /\ outcome' = IF answer = "NotReplaced" THEN "incomplete" ELSE outcome
    /\ pc' = "dropArchiveOnly"
    /\ UNCHANGED <<attempt, before, archives, nameOf, historyVars, crashes, doubt>>

\* The metadata was not committed: the new archive goes.
DropArchiveOnly ==
    /\ pc = "dropArchiveOnly"
    /\ \/ /\ archives' = [archives EXCEPT ![name] = 0]
          /\ End(IF outcome = "incomplete" THEN "incomplete" ELSE "failed")
          /\ UNCHANGED faults
       \/ Fault /\ End("incomplete") /\ UNCHANGED archives
    /\ UNCHANGED <<target, survivors, backup, temporary, flushed, job, writing, answer,
                   attempt, before, nameOf, historyVars, crashes>>

\* addHistory: an entry of the same archive name is replaced.
AddHistory ==
    /\ pc = "history"
    /\ mutating = "none"
    /\ mutating' = "backup"
    /\ Acquire("backup", History, {a \in memory : nameOf[a] # name} \cup {attempt}, TRUE)
    /\ pc' = "historySaved"
    /\ UNCHANGED <<attempt, before, outcome, archives, nameOf, memory, edits, lagging, crashes, doubt>>

\* HistoryRepository::Mutate: the snapshot is published only after a durable save.
Publish ==
    /\ memory' = IF answer = "Durable" THEN job.value ELSE memory
    /\ lagging' = IF answer = "NotReplaced" THEN lagging ELSE answer = "ReplacedNotDurable"
    /\ mutating' = "none"

HistorySaved ==
    /\ pc = "historySaved"
    /\ Answered("backup")
    /\ Release
    /\ Publish
    /\ \/ answer = "Durable" /\ End("committed")
       \/ /\ answer # "Durable"
          /\ pc' = "restoreState"
          /\ doubt' = (doubt \/ answer = "ReplacedNotDurable")
          /\ UNCHANGED outcome
    /\ UNCHANGED <<attempt, before, archives, nameOf, edits, crashes>>

\* state.json is put back from the copy, or removed when there was none.
RestoreState ==
    /\ pc = "restoreState"
    /\ \/ /\ before.state # Missing
          /\ ReplacePrepared(State, before.state)
       \/ /\ before.state = Missing
          /\ RemoveFile(State)
          /\ UNCHANGED faults
    /\ pc' = "dropRecord"
    /\ UNCHANGED <<backup, temporary, flushed, job, writing, answer,
                   attempt, before, outcome, archives, nameOf, historyVars, crashes, doubt>>

DropRecord ==
    /\ pc = "dropRecord"
    /\ RemoveFile(name)
    /\ pc' = "dropArchive"
    /\ UNCHANGED <<backup, temporary, flushed, job, writing, answer, faults,
                   attempt, before, outcome, archives, nameOf, historyVars, crashes, doubt>>

DropArchive ==
    /\ pc = "dropArchive"
    /\ archives' = [archives EXCEPT ![name] = 0]
    /\ End("failed")
    /\ UNCHANGED <<fileVars, attempt, before, nameOf, historyVars, crashes>>

\* A step of the rollback fails: the rest is left to the user, with the copies.
\* Mutant of RollbackFails: it ends as an ordinary failure.
RollbackFailsSilently ==
    /\ pc \in {"restoreState", "dropRecord", "dropArchive"}
    /\ Fault
    /\ End("failed")
    /\ UNCHANGED <<target, survivors, backup, temporary, flushed, job, writing, answer,
                   attempt, before, archives, nameOf, historyVars, crashes>>
RollbackFails ==
    /\ pc \in {"restoreState", "dropRecord", "dropArchive"}
    /\ Fault
    /\ End("incomplete")
    /\ UNCHANGED <<target, survivors, backup, temporary, flushed, job, writing, answer,
                   attempt, before, archives, nameOf, historyVars, crashes>>

Backup ==
    \/ StartBackup \/ SaveRecord \/ RecordSaved \/ SaveState \/ StateSaved
    \/ UndoRecord \/ RecordRestored \/ DropArchiveOnly
    \/ AddHistory \/ HistorySaved
    \/ RestoreState \/ DropRecord \/ DropArchive \/ RollbackFails

-----------------------------------------------------------------------------
(* The user removes an entry of the history, which keeps its archive.       *)

RemoveEntry(a) ==
    /\ a \in memory
    /\ edits < MaxEdits
    /\ edits' = edits + 1
    /\ mutating = "none"
    /\ mutating' = "user"
    /\ Acquire("user", History, memory \ {a}, TRUE)
    /\ UNCHANGED <<backupVars, memory, lagging, crashes, doubt>>

EntryRemoved ==
    /\ mutating = "user"
    /\ Answered("user")
    /\ Release
    /\ Publish
    /\ UNCHANGED <<backupVars, edits, crashes, doubt>>

-----------------------------------------------------------------------------
(* The process dies, or power is lost; at the next start HistoryRepository  *)
(* ::Load reads the history.                                                *)

Loaded(content) == IF content = Missing THEN {} ELSE content

\* A change of the file was not confirmed to be on disk; the write now waiting for the
\* confirmation of its own change leaves two possible contents.
Unconfirmed(p) ==
    IF writing = "sync" /\ job.path = p THEN Cardinality(survivors[p]) > 2
    ELSE survivors[p] # {target[p]}

Crash ==
    /\ crashes < MaxCrashes
    /\ crashes' = crashes + 1
    /\ Forget
    /\ \/ UNCHANGED <<target, survivors, doubt>>
       \/ FallBack /\ doubt' = (doubt \/ \E p \in Paths : Unconfirmed(p))
    /\ memory' = Loaded(target'[History])
    /\ mutating' = "none"
    /\ lagging' = FALSE
    /\ pc' = "idle"
    /\ outcome' = "none"
    /\ UNCHANGED <<attempt, before, archives, nameOf, edits>>

WriteStep == Write /\ UNCHANGED <<backupVars, historyVars, crashes, doubt>>

Next == Backup \/ WriteStep \/ (\E a \in Attempts : RemoveEntry(a)) \/ EntryRemoved \/ Crash

Spec == Init /\ [][Next]_vars

-----------------------------------------------------------------------------
(* Properties                                                               *)

\* The history in memory is what history.json says, whoever saved last (HistoryRepository::Mutate
\* publishes after the save); a save that was not confirmed is made up for by the next one.
MemoryIsSaved == mutating = "none" /\ ~lagging => memory = Loaded(target[History])

\* What the program reports is what the files say.  Committed: archive, record and state.json are
\* of this backup.  Failed: the archive, state.json and the record are as it found them, except
\* that a stale record of the same name may be gone, and the history does not list it.  A backup
\* that failed on the copy of state.json is the exception: its archive stays, with no record,
\* and neither state.json nor the history names it.  The history shown is the saved one.
OutcomeTrue ==
    /\ pc = "idle" =>
        /\ outcome = "committed" =>
               /\ archives[name] = attempt
               /\ target[name] = {attempt}
               /\ target[State] = {attempt}
        /\ outcome = "failed" =>
               /\ archives[name] = 0
               /\ target[name] \in {before.record, Missing}
               /\ target[State] = before.state
               /\ attempt \notin memory
        /\ outcome = "unprepared" =>
               /\ archives[name] = attempt
               /\ target[name] = before.record
               /\ target[State] = before.state
               /\ attempt \notin memory \cup Loaded(target[State])
    /\ MemoryIsSaved

\* state.json and history.json name only backups that have their record: the order of the three
\* writes and of the rollback keeps it at every step, through crashes and power losses that
\* come between any two.  Nothing is promised after the cases of doubt.
NamedHasRecord ==
    ~doubt => \A a \in Loaded(target[State]) \cup Loaded(target[History]) : target[nameOf[a]] = {a}

\* A failed backup is not listed: "ReplacedNotDurable ... must not be rolled back as if nothing
\* had happened" (infra/AtomicFileWriter.h:12).
FailedNotListed == pc = "idle" /\ outcome = "failed" => attempt \notin Loaded(target[History])

=============================================================================
