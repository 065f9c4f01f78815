------------------------ MODULE BackupCommit_proofs -------------------------
(* Proofs about BackupCommit, for any archive names and any number of       *)
(* backups, edits, faults and crashes: types, that the writer implements    *)
(* the store, that a backup reports the truth, and that what is named has   *)
(* its record.                                                              *)
EXTENDS BackupCommit, FiniteSetTheorems, TLAPS

Early == {"temporary", "flush", "verify", "backup", "replace"}

\* The write in progress, or the one whose answer waits to be taken, has replaced its file.
Replaced == writing = "sync" \/ (writing = "done" /\ answer # "NotReplaced")

\* The types, and that no file can come to hold bytes nobody wrote.
Typed ==
    /\ TypeOK
    /\ survivors \in [Paths -> SUBSET Contents]

\* Whose write it is: the backup thread's at its three saves and at the undo, the user's
\* in an edit of the history; and it is of the file that belongs to the place.
Saving == {"recordSaved", "stateSaved", "recordRestored", "historySaved"}
Owned ==
    /\ pc \in Saving => writing # "free" /\ job.caller = "backup"
    /\ mutating = "user" => writing # "free" /\ job.caller = "user" /\ job.path = History
    /\ writing # "free" => (job.caller = "backup" /\ pc \in Saving) \/ mutating = "user"
    /\ (mutating = "backup") = (pc = "historySaved")
    /\ pc # "idle" => attempt # 0
    /\ pc \in {"recordSaved", "recordRestored"} => job.path = name
    /\ pc = "stateSaved" => job.path = State /\ job.value = {attempt}
    /\ pc = "historySaved" => job.path = History
    /\ pc = "recordSaved" => job.value = {attempt} /\ job.keepBackup
    /\ pc = "recordRestored" => job.value = before.record

\* What the writer has done by each of its steps.
Written ==
    /\ writing \in {"verify", "backup", "replace", "sync"} => flushed
    /\ writing \in {"backup", "replace"} => temporary = job.value
    /\ Replaced => target[job.path] = job.value
    /\ \A p \in Paths : target[p] \in survivors[p]

\* state.json and the record at each place of the backup thread, and the copy an undo of
\* the record takes.
StateOld ==
    \/ pc \in {"record", "recordSaved", "state", "undoRecord", "recordRestored",
               "dropRecord", "dropArchive", "dropArchiveOnly"}
    \/ pc = "stateSaved" /\ ~Replaced
StateNew == pc \in {"history", "historySaved", "restoreState"}
RecordOld == pc = "record" \/ (pc = "recordSaved" /\ ~Replaced)
RecordNew ==
    pc \in {"state", "stateSaved", "undoRecord", "history", "historySaved", "restoreState", "dropRecord"}
CopyKept ==
    \/ pc \in {"state", "stateSaved", "undoRecord"}
    \/ pc = "recordSaved" /\ (writing = "replace" \/ Replaced)

Tracked ==
    /\ pc # "idle" => archives[name] = attempt
    /\ StateOld => target[State] = before.state
    /\ StateNew => target[State] = {attempt}
    /\ RecordOld => target[name] = before.record
    /\ RecordNew => target[name] = {attempt}
    /\ pc = "dropArchive" => target[name] = Missing
    /\ pc = "dropArchiveOnly" /\ outcome # "incomplete" => target[name] \in {before.record, Missing}
    /\ CopyKept /\ before.record # Missing => backup[name] = before.record
    /\ pc \in {"recordSaved"} /\ writing = "backup" => before.record # Missing

Inv == Typed /\ Owned /\ Written /\ Tracked

-----------------------------------------------------------------------------
(* Types and the writer.                                                   *)

\* The name of the backup under way is a name, a file, and neither of the other two files;
\* what it writes is a content.
LEMMA NameIs ==
  ASSUME Typed, attempt # 0
  PROVE  /\ attempt \in Attempts /\ {attempt} \in Values
         /\ name \in Names /\ name \in Paths /\ name # State /\ name # History
BY CommitAssumption DEF Typed, TypeOK, FileTypeOK, Attempts, name

\* state.json and history.json are two of the files.
LEMMA FilesAre == State \in Paths /\ History \in Paths /\ State # History
BY CommitAssumption

\* The invariant holds at first.
LEMMA InitInv == Init => Inv
<1> SUFFICES ASSUME Init PROVE Inv
  OBVIOUS
<1>1. FileTypeOK /\ survivors \in [Paths -> SUBSET Contents]
  BY DEF Init, FileInit, FileTypeOK, Contents, Steps, WriteCommitState
<1>4. archives \in [Names -> Attempts \cup {0}] /\ nameOf \in [Attempts -> Names]
  BY DEF Init
<1>5. attempt \in 0..MaxBackups /\ edits \in 0..MaxEdits /\ crashes \in 0..MaxCrashes
  BY CommitAssumption DEF Init
<1>6. before \in [state : Contents, record : Contents]
  BY DEF Init, Contents
<1>3. Typed
  BY <1>1, <1>4, <1>5, <1>6 DEF Init, Typed, TypeOK, Stages, Outcomes
<1>2. Owned /\ Written /\ Tracked
  BY DEF Init, FileInit, Owned, Written, Tracked, Saving, Replaced, StateOld, StateNew, RecordOld,
         RecordNew, CopyKept
<1> QED
  BY <1>2, <1>3 DEF Inv

\* A step of the writer.
LEMMA WriteInv ==
  ASSUME Inv, WriteStep
  PROVE  Inv'
<1> USE FileAssumption
<1>n. attempt # 0 => name \in Paths /\ name # State /\ name # History
  BY NameIs DEF Inv
<1>j. job.path \in Paths /\ job.value \in Values /\ job.value \in Contents /\ job.value # Garbage
  BY DEF Inv, Typed, TypeOK, FileTypeOK, Jobs, Contents
<1>o. UNCHANGED <<job, backupVars, historyVars, crashes, doubt>> /\ UNCHANGED name
  BY DEF WriteStep, Write, WriteTemporary, FlushTemporary, VerifyTemporary, KeepBackup, ReplaceTarget,
         SyncParent, Abandon, backupVars, name
<1>f. writing # "free" /\ writing' # "free"
  BY DEF WriteStep, Write, WriteTemporary, FlushTemporary, VerifyTemporary, KeepBackup, ReplaceTarget,
         SyncParent, Abandon, Answer, AfterVerify
<1>1. Owned'
  BY <1>o, <1>f DEF Inv, Owned, Saving, backupVars, historyVars
<1>2. CASE WriteTemporary \/ FlushTemporary
  <2>b. temporary' \in Contents \cup {Garbage} /\ faults' \in Nat /\ writing' \in Steps
    BY <1>2, <1>j DEF Inv, Typed, TypeOK, FileTypeOK, WriteTemporary, FlushTemporary, Fault, Steps
  <2>a. FileTypeOK'
    BY <1>2, <1>o, <2>b DEF Inv, Typed, TypeOK, FileTypeOK, WriteTemporary, FlushTemporary
  <2>1. Typed'
    BY <1>2, <1>o, <2>a DEF Inv, Typed, TypeOK, WriteTemporary, FlushTemporary, backupVars, historyVars
  <2>2. Written'
    BY <1>2, <1>o DEF Inv, Written, WriteTemporary, FlushTemporary, Replaced
  <2>3. Tracked'
    BY <1>2, <1>o DEF Inv, Tracked, WriteTemporary, FlushTemporary, Replaced, StateOld, StateNew, RecordOld,
         RecordNew, CopyKept, backupVars
  <2> QED
    BY <1>1, <2>1, <2>2, <2>3 DEF Inv
<1>3. CASE VerifyTemporary
  <2>1. Typed'
    BY <1>3, <1>o, <1>j DEF Inv, Typed, TypeOK, FileTypeOK, VerifyTemporary, AfterVerify, Answer, Steps,
       backupVars, historyVars, Contents, WriteCommitState
  <2>2. Written'
    BY <1>3, <1>o DEF Inv, Written, VerifyTemporary, AfterVerify, Answer, Replaced
  <2>3. Tracked'
    BY <1>3, <1>o DEF Inv, Tracked, VerifyTemporary, AfterVerify, Answer, Replaced, StateOld, StateNew, RecordOld,
         RecordNew, CopyKept, backupVars, Owned
  <2> QED
    BY <1>1, <2>1, <2>2, <2>3 DEF Inv
<1>4. CASE KeepBackup
  <2>1. Typed'
    BY <1>4, <1>o, <1>j DEF Inv, Typed, TypeOK, FileTypeOK, KeepBackup, Steps,
       backupVars, historyVars, Contents
  <2>2. Written'
    BY <1>4, <1>o DEF Inv, Written, KeepBackup, Replaced
  <2>3. Tracked'
    BY <1>4, <1>o, <1>n, <1>j DEF Inv, Tracked, KeepBackup, Replaced, StateOld, StateNew, RecordOld,
         RecordNew, CopyKept, backupVars, Owned, Typed, TypeOK, FileTypeOK, Saving
  <2> QED
    BY <1>1, <2>1, <2>2, <2>3 DEF Inv
<1>5. CASE ReplaceTarget
  <2>t. temporary = job.value /\ flushed
    BY <1>5 DEF Inv, Written, ReplaceTarget
  <2>1. Typed'
    BY <1>5, <1>o, <1>j, <2>t DEF Inv, Typed, TypeOK, FileTypeOK, ReplaceTarget, Steps,
       backupVars, historyVars, Contents
  <2>2. Written'
    BY <1>5, <1>o, <1>j, <2>t DEF Inv, Written, ReplaceTarget, Replaced, Typed, TypeOK, FileTypeOK
  <2>3. Tracked'
    BY <1>5, <1>o, <1>n, <1>j, <2>t, FilesAre DEF Inv, Tracked, ReplaceTarget, Replaced, StateOld, StateNew, RecordOld,
         RecordNew, CopyKept, backupVars, Owned, Typed, TypeOK, FileTypeOK, Saving
  <2> QED
    BY <1>1, <2>1, <2>2, <2>3 DEF Inv
<1>6. CASE SyncParent
  <2>1. Typed'
    BY <1>6, <1>o, <1>j DEF Inv, Typed, TypeOK, FileTypeOK, SyncParent, Answer, Fault, Steps,
       backupVars, historyVars, Contents, WriteCommitState, Written
  <2>2. Written'
    BY <1>6, <1>o, <1>j DEF Inv, Written, SyncParent, Answer, Replaced, Typed, TypeOK, FileTypeOK
  <2>3. Tracked'
    BY <1>6, <1>o DEF Inv, Tracked, SyncParent, Answer, Replaced, StateOld, StateNew, RecordOld,
         RecordNew, CopyKept, backupVars
  <2> QED
    BY <1>1, <2>1, <2>2, <2>3 DEF Inv
<1>7. CASE Abandon
  <2>1. Typed'
    BY <1>7, <1>o, <1>j DEF Inv, Typed, TypeOK, FileTypeOK, Abandon, Answer, Fault, Steps,
       backupVars, historyVars, Contents, WriteCommitState
  <2>2. Written'
    BY <1>7, <1>o DEF Inv, Written, Abandon, Answer, Replaced
  <2>3. Tracked'
    BY <1>7, <1>o DEF Inv, Tracked, Abandon, Answer, Replaced, StateOld, StateNew, RecordOld,
         RecordNew, CopyKept, backupVars
  <2> QED
    BY <1>1, <2>1, <2>2, <2>3 DEF Inv
<1> QED
  BY <1>2, <1>3, <1>4, <1>5, <1>6, <1>7 DEF WriteStep, Write

\* Taking the writer's mutex for a file and a value of the backup under way.
LEMMA AcquireTyped ==
  ASSUME Typed, NEW c \in Callers, NEW p \in Paths, NEW v \in Values, NEW keep \in BOOLEAN,
         Acquire(c, p, v, keep)
  PROVE  /\ FileTypeOK' /\ survivors' \in [Paths -> SUBSET Contents]
         /\ Written => Written'
         /\ ~Replaced' /\ writing' = "temporary" /\ writing = "free"
         /\ job'.path = p /\ job'.value = v /\ job'.caller = c /\ job'.keepBackup = keep
         /\ UNCHANGED <<target, survivors, backup>>
BY DEF Typed, TypeOK, FileTypeOK, Acquire, Jobs, Steps, Written, Replaced

\* A write that is over leaves the files and frees the writer.
LEMMA ReleaseTyped ==
  ASSUME Typed, Release
  PROVE  /\ FileTypeOK' /\ survivors' \in [Paths -> SUBSET Contents]
         /\ Written => Written'
         /\ ~Replaced' /\ writing' = "free" /\ writing = "done"
         /\ UNCHANGED <<target, survivors, backup, job, answer>>
BY DEF Typed, TypeOK, FileTypeOK, Release, Steps, Written, Replaced

\* A step of the backup thread.
LEMMA BackupInv ==
  ASSUME Inv, Backup
  PROVE  Inv'
<1> USE CommitAssumption, FileAssumption
<1>n. attempt # 0 => /\ attempt \in Attempts /\ {attempt} \in Values
                     /\ name \in Names /\ name \in Paths /\ name # State /\ name # History
  BY NameIs DEF Inv
<1>t. Typed /\ TypeOK /\ FileTypeOK
  BY DEF Inv, Typed, TypeOK
<1>1. CASE StartBackup
  <2>a. attempt' \in Attempts /\ attempt' # 0 /\ name' = nameOf[attempt + 1] /\ name' \in Names
    BY <1>1, <1>t DEF StartBackup, TypeOK, Attempts, name
  <2>b. faults' \in Nat /\ pc' \in Stages /\ outcome' \in Outcomes
    BY <1>1, <1>t DEF StartBackup, Fault, FileTypeOK, Stages, Outcomes
  <2>c. UNCHANGED <<target, survivors, backup, temporary, flushed, job, writing, answer>>
    BY <1>1 DEF StartBackup
  <2>d. FileTypeOK' /\ survivors' \in [Paths -> SUBSET Contents]
    BY <1>t, <2>b, <2>c DEF FileTypeOK, Typed
  <2>e. before' \in [state : Contents, record : Contents] /\ archives' \in [Names -> Attempts \cup {0}]
    BY <1>1, <1>t DEF StartBackup, TypeOK, FileTypeOK, Attempts
  <2>1. Typed'
    BY <1>1, <1>t, <2>a, <2>b, <2>d, <2>e DEF StartBackup, Typed, TypeOK, historyVars, Attempts
  <2>2. Owned' /\ Written'
    BY <1>1, <2>a DEF Inv, StartBackup, Owned, Written, Replaced, Saving, fileVars, historyVars
  <2>3. Tracked'
    BY <1>1, <1>t, <2>a DEF StartBackup, Tracked, Replaced, StateOld, StateNew, RecordOld, RecordNew,
       CopyKept, fileVars, TypeOK, name
  <2> QED
    BY <2>1, <2>2, <2>3 DEF Inv
<1>2. CASE SaveRecord
  <2>a. attempt # 0 /\ mutating # "user" /\ UNCHANGED name
    BY <1>2 DEF Inv, Owned, SaveRecord, Acquire, name
  <2>b. /\ FileTypeOK' /\ survivors' \in [Paths -> SUBSET Contents] /\ Written'
        /\ ~Replaced' /\ writing' = "temporary" /\ writing = "free"
        /\ job'.path = name /\ job'.value = {attempt} /\ job'.caller = "backup" /\ job'.keepBackup
        /\ UNCHANGED <<target, survivors, backup>>
    BY <1>2, <1>n, <2>a, <1>t, AcquireTyped DEF SaveRecord, Inv
  <2>1. Typed'
    BY <1>2, <1>t, <2>b DEF SaveRecord, Typed, TypeOK, historyVars, Stages
  <2>2. Owned'
    BY <1>2, <2>a, <2>b DEF Inv, SaveRecord, Owned, Saving, historyVars
  <2>3. Tracked'
    BY <1>2, <2>a, <2>b DEF Inv, SaveRecord, Tracked, StateOld, StateNew, RecordOld, RecordNew, CopyKept
  <2> QED
    BY <2>1, <2>2, <2>3, <2>b DEF Inv
<1>3. CASE RecordSaved
  <2>a. attempt # 0 /\ mutating # "user" /\ UNCHANGED name
    BY <1>3 DEF Inv, Owned, RecordSaved, Answered, name
  <2>b. /\ FileTypeOK' /\ survivors' \in [Paths -> SUBSET Contents] /\ Written'
        /\ ~Replaced' /\ writing' = "free" /\ writing = "done"
        /\ UNCHANGED <<target, survivors, backup, job, answer>>
    BY <1>3, <1>t, ReleaseTyped DEF RecordSaved, Inv
  <2>1. Typed'
    BY <1>3, <1>t, <2>b DEF RecordSaved, Typed, TypeOK, historyVars, Stages
  <2>2. Owned'
    BY <1>3, <2>a, <2>b DEF Inv, RecordSaved, Owned, Saving, historyVars
  <2>3. Tracked'
    BY <1>3, <2>a, <2>b DEF Inv, RecordSaved, Tracked, StateOld, StateNew, RecordOld, RecordNew, CopyKept,
       Replaced, Written, Owned
  <2> QED
    BY <2>1, <2>2, <2>3, <2>b DEF Inv
<1>4. CASE SaveState
  <2>a. attempt # 0 /\ mutating # "user" /\ UNCHANGED name
    BY <1>4 DEF Inv, Owned, SaveState, Acquire, name
  <2>b. /\ FileTypeOK' /\ survivors' \in [Paths -> SUBSET Contents] /\ Written'
        /\ ~Replaced' /\ writing' = "temporary" /\ writing = "free"
        /\ job'.path = State /\ job'.value = {attempt} /\ job'.caller = "backup" /\ job'.keepBackup
        /\ UNCHANGED <<target, survivors, backup>>
    BY <1>4, <1>n, <2>a, <1>t, AcquireTyped DEF SaveState, Inv
  <2>1. Typed'
    BY <1>4, <1>t, <2>b DEF SaveState, Typed, TypeOK, historyVars, Stages
  <2>2. Owned'
    BY <1>4, <2>a, <2>b DEF Inv, SaveState, Owned, Saving, historyVars
  <2>3. Tracked'
    BY <1>4, <2>a, <2>b DEF Inv, SaveState, Tracked, StateOld, StateNew, RecordOld, RecordNew, CopyKept
  <2> QED
    BY <2>1, <2>2, <2>3, <2>b DEF Inv
<1>5. CASE StateSaved
  <2>a. attempt # 0 /\ mutating # "user" /\ UNCHANGED name
    BY <1>5 DEF Inv, Owned, StateSaved, Answered, name
  <2>b. /\ FileTypeOK' /\ survivors' \in [Paths -> SUBSET Contents] /\ Written'
        /\ ~Replaced' /\ writing' = "free" /\ writing = "done"
        /\ UNCHANGED <<target, survivors, backup, job, answer>>
    BY <1>5, <1>t, ReleaseTyped DEF StateSaved, Inv
  <2>1. Typed'
    BY <1>5, <1>t, <2>b DEF StateSaved, Typed, TypeOK, historyVars, Stages
  <2>2. Owned'
    BY <1>5, <2>a, <2>b DEF Inv, StateSaved, Owned, Saving, historyVars
  <2>3. Tracked'
    BY <1>5, <2>a, <2>b DEF Inv, StateSaved, Tracked, StateOld, StateNew, RecordOld, RecordNew, CopyKept,
       Replaced, Written, Owned
  <2> QED
    BY <2>1, <2>2, <2>3, <2>b DEF Inv
<1>6. CASE UndoRecord
  <2>a. attempt # 0 /\ UNCHANGED name
    BY <1>6 DEF Inv, Owned, UndoRecord, name
  <2>1. CASE Acquire("backup", name, backup[name], FALSE)
    <3>a. backup[name] = before.record /\ before.record \in Values /\ mutating # "user"
      BY <1>6, <2>1, <1>t DEF Inv, UndoRecord, Tracked, CopyKept, TypeOK, Contents, Acquire, RemoveFile, Fault, Owned
    <3>b. /\ FileTypeOK' /\ survivors' \in [Paths -> SUBSET Contents] /\ Written'
          /\ ~Replaced' /\ writing' = "temporary" /\ writing = "free"
          /\ job'.path = name /\ job'.value = before.record /\ job'.caller = "backup"
          /\ UNCHANGED <<target, survivors, backup>>
      BY <2>1, <1>n, <2>a, <3>a, <1>t, AcquireTyped DEF Inv
    <3>c. pc' = "recordRestored" /\ UNCHANGED outcome
      BY <1>6, <2>1, <3>b DEF UndoRecord
    <3>1. Typed'
      BY <1>6, <1>t, <3>b, <3>c DEF UndoRecord, Typed, TypeOK, historyVars, Stages
    <3>2. Owned'
      BY <1>6, <2>a, <3>a, <3>b, <3>c DEF Inv, UndoRecord, Owned, Saving, historyVars
    <3>3. Tracked'
      BY <1>6, <2>a, <3>b, <3>c DEF Inv, UndoRecord, Tracked, StateOld, StateNew, RecordOld, RecordNew, CopyKept
    <3> QED
      BY <3>1, <3>2, <3>3, <3>b DEF Inv
  <2>2. CASE RemoveFile(name) /\ pc' = "dropArchiveOnly" /\ UNCHANGED <<outcome, backup, temporary, flushed, job, writing, answer, faults>>
    <3>1. Typed'
      BY <1>6, <1>n, <2>a, <1>t, <2>2 DEF UndoRecord, RemoveFile, Typed, TypeOK, FileTypeOK, historyVars, Stages, Contents
    <3>2. Owned'
      BY <1>6, <2>a, <2>2 DEF Inv, UndoRecord, Owned, Saving, historyVars
    <3>4. Written'
      BY <1>6, <1>n, <2>a, <1>t, <2>2 DEF Inv, RemoveFile, Written, Replaced, FileTypeOK, UndoRecord, Owned, Saving
    <3>3. Tracked'
      BY <1>6, <1>n, <2>a, <1>t, <2>2 DEF Inv, UndoRecord, RemoveFile, Tracked, StateOld, StateNew, RecordOld, RecordNew,
         CopyKept, FileTypeOK, TypeOK
    <3> QED
      BY <3>1, <3>2, <3>3, <3>4 DEF Inv
  <2>3. CASE /\ Fault /\ pc' = "dropArchiveOnly" /\ outcome' = "incomplete"
             /\ UNCHANGED <<target, survivors, backup, temporary, flushed, job, writing, answer>>
    <3>1. Typed'
      BY <1>6, <1>t, <2>3 DEF UndoRecord, Fault, Typed, TypeOK, FileTypeOK, historyVars, Stages, Outcomes
    <3>2. Owned' /\ Written'
      BY <1>6, <2>a, <2>3 DEF Inv, UndoRecord, Owned, Saving, historyVars, Written, Replaced
    <3>3. Tracked'
      BY <1>6, <2>a, <2>3 DEF Inv, UndoRecord, Tracked, StateOld, StateNew, RecordOld, RecordNew, CopyKept
    <3> QED
      BY <3>1, <3>2, <3>3 DEF Inv
  <2> QED
    BY <1>6, <2>1, <2>2, <2>3 DEF UndoRecord
<1>7. CASE RecordRestored
  <2>a. attempt # 0 /\ mutating # "user" /\ UNCHANGED name
    BY <1>7 DEF Inv, Owned, RecordRestored, Answered, name
  <2>b. /\ FileTypeOK' /\ survivors' \in [Paths -> SUBSET Contents] /\ Written'
        /\ ~Replaced' /\ writing' = "free" /\ writing = "done"
        /\ UNCHANGED <<target, survivors, backup, job, answer>>
    BY <1>7, <1>t, ReleaseTyped DEF RecordRestored, Inv
  <2>1. Typed'
    BY <1>7, <1>t, <2>b DEF RecordRestored, Typed, TypeOK, historyVars, Stages, Outcomes
  <2>2. Owned'
    BY <1>7, <2>a, <2>b DEF Inv, RecordRestored, Owned, Saving, historyVars
  <2>3. Tracked'
    BY <1>7, <2>a, <2>b DEF Inv, RecordRestored, Tracked, StateOld, StateNew, RecordOld, RecordNew, CopyKept,
       Replaced, Written, Owned
  <2> QED
    BY <2>1, <2>2, <2>3, <2>b DEF Inv
<1>8. CASE DropArchiveOnly \/ DropArchive \/ RollbackFails
  <2>a. attempt # 0 /\ UNCHANGED name /\ UNCHANGED <<target, survivors, backup, temporary, flushed, job, writing, answer>>
    BY <1>8 DEF Inv, Owned, DropArchiveOnly, DropArchive, RollbackFails, name, fileVars
  <2>b. /\ archives' \in [Names -> Attempts \cup {0}] /\ faults' \in Nat
        /\ outcome' \in Outcomes /\ doubt' \in BOOLEAN /\ pc' = "idle"
        /\ UNCHANGED <<attempt, before, nameOf, historyVars, crashes>>
    <3>1. CASE DropArchiveOnly
      <4>1. /\ archives' \in [Names -> Attempts \cup {0}] /\ faults' \in Nat
            /\ UNCHANGED <<attempt, before, nameOf, historyVars, crashes>>
        BY <3>1, <1>n, <1>t, <2>a DEF DropArchiveOnly, Fault, TypeOK, FileTypeOK
      <4>2. outcome' \in {"incomplete", "failed"} /\ doubt' \in BOOLEAN /\ pc' = "idle"
        BY <3>1, <1>t DEF DropArchiveOnly, End, TypeOK
      <4> QED
        BY <4>1, <4>2 DEF Outcomes
    <3>2. CASE DropArchive
      BY <3>2, <1>n, <1>t, <2>a DEF DropArchive, End, TypeOK, FileTypeOK, Outcomes, fileVars
    <3>3. CASE RollbackFails
      BY <3>3, <1>n, <1>t, <2>a DEF RollbackFails, End, Fault, TypeOK, FileTypeOK, Outcomes
    <3> QED
      BY <1>8, <3>1, <3>2, <3>3
  <2>1. Typed'
    BY <1>t, <2>a, <2>b DEF Typed, TypeOK, FileTypeOK, historyVars, Stages
  <2>2. Owned' /\ Written'
    BY <1>8, <2>a DEF Inv, DropArchiveOnly, DropArchive, RollbackFails, End, Owned, Saving, historyVars, Written, Replaced
  <2>3. Tracked'
    BY <1>8, <2>a DEF Inv, DropArchiveOnly, DropArchive, RollbackFails, End, Tracked, StateOld, StateNew,
       RecordOld, RecordNew, CopyKept
  <2> QED
    BY <2>1, <2>2, <2>3 DEF Inv
<1>9. CASE AddHistory
  <2>a. attempt # 0 /\ mutating # "user" /\ UNCHANGED name
    BY <1>9 DEF Inv, Owned, AddHistory, Acquire, name
  <2>v. {a \in memory : nameOf[a] # name} \cup {attempt} \in Values
    BY <1>n, <2>a, <1>t DEF TypeOK, Attempts
  <2>b. /\ FileTypeOK' /\ survivors' \in [Paths -> SUBSET Contents] /\ Written'
        /\ ~Replaced' /\ writing' = "temporary" /\ writing = "free"
        /\ job'.path = History /\ job'.caller = "backup"
        /\ UNCHANGED <<target, survivors, backup>>
    BY <1>9, <2>v, <1>t, AcquireTyped DEF AddHistory, Inv
  <2>1. Typed'
    BY <1>9, <1>t, <2>b DEF AddHistory, Typed, TypeOK, historyVars, Stages
  <2>2. Owned'
    BY <1>9, <2>a, <2>b DEF Inv, AddHistory, Owned, Saving
  <2>3. Tracked'
    BY <1>9, <2>a, <2>b DEF Inv, AddHistory, Tracked, StateOld, StateNew, RecordOld, RecordNew, CopyKept
  <2> QED
    BY <2>1, <2>2, <2>3, <2>b DEF Inv
<1>10. CASE HistorySaved
  <2>a. attempt # 0 /\ UNCHANGED name
    BY <1>10 DEF Inv, Owned, HistorySaved, Answered, name
  <2>b. /\ FileTypeOK' /\ survivors' \in [Paths -> SUBSET Contents] /\ Written'
        /\ ~Replaced' /\ writing' = "free" /\ writing = "done"
        /\ UNCHANGED <<target, survivors, backup, job, answer>>
    BY <1>10, <1>t, ReleaseTyped DEF HistorySaved, Inv
  <2>m. memory' \in SUBSET Attempts
    BY <1>10, <1>t DEF HistorySaved, Publish, TypeOK, FileTypeOK, Jobs
  <2>p. pc' \in {"idle", "restoreState"} /\ mutating' = "none" /\ outcome' \in Outcomes
        /\ lagging' \in BOOLEAN /\ doubt' \in BOOLEAN
    BY <1>10, <1>t DEF HistorySaved, Publish, End, TypeOK, Outcomes
  <2>1. Typed'
    BY <1>10, <1>t, <2>b, <2>m, <2>p DEF HistorySaved, Typed, TypeOK, Stages
  <2>2. Owned'
    BY <1>10, <2>a, <2>b, <2>p DEF HistorySaved, Owned, Saving
  <2>3. Tracked'
    BY <1>10, <2>a, <2>b, <2>p DEF Inv, HistorySaved, Tracked, StateOld, StateNew, RecordOld, RecordNew, CopyKept
  <2> QED
    BY <2>1, <2>2, <2>3, <2>b DEF Inv
<1>11. CASE RestoreState
  <2>a. attempt # 0 /\ UNCHANGED name
    BY <1>11 DEF Inv, Owned, RestoreState, name
  <2>v. before.state \in Contents /\ Missing \in Contents
    BY <1>t DEF TypeOK, Contents
  <2>b. /\ target' = [target EXCEPT ![State] = before.state]
        /\ survivors' \in [Paths -> SUBSET Contents] /\ faults' \in Nat
        /\ \A p \in Paths : target'[p] \in survivors'[p]
    BY <1>11, <1>t, <2>v DEF Inv, Written, RestoreState, ReplacePrepared, RemoveFile, Fault, Typed, FileTypeOK
  <2>f. FileTypeOK'
    BY <1>11, <1>t, <2>v, <2>b DEF RestoreState, FileTypeOK
  <2>1. Typed'
    BY <1>11, <1>t, <2>b, <2>f DEF RestoreState, Typed, TypeOK, historyVars, Stages
  <2>2. Owned'
    BY <1>11, <2>a DEF Inv, RestoreState, Owned, Saving, historyVars
  <2>4. Written'
    BY <1>11, <1>t, <2>b DEF Inv, Written, Replaced, RestoreState, Owned, Saving, FileTypeOK
  <2>3. Tracked'
    BY <1>11, <1>n, <1>t, <2>a, <2>b DEF Inv, RestoreState, Tracked, StateOld, StateNew, RecordOld, RecordNew,
       CopyKept, FileTypeOK
  <2> QED
    BY <2>1, <2>2, <2>3, <2>4 DEF Inv
<1>12. CASE DropRecord
  <2>a. attempt # 0 /\ UNCHANGED name
    BY <1>12 DEF Inv, Owned, DropRecord, name
  <2>1. Typed'
    BY <1>12, <1>n, <2>a, <1>t DEF DropRecord, RemoveFile, Typed, TypeOK, FileTypeOK, historyVars, Stages, Contents
  <2>2. Owned'
    BY <1>12, <2>a DEF Inv, DropRecord, Owned, Saving, historyVars
  <2>4. Written'
    BY <1>12, <1>n, <2>a, <1>t DEF Inv, DropRecord, RemoveFile, Written, Replaced, FileTypeOK, Owned, Saving
  <2>3. Tracked'
    BY <1>12, <1>n, <2>a, <1>t DEF Inv, DropRecord, RemoveFile, Tracked, StateOld, StateNew, RecordOld, RecordNew,
       CopyKept, FileTypeOK
  <2> QED
    BY <2>1, <2>2, <2>3, <2>4 DEF Inv
<1> QED
  BY <1>1, <1>2, <1>3, <1>4, <1>5, <1>6, <1>7, <1>8, <1>9, <1>10, <1>11, <1>12 DEF Backup

\* An edit of the history by the user.
LEMMA EditInv ==
  ASSUME Inv, (\E a \in Attempts : RemoveEntry(a)) \/ EntryRemoved
  PROVE  Inv'
<1> USE CommitAssumption
<1>t. Typed /\ TypeOK /\ FileTypeOK
  BY DEF Inv, Typed, TypeOK
<1>n. UNCHANGED backupVars /\ UNCHANGED name
  BY DEF RemoveEntry, EntryRemoved, backupVars, name
<1>1. CASE \E a \in Attempts : RemoveEntry(a)
  <2> PICK a \in Attempts : RemoveEntry(a)
    BY <1>1
  <2>b. /\ FileTypeOK' /\ survivors' \in [Paths -> SUBSET Contents] /\ Written'
        /\ ~Replaced' /\ writing' = "temporary" /\ writing = "free"
        /\ job'.path = History /\ job'.caller = "user"
        /\ UNCHANGED <<target, survivors, backup>>
    BY <1>t, AcquireTyped DEF RemoveEntry, Inv, TypeOK
  <2>1. Typed'
    BY <1>t, <1>n, <2>b DEF RemoveEntry, Typed, TypeOK, backupVars
  <2>2. Owned'
    BY <1>n, <2>b DEF Inv, RemoveEntry, Owned, Saving, backupVars
  <2>3. Tracked'
    BY <1>n, <2>b DEF Inv, Tracked, Owned, Saving, StateOld, StateNew, RecordOld, RecordNew, CopyKept, backupVars
  <2> QED
    BY <2>1, <2>2, <2>3, <2>b DEF Inv
<1>2. CASE EntryRemoved
  <2>b. /\ FileTypeOK' /\ survivors' \in [Paths -> SUBSET Contents] /\ Written'
        /\ ~Replaced' /\ writing' = "free" /\ writing = "done"
        /\ UNCHANGED <<target, survivors, backup, job, answer>>
    BY <1>2, <1>t, ReleaseTyped DEF EntryRemoved, Inv
  <2>m. memory' \in SUBSET Attempts /\ mutating' = "none" /\ lagging' \in BOOLEAN
    BY <1>2, <1>t DEF EntryRemoved, Publish, TypeOK, FileTypeOK, Jobs
  <2>1. Typed'
    BY <1>2, <1>t, <1>n, <2>b, <2>m DEF EntryRemoved, Typed, TypeOK, backupVars
  <2>2. Owned'
    BY <1>2, <1>n, <2>b, <2>m DEF Inv, EntryRemoved, Answered, Owned, Saving, backupVars
  <2>3. Tracked'
    BY <1>2, <1>n, <2>b DEF Inv, Tracked, EntryRemoved, Answered, Owned, Saving, StateOld, StateNew, RecordOld,
       RecordNew, CopyKept, backupVars
  <2> QED
    BY <2>1, <2>2, <2>3, <2>b DEF Inv
<1> QED
  BY <1>1, <1>2

\* The process dies; with the power, the files fall back to contents that were written.
LEMMA CrashInv ==
  ASSUME Inv, Crash
  PROVE  Inv'
<1> USE CommitAssumption
<1>t. Typed /\ TypeOK /\ FileTypeOK
  BY DEF Inv, Typed, TypeOK
<1>1. /\ target' \in [Paths -> Contents] /\ survivors' \in [Paths -> SUBSET Contents]
      /\ \A p \in Paths : target'[p] \in survivors'[p]
      /\ doubt' \in BOOLEAN
  <2>1. CASE UNCHANGED <<target, survivors, doubt>>
    BY <2>1, <1>t DEF Inv, Written, Typed, TypeOK, FileTypeOK
  <2>2. CASE FallBack /\ doubt' = (doubt \/ \E p \in Paths : Unconfirmed(p))
    BY <2>2, <1>t DEF FallBack, Typed, TypeOK
  <2> QED
    BY <2>1, <2>2 DEF Crash
<1>2. memory' \in SUBSET Attempts
  BY <1>1, FilesAre DEF Crash, Loaded, Contents
<1>3. FileTypeOK'
  BY <1>t, <1>1 DEF Crash, Forget, FileTypeOK, Steps, Contents
<1>6. crashes' \in 0..MaxCrashes
  BY <1>t DEF Crash, TypeOK
<1>4. Typed'
  <2>1. /\ UNCHANGED <<archives, nameOf, attempt, before, edits>>
        /\ mutating' = "none" /\ pc' = "idle" /\ outcome' = "none" /\ lagging' = FALSE
    BY DEF Crash
  <2> QED
    BY <1>t, <1>1, <1>2, <1>3, <1>6, <2>1 DEF Typed, TypeOK, Stages, Outcomes
<1>5. Owned' /\ Written' /\ Tracked'
  BY <1>1 DEF Crash, Forget, Owned, Saving, Written, Replaced, Tracked, StateOld, StateNew, RecordOld,
     RecordNew, CopyKept
<1> QED
  BY <1>4, <1>5 DEF Inv

\* Every step keeps the invariant.
LEMMA NextInv == Inv /\ [Next]_vars => Inv'
<1> SUFFICES ASSUME Inv, [Next]_vars PROVE Inv'
  OBVIOUS
<1>1. CASE UNCHANGED vars
  BY <1>1 DEF Inv, Typed, TypeOK, FileTypeOK, Owned, Written, Tracked, Replaced, StateOld, StateNew,
     RecordOld, RecordNew, CopyKept, vars, fileVars, backupVars, historyVars, name
<1>2. CASE Next
  BY <1>2, WriteInv, BackupInv, EditInv, CrashInv DEF Next
<1> QED
  BY <1>1, <1>2

\* The invariant always holds.
LEMMA Invariant == Spec => []Inv
BY InitInv, NextInv, PTL DEF Spec

\* Whatever fails, and whenever the power goes, every variable has its type: no file that a
\* reader sees holds anything but a whole content somebody wrote, and the copy the undo of
\* a record starts from is there (AtomicFileWriter.cpp, SaveDetailed).
THEOREM Typing == Spec => []TypeOK
BY Invariant, PTL DEF Inv, Typed

-----------------------------------------------------------------------------
(* The writer implements the store.                                        *)

\* The call of the abstract store while a write is in progress.
CallAs(effect, answered) ==
    [busy |-> TRUE, path |-> job.path, value |-> job.value, effect |-> effect, answered |-> answered]

\* Its fields.
LEMMA CallFields ==
  ASSUME NEW effect
  PROVE  /\ CallAs(effect, FALSE).busy /\ ~CallAs(effect, FALSE).answered
         /\ CallAs(effect, FALSE).path = job.path /\ CallAs(effect, FALSE).value = job.value
         /\ CallAs(effect, FALSE).effect = effect
BY DEF CallAs

\* How the steps of the store change it: its effect, its answer, both.
LEMMA CallEffect ==
  ASSUME NEW e, NEW f, NEW a \in BOOLEAN
  PROVE  [CallAs(e, a) EXCEPT !.effect = f] = CallAs(f, a)
<1> DEFINE C == [busy : {TRUE}, path : {job.path}, value : {job.value}, effect : {e, f}, answered : BOOLEAN]
<1>1. CallAs(e, a) \in C
  BY DEF CallAs
<1>2. [CallAs(e, a) EXCEPT !.effect = f] \in C
  BY <1>1
<1>3. CallAs(f, a) \in C
  BY DEF CallAs
<1> QED
  BY <1>2, <1>3 DEF CallAs

\* A call that is answered differs in the answer only.
LEMMA CallAnswer ==
  ASSUME NEW e, NEW a \in BOOLEAN, NEW b \in BOOLEAN
  PROVE  [CallAs(e, a) EXCEPT !.answered = b] = CallAs(e, b)
<1> DEFINE C == [busy : {TRUE}, path : {job.path}, value : {job.value}, effect : {e}, answered : BOOLEAN]
<1>1. CallAs(e, a) \in C
  BY DEF CallAs
<1>2. [CallAs(e, a) EXCEPT !.answered = b] \in C
  BY <1>1
<1>3. CallAs(e, b) \in C
  BY DEF CallAs
<1> QED
  BY <1>2, <1>3 DEF CallAs

\* A call that takes effect and is answered differs in those two only.
LEMMA CallBoth ==
  ASSUME NEW e, NEW f, NEW a \in BOOLEAN, NEW b \in BOOLEAN
  PROVE  [CallAs(e, a) EXCEPT !.effect = f, !.answered = b] = CallAs(f, b)
<1> DEFINE C == [busy : {TRUE}, path : {job.path}, value : {job.value}, effect : {e, f}, answered : BOOLEAN]
<1>1. CallAs(e, a) \in C
  BY DEF CallAs
<1>2. [CallAs(e, a) EXCEPT !.effect = f, !.answered = b] \in C
  BY <1>1
<1>3. CallAs(f, b) \in C
  BY DEF CallAs
<1> QED
  BY <1>2, <1>3 DEF CallAs

\* What has become of the call by each step of the write.
LEMMA CallAt ==
  /\ writing \in Early => CallOf = CallAs("none", FALSE)
  /\ writing = "sync" => CallOf = CallAs("taken", FALSE)
  /\ writing = "done" /\ answer = "NotReplaced" => CallOf = CallAs("none", TRUE)
  /\ writing = "done" /\ answer = "ReplacedNotDurable" => CallOf = CallAs("taken", TRUE)
  /\ writing = "done" /\ answer = "Durable" => CallOf = CallAs("settled", TRUE)
<1>1. /\ writing \in Early => EffectOf = "none"
      /\ writing = "sync" => EffectOf = "taken"
      /\ writing = "done" /\ answer = "NotReplaced" => EffectOf = "none"
      /\ writing = "done" /\ answer = "ReplacedNotDurable" => EffectOf = "taken"
      /\ writing = "done" /\ answer = "Durable" => EffectOf = "settled"
  BY DEF EffectOf, Early
<1> QED
  BY <1>1 DEF CallOf, CallAs, Early

\* The same after a step.
LEMMA CallAfter ==
  ASSUME UNCHANGED job
  PROVE  /\ writing' \in Early => CallOf' = CallAs("none", FALSE)
         /\ writing' = "sync" => CallOf' = CallAs("taken", FALSE)
         /\ writing' = "done" /\ answer' = "NotReplaced" => CallOf' = CallAs("none", TRUE)
         /\ writing' = "done" /\ answer' = "ReplacedNotDurable" => CallOf' = CallAs("taken", TRUE)
         /\ writing' = "done" /\ answer' = "Durable" => CallOf' = CallAs("settled", TRUE)
<1>1. /\ writing' \in Early => EffectOf' = "none"
      /\ writing' = "sync" => EffectOf' = "taken"
      /\ writing' = "done" /\ answer' = "NotReplaced" => EffectOf' = "none"
      /\ writing' = "done" /\ answer' = "ReplacedNotDurable" => EffectOf' = "taken"
      /\ writing' = "done" /\ answer' = "Durable" => EffectOf' = "settled"
  BY DEF EffectOf, Early
<1> QED
  BY <1>1 DEF CallOf, CallAs, Early

\* A step that leaves the file system and the write alone.
LEMMA CallStays ==
  ASSUME UNCHANGED <<writing, job, answer>>
  PROVE  UNCHANGED CallOf
BY DEF CallOf, EffectOf

\* A step of the writer is a step of the store, or none.
LEMMA WriteMaps ==
  ASSUME Inv, WriteStep
  PROVE  [Store!StoreNext]_(Store!storeVars)
<1> USE DEF Store!storeVars
<1>j. UNCHANGED job
  BY DEF WriteStep, Write, WriteTemporary, FlushTemporary, VerifyTemporary, KeepBackup, ReplaceTarget,
         SyncParent, Abandon
<1>1. CASE WriteTemporary \/ FlushTemporary \/ KeepBackup
  <2>1. writing \in Early /\ writing' \in Early /\ UNCHANGED <<target, survivors>>
    BY <1>1 DEF WriteTemporary, FlushTemporary, KeepBackup, Early
  <2> QED
    BY <1>j, <2>1, CallAt, CallAfter
<1>2. CASE VerifyTemporary
  <2>1. UNCHANGED <<target, survivors>> /\ writing \in Early
    BY <1>2 DEF VerifyTemporary, Early
  <2>2. CASE writing' = AfterVerify
    <3>1. writing' \in Early
      BY <2>2 DEF AfterVerify, Early
    <3> QED
      BY <1>j, <2>1, <3>1, CallAt, CallAfter
  <2>3. CASE Answer("NotReplaced")
    <3>1. CallOf = CallAs("none", FALSE) /\ CallOf' = CallAs("none", TRUE)
      BY <1>j, <2>1, <2>3, CallAt, CallAfter DEF Answer
    <3>2. Store!GiveUp
      BY <2>1, <3>1, CallFields, CallAnswer DEF Store!GiveUp
    <3> QED
      BY <3>2 DEF Store!StoreNext
  <2> QED
    BY <1>2, <2>2, <2>3 DEF VerifyTemporary
<1>3. CASE ReplaceTarget
  <2>1. temporary = job.value /\ flushed
    BY <1>3 DEF Inv, Written, ReplaceTarget
  <2>2. CallOf = CallAs("none", FALSE) /\ CallOf' = CallAs("taken", FALSE)
    BY <1>3, <1>j, CallAt, CallAfter DEF ReplaceTarget, Early
  <2>3. /\ CallOf.busy /\ ~CallOf.answered /\ CallOf.effect = "none"
        /\ CallOf.path = job.path /\ CallOf.value = job.value
    BY <2>2, CallFields
  <2>4. CallOf' = [CallOf EXCEPT !.effect = "taken"]
    BY <2>2, CallEffect
  <2>5. /\ target' = [target EXCEPT ![job.path] = job.value]
        /\ survivors' = [survivors EXCEPT ![job.path] = @ \cup {job.value}]
    BY <1>3, <2>1 DEF ReplaceTarget
  <2>6. Store!TakeEffect
    BY <2>3, <2>4, <2>5 DEF Store!TakeEffect
  <2> QED
    BY <2>6 DEF Store!StoreNext
<1>4. CASE SyncParent
  <2>1. target[job.path] = job.value /\ flushed
    BY <1>4 DEF Inv, Written, SyncParent, Replaced
  <2>2. CASE Answer("Durable")
    <3>1. CallOf = CallAs("taken", FALSE) /\ CallOf' = CallAs("settled", TRUE)
      BY <1>4, <1>j, <2>2, CallAt, CallAfter DEF SyncParent, Answer
    <3>2. survivors' = [survivors EXCEPT ![job.path] = {job.value}] /\ UNCHANGED target
      BY <1>4, <2>1, <2>2 DEF SyncParent, Answer
    <3>4. /\ CallOf.busy /\ ~CallOf.answered /\ CallOf.effect = "taken"
          /\ CallOf.path = job.path /\ CallOf.value = job.value
      BY <3>1, CallFields
    <3>5. CallOf' = [CallOf EXCEPT !.effect = "settled", !.answered = TRUE]
      BY <3>1, CallBoth
    <3>3. Store!Settle
      BY <3>2, <3>4, <3>5 DEF Store!Settle
    <3> QED
      BY <3>3 DEF Store!StoreNext
  <2>3. CASE Answer("ReplacedNotDurable")
    <3>1. CallOf = CallAs("taken", FALSE) /\ CallOf' = CallAs("taken", TRUE)
      BY <1>4, <1>j, <2>3, CallAt, CallAfter DEF SyncParent, Answer
    <3>2. Store!GiveUp
      BY <1>4, <2>3, <3>1, CallFields, CallAnswer DEF SyncParent, Answer, Store!GiveUp
    <3> QED
      BY <3>2 DEF Store!StoreNext
  <2> QED
    BY <1>4, <2>2, <2>3 DEF SyncParent
<1>5. CASE Abandon
  <2>1. CallOf = CallAs("none", FALSE) /\ CallOf' = CallAs("none", TRUE)
    BY <1>5, <1>j, CallAt, CallAfter DEF Abandon, Answer, Early
  <2>2. Store!GiveUp
    BY <1>5, <2>1, CallFields, CallAnswer DEF Abandon, Store!GiveUp
  <2> QED
    BY <2>2 DEF Store!StoreNext
<1> QED
  BY <1>1, <1>2, <1>3, <1>4, <1>5 DEF WriteStep, Write

\* The lock of the writer is the beginning of a call.
LEMMA AcquireMaps ==
  ASSUME Typed, NEW c \in Callers, NEW p \in Paths, NEW v \in Values, NEW keep \in BOOLEAN,
         Acquire(c, p, v, keep)
  PROVE  Store!StoreNext
<1>1. Store!Begin(p, v)
  BY DEF Acquire, Store!Begin, Store!NoCall, CallOf, EffectOf
<1> QED
  BY <1>1 DEF Store!StoreNext

\* Its release is the return of the call.
LEMMA ReleaseMaps ==
  ASSUME Typed, Release
  PROVE  Store!StoreNext
<1>1. Store!Return
  BY DEF Release, Store!Return, Store!NoCall, CallOf, EffectOf
<1> QED
  BY <1>1 DEF Store!StoreNext

\* A backup that removes or replaces a file itself makes an edit of the store.
LEMMA EditMaps ==
  ASSUME NEW p \in Paths, NEW v \in Contents, UNCHANGED <<writing, job, answer>>,
         target' = [target EXCEPT ![p] = v],
         \/ survivors' = [survivors EXCEPT ![p] = {v}]
         \/ survivors' = [survivors EXCEPT ![p] = @ \cup {v}]
  PROVE  Store!StoreNext
<1>1. UNCHANGED CallOf
  BY CallStays
<1>2. Store!Edit(p, v, TRUE) \/ Store!Edit(p, v, FALSE)
  BY <1>1 DEF Store!Edit
<1> QED
  BY <1>2 DEF Store!StoreNext, Contents

\* A step of a backup is a step of the store, or none.
LEMMA BackupMaps ==
  ASSUME Inv, Backup
  PROVE  [Store!StoreNext]_(Store!storeVars)
<1> USE CommitAssumption
<1>t. Typed /\ TypeOK /\ FileTypeOK
  BY DEF Inv, Typed, TypeOK
<1>n. attempt # 0 => {attempt} \in Values /\ name \in Paths
  BY NameIs DEF Inv
<1>1. CASE StartBackup \/ DropArchiveOnly \/ DropArchive \/ RollbackFails
  <2>1. UNCHANGED <<target, survivors, writing, job, answer>>
    BY <1>1 DEF StartBackup, DropArchiveOnly, DropArchive, RollbackFails, fileVars
  <2> QED
    BY <2>1, CallStays DEF Store!storeVars
<1>2. CASE SaveRecord \/ SaveState
  <2>1. attempt # 0
    BY <1>2 DEF SaveRecord, SaveState, Inv, Owned
  <2>2. CASE SaveRecord
    BY <2>1, <2>2, <1>n, <1>t, AcquireMaps DEF SaveRecord
  <2>3. CASE SaveState
    BY <2>1, <2>3, <1>n, <1>t, AcquireMaps DEF SaveState
  <2> QED
    BY <1>2, <2>2, <2>3
<1>3. CASE RecordSaved \/ StateSaved \/ RecordRestored \/ HistorySaved
  BY <1>3, <1>t, ReleaseMaps DEF RecordSaved, StateSaved, RecordRestored, HistorySaved
<1>4. CASE UndoRecord
  <2>1. attempt # 0
    BY <1>4 DEF UndoRecord, Inv, Owned
  <2>2. CASE before.record # Missing
    <3>1. Acquire("backup", name, backup[name], FALSE)
      BY <1>4, <2>2 DEF UndoRecord
    <3>2. backup[name] \in Values
      BY <1>4, <2>2, <1>t DEF Inv, Tracked, CopyKept, UndoRecord, TypeOK, Contents
    <3> QED
      BY <2>1, <1>n, <1>t, <3>1, <3>2, AcquireMaps
  <2>3. CASE RemoveFile(name) /\ UNCHANGED <<writing, job, answer>>
    BY <2>1, <2>3, <1>n, EditMaps DEF RemoveFile, Contents
  <2>4. CASE UNCHANGED <<target, survivors, writing, job, answer>>
    BY <2>4, CallStays DEF Store!storeVars
  <2> QED
    BY <1>4, <2>2, <2>3, <2>4 DEF UndoRecord
<1>5. CASE AddHistory
  <2>1. attempt # 0
    BY <1>5 DEF AddHistory, Inv, Owned
  <2>2. {a \in memory : nameOf[a] # name} \cup {attempt} \in Values
    BY <2>1, <1>t, NameIs DEF TypeOK, Attempts
  <2> QED
    BY <1>5, <2>2, <1>t, AcquireMaps DEF AddHistory
<1>6. CASE RestoreState
  <2>1. before.state \in Contents /\ Missing \in Contents
    BY <1>t DEF TypeOK, Contents
  <2>2. UNCHANGED <<writing, job, answer>>
    BY <1>6 DEF RestoreState
  <2>3. CASE ReplacePrepared(State, before.state)
    BY <2>1, <2>2, <2>3, EditMaps DEF ReplacePrepared
  <2>4. CASE RemoveFile(State)
    BY <2>1, <2>2, <2>4, EditMaps DEF RemoveFile
  <2> QED
    BY <1>6, <2>3, <2>4 DEF RestoreState
<1>7. CASE DropRecord
  <2>1. attempt # 0
    BY <1>7 DEF DropRecord, Inv, Owned
  <2> QED
    BY <1>7, <2>1, <1>n, EditMaps DEF DropRecord, RemoveFile, Contents
<1> QED
  BY <1>1, <1>2, <1>3, <1>4, <1>5, <1>6, <1>7 DEF Backup

\* A power loss is one of the store.
LEMMA CrashMaps ==
  ASSUME Inv, Crash
  PROVE  Store!Stop
<1>1. CallOf' = Store!NoCall
  BY DEF Crash, Forget, CallOf, Store!NoCall
<1>2. CASE UNCHANGED <<target, survivors>>
  BY <1>1, <1>2 DEF Store!Stop
<1>3. CASE FallBack
  <2>1. target' \in [Paths -> Contents]
    BY <1>3 DEF Inv, Typed, FallBack
  <2> QED
    BY <1>1, <1>3, <2>1 DEF Store!Stop, FallBack, Contents
<1> QED
  BY <1>2, <1>3 DEF Crash

\* Every step is a step of the store, or none.
LEMMA NextMaps == Inv /\ [Next]_vars => [Store!StoreNext]_(Store!storeVars)
<1> SUFFICES ASSUME Inv, [Next]_vars PROVE [Store!StoreNext]_(Store!storeVars)
  OBVIOUS
<1>1. CASE UNCHANGED vars
  BY <1>1, CallStays DEF vars, fileVars, Store!storeVars
<1>2. CASE \E a \in Attempts : RemoveEntry(a)
  <2> PICK a \in Attempts : RemoveEntry(a)
    BY <1>2
  <2> QED
    BY AcquireMaps, CommitAssumption DEF RemoveEntry, Inv, Typed, TypeOK
<1>3. CASE EntryRemoved
  BY <1>3, ReleaseMaps DEF EntryRemoved, Inv
<1>4. CASE Crash
  BY <1>4, CrashMaps DEF Store!StoreNext
<1> QED
  BY <1>1, <1>2, <1>3, <1>4, WriteMaps, BackupMaps DEF Next

\* The files at first are those of the store.
LEMMA InitMaps == Init => Store!StoreInit
BY DEF Init, FileInit, Store!StoreInit, CallOf, Store!NoCall

\* The writer keeps what the abstract store promises, whoever writes and whatever fails: its
\* file changes at one moment, to the whole new value or not at all, the commit state it
\* returns tells which (infra/AtomicFileWriter.h:12), and a power loss leaves whole values.
THEOREM WriterImplementsStore == Spec => ImplementsStore
BY Invariant, InitMaps, NextMaps, PTL DEF Spec, ImplementsStore, Store!StoreSpec

-----------------------------------------------------------------------------
(* What a backup reports.                                                  *)

\* What the files say of the backup that reported last.
Reported ==
    pc = "idle" =>
        /\ outcome \in {"committed", "failed", "unprepared"} => attempt # 0
        /\ outcome = "committed" =>
               archives[name] = attempt /\ target[name] = {attempt} /\ target[State] = {attempt}
        /\ outcome = "failed" =>
               /\ archives[name] = 0
               /\ target[name] \in {before.record, Missing}
               /\ target[State] = before.state
        /\ outcome = "unprepared" =>
               /\ archives[name] = attempt
               /\ target[name] = before.record
               /\ target[State] = before.state
               /\ attempt \notin Loaded(before.state)

\* Nothing names a backup that was not attempted yet.
Past == 1..attempt
Bounded ==
    /\ memory \subseteq Past
    /\ \A s \in survivors[History] \cup survivors[State] : Loaded(s) \subseteq Past
    /\ job.path \in {History, State} /\ writing # "free" => job.value \subseteq Past
    /\ pc # "idle" => Loaded(before.state) \subseteq Past \ {attempt}

\* The history in memory: a backup is not in it before its save is confirmed, a user's edit
\* only takes from it, and it is the saved one but for an unconfirmed save.
Fresh ==
    /\ (pc # "idle" \/ outcome \in {"failed", "unprepared"}) => attempt \notin memory
    /\ mutating = "user" => job.value \subseteq memory
    /\ ~lagging /\ (mutating = "none" \/ ~Replaced) => memory = Loaded(target[History])


Told == Reported /\ Bounded /\ Fresh

\* At first nothing was reported.
LEMMA InitTold == Init => Told
BY FilesAre DEF Init, FileInit, Told, Reported, Bounded, Fresh, Past, Loaded, Replaced

\* The writer changes the file of its write only; while no backup runs that is the history.
LEMMA WriteTold ==
  ASSUME Inv, Told, WriteStep
  PROVE  Told'
<1> USE CommitAssumption
<1>t. Typed /\ TypeOK /\ FileTypeOK
  BY DEF Inv, Typed, TypeOK
<1>n. attempt # 0 => name \in Paths /\ name # State /\ name # History
  BY NameIs DEF Inv
<1>o. UNCHANGED <<job, backupVars, historyVars>> /\ UNCHANGED name /\ UNCHANGED Past
  BY DEF WriteStep, Write, WriteTemporary, FlushTemporary, VerifyTemporary, KeepBackup, ReplaceTarget,
         SyncParent, Abandon, backupVars, name, Past
<1>1. CASE ReplaceTarget
  <2>1. temporary = job.value /\ flushed /\ job.path \in Paths
    BY <1>1, <1>t DEF Inv, Written, ReplaceTarget, FileTypeOK, Jobs
  <2>2. Reported'
    BY <1>1, <1>o, <1>n, <1>t, <2>1 DEF Told, Reported, Inv, Owned, Saving, ReplaceTarget, backupVars, FileTypeOK
  <2>3. Bounded'
    <3>1. \A s \in (survivors[History] \cup survivors[State])' :
             s \in survivors[History] \cup survivors[State]
                \/ (s = job.value /\ job.path \in {History, State})
      BY <1>1, <1>t, <2>1 DEF ReplaceTarget, Typed
    <3>2. job.value \in Values /\ job.value # Missing
      BY <1>t, FileAssumption DEF FileTypeOK, Jobs
    <3>3. job.path \in {History, State} => Loaded(job.value) \subseteq Past
      BY <1>1, <3>2 DEF Told, Bounded, ReplaceTarget, Loaded
    <3>4. \A s \in (survivors[History] \cup survivors[State])' : Loaded(s) \subseteq Past'
      BY <1>o, <3>1, <3>3 DEF Told, Bounded
    <3> QED
      BY <1>1, <1>o, <3>4 DEF Told, Bounded, ReplaceTarget, Loaded, backupVars, historyVars
  <2>4. Fresh'
    BY <1>1, <1>o, <1>n, <1>t, <2>1 DEF Told, Fresh, Inv, Owned, Saving, ReplaceTarget, Replaced, backupVars, historyVars, FileTypeOK
  <2> QED
    BY <2>2, <2>3, <2>4 DEF Told
<1>2. CASE ~ReplaceTarget
  <2>1. /\ UNCHANGED target /\ writing # "free"
        /\ Replaced => Replaced'
    BY <1>2 DEF WriteStep, Write, WriteTemporary, FlushTemporary, VerifyTemporary, KeepBackup,
       SyncParent, Abandon, Answer, AfterVerify, Replaced
  <2>s. \A p \in Paths : survivors'[p] = survivors[p] \/ survivors'[p] = {target[p]}
    <3>1. CASE SyncParent
      <4>1. flushed /\ job.path \in Paths
        BY <3>1, <1>t DEF SyncParent, Inv, Written, FileTypeOK, Jobs
      <4> QED
        BY <3>1, <4>1, <1>t DEF SyncParent, Typed
    <3>2. CASE ~SyncParent
      BY <1>2, <3>2 DEF WriteStep, Write, WriteTemporary, FlushTemporary, VerifyTemporary, KeepBackup, Abandon
    <3> QED
      BY <3>1, <3>2
  <2>c. ~Replaced' => ~Replaced
    BY <2>1
  <2>2. Reported'
    BY <1>o, <2>1 DEF Told, Reported, backupVars
  <2>3. Bounded'
    <3>1. target[History] \in survivors[History] /\ target[State] \in survivors[State]
      BY DEF Inv, Written
    <3>2. \A s \in (survivors[History] \cup survivors[State])' : s \in survivors[History] \cup survivors[State]
      BY <2>s, <3>1
    <3> QED
      BY <1>o, <2>1, <3>2 DEF Told, Bounded, Loaded, backupVars, historyVars
  <2>4. Fresh'
    BY <1>o, <2>1, <2>c DEF Told, Fresh, backupVars, historyVars
  <2> QED
    BY <2>2, <2>3, <2>4 DEF Told
<1> QED
  BY <1>1, <1>2

\* A backup reports what it has found and done.
LEMMA BackupTold ==
  ASSUME Inv, Told, Backup
  PROVE  Told'
<1> USE CommitAssumption
<1>t. Typed /\ TypeOK /\ FileTypeOK
  BY DEF Inv, Typed, TypeOK
<1>n. attempt # 0 => /\ attempt \in Attempts /\ name \in Names
                     /\ name \in Paths /\ name # State /\ name # History
  BY NameIs DEF Inv
<1>p. pc # "idle" => attempt # 0 /\ attempt \in Past
  BY <1>t DEF Inv, Owned, Past, TypeOK
<1>1. CASE StartBackup
  <2>1. attempt \in Nat /\ Past \subseteq Past' /\ attempt' \in Past' /\ attempt' \notin Past
    BY <1>1, <1>t DEF StartBackup, Past, TypeOK
  <2>b. Loaded(target[State]) \subseteq Past
    BY DEF Told, Bounded, Inv, Written
  <2>c. /\ UNCHANGED <<target, survivors, job, writing, answer>>
        /\ (pc' = "record" /\ outcome' = "none") \/ (pc' = "idle" /\ outcome' = "unprepared")
    BY <1>1 DEF StartBackup
  <2>2. Reported'
    <3>1. name' = nameOf[attempt'] /\ name' \in Names /\ name' \in Paths /\ nameOf' = nameOf
      BY <1>1, <1>t DEF StartBackup, name, TypeOK, Attempts
    <3>2. archives'[name'] = attempt' /\ before'.state = target'[State] /\ before'.record = target'[name']
      BY <1>1, <1>t, <3>1 DEF StartBackup, TypeOK, name
    <3>3. attempt' # 0 /\ attempt' \notin Loaded(before'.state)
      BY <1>1, <1>t, <2>1, <2>b, <2>c, <3>2 DEF StartBackup, TypeOK
    <3> QED
      BY <2>c, <3>2, <3>3 DEF Reported
  <2>3. Bounded'
    <3>1. Loaded(target[State]) \subseteq Past
      BY <2>b
    <3>2. before'.state = target[State]
      BY <1>1 DEF StartBackup
    <3>3. Loaded(before'.state) \subseteq Past' \ {attempt'}
      BY <2>1, <3>1, <3>2 DEF Loaded
    <3> QED
      BY <1>1, <2>1, <3>3 DEF StartBackup, Told, Bounded, fileVars, historyVars, Loaded
  <2>4. Fresh'
    BY <1>1, <2>1 DEF StartBackup, Told, Bounded, Fresh, fileVars, historyVars, Replaced
  <2> QED
    BY <2>2, <2>3, <2>4 DEF Told
<1>2. CASE SaveRecord \/ SaveState
  <2>1. /\ UNCHANGED <<target, survivors, attempt, before, memory, mutating, lagging>> /\ pc # "idle" /\ pc' # "idle"
        /\ ~Replaced /\ ~Replaced' /\ writing = "free"
    BY <1>2 DEF SaveRecord, SaveState, Acquire, historyVars, Replaced
  <2>2. job'.value = {attempt} /\ mutating # "user"
    BY <1>2, <2>1 DEF SaveRecord, SaveState, Acquire, Inv, Owned
  <2> QED
    BY <1>p, <2>1, <2>2 DEF Told, Reported, Bounded, Fresh, Past, Loaded
<1>3. CASE RecordSaved \/ StateSaved \/ RecordRestored
  <2>1. /\ UNCHANGED <<target, survivors, attempt, before, memory, mutating, lagging>> /\ pc # "idle" /\ pc' # "idle"
        /\ writing' = "free" /\ mutating = "none"
    BY <1>3, <1>t DEF RecordSaved, StateSaved, RecordRestored, Release, historyVars, Inv, Owned, Answered, TypeOK
  <2> QED
    BY <2>1 DEF Told, Reported, Bounded, Fresh, Past, Loaded
<1>4. CASE UndoRecord
  <2>a. /\ UNCHANGED <<attempt, before, memory, mutating, lagging, nameOf>> /\ pc = "undoRecord"
        /\ pc' \in {"recordRestored", "dropArchiveOnly"}
    BY <1>4 DEF UndoRecord, historyVars
  <2>m. mutating \in {"none", "user"}
    BY <2>a, <1>t DEF Inv, Owned, TypeOK
  <2>1. CASE Acquire("backup", name, backup[name], FALSE)
    <3>1. writing = "free" /\ mutating = "none" /\ job'.path = name /\ UNCHANGED <<target, survivors>>
      BY <2>1, <2>m DEF Acquire, Inv, Owned
    <3> QED
      BY <1>p, <1>n, <2>a, <3>1 DEF Told, Reported, Bounded, Fresh, Past, Loaded
  <2>2. CASE RemoveFile(name) /\ UNCHANGED <<job, writing, answer>>
    <3>1. target'[History] = target[History] /\ survivors'[History] = survivors[History]
          /\ survivors'[State] = survivors[State]
      BY <1>p, <1>n, <2>a, <2>2, <1>t DEF RemoveFile, FileTypeOK
    <3> QED
      BY <2>a, <2>2, <3>1 DEF Told, Reported, Bounded, Fresh, Past, Loaded, Replaced
  <2>3. CASE UNCHANGED <<target, survivors, job, writing, answer>>
    BY <2>a, <2>3 DEF Told, Reported, Bounded, Fresh, Past, Loaded, Replaced
  <2> QED
    BY <1>4, <2>1, <2>2, <2>3 DEF UndoRecord
<1>5. CASE DropArchiveOnly \/ DropArchive \/ RollbackFails
  <2>1. /\ UNCHANGED <<target, survivors, attempt, before, memory, mutating, lagging, job, writing, answer>>
        /\ pc # "idle" /\ pc' = "idle" /\ UNCHANGED name
    BY <1>5 DEF DropArchiveOnly, DropArchive, RollbackFails, End, historyVars, fileVars, name
  <2>2. Reported'
    <3>1. CASE DropArchiveOnly
      BY <3>1, <2>1, <1>p, <1>n, <1>t DEF DropArchiveOnly, End, Reported, Inv, Tracked, StateOld, TypeOK
    <3>2. CASE DropArchive
      BY <3>2, <2>1, <1>p, <1>n, <1>t DEF DropArchive, End, Reported, Inv, Tracked, StateOld, TypeOK
    <3>3. CASE RollbackFails
      BY <3>3 DEF RollbackFails, End, Reported
    <3> QED
      BY <1>5, <3>1, <3>2, <3>3
  <2>3. Bounded' /\ Fresh'
    BY <2>1 DEF Told, Bounded, Fresh, Past, Loaded, Replaced
  <2> QED
    BY <2>2, <2>3 DEF Told
<1>6. CASE AddHistory
  <2>1. /\ UNCHANGED <<target, survivors, attempt, before, memory, lagging>> /\ pc # "idle" /\ pc' # "idle"
        /\ ~Replaced /\ ~Replaced' /\ mutating = "none" /\ mutating' = "backup"
        /\ job'.value = {a \in memory : nameOf[a] # name} \cup {attempt}
    BY <1>6 DEF AddHistory, Acquire, Replaced
  <2> QED
    BY <1>p, <2>1 DEF Told, Reported, Bounded, Fresh, Past, Loaded
<1>7. CASE HistorySaved
  <2>1. /\ UNCHANGED <<target, survivors, attempt, before, archives, nameOf, job, answer>> /\ pc = "historySaved"
        /\ writing = "done" /\ writing' = "free" /\ mutating = "backup" /\ mutating' = "none" /\ UNCHANGED name
    BY <1>7 DEF HistorySaved, Publish, Release, Answered, Inv, Owned, name
  <2>2. job.path = History /\ job.value \subseteq Past /\ job.value # Missing
    BY <2>1, <1>t, FileAssumption DEF Inv, Owned, Told, Bounded, FileTypeOK, Jobs
  <2>3. CASE answer = "Durable"
    <3>1. memory' = job.value /\ target[History] = job.value /\ pc' = "idle" /\ outcome' = "committed"
      BY <1>7, <2>1, <2>2, <2>3 DEF HistorySaved, Publish, End, Inv, Written, Replaced
    <3>2. archives[name] = attempt /\ target[name] = {attempt} /\ target[State] = {attempt}
      BY <2>1 DEF Inv, Tracked, StateNew, RecordNew
    <3> QED
      BY <1>p, <2>1, <2>2, <3>1, <3>2 DEF Told, Reported, Bounded, Fresh, Past, Loaded
  <2>4. CASE answer # "Durable"
    <3>1. UNCHANGED memory /\ pc' = "restoreState" /\ lagging' = (IF answer = "NotReplaced" THEN lagging ELSE TRUE)
      BY <1>7, <2>4, <1>t DEF HistorySaved, Publish, FileTypeOK, WriteCommitState
    <3> QED
      BY <2>1, <2>2, <3>1 DEF Told, Reported, Bounded, Fresh, Past, Loaded, Replaced
  <2> QED
    BY <2>3, <2>4
<1>8. CASE RestoreState \/ DropRecord
  <2>1. /\ UNCHANGED <<attempt, before, memory, mutating, lagging, job, writing, answer>> /\ pc # "idle" /\ pc' # "idle"
    BY <1>8 DEF RestoreState, DropRecord, historyVars
  <2>2. target'[History] = target[History] /\ survivors'[History] = survivors[History]
    BY <1>8, <1>p, <1>n, <1>t, FilesAre DEF RestoreState, DropRecord, RemoveFile, ReplacePrepared, FileTypeOK
  <2>3. \A s \in survivors'[State] : s \in survivors[State] \/ s = before.state \/ s = Missing
    BY <1>8, <1>p, <1>n, <1>t, FilesAre DEF RestoreState, DropRecord, RemoveFile, ReplacePrepared, FileTypeOK
  <2>4. \A s \in survivors'[State] : Loaded(s) \subseteq Past
    BY <2>1, <2>3 DEF Told, Bounded, Loaded
  <2> QED
    BY <2>1, <2>2, <2>4 DEF Told, Reported, Bounded, Fresh, Past, Loaded, Replaced
<1> QED
  BY <1>1, <1>2, <1>3, <1>4, <1>5, <1>6, <1>7, <1>8 DEF Backup

\* Removing an entry from the history keeps the reports true.
LEMMA EditTold ==
  ASSUME Inv, Told, (\E a \in Attempts : RemoveEntry(a)) \/ EntryRemoved
  PROVE  Told'
<1>t. Typed /\ TypeOK /\ FileTypeOK
  BY DEF Inv, Typed, TypeOK
<1>n. UNCHANGED backupVars /\ UNCHANGED <<name, target, survivors>>
  BY DEF RemoveEntry, EntryRemoved, backupVars, name, Acquire, Release
<1>1. CASE \E a \in Attempts : RemoveEntry(a)
  <2> PICK a \in Attempts : RemoveEntry(a)
    BY <1>1
  <2>1. /\ UNCHANGED <<memory, lagging>> /\ mutating = "none" /\ mutating' = "user"
        /\ ~Replaced' /\ job'.value = memory \ {a}
    BY DEF RemoveEntry, Acquire, Replaced
  <2> QED
    BY <1>n, <2>1 DEF Told, Reported, Bounded, Fresh, Past, Loaded, backupVars
<1>2. CASE EntryRemoved
  <2>1. /\ UNCHANGED <<job, answer>> /\ writing = "done" /\ writing' = "free"
        /\ mutating = "user" /\ mutating' = "none" /\ job.path = History
        /\ job.value \subseteq memory /\ job.value # Missing
    BY <1>2, <1>t, FileAssumption DEF EntryRemoved, Publish, Release, Inv, Owned, Told, Fresh, FileTypeOK, Jobs
  <2>2. CASE answer = "Durable"
    <3>1. memory' = job.value /\ target[History] = job.value
      BY <1>2, <2>1, <2>2 DEF EntryRemoved, Publish, Inv, Written, Replaced
    <3> QED
      BY <1>n, <2>1, <3>1 DEF Told, Reported, Bounded, Fresh, Past, Loaded, backupVars
  <2>3. CASE answer # "Durable"
    <3>1. UNCHANGED memory /\ lagging' = (IF answer = "NotReplaced" THEN lagging ELSE TRUE)
      BY <1>2, <2>3, <1>t DEF EntryRemoved, Publish, FileTypeOK, WriteCommitState
    <3> QED
      BY <1>n, <2>1, <3>1 DEF Told, Reported, Bounded, Fresh, Past, Loaded, Replaced, backupVars
  <2> QED
    BY <2>2, <2>3
<1> QED
  BY <1>1, <1>2

\* A power loss ends the backup, and what is loaded again is what was saved.
LEMMA CrashTold ==
  ASSUME Inv, Told, Crash
  PROVE  Told'
<1>1. /\ \A p \in Paths : target'[p] \in survivors[p] /\ survivors'[p] \subseteq survivors[p]
  BY DEF Crash, FallBack, Inv, Written
<1>2. /\ memory' = Loaded(target'[History]) /\ mutating' = "none" /\ pc' = "idle" /\ outcome' = "none"
      /\ writing' = "free" /\ UNCHANGED attempt
  BY DEF Crash, Forget
<1> QED
  BY <1>1, <1>2, FilesAre DEF Told, Reported, Bounded, Fresh, Past, Loaded, Replaced

\* Every step keeps the reports true.
LEMMA NextTold == Inv /\ Told /\ [Next]_vars => Told'
<1> SUFFICES ASSUME Inv, Told, [Next]_vars PROVE Told'
  OBVIOUS
<1>1. CASE UNCHANGED vars
  BY <1>1 DEF Told, Reported, Bounded, Fresh, Past, Replaced, Loaded, vars, fileVars, backupVars, historyVars, name
<1>2. CASE Next
  BY <1>2, WriteTold, BackupTold, EditTold, CrashTold DEF Next
<1> QED
  BY <1>1, <1>2

\* The invariant implies the property of the runs.
LEMMA ToldTrue == Told => OutcomeTrue
BY DEF Told, Reported, Fresh, OutcomeTrue, MemoryIsSaved

\* What the program reports of a backup is what the files say, for any number of backups, and
\* whatever fails: a committed backup has its archive, record and state.json; a failed one has
\* left them as it found them and is not in the history, but when the copy of state.json fails
\* its archive stays, named by nothing; and the history the process shows is the saved one, but
\* for a save that could not be confirmed (BackupManager.cpp, from the rename of the archive;
\* HistoryRepository::Mutate).
THEOREM BackupsReportTruly == Spec => []OutcomeTrue
<1>1. Spec => []Told
  BY Invariant, InitTold, NextTold, PTL DEF Spec
<1> QED
  BY <1>1, ToldTrue, PTL

-----------------------------------------------------------------------------
(* What is named has its record.                                           *)

\* A backup that has its archive and its record.
Good(a) == archives[nameOf[a]] = a /\ target[nameOf[a]] = {a}

\* Everything that names a backup, or may come to: state.json and its copy, the history in
\* memory, in the file, in what a power loss may leave of the file, and in a write of it.
Listed == UNION {Loaded(s) : s \in survivors[History]}
Writing == IF writing # "free" /\ job.path = History THEN job.value ELSE {}
Named ==
    Loaded(target[State]) \cup memory \cup Listed \cup Writing
        \cup (IF pc = "idle" THEN {} ELSE Loaded(before.state))

\* Where the history file does not list the backup under way.
Unlisted == pc \notin {"idle", "historySaved"} \/ (pc = "historySaved" /\ ~Replaced)

Sound ==
    /\ ~doubt => \A a \in Named : Good(a)
    /\ ~doubt /\ Unlisted => attempt \notin Listed
    /\ pc = "stateSaved" /\ writing = "sync" => before.state \in survivors[State]

\* At first nothing is named.
LEMMA InitSound == Init => Sound
<1> SUFFICES ASSUME Init PROVE Sound
  OBVIOUS
<1>1. Listed = {} /\ Writing = {}
  BY FilesAre DEF Init, FileInit, Listed, Writing, Loaded
<1> QED
  BY <1>1, FilesAre DEF Init, FileInit, Sound, Named, Unlisted, Loaded

\* What a file names is a backup begun before.
LEMMA NamedPast ==
  ASSUME Inv, Told
  PROVE  Named \subseteq Past
<1>1. target[State] \in survivors[State]
  BY FilesAre DEF Inv, Written
<1> QED
  BY <1>1 DEF Told, Bounded, Named, Listed, Writing, Loaded

\* Places where nothing names the backup under way.
Unnamed == {"record", "recordSaved", "state", "undoRecord", "recordRestored",
            "dropRecord", "dropArchive", "dropArchiveOnly"}

\* With the old state.json in place and no entry in the history, nothing names the running backup.
LEMMA NotNamed ==
  ASSUME Inv, Told, Sound, ~doubt, pc \in Unnamed
  PROVE  attempt \notin Named
<1>1. pc # "idle" /\ Unlisted /\ StateOld
  BY DEF Unnamed, Unlisted, StateOld
<1>2. attempt \notin Loaded(target[State]) /\ attempt \notin Loaded(before.state)
  BY <1>1 DEF Inv, Tracked, Told, Bounded
<1>3. attempt \notin memory /\ attempt \notin Listed
  BY <1>1 DEF Told, Fresh, Sound
<1>4. attempt \notin Writing
  <2>1. CASE mutating = "user"
    BY <2>1, <1>3 DEF Told, Fresh, Writing
  <2>2. CASE mutating # "user"
    <3>1. writing # "free" => pc \in {"recordSaved", "recordRestored"} /\ job.path = name
      BY <2>2 DEF Inv, Owned, Saving, Unnamed
    <3> QED
      BY <1>1, <3>1, NameIs DEF Writing, Inv, Owned
  <2> QED
    BY <2>1, <2>2
<1> QED
  BY <1>1, <1>2, <1>3, <1>4 DEF Named

\* A step that adds no name and touches no archive and no record.
LEMMA SoundStays ==
  ASSUME Sound, ~doubt, UNCHANGED <<archives, nameOf>>, \A n \in Names : target'[n] = target[n],
         Inv, Told, Named' \subseteq Named
  PROVE  \A a \in Named' : Good(a)'
<1>1. \A a \in Named : nameOf[a] \in Names
  BY NamedPast, CommitAssumption DEF Inv, Typed, TypeOK, Past, Attempts
<1> QED
  BY <1>1 DEF Sound, Good

\* One that changes the archive or the record of the backup under way, while nothing names it.
LEMMA SoundApart ==
  ASSUME Sound, ~doubt, UNCHANGED nameOf, Inv, Told, pc \in Unnamed,
         \A n \in Names \ {name} : target'[n] = target[n] /\ archives'[n] = archives[n],
         Named' \subseteq Named
  PROVE  \A a \in Named' : Good(a)'
<1>1. \A a \in Named : nameOf[a] \in Names
  BY NamedPast, CommitAssumption DEF Inv, Typed, TypeOK, Past, Attempts
<1>2. archives[name] = attempt /\ attempt \notin Named
  BY NotNamed DEF Inv, Tracked, Unnamed
<1>3. \A a \in Named : nameOf[a] # name
  BY <1>2 DEF Sound, Good
<1> QED
  BY <1>1, <1>3 DEF Sound, Good

\* The backup under way has its archive and its record once they are written.
LEMMA AttemptGood ==
  ASSUME Inv, RecordNew
  PROVE  Good(attempt)
BY DEF Inv, Tracked, RecordNew, Good, name

\* A step of the writer lets a file name no backup without a record.
LEMMA WriteSound ==
  ASSUME Inv, Told, Sound, WriteStep
  PROVE  Sound'
<1> USE CommitAssumption
<1>t. Typed /\ TypeOK /\ FileTypeOK
  BY DEF Inv, Typed, TypeOK
<1>n. attempt # 0 => name \in Names /\ name \in Paths /\ name # State /\ name # History
  BY NameIs DEF Inv
<1>o. UNCHANGED <<job, backupVars, historyVars, doubt>> /\ UNCHANGED name
  BY DEF WriteStep, Write, WriteTemporary, FlushTemporary, VerifyTemporary, KeepBackup, ReplaceTarget,
         SyncParent, Abandon, backupVars, name
<1>f. writing # "free" /\ writing' # "free" /\ UNCHANGED Writing
  BY <1>o DEF WriteStep, Write, WriteTemporary, FlushTemporary, VerifyTemporary, KeepBackup, ReplaceTarget,
         SyncParent, Abandon, Answer, AfterVerify, Writing
<1>1. CASE ReplaceTarget
  <2>1. temporary = job.value /\ flushed /\ job.path \in Paths /\ job.value # Missing
    BY <1>1, <1>t, FileAssumption DEF Inv, Written, ReplaceTarget, FileTypeOK, Jobs
  <2>2. /\ target' = [target EXCEPT ![job.path] = job.value]
        /\ survivors' = [survivors EXCEPT ![job.path] = @ \cup {job.value}]
    BY <1>1, <2>1 DEF ReplaceTarget
  <2>3. CASE job.path = name /\ pc \in {"recordSaved", "recordRestored"}
    <3>1. attempt # 0
      BY <2>3 DEF Inv, Owned
    <3>2. /\ target'[State] = target[State] /\ survivors'[History] = survivors[History]
          /\ survivors'[State] = survivors[State]
          /\ \A n \in Names \ {name} : target'[n] = target[n]
      BY <2>2, <2>3, <3>1, <1>n, <1>t DEF FileTypeOK
    <3>3. Listed' = Listed /\ Named' = Named
      BY <1>o, <1>f, <3>2 DEF Listed, Named, Loaded, backupVars, historyVars
    <3>4. ~doubt => \A a \in Named' : Good(a)'
      BY <1>o, <2>3, <3>2, <3>3, SoundApart DEF Unnamed, backupVars
    <3> QED
      BY <1>o, <2>3, <3>3, <3>4 DEF Sound, Unlisted, backupVars
  <2>4. CASE job.path = State /\ pc = "stateSaved" /\ job.value = {attempt}
    <3>2. /\ target'[State] = {attempt} /\ survivors'[History] = survivors[History]
          /\ survivors'[State] = survivors[State] \cup {job.value}
          /\ \A n \in Names : target'[n] = target[n]
      BY <2>2, <2>4, <1>t DEF FileTypeOK
    <3>3. Listed' = Listed /\ Named' \subseteq Named \cup {attempt}
      BY <1>o, <1>f, <3>2 DEF Listed, Named, Loaded, backupVars, historyVars
    <3>4. ~doubt => \A a \in Named' : Good(a)'
      <4>1. \A a \in Named : nameOf[a] \in Names
        BY NamedPast, <1>t DEF TypeOK, Past, Attempts
      <4>2. Good(attempt) /\ nameOf[attempt] \in Names
        BY AttemptGood, <1>n, <2>4 DEF RecordNew, Inv, Owned, name
      <4> QED
        BY <1>o, <3>2, <3>3, <4>1, <4>2 DEF Sound, Good, backupVars
    <3>5. before.state \in survivors'[State]
      BY <1>1, <2>4, <3>2 DEF ReplaceTarget, Inv, Written, Tracked, StateOld, Replaced
    <3> QED
      BY <1>o, <2>4, <3>3, <3>4, <3>5 DEF Sound, Unlisted, backupVars
  <2>5. CASE job.path = History
    <3>2. /\ target'[State] = target[State] /\ survivors'[History] = survivors[History] \cup {job.value}
          /\ \A n \in Names : target'[n] = target[n]
      BY <2>1, <2>2, <2>5, <1>t DEF FileTypeOK
    <3>3. Writing = job.value /\ Listed' = Listed \cup job.value
      BY <1>f, <2>1, <2>5, <3>2 DEF Writing, Listed, Loaded
    <3>4. Named' = Named
      BY <1>o, <1>f, <3>2, <3>3 DEF Named, Loaded, backupVars, historyVars
    <3>5. ~doubt => \A a \in Named' : Good(a)'
      BY <1>o, <3>2, <3>4, SoundStays DEF backupVars
    <3>6. Unlisted' => Unlisted /\ attempt \notin job.value
      <4>1. Replaced' /\ ~Replaced
        BY <1>1 DEF ReplaceTarget, Replaced
      <4>2. Unlisted' => pc \notin {"idle", "historySaved"}
        BY <1>o, <4>1 DEF Unlisted, backupVars
      <4>3. Unlisted' => mutating = "user"
        BY <4>2, <1>1, <1>n, <2>5 DEF Inv, Owned, Saving, ReplaceTarget
      <4> QED
        BY <4>2, <4>3 DEF Told, Fresh, Unlisted
    <3>7. pc # "stateSaved"
      BY <2>5, FilesAre DEF Inv, Owned
    <3> QED
      BY <1>o, <3>3, <3>5, <3>6, <3>7 DEF Sound, backupVars
  <2> QED
    BY <1>f, <2>3, <2>4, <2>5 DEF Inv, Owned, Saving
<1>2. CASE ~ReplaceTarget
  <2>1. /\ UNCHANGED target
        /\ Replaced => Replaced'
        /\ writing' # "sync"
    BY <1>2 DEF WriteStep, Write, WriteTemporary, FlushTemporary, VerifyTemporary, KeepBackup,
       SyncParent, Abandon, Answer, AfterVerify, Replaced
  <2>s. \A p \in Paths : survivors'[p] = survivors[p] \/ survivors'[p] = {target[p]}
    <3>1. CASE SyncParent
      <4>1. flushed /\ job.path \in Paths
        BY <3>1, <1>t DEF SyncParent, Inv, Written, FileTypeOK, Jobs
      <4> QED
        BY <3>1, <4>1, <1>t DEF SyncParent, Typed
    <3>2. CASE ~SyncParent
      BY <1>2, <3>2 DEF WriteStep, Write, WriteTemporary, FlushTemporary, VerifyTemporary, KeepBackup, Abandon
    <3> QED
      BY <3>1, <3>2
  <2>2. Listed' \subseteq Listed
    BY <2>s, FilesAre DEF Listed, Inv, Written, Loaded
  <2>3. Named' \subseteq Named
    BY <1>o, <1>f, <2>1, <2>2 DEF Named, Loaded, backupVars, historyVars
  <2>4. ~doubt => \A a \in Named' : Good(a)'
    BY <1>o, <2>1, <2>3, SoundStays DEF backupVars
  <2> QED
    BY <1>o, <2>1, <2>2, <2>4 DEF Sound, Unlisted, backupVars
<1> QED
  BY <1>1, <1>2

\* A step of a backup removes no record that a file names.
LEMMA BackupSound ==
  ASSUME Inv, Told, Sound, Backup
  PROVE  Sound'
<1> USE CommitAssumption
<1>t. Typed /\ TypeOK /\ FileTypeOK
  BY DEF Inv, Typed, TypeOK
<1>n. attempt # 0 => name \in Names /\ name \in Paths /\ name # State /\ name # History
  BY NameIs DEF Inv
<1>p. pc # "idle" => attempt # 0
  BY DEF Inv, Owned
<1>1. CASE StartBackup
  <2>1. /\ UNCHANGED <<target, survivors, job, writing, answer, historyVars, nameOf, doubt>>
        /\ pc = "idle" /\ pc' \in {"record", "idle"}
        /\ attempt' = attempt + 1 /\ before'.state = target[State]
        /\ archives[nameOf[attempt + 1]] = 0
        /\ archives' = [archives EXCEPT ![nameOf[attempt + 1]] = attempt + 1]
    BY <1>1 DEF StartBackup
  <2>2. Listed' = Listed /\ Named' \subseteq Named
    BY <2>1 DEF Listed, Named, Writing, Loaded, fileVars, historyVars
  <2>3. \A a \in Named : a \in Past /\ a # 0 /\ nameOf[a] \in Names
    BY NamedPast, <1>t DEF TypeOK, Past, Attempts
  <2>4. ~doubt => \A a \in Named' : Good(a)'
    BY <2>1, <2>2, <2>3, <1>t DEF Sound, Good, TypeOK
  <2>5. attempt' \notin Listed'
    <3>1. Listed \subseteq Past
      BY NamedPast DEF Named
    <3> QED
      BY <2>1, <2>2, <3>1, <1>t DEF Past, TypeOK
  <2> QED
    BY <2>1, <2>4, <2>5 DEF Sound
<1>2. CASE SaveRecord \/ SaveState
  <2>1. /\ UNCHANGED <<target, survivors, attempt, before, archives, nameOf, memory, doubt>>
        /\ pc \in {"record", "state"} /\ pc' \in {"recordSaved", "stateSaved"} /\ writing' = "temporary"
        /\ job'.path \in {name, State}
    BY <1>2 DEF SaveRecord, SaveState, Acquire, historyVars
  <2>2. Listed' = Listed /\ Writing' = {}
    BY <2>1, <1>p, <1>n DEF Listed, Writing, Loaded
  <2>3. Named' \subseteq Named
    BY <2>1, <2>2 DEF Named, Loaded
  <2>4. ~doubt => \A a \in Named' : Good(a)'
    BY <2>1, <2>3, SoundStays
  <2> QED
    BY <2>1, <2>2, <2>4 DEF Sound, Unlisted
<1>3. CASE RecordSaved \/ StateSaved \/ RecordRestored
  <2>1. /\ UNCHANGED <<target, survivors, attempt, before, archives, nameOf, memory, job, doubt>>
        /\ pc \in {"recordSaved", "stateSaved", "recordRestored"}
        /\ pc' \in {"state", "undoRecord", "history", "dropArchiveOnly"} /\ writing' = "free"
    BY <1>3 DEF RecordSaved, StateSaved, RecordRestored, Release, historyVars
  <2>2. Listed' = Listed /\ Writing' = {}
    BY <2>1 DEF Listed, Writing, Loaded
  <2>3. Named' \subseteq Named
    BY <2>1, <2>2 DEF Named, Loaded
  <2>4. ~doubt => \A a \in Named' : Good(a)'
    BY <2>1, <2>3, SoundStays
  <2> QED
    BY <2>1, <2>2, <2>4 DEF Sound, Unlisted
<1>4. CASE UndoRecord
  <2>1. /\ UNCHANGED <<attempt, before, archives, nameOf, memory, doubt>> /\ pc = "undoRecord"
        /\ pc' \in {"recordRestored", "dropArchiveOnly"}
    BY <1>4 DEF UndoRecord, historyVars
  <2>2. /\ survivors'[History] = survivors[History] /\ target'[State] = target[State]
        /\ \A n \in Names \ {name} : target'[n] = target[n]
    BY <1>4, <2>1, <1>n, <1>p, <1>t DEF UndoRecord, Acquire, RemoveFile, FileTypeOK
  <2>3. Listed' = Listed /\ Writing' \subseteq Writing
    BY <1>4, <2>1, <2>2, <1>n, <1>p DEF UndoRecord, Acquire, RemoveFile, Listed, Loaded, Writing
  <2>4. Named' \subseteq Named
    BY <2>1, <2>2, <2>3 DEF Named, Loaded
  <2>5. ~doubt => \A a \in Named' : Good(a)'
    BY <2>1, <2>2, <2>4, SoundApart DEF Unnamed
  <2> QED
    BY <2>1, <2>3, <2>5 DEF Sound, Unlisted
<1>5. CASE DropArchiveOnly \/ DropArchive \/ RollbackFails
  <2>1. /\ UNCHANGED <<target, survivors, attempt, before, nameOf, memory, job, writing, answer>>
        /\ pc # "idle" /\ pc' = "idle" /\ (doubt => doubt')
        /\ RollbackFails => doubt'
        /\ \A n \in Names \ {name} : archives'[n] = archives[n]
    BY <1>5, <1>t DEF DropArchiveOnly, DropArchive, RollbackFails, End, historyVars, fileVars, TypeOK
  <2>2. Listed' = Listed /\ Writing' = Writing
    BY <2>1 DEF Listed, Loaded, Writing
  <2>3. Named' \subseteq Named
    BY <2>1, <2>2 DEF Named, Loaded
  <2>4. ~RollbackFails => pc \in Unnamed
    BY <1>5 DEF DropArchiveOnly, DropArchive, Unnamed
  <2>5. ~doubt' => \A a \in Named' : Good(a)'
    BY <2>1, <2>3, <2>4, SoundApart
  <2> QED
    BY <2>1, <2>5 DEF Sound, Unlisted
<1>6. CASE AddHistory
  <2>1. /\ UNCHANGED <<target, survivors, attempt, before, archives, nameOf, memory, doubt>>
        /\ pc = "history" /\ pc' = "historySaved" /\ writing' = "temporary"
        /\ job'.value \subseteq memory \cup {attempt}
    BY <1>6 DEF AddHistory, Acquire
  <2>2. Listed' = Listed /\ Writing' \subseteq memory \cup {attempt}
    BY <2>1 DEF Listed, Writing, Loaded
  <2>3. Named' \subseteq Named \cup {attempt}
    BY <2>1, <2>2 DEF Named, Loaded
  <2>4. Good(attempt)
    BY <2>1, AttemptGood DEF RecordNew
  <2>5. ~doubt => \A a \in Named' : Good(a)'
    BY <2>1, <2>3, <2>4 DEF Sound, Good
  <2> QED
    BY <2>1, <2>2, <2>5 DEF Sound, Unlisted
<1>7. CASE HistorySaved
  <2>1. /\ UNCHANGED <<target, survivors, attempt, before, archives, nameOf, job, answer>>
        /\ pc = "historySaved" /\ pc' \in {"idle", "restoreState"} /\ writing = "done" /\ writing' = "free"
        /\ memory' \in {memory, job.value} /\ (doubt => doubt')
        /\ pc' = "restoreState" /\ ~doubt' => answer = "NotReplaced"
    BY <1>7, <1>t DEF HistorySaved, Publish, End, Release, FileTypeOK, WriteCommitState
  <2>2. Listed' = Listed /\ Writing' = {} /\ Writing = job.value
    BY <2>1 DEF Listed, Writing, Loaded, Inv, Owned
  <2>3. Named' \subseteq Named
    BY <2>1, <2>2 DEF Named, Loaded
  <2>4. ~doubt' => \A a \in Named' : Good(a)'
    BY <2>1, <2>3, SoundStays
  <2>5. ~doubt' /\ Unlisted' => Unlisted
    BY <2>1 DEF Unlisted, Replaced
  <2> QED
    BY <2>1, <2>2, <2>4, <2>5 DEF Sound
<1>8. CASE RestoreState
  <2>1. /\ UNCHANGED <<attempt, before, archives, nameOf, memory, job, writing, answer, doubt>>
        /\ pc = "restoreState" /\ pc' = "dropRecord"
        /\ target' = [target EXCEPT ![State] = before.state] /\ survivors'[History] = survivors[History]
    BY <1>8, <1>t DEF RestoreState, ReplacePrepared, RemoveFile, historyVars, FileTypeOK
  <2>2. Listed' = Listed /\ Writing' = Writing
    BY <2>1 DEF Listed, Loaded, Writing
  <2>3. Named' \subseteq Named
    BY <2>1, <2>2, <1>t DEF Named, Loaded, FileTypeOK
  <2>4. \A n \in Names : target'[n] = target[n]
    BY <2>1, <1>t DEF FileTypeOK
  <2>5. ~doubt => \A a \in Named' : Good(a)'
    BY <2>1, <2>3, <2>4, SoundStays
  <2> QED
    BY <2>1, <2>2, <2>5 DEF Sound, Unlisted
<1>9. CASE DropRecord
  <2>1. /\ UNCHANGED <<attempt, before, archives, nameOf, memory, job, writing, answer, doubt>>
        /\ pc = "dropRecord" /\ pc' = "dropArchive"
        /\ target'[State] = target[State] /\ survivors'[History] = survivors[History]
        /\ \A n \in Names \ {name} : target'[n] = target[n]
    BY <1>9, <1>p, <1>n, <1>t DEF DropRecord, RemoveFile, historyVars, FileTypeOK
  <2>2. Listed' = Listed /\ Writing' = Writing
    BY <2>1 DEF Listed, Loaded, Writing
  <2>3. Named' \subseteq Named
    BY <2>1, <2>2 DEF Named, Loaded
  <2>4. ~doubt => \A a \in Named' : Good(a)'
    BY <2>1, <2>3, SoundApart DEF Unnamed
  <2> QED
    BY <2>1, <2>2, <2>4 DEF Sound, Unlisted
<1> QED
  BY <1>1, <1>2, <1>3, <1>4, <1>5, <1>6, <1>7, <1>8, <1>9 DEF Backup

\* Removing an entry names nothing new.
LEMMA EditSound ==
  ASSUME Inv, Told, Sound, (\E a \in Attempts : RemoveEntry(a)) \/ EntryRemoved
  PROVE  Sound'
<1>1. /\ UNCHANGED <<target, survivors, attempt, before, archives, nameOf, pc, doubt>>
  BY DEF RemoveEntry, EntryRemoved, Acquire, Release, backupVars
<1>2. Listed' = Listed
  BY <1>1 DEF Listed, Loaded
<1>3. Named' \subseteq Named
  <2>1. CASE \E a \in Attempts : RemoveEntry(a)
    <3>1. UNCHANGED memory /\ Writing' \subseteq memory
      BY <2>1 DEF RemoveEntry, Acquire, Writing
    <3> QED
      BY <1>1, <1>2, <3>1 DEF Named, Loaded
  <2>2. CASE EntryRemoved
    <3>1. Writing = job.value /\ Writing' = {} /\ memory' \in {memory, job.value}
      BY <2>2 DEF EntryRemoved, Publish, Release, Writing, Inv, Owned
    <3> QED
      BY <1>1, <1>2, <3>1 DEF Named, Loaded
  <2> QED
    BY <2>1, <2>2
<1>4. ~doubt => \A a \in Named' : Good(a)'
  BY <1>1, <1>3, SoundStays
<1>5. mutating = "user" \/ mutating' = "user"
  BY DEF RemoveEntry, EntryRemoved
<1>6. pc # "historySaved" /\ (pc = "stateSaved" => writing' # "sync")
  BY <1>5 DEF RemoveEntry, EntryRemoved, Acquire, Release, Inv, Owned
<1> QED
  BY <1>1, <1>2, <1>4, <1>6 DEF Sound, Unlisted

\* No third content of a file of which a power loss leaves two at most.
LEMMA OneOfTwo ==
  ASSUME NEW S, IsFiniteSet(S), ~(Cardinality(S) > 2), NEW x \in S, NEW y \in S, x # y, NEW z \in S
  PROVE  z \in {x, y}
<1> SUFFICES ASSUME z \notin {x, y} PROVE FALSE
  OBVIOUS
<1>1. IsFiniteSet({x}) /\ Cardinality({x}) = 1
  BY FS_Singleton
<1> DEFINE T == {x}
           U == T \cup {y}
<1>a. y \notin T /\ z \notin U
  OBVIOUS
<1>2. IsFiniteSet(U) /\ Cardinality(U) = 2
  <2> HIDE DEF T
  <2>1. IsFiniteSet(T) /\ Cardinality(T) = 1
    BY <1>1 DEF T
  <2> QED
    BY <1>a, <2>1, FS_AddElement
<1>3. Cardinality(U \cup {z}) = 3
  <2> HIDE DEF T, U
  <2>1. IsFiniteSet(U) /\ z \notin U
    BY <1>a, <1>2
  <2>2. Cardinality(U \cup {z}) = IF z \in U THEN Cardinality(U) ELSE Cardinality(U) + 1
    BY <2>1, FS_AddElement, Zenon
  <2> QED
    BY <1>2, <2>1, <2>2
<1>4. U \cup {z} \in SUBSET S
  OBVIOUS
<1>5. Cardinality(U \cup {z}) <= Cardinality(S) /\ Cardinality(S) \in Nat
  BY <1>4, FS_Subset, FS_CardinalityType
<1> QED
  BY <1>3, <1>5

\* What may be left of a file is finitely much.
LEMMA SurvivorsFinite ==
  ASSUME Typed, NEW p \in Paths
  PROVE  IsFiniteSet(survivors[p])
<1>1. IsFiniteSet(Attempts)
  BY CommitAssumption, FS_Interval DEF Attempts
<1>2. IsFiniteSet(Values \cup {Missing})
  BY <1>1, CommitAssumption, FS_SUBSET, FS_AddElement
<1>3. survivors[p] \in SUBSET (Values \cup {Missing})
  BY DEF Typed, Contents
<1> QED
  BY <1>2, <1>3, FS_Subset

\* Without doubt a power loss takes back nothing but the change that waits for its
\* confirmation, and of state.json that one leaves the old or the new content.
LEMMA CrashSound ==
  ASSUME Inv, Told, Sound, Crash
  PROVE  Sound'
<1> USE CommitAssumption
<1>t. Typed /\ TypeOK /\ FileTypeOK
  BY DEF Inv, Typed, TypeOK
<1>n. attempt # 0 => name \in Names /\ name \in Paths /\ name # State /\ name # History
  BY NameIs DEF Inv
<1>1. /\ \A p \in Paths : target'[p] \in survivors[p] /\ survivors'[p] \subseteq survivors[p]
      /\ memory' = Loaded(target'[History]) /\ pc' = "idle" /\ Writing' = {}
      /\ UNCHANGED <<attempt, before, archives, nameOf>> /\ (doubt => doubt')
  <2>1. \A p \in Paths : target'[p] \in survivors[p] /\ survivors'[p] \subseteq survivors[p]
    BY DEF Crash, FallBack, Inv, Written
  <2>2. doubt => doubt'
    BY DEF Crash
  <2>3. /\ memory' = Loaded(target'[History]) /\ pc' = "idle" /\ writing' = "free"
        /\ UNCHANGED <<attempt, before, archives, nameOf>>
    BY DEF Crash, Forget
  <2> QED
    BY <2>1, <2>2, <2>3 DEF Writing
<1>2. Listed' \subseteq Listed /\ memory' \subseteq Listed
  BY <1>1, FilesAre DEF Listed, Loaded
<1>3. Named' \subseteq Named \cup Loaded(target'[State])
  BY <1>1, <1>2 DEF Named, Loaded
<1>4. SUFFICES ASSUME ~doubt' PROVE \A a \in Named' : Good(a)'
  BY <1>1 DEF Sound, Unlisted
<1>5. ~doubt
  BY <1>1, <1>4
<1>6. \A p \in Paths : (writing = "sync" /\ job.path = p) \/ target'[p] = target[p]
  BY <1>4, <1>t DEF Crash, FallBack, Unconfirmed
<1>7. CASE target'[State] = target[State]
  <2>1. Named' \subseteq Named
    BY <1>3, <1>7 DEF Named, Loaded
  <2>2. CASE writing = "sync" /\ job.path \in Names
    <3>1. pc \in {"recordSaved", "recordRestored"} /\ job.path = name
      BY <2>2 DEF Inv, Owned, Saving
    <3>2. \A n \in Names \ {name} : target'[n] = target[n] /\ archives'[n] = archives[n]
      BY <1>1, <1>6, <3>1
    <3> QED
      BY <1>1, <1>5, <2>1, <3>1, <3>2, SoundApart DEF Unnamed
  <2>3. CASE ~(writing = "sync" /\ job.path \in Names)
    <3>1. \A n \in Names : target'[n] = target[n]
      BY <1>6, <2>3
    <3> QED
      BY <1>1, <1>5, <2>1, <3>1, SoundStays
  <2> QED
    BY <2>2, <2>3
<1>8. CASE target'[State] # target[State]
  <2>1. writing = "sync" /\ job.path = State
    BY <1>6, <1>8, FilesAre
  <2>2. pc = "stateSaved" /\ job.value = {attempt} /\ attempt # 0
    BY <2>1, <1>n DEF Inv, Owned, Saving
  <2>3. ~(Cardinality(survivors[State]) > 2)
    BY <1>4, <1>8, <2>1, FilesAre DEF Crash, Unconfirmed
  <2>4. target[State] = {attempt} /\ target[State] \in survivors[State] /\ before.state \in survivors[State]
    BY <2>1, <2>2, FilesAre DEF Inv, Written, Replaced, Sound
  <2>5. before.state # {attempt}
    BY <2>2, FileAssumption, NameIs DEF Told, Bounded, Loaded, Inv
  <2>6. target'[State] = before.state
    BY <1>1, <1>8, <1>t, <2>3, <2>4, <2>5, FilesAre, SurvivorsFinite, OneOfTwo
  <2>7. Named' \subseteq Named
    BY <1>3, <2>2, <2>6 DEF Named, Loaded
  <2>8. \A n \in Names : target'[n] = target[n]
    BY <1>6, <2>1
  <2> QED
    BY <1>1, <1>5, <2>7, <2>8, SoundStays
<1> QED
  BY <1>7, <1>8

\* Every step keeps a record for every name.
LEMMA NextSound == Inv /\ Told /\ Sound /\ [Next]_vars => Sound'
<1> SUFFICES ASSUME Inv, Told, Sound, [Next]_vars PROVE Sound'
  OBVIOUS
<1>1. CASE UNCHANGED vars
  BY <1>1 DEF Sound, Named, Listed, Writing, Unlisted, Good, Replaced, Loaded, vars, fileVars, backupVars, historyVars
<1>2. CASE Next
  BY <1>2, WriteSound, BackupSound, EditSound, CrashSound DEF Next
<1> QED
  BY <1>1, <1>2

\* The invariant implies the property of the runs.
LEMMA SoundNamed == Inv /\ Sound => NamedHasRecord
<1>1. Inv => target[History] \in survivors[History]
  BY FilesAre DEF Inv, Written
<1> QED
  BY <1>1 DEF Sound, Named, Listed, Good, NamedHasRecord, Loaded

\* state.json and history.json name only backups that have their record, for any number of
\* names, backups, faults, edits and crashes: the order of the three writes and of the
\* rollback keeps it at every step, and so does a power loss between any two, except in the
\* cases of doubt (BackupManager.cpp, SaveDetailed).
THEOREM NamedBackupsHaveRecords == Spec => []NamedHasRecord
<1>1. Spec => []Told
  BY Invariant, InitTold, NextTold, PTL DEF Spec
<1>2. Spec => []Sound
  BY <1>1, Invariant, InitSound, NextSound, PTL DEF Spec
<1> QED
  BY <1>2, Invariant, SoundNamed, PTL

=============================================================================
