----------------------------- MODULE AtomicFile -----------------------------
(* infra/AtomicFileWriter.cpp: temporary file, flush, read-back, backup of  *)
(* the old content, rename, directory sync.  A mutex lets one write run at  *)
(* a time.  Any step may fail, and power may be lost between any two.       *)
EXTENDS Naturals

CONSTANTS
    Paths,    \* the files written
    Values,   \* their possible whole contents
    Missing,  \* no such file
    Garbage,  \* bytes that are not what the caller wrote
    Callers,  \* the threads that write
    MaxFaults \* bound: failing steps

ASSUME FileAssumption ==
    /\ Missing \notin Values
    /\ Garbage \notin Values \cup {Missing}
    /\ MaxFaults \in Nat

VARIABLES
    target,    \* what each file holds, for a reader
    survivors, \* what a power loss may leave of it
    backup,    \* its .bak file
    temporary, \* the temporary file of the write in progress
    flushed,   \* whether the temporary file's bytes are on disk
    job,       \* the write in progress
    writing,   \* its next step; "free" when the mutex is not held
    answer,    \* its commit state, once it is "done"
    faults

fileVars == <<target, survivors, backup, temporary, flushed, job, writing, answer, faults>>

WriteCommitState == {"NotReplaced", "ReplacedNotDurable", "Durable"}
Steps == {"free", "temporary", "flush", "verify", "backup", "replace", "sync", "done"}
Jobs == [caller : Callers, path : Paths, value : Values, keepBackup : BOOLEAN]
Contents == Values \cup {Missing}

FileTypeOK ==
    /\ target \in [Paths -> Contents]
    /\ survivors \in [Paths -> SUBSET (Contents \cup {Garbage})]
    /\ backup \in [Paths -> Contents]
    /\ temporary \in Contents \cup {Garbage}
    /\ flushed \in BOOLEAN
    /\ writing \in Steps
    /\ job \in Jobs
    /\ answer \in WriteCommitState
    /\ faults \in Nat

FileInit ==
    /\ target = [p \in Paths |-> Missing]
    /\ survivors = [p \in Paths |-> {Missing}]
    /\ backup = [p \in Paths |-> Missing]
    /\ temporary = Missing
    /\ flushed = FALSE
    /\ writing = "free"
    /\ job \in Jobs
    /\ answer = "NotReplaced"
    /\ faults = 0

Fault == faults < MaxFaults /\ faults' = faults + 1

\* The write returns.
Answer(a) ==
    /\ writing' = "done"
    /\ answer' = a
    /\ temporary' = Missing

-----------------------------------------------------------------------------
(* WriteStreamed                                                            *)

Acquire(c, p, v, keep) ==
    /\ writing = "free"
    /\ writing' = "temporary"
    /\ job' = [caller |-> c, path |-> p, value |-> v, keepBackup |-> keep]
    /\ flushed' = FALSE
    /\ UNCHANGED <<target, survivors, backup, temporary, answer, faults>>

\* The producer's bytes reach the temporary file, or others do and no call reports it.
WriteTemporary ==
    /\ writing = "temporary"
    /\ \/ temporary' = job.value /\ UNCHANGED faults
       \/ temporary' = Garbage /\ Fault
    /\ writing' = "flush"
    /\ UNCHANGED <<target, survivors, backup, flushed, job, answer>>

FlushTemporary ==
    /\ writing = "flush"
    /\ flushed' = TRUE
    /\ writing' = "verify"
    /\ UNCHANGED <<target, survivors, backup, temporary, job, answer, faults>>

\* What follows the read-back: the old content is kept when asked and when there is any.
AfterVerify == IF job.keepBackup /\ target[job.path] # Missing THEN "backup" ELSE "replace"

\* Mutant of VerifyTemporary: the temporary file is not read back.
VerifyTemporaryNot ==
    /\ writing = "verify"
    /\ writing' = AfterVerify
    /\ UNCHANGED <<target, survivors, backup, temporary, flushed, job, answer, faults>>
VerifyTemporary ==
    /\ writing = "verify"
    /\ \/ temporary = job.value /\ writing' = AfterVerify /\ UNCHANGED <<answer, temporary>>
       \/ temporary # job.value /\ Answer("NotReplaced")
    /\ UNCHANGED <<target, survivors, backup, flushed, job, faults>>

KeepBackup ==
    /\ writing = "backup"
    /\ backup' = [backup EXCEPT ![job.path] = target[job.path]]
    /\ writing' = "replace"
    /\ UNCHANGED <<target, survivors, temporary, flushed, job, answer, faults>>

\* The commit point.
ReplaceTarget ==
    /\ writing = "replace"
    /\ target' = [target EXCEPT ![job.path] = temporary]
    /\ survivors' = [survivors EXCEPT ![job.path] =
                        @ \cup {IF flushed THEN temporary ELSE Garbage}]
    /\ temporary' = Missing
    /\ writing' = "sync"
    /\ UNCHANGED <<backup, flushed, job, answer, faults>>

\* Mutant of SyncParent: a failed directory sync is reported as durable.
SyncParentAssumed ==
    /\ writing = "sync"
    /\ \/ survivors' = [survivors EXCEPT ![job.path] = {IF flushed THEN target[job.path] ELSE Garbage}] /\ UNCHANGED faults
       \/ Fault /\ UNCHANGED survivors
    /\ Answer("Durable")
    /\ UNCHANGED <<target, backup, flushed, job>>
SyncParent ==
    /\ writing = "sync"
    /\ \/ /\ survivors' = [survivors EXCEPT ![job.path] = {IF flushed THEN target[job.path] ELSE Garbage}]
          /\ Answer("Durable")
          /\ UNCHANGED faults
       \/ Answer("ReplacedNotDurable") /\ Fault /\ UNCHANGED survivors
    /\ UNCHANGED <<target, backup, flushed, job>>

\* Any step before the commit point fails: the temporary files are removed.
Abandon ==
    /\ writing \in {"temporary", "flush", "verify", "backup", "replace"}
    /\ Fault
    /\ Answer("NotReplaced")
    /\ UNCHANGED <<target, survivors, backup, flushed, job>>

Write ==
    \/ WriteTemporary \/ FlushTemporary \/ VerifyTemporary
    \/ KeepBackup \/ ReplaceTarget \/ SyncParent \/ Abandon

\* The caller takes the answer, and the mutex is free.
Release ==
    /\ writing = "done"
    /\ writing' = "free"
    /\ UNCHANGED <<target, survivors, backup, temporary, flushed, job, answer, faults>>

-----------------------------------------------------------------------------
(* Changes of a file outside WriteStreamed: filesystem::remove, and         *)
(* ReplacePreparedFile with a whole prepared file.                          *)

RemoveFile(p) ==
    /\ target' = [target EXCEPT ![p] = Missing]
    /\ survivors' = [survivors EXCEPT ![p] = @ \cup {Missing}]

ReplacePrepared(p, v) ==
    /\ target' = [target EXCEPT ![p] = v]
    /\ \/ survivors' = [survivors EXCEPT ![p] = {v}] /\ UNCHANGED faults
       \/ survivors' = [survivors EXCEPT ![p] = @ \cup {v}] /\ Fault

\* The write in progress is lost with the process; its temporary file is never read.
Forget ==
    /\ writing' = "free"
    /\ temporary' = Missing
    /\ flushed' = FALSE
    /\ UNCHANGED <<backup, job, answer, faults>>

\* Power is lost: each file falls back to what is on disk.
FallBack ==
    /\ target' \in [Paths -> Contents \cup {Garbage}]
    /\ \A p \in Paths : target'[p] \in survivors[p]
    /\ survivors' = [p \in Paths |-> {target'[p]}]

-----------------------------------------------------------------------------
(* The abstract store.                                                      *)

EffectOf ==
    CASE writing = "sync" -> "taken"
      [] writing = "done" /\ answer = "ReplacedNotDurable" -> "taken"
      [] writing = "done" /\ answer = "Durable" -> "settled"
      [] OTHER -> "none"

CallOf ==
    IF writing = "free" THEN [busy |-> FALSE]
    ELSE [busy |-> TRUE, path |-> job.path, value |-> job.value,
          effect |-> EffectOf, answered |-> writing = "done"]

Store == INSTANCE AtomicStore WITH content <- target, call <- CallOf

\* The writer keeps what the abstract store promises: its file changes at one moment, to the
\* whole new value or not at all, the commit state it returns tells which
\* (infra/AtomicFileWriter.h:12), and a power loss leaves whole values only.
ImplementsStore == Store!StoreSpec

=============================================================================
