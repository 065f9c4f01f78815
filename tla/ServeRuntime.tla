---------------------------- MODULE ServeRuntime ----------------------------
(* "mb serve": the control loop and its forwarded commands                 *)
(* (cli/CliApplication.cpp), the commands of the companion mod             *)
(* (core/ProfileKnotLinkCommands.cpp) with the bridge to it                *)
(* (core/RuntimeIntegration.cpp), the two locks of core/ProfileRuntime.cpp *)
(* and the stages of a job (core/JobRunner.cpp).                           *)
(*                                                                         *)
(* Threads: the main loop, the bridge's one reader thread, a worker per    *)
(* KnotLink command, one per control command, and one per step of a job's  *)
(* stage.  Messages of the mod and of its clients share one connection and *)
(* are read in order.  A timeout may fire at any moment of a wait.  What a *)
(* backup or restore does to the files is in BackupChain and               *)
(* RestoreWorkspace.  Every request has an id of its own.                  *)
EXTENDS Integers, Sequences, FiniteSets

CONSTANTS
    Backups,        \* BACKUP commands of clients
    Hots,           \* RESTORE commands with current_save=true
    Steps,          \* backup steps of the job
    Stage,          \* Steps -> 1..2
    MaxRequests     \* bound on commands, queries and control commands

ASSUME ServeAssumption ==
    /\ Stage \in [Steps -> 1..2]
    /\ MaxRequests \in Nat

Commands == Backups \cup Hots
Workers == Commands \cup Steps
\* Forwarded control commands: "job run" and "profile apply".
Controls == {"job", "apply"}

\* A worker has one task, and none is a control command.
ASSUME DistinctAssumption ==
    /\ Backups \cap Hots = {} /\ Commands \cap Steps = {}
    /\ Workers \cap Controls = {}

Owners == Commands \cup Controls
NoOne == {}

VARIABLES
    inbox,          \* messages on the KnotLink connection
    reader,         \* the reader thread: what it does, for which command
    pc,             \* worker -> where it is
    code,           \* step of the job, and the job -> result
    control,        \* control command -> where it is
    stage,          \* stage the job is in
    operations,     \* ProfileKnotLinkCommands' map of running commands
    attached,       \* commands whose jthread is stored in their Operation
    cancelled,      \* commands, and the job, that were asked to stop
    execution, operation, state,    \* owners of executionMutex, operationMutex_, stateMutex_
    flags,          \* answers of the mod that the bridge has noted
    frozen,         \* backups for which the mod holds its auto-save back
    bridge,         \* [running, closed]: the sockets; Stop was called
    events,         \* command -> events published for it
    refusing,       \* ProfileKnotLinkCommands is stopping
    main,           \* the main thread
    stopping,       \* the loop takes no more control commands
    generation,     \* which Implementation ProfileRuntime holds
    using,          \* worker -> the generation it works with
    requests,
    raced           \* commands that a status request took from the map half submitted

threads == <<reader, pc, code, control, stage>>
locks == <<execution, operation, state>>
mod == <<inbox, flags, frozen, bridge, events>>
lifetimes == <<operations, attached, cancelled, refusing, raced>>
loop == <<main, stopping, generation, using, requests>>
vars == <<threads, locks, mod, lifetimes, loop>>

Idle == [at |-> "idle", of |-> NoOne]

Init ==
    /\ inbox = <<>> /\ reader = Idle
    /\ pc = [w \in Workers |-> "none"]
    /\ code = [s \in Steps \cup {"job"} |-> "none"]
    /\ control = [c \in Controls |-> "none"]
    /\ stage = 0
    /\ operations = {} /\ attached = {} /\ cancelled = {} /\ raced = {}
    /\ execution = NoOne /\ operation = NoOne /\ state = NoOne
    /\ flags = {} /\ frozen = {}
    /\ bridge = [running |-> TRUE, closed |-> FALSE]
    /\ events = [w \in Commands |-> <<>>]
    /\ refusing = FALSE
    /\ main = "serve" /\ stopping = FALSE
    /\ generation = 1 /\ using = [w \in Workers |-> 0]
    /\ requests = 0

Up == main \notin {"gone", "crashed"}

-----------------------------------------------------------------------------
(* The mod and the clients of KnotLink (external).                         *)

Answer(e) == CASE e = "handshake" -> "shook" [] e = "pre_hot_backup" -> "saved"
               [] e = "pre_hot_restore" -> "left" [] OTHER -> "rejoined"
Answers == {"shook", "saved", "left", "rejoined"}

Arrives(m) ==
    /\ bridge.running
    /\ inbox' = Append(inbox, m)

Request == requests < MaxRequests /\ requests' = requests + 1

ClientSends ==
    /\ Up /\ Request
    /\ \/ \E w \in Commands :
            /\ pc[w] = "none" /\ reader.of # {w}
            /\ \A i \in DOMAIN inbox : inbox[i] # [kind |-> "command", of |-> {w}]
            /\ Arrives([kind |-> "command", of |-> {w}])
       \/ Arrives([kind |-> "query", of |-> NoOne])
    /\ UNCHANGED <<threads, locks, flags, frozen, bridge, events, lifetimes,
                   main, stopping, generation, using>>

\* An event that waits for an answer: the mod puts one on the connection, or never does.
Ask(e) == inbox' \in {inbox, Append(inbox, [kind |-> Answer(e), of |-> NoOne])}

\* SignalSender: nothing is sent once the bridge has been stopped.
Publish(w, e) == events' = IF bridge.running THEN [events EXCEPT ![w] = Append(@, e)] ELSE events

-----------------------------------------------------------------------------
(* The reader thread: HeadlessKnotLinkBridge::HandleCommand, Handle, Submit. *)

\* Mutant of Done: a worker that has reported is dropped without waiting for it.
DoneUnjoined(w) == w \in operations /\ pc[w] \in {"completed", "exited"}

\* Cleanup on the reader thread: completed workers are joined.
Done(w) == w \in operations /\ pc[w] = "exited"

ReadMessage ==
    /\ Up /\ reader = Idle /\ inbox # <<>> /\ bridge.running
    /\ inbox' = Tail(inbox)
    /\ LET m == Head(inbox)
       IN \/ /\ m.kind \in Answers
             /\ flags' = flags \cup {m.kind}
             /\ UNCHANGED reader
          \/ /\ m.kind \notin Answers
             \* SetCommandHandler({}) precedes Stop.
             /\ reader' = IF bridge.closed THEN Idle ELSE [at |-> "handle", of |-> m.of]
             /\ UNCHANGED flags
    /\ UNCHANGED <<pc, code, control, stage, locks, frozen, bridge, events, lifetimes, loop>>

\* CatalogSnapshot and ResolveBackup wait for stateMutex_, and with them the messages behind.
Query ==
    /\ Up /\ reader.at = "handle" /\ reader.of = NoOne
    /\ state = NoOne
    /\ operations' = {w \in operations : ~Done(w)}
    /\ reader' = Idle
    /\ UNCHANGED <<pc, code, control, stage, locks, mod, attached, cancelled, refusing, raced, loop>>

Submit ==
    /\ Up /\ reader.at = "handle"
    /\ state = NoOne
    /\ \E w \in reader.of :
         \/ /\ refusing
            /\ operations' = {o \in operations : ~Done(o)}
            /\ reader' = Idle
            /\ UNCHANGED events
         \/ /\ ~refusing
            /\ operations' = {o \in operations : ~Done(o)} \cup {w}
            /\ Publish(w, "command_accepted")
            /\ reader' = [reader EXCEPT !.at = "start"]
    /\ UNCHANGED <<pc, code, control, stage, locks, inbox, flags, frozen, bridge,
                   attached, cancelled, refusing, raced, loop>>

\* The thread runs before the jthread that stands for it is moved into the Operation.
StartThread ==
    /\ Up /\ reader.at = "start"
    /\ \E w \in reader.of :
         /\ pc' = [pc EXCEPT ![w] = "lock"]
         /\ Publish(w, "command_started")
    /\ reader' = [reader EXCEPT !.at = "attach"]
    /\ UNCHANGED <<code, control, stage, locks, inbox, flags, frozen, bridge, lifetimes, loop>>

AttachThread ==
    /\ Up /\ reader.at = "attach"
    /\ attached' = attached \cup reader.of
    /\ reader' = Idle
    /\ UNCHANGED <<pc, code, control, stage, locks, mod, operations, cancelled, refusing, raced, loop>>

Reader == ReadMessage \/ Query \/ Submit \/ StartThread \/ AttachThread

-----------------------------------------------------------------------------
(* A backup: BackupService::Run with HeadlessKnotLinkBridge::Prepare.      *)

At(w, p) == Up /\ pc[w] = p
Goto(w, p) == pc' = [pc EXCEPT ![w] = p]
StopRequested(w) == (IF w \in Steps THEN "job" ELSE w) \in cancelled

\* The terminal event of the backup releases the mod, if it can still be sent.
Finish(w, c) ==
    /\ code' = IF w \in Steps THEN [code EXCEPT ![w] = c] ELSE code
    /\ frozen' = IF bridge.running THEN frozen \ {w} ELSE frozen
    /\ Goto(w, IF w \in Steps THEN "exited" ELSE "unlock")

Preflight(w) ==
    /\ At(w, "run")
    /\ using' = [using EXCEPT ![w] = generation]
    /\ \/ /\ ~StopRequested(w)
          /\ \E p \in {"reset", "archive"} : Goto(w, p)
          /\ UNCHANGED <<code, frozen>>
       \/ ~StopRequested(w) /\ Finish(w, "failed")
       \/ StopRequested(w) /\ Finish(w, "cancelled")
    /\ UNCHANGED <<reader, control, stage, locks, inbox, flags, bridge, events, lifetimes,
                   main, stopping, generation, requests>>

\* A bridge that is not running is started anew, or the backup goes on without the mod.
ResetFlags(w) ==
    /\ At(w, "reset")
    /\ \/ /\ bridge' = [bridge EXCEPT !.running = TRUE]
          /\ flags' = flags \ {"shook", "saved"}
          /\ Ask("handshake")
          /\ Goto(w, "handshake")
       \/ /\ ~bridge.running
          /\ Goto(w, "archive")
          /\ UNCHANGED <<bridge, flags, inbox>>
    /\ UNCHANGED <<reader, code, control, stage, locks, frozen, events, lifetimes, loop>>

\* The handshake was answered; a version that is too old means going on without the mod.
AskToSave(w) ==
    /\ At(w, "handshake") /\ "shook" \in flags /\ ~StopRequested(w)
    /\ \/ /\ bridge.running
          /\ Ask("pre_hot_backup")
          /\ frozen' = frozen \cup {w}
          /\ Goto(w, "save")
       \/ Goto(w, "archive") /\ UNCHANGED <<inbox, frozen>>
    /\ UNCHANGED <<reader, code, control, stage, locks, flags, bridge, events, lifetimes, loop>>

Saved(w) ==
    /\ At(w, "save") /\ "saved" \in flags /\ ~StopRequested(w)
    /\ Goto(w, "archive")
    /\ UNCHANGED <<reader, code, control, stage, locks, mod, lifetimes, loop>>

\* WaitFor returns without its flag: its time is over, or a stop was requested.
WaitEnds(w, waits) == \E p \in waits : At(w, p)

\* Mutant of GiveUpMod: the wait has no deadline.
GiveUpModStopped(w) ==
    /\ WaitEnds(w, {"handshake", "save"})
    /\ StopRequested(w)
    /\ Finish(w, "cancelled")
    /\ UNCHANGED <<reader, control, stage, locks, inbox, flags, bridge, events, lifetimes, loop>>

GiveUpMod(w) ==
    /\ WaitEnds(w, {"handshake", "save"})
    /\ IF StopRequested(w) THEN Finish(w, "cancelled")
       ELSE Goto(w, "archive") /\ UNCHANGED <<code, frozen>>
    /\ UNCHANGED <<reader, control, stage, locks, inbox, flags, bridge, events, lifetimes, loop>>

\* 7-Zip, metadata, history and retention.
Archive(w) ==
    /\ At(w, "archive")
    /\ \E c \in IF StopRequested(w) THEN {"cancelled"} ELSE {"ok", "failed"} : Finish(w, c)
    /\ UNCHANGED <<reader, control, stage, locks, inbox, flags, bridge, events, lifetimes, loop>>

Backup(w) ==
    \/ Preflight(w) \/ ResetFlags(w) \/ AskToSave(w) \/ Saved(w)
    \/ GiveUpMod(w) \/ Archive(w)

-----------------------------------------------------------------------------
(* A hot restore: RunHotRestore with HotRestoreCoordinator::Run.           *)

End(w) == Goto(w, "unlock")

\* Mutant of Verify: the command takes operationMutex_ only with stateMutex_.
VerifyUnlocked(w) ==
    /\ At(w, "lock")
    /\ operation = NoOne /\ state = NoOne
    /\ using' = [using EXCEPT ![w] = generation]
    /\ \/ ~StopRequested(w) /\ Goto(w, "ask")
       \/ End(w)
    /\ UNCHANGED <<reader, code, control, stage, locks, mod, lifetimes, main, stopping,
                   generation, requests>>

\* operationMutex_ is held for the whole command, stateMutex_ only while files are touched.
Verify(w) ==
    /\ At(w, "lock")
    /\ operation = NoOne /\ state = NoOne
    /\ operation' = {w}
    /\ using' = [using EXCEPT ![w] = generation]
    /\ \/ ~StopRequested(w) /\ Goto(w, "ask")
       \/ End(w)
    /\ UNCHANGED <<reader, code, control, stage, execution, state, mod, lifetimes, main, stopping,
                   generation, requests>>

Emit(w, e, p) ==
    /\ bridge.running
    /\ Ask(e)
    /\ Goto(w, p)

Shake(w) ==
    /\ At(w, "ask")
    /\ flags' = IF bridge.running /\ ~StopRequested(w) THEN {} ELSE flags
    /\ \/ ~StopRequested(w) /\ Emit(w, "handshake", "shaking")
       \/ /\ StopRequested(w) \/ ~bridge.running
          /\ End(w) /\ UNCHANGED inbox
    /\ UNCHANGED <<reader, code, control, stage, locks, frozen, bridge, events, lifetimes, loop>>

AskToLeave(w) ==
    /\ At(w, "shaking") /\ "shook" \in flags /\ ~StopRequested(w)
    /\ \/ Emit(w, "pre_hot_restore", "leaving")
       \/ End(w) /\ UNCHANGED inbox
    /\ UNCHANGED <<reader, code, control, stage, locks, flags, frozen, bridge, events,
                   lifetimes, loop>>

\* The world has been left, and is found free before the deadline.
Left(w) ==
    /\ At(w, "leaving") /\ "left" \in flags /\ ~StopRequested(w)
    /\ Goto(w, "restore")
    /\ UNCHANGED <<reader, code, control, stage, locks, mod, lifetimes, loop>>

GiveUpRestore(w) ==
    /\ WaitEnds(w, {"shaking", "leaving"})
    /\ End(w)
    /\ UNCHANGED <<reader, code, control, stage, locks, mod, lifetimes, loop>>

\* ProfileRuntime::Restore: operationMutex_ is recursive and already this thread's.
LockState(w) ==
    /\ At(w, "restore")
    /\ state = NoOne
    /\ state' = {w}
    /\ Goto(w, "apply")
    /\ UNCHANGED <<reader, code, control, stage, execution, operation, mod, lifetimes, loop>>

Apply(w) ==
    /\ At(w, "apply")
    /\ state' = NoOne
    /\ \/ Emit(w, "rejoin_world", "rejoining")
       \/ End(w) /\ UNCHANGED inbox
    /\ UNCHANGED <<reader, code, control, stage, execution, operation, flags, frozen,
                   bridge, events, lifetimes, loop>>

\* With an answer, without one in time, or stopped: the restore is done.
Rejoined(w) ==
    /\ \/ At(w, "rejoining") /\ "rejoined" \in flags
       \/ WaitEnds(w, {"rejoining"})
    /\ End(w)
    /\ UNCHANGED <<reader, code, control, stage, locks, mod, lifetimes, loop>>

HotRestore(w) ==
    \/ Verify(w) \/ Shake(w) \/ AskToLeave(w) \/ Left(w)
    \/ GiveUpRestore(w) \/ LockState(w) \/ Apply(w) \/ Rejoined(w)

-----------------------------------------------------------------------------
(* The worker thread of a command.                                         *)

\* scoped_lock over both mutexes; std::lock holds none while it waits.
LockBoth(w) ==
    /\ At(w, "lock")
    /\ operation = NoOne /\ state = NoOne
    /\ operation' = {w} /\ state' = {w}
    /\ Goto(w, "run")
    /\ UNCHANGED <<reader, code, control, stage, execution, mod, lifetimes, loop>>

\* Mutant of Unlock: stateMutex_ stays locked.
UnlockOperation(w) ==
    /\ At(w, "unlock")
    /\ operation' = NoOne
    /\ using' = [using EXCEPT ![w] = 0]
    /\ Publish(w, "command_ended")
    /\ Goto(w, "completed")
    /\ UNCHANGED <<reader, code, control, stage, execution, state, inbox, flags, frozen, bridge,
                   lifetimes, main, stopping, generation, requests>>

\* Mutant of Unlock: completed is set before the terminal event is published.
UnlockReportsLater(w) ==
    /\ At(w, "unlock")
    /\ operation' = NoOne
    /\ state' = IF state = {w} THEN NoOne ELSE state
    /\ using' = [using EXCEPT ![w] = 0]
    /\ Goto(w, "completed")
    /\ UNCHANGED <<reader, code, control, stage, execution, inbox, flags, frozen, bridge, events,
                   lifetimes, main, stopping, generation, requests>>

\* The terminal event of the command, and then completed = true.
Unlock(w) ==
    /\ At(w, "unlock")
    /\ operation' = NoOne
    /\ state' = IF state = {w} THEN NoOne ELSE state
    /\ using' = [using EXCEPT ![w] = 0]
    /\ Publish(w, "command_ended")
    /\ Goto(w, "completed")
    /\ UNCHANGED <<reader, code, control, stage, execution, inbox, flags, frozen, bridge,
                   lifetimes, main, stopping, generation, requests>>

\* The thread's function is destroyed, and with it a reference to the Operation.  When it is
\* the last one the Operation's jthread joins the thread it runs on: std::terminate.
Exit(w) ==
    /\ At(w, "completed")
    /\ Goto(w, "exited")
    /\ main' = IF w \in attached /\ w \notin operations /\ reader.of # {w} THEN "crashed" ELSE main
    /\ UNCHANGED <<reader, code, control, stage, locks, mod, lifetimes, stopping, generation,
                   using, requests>>

Command(w) == Unlock(w) \/ Exit(w)
Worker(w) ==
    \/ w \in Commands /\ Command(w)
    \/ w \in Backups /\ LockBoth(w)
    \/ w \in Backups \cup Steps /\ Backup(w)
    \/ w \in Hots /\ HotRestore(w)

-----------------------------------------------------------------------------
(* Control commands: RunJob with JobRunner::Run, and profile apply.        *)

ControlAt(c, p) == Up /\ control[c] = p
Move(c, p) == control' = [control EXCEPT ![c] = p]

LockExecution(c) ==
    /\ ControlAt(c, "submitted")
    /\ execution = NoOne
    /\ execution' = {c}
    /\ Move(c, "lock")
    /\ UNCHANGED <<reader, pc, code, stage, operation, state, mod, lifetimes, loop>>

LockRuntime(c) ==
    /\ ControlAt(c, "lock")
    /\ operation = NoOne /\ state = NoOne
    /\ operation' = {c} /\ state' = {c}
    /\ Move(c, "locked")
    /\ stage' = IF c = "job" THEN 1 ELSE stage
    /\ UNCHANGED <<reader, pc, code, execution, mod, lifetimes, loop>>

Release(c) ==
    /\ execution' = NoOne /\ operation' = NoOne /\ state' = NoOne
    /\ Move(c, "completed")

\* Reload replaces the Implementation, or keeps it when a file is not valid.
Reload ==
    /\ ControlAt("apply", "locked")
    /\ generation' \in {generation, generation + 1}
    /\ Release("apply")
    /\ UNCHANGED <<reader, pc, code, stage, mod, lifetimes, main, stopping, using, requests>>

StepsOf(n) == {s \in Steps : Stage[s] = n}
CodesOf(S) == {code[s] : s \in S} \ {"none"}

\* Mutant of Aggregate: one step that succeeded is enough.
AggregateAny(S) ==
    IF "cancelled" \in CodesOf(S) THEN "cancelled"
    ELSE IF "ok" \in CodesOf(S) THEN "ok" ELSE "failed"

\* Of no steps: NoChanges, a success.
Aggregate(S) ==
    IF "cancelled" \in CodesOf(S) THEN "cancelled"
    ELSE IF "failed" \in CodesOf(S) THEN "failed" ELSE "ok"

\* The steps of a stage run in parallel, on threads that own no lock.
StartStage ==
    /\ ControlAt("job", "locked")
    /\ stage \in 1..2 /\ "job" \notin cancelled
    /\ pc' = [s \in Workers |-> IF s \in StepsOf(stage) THEN "run" ELSE pc[s]]
    /\ Move("job", "joining")
    /\ UNCHANGED <<reader, code, stage, locks, mod, lifetimes, loop>>

\* Every later stage is skipped once one has not succeeded.
JoinStage ==
    /\ ControlAt("job", "joining")
    /\ \A s \in StepsOf(stage) : pc[s] = "exited"
    /\ stage' = IF Aggregate(StepsOf(stage)) = "ok" THEN stage + 1 ELSE 3
    /\ Move("job", "locked")
    /\ UNCHANGED <<reader, pc, code, locks, mod, lifetimes, loop>>

EndJob ==
    /\ ControlAt("job", "locked")
    /\ stage = 3 \/ "job" \in cancelled
    /\ code' = [code EXCEPT !["job"] = IF "job" \in cancelled THEN "cancelled" ELSE Aggregate(Steps)]
    /\ Release("job")
    /\ UNCHANGED <<reader, pc, stage, mod, lifetimes, loop>>

Job == StartStage \/ JoinStage \/ EndJob
Control(c) == LockExecution(c) \/ LockRuntime(c) \/ (c = "apply" /\ Reload) \/ (c = "job" /\ Job)

-----------------------------------------------------------------------------
(* The main thread: the loop, and ~ProfileRuntime.                         *)

SubmitControl(c) ==
    /\ main = "serve" /\ ~stopping /\ control[c] = "none" /\ Request
    /\ Move(c, "submitted")
    /\ UNCHANGED <<reader, pc, code, stage, locks, mod, lifetimes, main, stopping, generation, using>>

\* Of the two commands only the job looks at its token.
CancelControl ==
    /\ main = "serve" /\ control["job"] \notin {"none", "replied"}
    /\ cancelled' = cancelled \cup {"job"}
    /\ UNCHANGED <<threads, locks, mod, operations, attached, refusing, raced, loop>>

\* A completed command's worker is joined and the reply is sent.
Reap(c) ==
    /\ main = "serve" /\ control[c] = "completed"
    /\ Move(c, "replied")
    /\ UNCHANGED <<reader, pc, code, stage, locks, mod, lifetimes, loop>>

\* "serve status" counts the KnotLink commands, for which Cleanup runs on this thread too.
\* A worker that has ended before the reader stored its jthread has nothing to join yet.
Status ==
    /\ main = "serve"
    /\ \E w \in operations :
         /\ \/ w \in attached /\ pc[w] = "exited" /\ UNCHANGED raced
            \/ /\ w \notin attached /\ pc[w] \in {"completed", "exited"}
               /\ raced' = raced \cup {w}
         /\ operations' = operations \ {w}
    /\ UNCHANGED <<threads, locks, mod, attached, cancelled, refusing, loop>>

StopServe ==
    /\ main = "serve" /\ ~stopping
    /\ stopping' = TRUE
    /\ cancelled' = cancelled \cup {c \in {"job"} : control[c] \notin {"none", "replied"}}
    /\ UNCHANGED <<threads, locks, mod, operations, attached, refusing, raced,
                   main, generation, using, requests>>

\* KnotLink commands are not waited for.
LeaveLoop ==
    /\ main = "serve" /\ stopping
    /\ \A c \in Controls : control[c] \in {"none", "replied"}
    /\ main' = "cancel"
    /\ UNCHANGED <<threads, locks, mod, lifetimes, stopping, generation, using, requests>>

CancelCommands ==
    /\ main = "cancel"
    /\ refusing' = TRUE
    /\ cancelled' = cancelled \cup operations
    /\ main' = "close"
    /\ UNCHANGED <<threads, locks, mod, operations, attached, raced, stopping, generation, using, requests>>

CloseBridge ==
    /\ main = "close"
    /\ bridge' = [running |-> FALSE, closed |-> TRUE]
    /\ main' = "joinReader"
    /\ UNCHANGED <<threads, locks, inbox, flags, frozen, events, lifetimes,
                   stopping, generation, using, requests>>

\* Destroying the responder joins its reader thread, in the middle of a command.
JoinReader ==
    /\ main = "joinReader" /\ reader = Idle
    /\ main' = "joinWorkers"
    /\ UNCHANGED <<threads, locks, mod, lifetimes, stopping, generation, using, requests>>

JoinWorkers ==
    /\ main = "joinWorkers"
    /\ \A w \in operations : pc[w] = "exited"
    /\ operations' = {}
    /\ bridge' = [bridge EXCEPT !.running = FALSE]
    /\ main' = "gone"
    /\ UNCHANGED <<threads, locks, inbox, flags, frozen, events, attached, cancelled,
                   refusing, raced, stopping, generation, using, requests>>

Shutdown == LeaveLoop \/ CancelCommands \/ CloseBridge \/ JoinReader \/ JoinWorkers
Main == Shutdown \/ \E c \in Controls : Reap(c)
Requests ==
    \/ Status \/ StopServe \/ CancelControl
    \/ \E c \in Controls : SubmitControl(c)
    \/ ClientSends

Next ==
    \/ Reader \/ Main \/ Requests
    \/ \E w \in Workers : Worker(w)
    \/ \E c \in Controls : Control(c)

Spec == Init /\ [][Next]_vars
\* Threads run, waits have deadlines, 7-Zip ends; nobody needs to ask or to answer.
FairSpec ==
    /\ Spec
    /\ WF_vars(Reader) /\ WF_vars(Main)
    /\ \A w \in Workers : WF_vars(Worker(w))
    /\ \A c \in Controls : WF_vars(Control(c))

-----------------------------------------------------------------------------
(* Properties.                                                             *)

Codes == {"none", "ok", "failed", "cancelled"}
Places == {"none", "lock", "run", "reset", "handshake", "save", "archive",
           "ask", "shaking", "leaving", "restore", "apply", "rejoining",
           "unlock", "completed", "exited"}

\* Types, and the order of the locks: stateMutex_ is kept only by the owner of operationMutex_.
TypeOK ==
    /\ pc \in [Workers -> Places]
    /\ code \in [Steps \cup {"job"} -> Codes]
    /\ operations \cup attached \cup raced \subseteq Commands
    /\ {execution, operation, state} \subseteq {{o} : o \in Owners} \cup {NoOne}
    /\ state \in {NoOne, operation}
    /\ flags \subseteq Answers

\* The Implementation whose catalog and services a thread works with is not replaced by a
\* reload before the thread is done, also not while a hot restore waits for the game without
\* stateMutex_, and not under the steps of a job, which own no lock.
ServicesStay ==
    \A w \in Workers :
      pc[w] \in {"reset", "handshake", "save", "archive",
                 "ask", "shaking", "leaving", "restore", "apply"} => using[w] = generation

\* No step of the second stage runs unless every step of the first has succeeded, and a job
\* that is reported successful has run every step with success.
JobSound ==
    /\ \A s \in StepsOf(2) : pc[s] # "none" => \A r \in StepsOf(1) : code[r] = "ok"
    /\ code["job"] = "ok" => \A s \in Steps : code[s] = "ok"

Lifecycle == <<"command_accepted", "command_started", "command_ended">>
Rank == [command_accepted |-> 1, command_started |-> 2, command_ended |-> 3]

\* A command's events come in order and once each, and as long as the bridge has not been
\* stopped none is missing when the command is over.
EventsInOrder ==
    \A w \in Commands :
      /\ \A i, j \in DOMAIN events[w] : i < j => Rank[events[w][i]] < Rank[events[w][j]]
      /\ pc[w] \in {"completed", "exited"} /\ ~bridge.closed => events[w] = Lifecycle

\* A worker joins itself, which ends the process, only if a status request came between the
\* start of its thread and the assignment of the jthread.
SelfJoinOnlyInRace == main = "crashed" => raced # {}

\* An accepted command ends, whatever the mod answers, although the answers queue behind
\* queries that wait for the command's own lock: a command is not taken twice, and time and
\* again none is running.
CommandEnds ==
    []<>(main = "crashed" \/ \A w \in Commands : pc[w] \in {"none", "completed", "exited"})

\* A stop request ends the process.
ServeEnds == stopping ~> ~Up

\* The mod's auto-save is released when a backup ends (docs/knotlink-v2.md:99).
FreezeReleased == main = "gone" => frozen = {}
=============================================================================
