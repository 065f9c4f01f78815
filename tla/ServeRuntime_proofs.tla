------------------------ MODULE ServeRuntime_proofs -------------------------
(* Proofs about ServeRuntime, for any commands, any job of two stages and   *)
(* any number of requests: types and the order of the locks, that services  *)
(* are not replaced under their users, that a job reports the truth, that a *)
(* worker joins itself in one race only, and the order of events.           *)
EXTENDS ServeRuntime, SequenceTheorems, TLAPS

BackupPlaces == {"reset", "handshake", "save", "archive"}
HotPlaces == {"ask", "shaking", "leaving", "restore", "apply", "rejoining"}
Mains == {"serve", "cancel", "close", "joinReader", "joinWorkers", "gone", "crashed"}
ControlPlaces == {"none", "submitted", "lock", "locked", "joining", "completed", "replied"}
Message == [kind : Answers \cup {"query"}, of : {NoOne}] \cup [kind : {"command"}, of : {{w} : w \in Commands}]
ReaderStates == [at : {"idle", "handle", "start", "attach"}, of : {{w} : w \in Commands} \cup {NoOne}]
Events == {"command_accepted", "command_started", "command_ended"}

\* The types of what the threads share, and the places a worker of each kind can be at.
Typed ==
    /\ pc \in [Workers -> Places]
    /\ \A b \in Backups : pc[b] \notin HotPlaces
    /\ \A h \in Hots : pc[h] \notin BackupPlaces \cup {"run"}
    /\ \A s \in Steps : pc[s] \in {"none", "run", "exited"} \cup BackupPlaces
    /\ code \in [Steps \cup {"job"} -> Codes]
    /\ control \in [Controls -> ControlPlaces] /\ control["apply"] # "joining"
    /\ stage \in Nat
    /\ reader \in ReaderStates
    /\ operations \subseteq Commands /\ attached \subseteq Commands /\ raced \subseteq Commands
    /\ inbox \in Seq(Message) /\ flags \subseteq Answers
    /\ bridge \in [running : BOOLEAN, closed : BOOLEAN]
    /\ events \in [Commands -> Seq(Events)]
    /\ main \in Mains
    /\ generation \in Nat /\ using \in [Workers -> Nat]

\* Who holds which lock, by its place.
BackupsHold ==
    \A b \in Backups : pc[b] \in BackupPlaces \cup {"run", "unlock"} => operation = {b} /\ state = {b}
HotsHold ==
    \A h \in Hots :
       /\ pc[h] \in HotPlaces \cup {"unlock"} => operation = {h}
       /\ pc[h] = "apply" => state = {h}
ControlsHold ==
    \A c \in Controls :
       /\ control[c] \in {"lock", "locked", "joining"} => execution = {c}
       /\ control[c] \in {"locked", "joining"} => operation = {c} /\ state = {c}
Held ==
    /\ {execution, operation, state} \subseteq {{o} : o \in Owners} \cup {NoOne}
    /\ state \in {NoOne, operation}
Locked == BackupsHold /\ HotsHold /\ ControlsHold /\ Held

\* The steps of the job.
Failed(s) == code[s] \in {"failed", "cancelled"}
Staged ==
    /\ \A s \in Steps : (pc[s] = "exited") = (code[s] # "none")
    /\ \A s \in Steps : pc[s] \notin {"none", "exited"} => control["job"] = "joining" /\ Stage[s] = stage
    /\ control["job"] \in {"none", "submitted", "lock"} => stage = 0 /\ \A s \in Steps : pc[s] = "none"
    /\ control["job"] \in {"locked", "joining"} => stage \in 1..3
    /\ control["job"] = "joining" => stage \in 1..2 /\ \A s \in Steps : Stage[s] > stage => pc[s] = "none"
    /\ control["job"] = "locked" => \A s \in Steps : Stage[s] >= stage => pc[s] = "none"
    /\ stage = 2 => \A s \in StepsOf(1) : code[s] = "ok"
    /\ stage = 3 => \/ \A s \in Steps : pc[s] = "exited"
                    \/ \E s \in Steps : Failed(s)

\* A command is sent, read and started once.
Sent(w) == [kind |-> "command", of |-> {w}]
Once ==
    /\ \A w \in Commands : \A i \in 1..Len(inbox) :
          inbox[i] = Sent(w) =>
             /\ pc[w] = "none" /\ reader.of # {w}
             /\ \A j \in 1..Len(inbox) : inbox[j] = Sent(w) => i = j
    /\ \A w \in reader.of : reader.at \in {"handle", "start"} <=> pc[w] = "none"
    /\ reader.at \in {"start", "attach"} => reader.of # NoOne
    /\ reader.at = "idle" => reader.of = NoOne
    /\ main \in {"joinReader", "joinWorkers", "gone"} => bridge.closed
    /\ main \in {"joinWorkers", "gone"} => reader = Idle
    /\ bridge.closed \/ bridge.running

\* A command under way is in the map, unless a status request took one out.
Mapped ==
    raced = {} => /\ \A w \in Commands : pc[w] \notin {"none", "exited"} => w \in operations
                  /\ reader.at = "start" => reader.of \subseteq operations
                  /\ main # "crashed"

\* The events a command has published by its place: the next ones are missing, and earlier
\* ones may be once the bridge has been stopped.
Upto(w) ==
    CASE pc[w] \in {"completed", "exited"} -> 3
      [] pc[w] \notin {"none", "completed", "exited"} -> 2
      [] pc[w] = "none" /\ reader.at = "start" /\ reader.of = {w} -> 1
      [] OTHER -> 0
Told ==
    \A w \in Commands :
       /\ \A i \in 1..Len(events[w]) : Rank[events[w][i]] <= Upto(w)
       /\ \A i, j \in 1..Len(events[w]) : i < j => Rank[events[w][i]] < Rank[events[w][j]]
       /\ bridge.closed \/ Len(events[w]) = Upto(w)

-----------------------------------------------------------------------------
(* Types.                                                                  *)

\* What a worker is decides what it does: commands are no steps, backups no restores.
LEMMA Kinds ==
  /\ \A b \in Backups : b \in Commands /\ b \in Workers /\ b \notin Hots /\ b \notin Steps
  /\ \A h \in Hots : h \in Commands /\ h \in Workers /\ h \notin Backups /\ h \notin Steps
  /\ \A s \in Steps : s \in Workers /\ s \notin Commands /\ s # "job"
  /\ \A w \in Commands : w \in Workers /\ w \in Owners /\ w \notin Controls
  /\ \A c \in Controls : c \in Owners
BY DistinctAssumption DEF Commands, Workers, Owners, Controls

\* The initial state is typed.
LEMMA InitTyped == Init => Typed
<1> SUFFICES ASSUME Init PROVE Typed
  OBVIOUS
<1>1. inbox \in Seq(Message) /\ \A w \in Commands : events[w] \in Seq(Events)
  BY EmptySeq DEF Init
<1>2. events \in [Commands -> Seq(Events)]
  BY <1>1 DEF Init
<1> QED
  BY <1>1, <1>2, Kinds DEF Init, Typed, Places, HotPlaces, BackupPlaces, Codes, ControlPlaces, Mains, Idle, ReaderStates, Controls

\* An answer of the mod arrives, or none.
LEMMA AskTyped ==
  ASSUME Typed, NEW e, Ask(e)
  PROVE  inbox' \in Seq(Message)
<1>1. [kind |-> Answer(e), of |-> NoOne] \in Message
  BY DEF Message, Answer, Answers
<1>2. Append(inbox, [kind |-> Answer(e), of |-> NoOne]) \in Seq(Message)
  BY <1>1, AppendProperties DEF Typed
<1> QED
  BY <1>2 DEF Typed, Ask

\* A published event is one event more.
LEMMA PublishTyped ==
  ASSUME Typed, NEW w \in Commands, NEW e \in Events, Publish(w, e)
  PROVE  events' \in [Commands -> Seq(Events)]
<1>1. Append(events[w], e) \in Seq(Events)
  BY AppendProperties DEF Typed
<1> QED
  BY <1>1 DEF Typed, Publish

\* A worker's next place is one of its kind.
LEMMA GotoTyped ==
  ASSUME Typed, NEW w \in Workers, NEW p \in Places, Goto(w, p),
         w \in Backups => p \notin HotPlaces,
         w \in Hots => p \notin BackupPlaces \cup {"run"},
         w \in Steps => p \in {"none", "run", "exited"} \cup BackupPlaces
  PROVE  /\ pc' \in [Workers -> Places]
         /\ \A b \in Backups : pc'[b] \notin HotPlaces
         /\ \A h \in Hots : pc'[h] \notin BackupPlaces \cup {"run"}
         /\ \A s \in Steps : pc'[s] \in {"none", "run", "exited"} \cup BackupPlaces
BY Kinds DEF Typed, Goto

\* A worker that ends is at a place its kind may be at.
LEMMA FinishTyped ==
  ASSUME Typed, NEW w \in Backups \cup Steps, NEW c \in Codes, Finish(w, c)
  PROVE  /\ pc' \in [Workers -> Places]
         /\ \A b \in Backups : pc'[b] \notin HotPlaces
         /\ \A h \in Hots : pc'[h] \notin BackupPlaces \cup {"run"}
         /\ \A s \in Steps : pc'[s] \in {"none", "run", "exited"} \cup BackupPlaces
         /\ code' \in [Steps \cup {"job"} -> Codes]
<1>1. code' \in [Steps \cup {"job"} -> Codes]
  BY DEF Typed, Finish
<1> QED
  BY <1>1, Kinds, GotoTyped DEF Finish, Places, HotPlaces, BackupPlaces

\* The reader is idle or works for one command or for a query.
LEMMA ReaderOf ==
  ASSUME reader \in ReaderStates
  PROVE  /\ \A w \in reader.of : w \in Commands /\ reader.of = {w}
         /\ \A p \in {"idle", "handle", "start", "attach"} : [reader EXCEPT !.at = p] \in ReaderStates
BY DEF ReaderStates, NoOne

\* What the reader does next.
LEMMA NextReader ==
  ASSUME NEW m \in Message
  PROVE  m.kind \notin Answers => [at |-> "handle", of |-> m.of] \in ReaderStates
BY DEF Message, ReaderStates, NoOne, Answers

\* The idle reader is a state of the reader.
LEMMA IdleReader == Idle \in ReaderStates
BY DEF ReaderStates, Idle, NoOne

\* The reader thread keeps the types.
LEMMA ReaderTyped ==
  ASSUME Typed, Reader
  PROVE  Typed'
<1> USE DEF lifetimes, loop, mod, locks, threads
<1>1. CASE ReadMessage
  <2>1. Head(inbox) \in Message /\ Tail(inbox) \in Seq(Message)
    BY <1>1, HeadTailProperties DEF Typed, ReadMessage
  <2>2. /\ flags' \subseteq Answers
        /\ reader' \in ReaderStates
    BY <1>1, <2>1, NextReader, IdleReader DEF Typed, ReadMessage
  <2> QED
    BY <1>1, <2>1, <2>2 DEF Typed, ReadMessage
<1>2. CASE Query
  BY <1>2, IdleReader DEF Typed, Query
<1>3. CASE Submit
  <2> PICK w \in reader.of :
         \/ operations' \subseteq operations /\ reader' = Idle /\ UNCHANGED events
         \/ /\ operations' \subseteq operations \cup {w}
            /\ Publish(w, "command_accepted")
            /\ reader' = [reader EXCEPT !.at = "start"]
    BY <1>3 DEF Submit
  <2>w. w \in Commands
    BY ReaderOf DEF Typed
  <2>1. events' \in [Commands -> Seq(Events)]
    BY <2>w, PublishTyped DEF Events, Typed
  <2>2. reader' \in ReaderStates
    BY ReaderOf, IdleReader DEF Typed
  <2> QED
    BY <1>3, <2>w, <2>1, <2>2 DEF Typed, Submit
<1>4. CASE StartThread
  <2> PICK w \in reader.of : Goto(w, "lock") /\ Publish(w, "command_started")
    BY <1>4 DEF StartThread, Goto
  <2>w. w \in Commands /\ w \in Workers /\ w \notin Steps
    BY Kinds, ReaderOf DEF Typed
  <2>1. events' \in [Commands -> Seq(Events)]
    BY <2>w, PublishTyped DEF Events
  <2>2. reader' \in ReaderStates
    BY <1>4, ReaderOf DEF Typed, StartThread
  <2>3. /\ pc' \in [Workers -> Places]
        /\ \A b \in Backups : pc'[b] \notin HotPlaces
        /\ \A h \in Hots : pc'[h] \notin BackupPlaces \cup {"run"}
        /\ \A s \in Steps : pc'[s] \in {"none", "run", "exited"} \cup BackupPlaces
    BY <2>w, GotoTyped DEF Places, HotPlaces, BackupPlaces
  <2> QED
    BY <1>4, <2>1, <2>2, <2>3 DEF Typed, StartThread
<1>5. CASE AttachThread
  BY <1>5, ReaderOf, IdleReader DEF Typed, AttachThread
<1> QED
  BY <1>1, <1>2, <1>3, <1>4, <1>5 DEF Reader

\* A backup, of a command or of a job, keeps the types.
LEMMA BackupTyped ==
  ASSUME Typed, NEW w \in Backups \cup Steps, Backup(w)
  PROVE  Typed'
<1> USE DEF lifetimes, loop, mod, locks, threads, Places, HotPlaces, BackupPlaces
<1>k. w \in Workers /\ w \notin Hots
  BY Kinds
<1>1. CASE Preflight(w)
  <2>1. /\ pc' \in [Workers -> Places]
        /\ \A b \in Backups : pc'[b] \notin HotPlaces
        /\ \A h \in Hots : pc'[h] \notin BackupPlaces \cup {"run"}
        /\ \A s \in Steps : pc'[s] \in {"none", "run", "exited"} \cup BackupPlaces
        /\ code' \in [Steps \cup {"job"} -> Codes]
    <3>1. CASE \E p \in {"reset", "archive"} : Goto(w, p) /\ UNCHANGED code
      BY <1>k, <3>1, GotoTyped DEF Typed
    <3>2. CASE \E c \in {"failed", "cancelled"} : Finish(w, c)
      BY <3>2, FinishTyped DEF Codes
    <3> QED
      BY <1>1, <3>1, <3>2 DEF Preflight
  <2>2. using' \in [Workers -> Nat]
    BY <1>1, <1>k DEF Preflight, Typed
  <2> QED
    BY <1>1, <2>1, <2>2 DEF Typed, Preflight
<1>2. CASE ResetFlags(w)
  <2>1. CASE bridge' = [bridge EXCEPT !.running = TRUE] /\ flags' = flags \ {"shook", "saved"}
             /\ Ask("handshake") /\ Goto(w, "handshake")
    BY <1>2, <1>k, <2>1, AskTyped, GotoTyped DEF Typed, ResetFlags
  <2>2. CASE Goto(w, "archive") /\ UNCHANGED <<bridge, flags, inbox>>
    BY <1>2, <1>k, <2>2, GotoTyped DEF Typed, ResetFlags
  <2> QED
    BY <1>2, <2>1, <2>2 DEF ResetFlags
<1>3. CASE AskToSave(w)
  <2>1. CASE Ask("pre_hot_backup") /\ Goto(w, "save")
    BY <1>3, <1>k, <2>1, AskTyped, GotoTyped DEF Typed, AskToSave
  <2>2. CASE Goto(w, "archive") /\ UNCHANGED <<inbox>>
    BY <1>3, <1>k, <2>2, GotoTyped DEF Typed, AskToSave
  <2> QED
    BY <1>3, <2>1, <2>2 DEF AskToSave
<1>4. CASE Saved(w)
  BY <1>4, <1>k, GotoTyped DEF Typed, Saved
<1>5. CASE GiveUpMod(w)
  <2>1. CASE Finish(w, "cancelled")
    BY <1>5, <2>1, FinishTyped DEF Typed, GiveUpMod, Codes
  <2>2. CASE Goto(w, "archive") /\ UNCHANGED code
    BY <1>5, <1>k, <2>2, GotoTyped DEF Typed, GiveUpMod
  <2> QED
    BY <1>5, <2>1, <2>2 DEF GiveUpMod
<1>6. CASE Archive(w)
  <2> PICK c \in Codes : Finish(w, c)
    BY <1>6 DEF Archive, Codes
  <2> QED
    BY <1>6, FinishTyped DEF Typed, Archive
<1> QED
  BY <1>1, <1>2, <1>3, <1>4, <1>5, <1>6 DEF Backup

\* A hot restore keeps the types.
LEMMA HotTyped ==
  ASSUME Typed, NEW w \in Hots, HotRestore(w)
  PROVE  Typed'
<1> USE DEF lifetimes, loop, mod, locks, threads, Places, HotPlaces, BackupPlaces, End
<1>k. w \in Workers /\ w \notin Backups /\ w \notin Steps
  BY Kinds
<1>1. \E p \in HotPlaces \cup {"unlock"} : Goto(w, p)
  BY DEF HotRestore, Verify, Shake, AskToLeave, Left, GiveUpRestore, LockState, Apply, Rejoined, Emit
<1>2. /\ pc' \in [Workers -> Places]
      /\ \A b \in Backups : pc'[b] \notin HotPlaces
      /\ \A h \in Hots : pc'[h] \notin BackupPlaces \cup {"run"}
      /\ \A s \in Steps : pc'[s] \in {"none", "run", "exited"} \cup BackupPlaces
  BY <1>k, <1>1, GotoTyped
<1>3. UNCHANGED inbox \/ \E e \in {"handshake", "pre_hot_restore", "rejoin_world"} : Ask(e)
  BY DEF HotRestore, Verify, Shake, AskToLeave, Left, GiveUpRestore, LockState, Apply, Rejoined, Emit
<1>4. inbox' \in Seq(Message)
  BY <1>3, AskTyped DEF Typed
<1>5. using' \in [Workers -> Nat] /\ flags' \subseteq Answers
  <2>1. using' \in {using, [using EXCEPT ![w] = generation]} /\ flags' \in {{}, flags}
    BY DEF HotRestore, Verify, Shake, AskToLeave, Left, GiveUpRestore, LockState, Apply, Rejoined
  <2>2. [using EXCEPT ![w] = generation] \in [Workers -> Nat]
    BY <1>k DEF Typed
  <2> QED
    BY <2>1, <2>2 DEF Typed
<1>6. UNCHANGED <<reader, code, control, stage, frozen, bridge, events, lifetimes, main, generation>>
  BY DEF HotRestore, Verify, Shake, AskToLeave, Left, GiveUpRestore, LockState, Apply, Rejoined
<1> QED
  BY <1>2, <1>4, <1>5, <1>6 DEF Typed

\* The thread of a command keeps the types.
LEMMA CommandTyped ==
  ASSUME Typed, NEW w \in Commands, Command(w) \/ (w \in Backups /\ LockBoth(w))
  PROVE  Typed'
<1> USE DEF lifetimes, loop, mod, locks, threads, Places, HotPlaces, BackupPlaces
<1>k. w \in Workers /\ w \notin Steps
  BY Kinds
<1>1. CASE Unlock(w)
  <2>1. events' \in [Commands -> Seq(Events)]
    BY <1>1, PublishTyped DEF Unlock, Events
  <2> QED
    BY <1>1, <1>k, <2>1, GotoTyped DEF Typed, Unlock
<1>2. CASE Exit(w)
  BY <1>2, <1>k, GotoTyped DEF Typed, Exit, Mains
<1>3. CASE w \in Backups /\ LockBoth(w)
  BY <1>3, <1>k, Kinds, GotoTyped DEF Typed, LockBoth
<1> QED
  BY <1>1, <1>2, <1>3 DEF Command

\* The job and the reloading of the configuration keep the types.
LEMMA ControlTyped ==
  ASSUME Typed, NEW c \in Controls, Control(c)
  PROVE  Typed'
<1> USE ServeAssumption DEF lifetimes, loop, mod, locks, threads, ControlPlaces
<1>1. CASE LockExecution(c)
  BY <1>1 DEF Typed, LockExecution, Move
<1>2. CASE LockRuntime(c)
  BY <1>2 DEF Typed, LockRuntime, Move
<1>3. CASE c = "apply" /\ Reload
  BY <1>3 DEF Typed, Reload, Release, Move
<1>4. CASE c = "job" /\ StartStage
  <2>1. pc' \in [Workers -> Places] /\ \A w \in Commands : pc'[w] = pc[w]
    BY <1>4, Kinds DEF Typed, StartStage, Places, StepsOf
  <2>3. control' \in [Controls -> ControlPlaces] /\ control'["apply"] = control["apply"]
    BY <1>4 DEF Typed, StartStage, Move, Controls
  <2>2. \A s \in Steps : pc'[s] \in {"run", pc[s]}
    BY <1>4, Kinds DEF StartStage
  <2> QED
    BY <1>4, <2>1, <2>2, <2>3, Kinds DEF Typed, StartStage, BackupPlaces, HotPlaces
<1>5. CASE c = "job" /\ JoinStage
  <2>1. stage' \in Nat
    BY <1>5 DEF Typed, JoinStage
  <2> QED
    BY <1>5, <2>1 DEF Typed, JoinStage, Move
<1>6. CASE c = "job" /\ EndJob
  <2>1. code' \in [Steps \cup {"job"} -> Codes]
    BY <1>6 DEF Typed, EndJob, Aggregate, Codes
  <2> QED
    BY <1>6, <2>1 DEF Typed, EndJob, Release, Move
<1> QED
  BY <1>1, <1>2, <1>3, <1>4, <1>5, <1>6 DEF Control, Job

\* The other threads: the main loop with its requests, and the clients.
LEMMA MainTyped ==
  ASSUME Typed, Main \/ Requests
  PROVE  Typed'
<1> USE DEF lifetimes, loop, mod, locks, threads, Mains, ControlPlaces
<1>1. CASE \E c \in Controls : Reap(c)
  BY <1>1 DEF Typed, Reap, Move
<1>2. CASE \E c \in Controls : SubmitControl(c)
  BY <1>2 DEF Typed, SubmitControl, Request, Move
<1>3. CASE Status
  BY <1>3 DEF Typed, Status
<1>4. CASE StopServe
  BY <1>4 DEF Typed, StopServe
<1>5. CASE CancelControl
  BY <1>5 DEF Typed, CancelControl
<1>6. CASE LeaveLoop \/ CancelCommands \/ JoinReader
  BY <1>6 DEF Typed, LeaveLoop, CancelCommands, JoinReader
<1>7. CASE CloseBridge \/ JoinWorkers
  <2>1. bridge' \in [running : BOOLEAN, closed : BOOLEAN]
    <3>1. CASE CloseBridge
      BY <3>1 DEF CloseBridge
    <3>2. CASE JoinWorkers
      BY <3>2 DEF Typed, JoinWorkers
    <3> QED
      BY <1>7, <3>1, <3>2
  <2> QED
    BY <1>7, <2>1 DEF Typed, CloseBridge, JoinWorkers
<1>8. CASE ClientSends
  <2>1. \A w \in Commands : [kind |-> "command", of |-> {w}] \in Message
    BY DEF Message
  <2>2. [kind |-> "query", of |-> NoOne] \in Message
    BY DEF Message
  <2>3. PICK m \in Message : inbox' = Append(inbox, m)
    BY <1>8, <2>1, <2>2 DEF ClientSends, Arrives
  <2>4. inbox' \in Seq(Message)
    BY <2>3, AppendProperties DEF Typed
  <2> QED
    BY <1>8, <2>4 DEF Typed, ClientSends
<1> QED
  BY <1>1, <1>2, <1>3, <1>4, <1>5, <1>6, <1>7, <1>8 DEF Main, Shutdown, Requests

\* Every step keeps the types.
LEMMA NextTyped == Typed /\ [Next]_vars => Typed'
<1> SUFFICES ASSUME Typed, [Next]_vars PROVE Typed'
  OBVIOUS
<1>1. CASE UNCHANGED vars
  BY <1>1 DEF Typed, vars, threads, locks, mod, lifetimes, loop
<1>2. ASSUME NEW w \in Workers, Worker(w) PROVE Typed'
  BY <1>2, BackupTyped, HotTyped, CommandTyped, Kinds DEF Worker
<1> QED
  BY <1>1, <1>2, ReaderTyped, MainTyped, ControlTyped DEF Next

\* The types hold of every behaviour.
LEMMA AlwaysTyped == Spec => []Typed
BY InitTyped, NextTyped, PTL DEF Spec

-----------------------------------------------------------------------------
(* The locks.                                                              *)

\* Nobody else is where operationMutex_ is owned.
LEMMA Alone ==
  ASSUME Locked, NEW o \in Owners, operation = {o}
  PROVE  /\ \A b \in Backups : b # o => pc[b] \notin BackupPlaces \cup {"run", "unlock"}
         /\ \A h \in Hots : h # o => pc[h] \notin HotPlaces \cup {"unlock"}
         /\ \A c \in Controls : c # o => control[c] \notin {"locked", "joining"}
BY DEF Locked, BackupsHold, HotsHold, ControlsHold

\* At first nobody holds a lock.
LEMMA InitLocked == Init => Locked
BY Kinds DEF Init, Locked, BackupsHold, HotsHold, ControlsHold, Held, BackupPlaces, HotPlaces, Controls

\* A backup inside the scoped_lock, and the steps of a job, leave the locks alone.
LEMMA BackupLocked ==
  ASSUME Typed, Locked, NEW w \in Backups \cup Steps, Backup(w)
  PROVE  Locked'
<1>1. UNCHANGED <<control, execution, operation, state>>
  BY DEF Backup, Preflight, ResetFlags, AskToSave, Saved, GiveUpMod, Archive, locks
<1>2. pc[w] \in BackupPlaces \cup {"run"}
  BY DEF Backup, Preflight, ResetFlags, AskToSave, Saved, GiveUpMod, Archive, BackupPlaces, At, WaitEnds
<1>3. \E p \in Places : Goto(w, p)
  BY DEF Backup, Preflight, ResetFlags, AskToSave, Saved, GiveUpMod, Archive, Finish, Places
<1>4. w \in Workers /\ \A v \in Workers : v # w => pc'[v] = pc[v]
  BY <1>3, Kinds DEF Typed, Goto
<1>5. \A h \in Hots : pc'[h] = pc[h]
  BY <1>4, Kinds
<1>6. \A b \in Backups : pc'[b] \in BackupPlaces \cup {"run", "unlock"} => operation = {b} /\ state = {b}
  <2> TAKE b \in Backups
  <2>1. CASE b = w
    BY <1>2, <2>1 DEF Locked, BackupsHold, HotsHold, ControlsHold, Held
  <2>2. CASE b # w
    BY <1>4, <2>2, Kinds DEF Locked, BackupsHold, HotsHold, ControlsHold, Held
  <2> QED
    BY <2>1, <2>2
<1> QED
  BY <1>1, <1>5, <1>6 DEF Locked, BackupsHold, HotsHold, ControlsHold, Held

\* A hot restore takes and gives back the locks in its places.
LEMMA HotLocked ==
  ASSUME Typed, Locked, NEW w \in Hots, HotRestore(w)
  PROVE  Locked'
<1> USE DEF locks, Goto, At, WaitEnds, HotPlaces, BackupPlaces
<1>1. w \in Workers /\ w \in Owners /\ w \notin Controls /\ w \notin Backups
  BY Kinds
<1>2. CASE Verify(w)
  BY <1>1, <1>2, Kinds DEF Verify, Typed, Locked, BackupsHold, HotsHold, ControlsHold, Held, End, NoOne
<1>3. CASE LockState(w)
  BY <1>1, <1>3, Kinds DEF LockState, Typed, Locked, BackupsHold, HotsHold, ControlsHold, Held, End, NoOne
<1>4. CASE Apply(w)
  <2>1. pc[w] = "apply" /\ state' = NoOne /\ UNCHANGED <<control, execution, operation>>
    BY <1>4 DEF Apply
  <2>2. Goto(w, "rejoining") \/ Goto(w, "unlock")
    BY <1>4 DEF Apply, Emit, End
  <2>3. operation = {w}
    BY <1>1, <2>1 DEF Locked, HotsHold
  <2>4. /\ \A b \in Backups : pc[b] \notin BackupPlaces \cup {"run", "unlock"}
        /\ \A h \in Hots : h # w => pc[h] \notin HotPlaces \cup {"unlock"}
        /\ \A d \in Controls : control[d] \notin {"locked", "joining"}
    BY <1>1, <2>3, Alone, Kinds
  <2>b. BackupsHold'
    BY <1>1, <2>1, <2>2, <2>3, <2>4, Kinds DEF Goto, Typed, Locked, BackupsHold
  <2>h. HotsHold'
    BY <1>1, <2>1, <2>2, <2>3, <2>4, Kinds DEF Goto, Typed, Locked, HotsHold
  <2>c. ControlsHold'
    BY <1>1, <2>1, <2>2, <2>3, <2>4, Kinds DEF Goto, Typed, Locked, ControlsHold
  <2>k. Held'
    BY <2>1 DEF NoOne, Locked, Held
  <2> QED
    BY <2>b, <2>h, <2>c, <2>k DEF Locked
<1>5. CASE Shake(w) \/ AskToLeave(w) \/ Left(w) \/ GiveUpRestore(w) \/ Rejoined(w)
  <2>1. pc[w] \in HotPlaces /\ UNCHANGED <<control, execution, operation, state>>
    BY <1>5 DEF Shake, AskToLeave, Left, GiveUpRestore, Rejoined
  <2>2. \E p \in HotPlaces \cup {"unlock"} : Goto(w, p) /\ p # "apply"
    BY <1>5 DEF Shake, AskToLeave, Left, GiveUpRestore, Rejoined, Emit, End
  <2>b. BackupsHold'
    BY <1>1, <1>5, <2>1, <2>2, Kinds DEF Goto, Typed, Locked, BackupsHold, HotsHold, ControlsHold, Held
  <2>h. HotsHold'
    BY <1>1, <1>5, <2>1, <2>2, Kinds DEF Goto, Typed, Locked, BackupsHold, HotsHold, ControlsHold, Held
  <2>c. ControlsHold'
    BY <1>1, <1>5, <2>1, <2>2, Kinds DEF Goto, Typed, Locked, BackupsHold, HotsHold, ControlsHold, Held
  <2>k. Held'
    BY <1>1, <1>5, <2>1, <2>2, Kinds DEF Goto, Typed, Typed, Locked, BackupsHold, HotsHold, ControlsHold, Held
  <2> QED
    BY <2>b, <2>h, <2>c, <2>k DEF Locked
<1> QED
  BY <1>2, <1>3, <1>4, <1>5 DEF HotRestore

\* A command takes its locks before its work and gives them back after it.
LEMMA CommandLocked ==
  ASSUME Typed, Locked, NEW w \in Commands, Command(w) \/ (w \in Backups /\ LockBoth(w))
  PROVE  Locked'
<1> USE DEF locks, Goto, At, HotPlaces, BackupPlaces
<1>1. w \in Workers /\ w \in Owners /\ w \notin Controls /\ w \in Backups \cup Hots
  BY Kinds DEF Commands
<1>2. CASE Unlock(w)
  <2>1. operation = {w} /\ state \in {{w}, NoOne}
    BY <1>1, <1>2 DEF Unlock, Locked, BackupsHold, HotsHold, Held
  <2>b. BackupsHold'
    BY <1>1, <1>2, <2>1, Kinds DEF Unlock, Typed, NoOne, Locked, BackupsHold, HotsHold, ControlsHold, Held
  <2>h. HotsHold'
    BY <1>1, <1>2, <2>1, Kinds DEF Unlock, Typed, NoOne, Locked, BackupsHold, HotsHold, ControlsHold, Held
  <2>c. ControlsHold'
    BY <1>1, <1>2, <2>1, Kinds DEF Unlock, Typed, NoOne, Locked, BackupsHold, HotsHold, ControlsHold, Held
  <2>k. Held'
    BY <1>1, <1>2, <2>1, Kinds DEF Unlock, Typed, NoOne, Typed, Locked, BackupsHold, HotsHold, ControlsHold, Held
  <2> QED
    BY <2>b, <2>h, <2>c, <2>k DEF Locked
<1>3. CASE Exit(w)
  BY <1>1, <1>3, Kinds DEF Exit, Typed, Locked, BackupsHold, HotsHold, ControlsHold, Held
<1>4. CASE w \in Backups /\ LockBoth(w)
  BY <1>1, <1>4, Kinds DEF LockBoth, Typed, Locked, BackupsHold, HotsHold, ControlsHold, Held, NoOne
<1> QED
  BY <1>2, <1>3, <1>4 DEF Command

\* The job and the reloading hold the execution lock where they say so.
LEMMA ControlLocked ==
  ASSUME Typed, Locked, NEW c \in Controls, Control(c)
  PROVE  Locked'
<1> USE DEF locks, HotPlaces, BackupPlaces, ControlAt, Move
<1>1. c \in Owners
  BY Kinds
<1>2. CASE LockExecution(c)
  BY <1>1, <1>2, Kinds DEF LockExecution, Typed, Locked, BackupsHold, HotsHold, ControlsHold, Held, NoOne
<1>3. CASE LockRuntime(c)
  BY <1>1, <1>3, Kinds DEF LockRuntime, Typed, Locked, BackupsHold, HotsHold, ControlsHold, Held, NoOne
<1>4. CASE c = "apply" /\ Reload
  <2>1. control[c] = "locked" /\ execution = {c} /\ operation = {c}
    BY <1>4 DEF Reload, Locked, ControlsHold
  <2>2. /\ \A b \in Backups : pc[b] \notin BackupPlaces \cup {"run", "unlock"}
        /\ \A h \in Hots : pc[h] \notin HotPlaces \cup {"unlock"}
        /\ \A d \in Controls : d # c => control[d] \notin {"lock", "locked", "joining"}
    BY <1>1, <2>1, Alone, Kinds DEF Locked, ControlsHold
  <2>b. BackupsHold'
    BY <1>4, <2>1, <2>2, Kinds DEF Reload, Release, Typed, BackupsHold
  <2>h. HotsHold'
    BY <1>4, <2>1, <2>2, Kinds DEF Reload, Release, Typed, HotsHold
  <2>c. ControlsHold'
    BY <1>4, <2>1, <2>2, Kinds DEF Reload, Release, Typed, ControlsHold
  <2>k. Held'
    BY <1>4 DEF Reload, Release, NoOne, Held
  <2> QED
    BY <2>b, <2>h, <2>c, <2>k DEF Locked
<1>5. CASE c = "job" /\ StartStage
  <2>1. \A w \in Commands : pc'[w] = pc[w]
    BY <1>5, Kinds DEF StartStage, StepsOf
  <2> QED
    BY <1>1, <1>5, <2>1, Kinds DEF StartStage, Typed, Locked, BackupsHold, HotsHold, ControlsHold, Held
<1>6. CASE c = "job" /\ JoinStage
  BY <1>1, <1>6, Kinds DEF JoinStage, Typed, Locked, BackupsHold, HotsHold, ControlsHold, Held
<1>7. CASE c = "job" /\ EndJob
  <2>1. control[c] = "locked" /\ execution = {c} /\ operation = {c}
    BY <1>7 DEF EndJob, Locked, ControlsHold
  <2>2. /\ \A b \in Backups : pc[b] \notin BackupPlaces \cup {"run", "unlock"}
        /\ \A h \in Hots : pc[h] \notin HotPlaces \cup {"unlock"}
        /\ \A d \in Controls : d # c => control[d] \notin {"lock", "locked", "joining"}
    BY <1>1, <2>1, Alone, Kinds DEF Locked, ControlsHold
  <2>b. BackupsHold'
    BY <1>7, <2>1, <2>2, Kinds DEF EndJob, Release, Typed, BackupsHold
  <2>h. HotsHold'
    BY <1>7, <2>1, <2>2, Kinds DEF EndJob, Release, Typed, HotsHold
  <2>c. ControlsHold'
    BY <1>7, <2>1, <2>2, Kinds DEF EndJob, Release, Typed, ControlsHold
  <2>k. Held'
    BY <1>7 DEF EndJob, Release, NoOne, Held
  <2> QED
    BY <2>b, <2>h, <2>c, <2>k DEF Locked
<1> QED
  BY <1>2, <1>3, <1>4, <1>5, <1>6, <1>7 DEF Control, Job

\* The reader starts workers that hold nothing; the main loop moves commands that hold nothing.
LEMMA OthersLocked ==
  ASSUME Typed, Locked, Reader \/ Main \/ Requests
  PROVE  Locked'
<1> USE DEF locks, threads, HotPlaces, BackupPlaces, Move
<1>1. CASE StartThread
  <2>1. PICK w \in reader.of : Goto(w, "lock")
    BY <1>1 DEF StartThread, Goto
  <2> QED
    BY <1>1, <2>1, Kinds DEF StartThread, Goto, Typed, Locked, BackupsHold, HotsHold, ControlsHold, Held
<1>2. CASE ReadMessage \/ Query \/ Submit \/ AttachThread
  BY <1>2 DEF ReadMessage, Query, Submit, AttachThread, Locked, BackupsHold, HotsHold, ControlsHold, Held
<1>3. CASE \E c \in Controls : Reap(c) \/ SubmitControl(c)
  <2>b. BackupsHold'
    BY <1>3 DEF Reap, SubmitControl, Typed, Locked, BackupsHold, HotsHold, ControlsHold, Held
  <2>h. HotsHold'
    BY <1>3 DEF Reap, SubmitControl, Typed, Locked, BackupsHold, HotsHold, ControlsHold, Held
  <2>c. ControlsHold'
    BY <1>3 DEF Reap, SubmitControl, Typed, Locked, BackupsHold, HotsHold, ControlsHold, Held
  <2>k. Held'
    BY <1>3 DEF Reap, SubmitControl, Locked, Held
  <2> QED
    BY <2>b, <2>h, <2>c, <2>k DEF Locked
<1>4. CASE Shutdown \/ Status \/ StopServe \/ CancelControl \/ ClientSends
  BY <1>4 DEF Shutdown, LeaveLoop, CancelCommands, CloseBridge, JoinReader, JoinWorkers,
     Status, StopServe, CancelControl, ClientSends, Locked, BackupsHold, HotsHold, ControlsHold, Held
<1> QED
  BY <1>1, <1>2, <1>3, <1>4 DEF Reader, Main, Requests

\* Every step keeps the locks with those whose places hold them.
LEMMA NextLocked == Typed /\ Locked /\ [Next]_vars => Locked'
<1> SUFFICES ASSUME Typed, Locked, [Next]_vars PROVE Locked'
  OBVIOUS
<1>1. CASE UNCHANGED vars
  BY <1>1 DEF Locked, BackupsHold, HotsHold, ControlsHold, Held, vars, threads, locks
<1>2. ASSUME NEW w \in Workers, Worker(w) PROVE Locked'
  BY <1>2, BackupLocked, HotLocked, CommandLocked, Kinds DEF Worker
<1> QED
  BY <1>1, <1>2, OthersLocked, ControlLocked DEF Next

\* Types, and the order of the locks: only who owns operationMutex_ owns stateMutex_, as
\* CliApplication, ProfileKnotLinkCommands and ProfileRuntime take them.
THEOREM Typing == Spec => []TypeOK
<1>1. Typed /\ Locked => TypeOK
  BY DEF Typed, Locked, Held, TypeOK
<1> QED
  BY <1>1, InitTyped, NextTyped, InitLocked, NextLocked, PTL DEF Spec

-----------------------------------------------------------------------------
(* The job.                                                                *)

\* What a thread of BackupService does to its place and to its result.
LEMMA BackupMoves ==
  ASSUME Typed, NEW w \in Backups \cup Steps, Backup(w)
  PROVE  /\ pc[w] \in BackupPlaces \cup {"run"} /\ UNCHANGED <<control, stage>>
         /\ \/ code' = code /\ \E p \in BackupPlaces : Goto(w, p)
            \/ \E c \in {"ok", "failed", "cancelled"} : Finish(w, c)
<1>1. pc[w] \in BackupPlaces \cup {"run"} /\ UNCHANGED <<control, stage>>
  BY DEF Backup, Preflight, ResetFlags, AskToSave, Saved, GiveUpMod, Archive, BackupPlaces, At, WaitEnds
<1>2. \/ code' = code /\ \E p \in BackupPlaces : Goto(w, p)
      \/ \E c \in {"ok", "failed", "cancelled"} : Finish(w, c)
  BY DEF Backup, Preflight, ResetFlags, AskToSave, Saved, GiveUpMod, Archive, BackupPlaces
<1> QED
  BY <1>1, <1>2

\* A command's thread leaves the job alone, and so do the reader, the clients and the mod.
LEMMA JobAlone ==
  ASSUME Typed,
         \/ Reader \/ Requests \/ Main
         \/ \E w \in Commands : Worker(w)
         \/ Control("apply") \/ UNCHANGED vars
  PROVE  /\ \A s \in Steps : pc'[s] = pc[s]
         /\ code' = code /\ stage' = stage
         /\ \/ control'["job"] = control["job"]
            \/ control["job"] = "none" /\ control'["job"] = "submitted"
            \/ control["job"] = "completed" /\ control'["job"] = "replied"
<1> USE DEF lifetimes, loop, mod, locks, threads
<1>1. CASE StartThread
  <2>1. PICK w \in reader.of : Goto(w, "lock")
    BY <1>1 DEF StartThread, Goto
  <2>2. w \notin Steps
    BY ReaderOf, Kinds DEF Typed
  <2> QED
    BY <1>1, <2>1, <2>2, Kinds DEF StartThread, Goto, Typed
<1>2. CASE ReadMessage \/ Query \/ Submit \/ AttachThread
  BY <1>2 DEF ReadMessage, Query, Submit, AttachThread
<1>3. CASE \E c \in Controls : Reap(c) \/ SubmitControl(c)
  BY <1>3 DEF Reap, SubmitControl, Typed, Move, Controls
<1>4. CASE Shutdown \/ Status \/ StopServe \/ CancelControl \/ ClientSends
  BY <1>4 DEF Shutdown, LeaveLoop, CancelCommands, CloseBridge, JoinReader, JoinWorkers,
     Status, StopServe, CancelControl, ClientSends
<1>5. ASSUME NEW w \in Commands, Worker(w)
      PROVE  (\E p \in Places : Goto(w, p)) /\ code' = code /\ stage' = stage /\ control' = control
  <2>1. CASE Command(w) \/ LockBoth(w)
    BY <2>1 DEF Command, Unlock, Exit, LockBoth, Places
  <2>2. CASE w \in Backups /\ Backup(w)
    BY <2>2, BackupMoves, Kinds DEF Finish, Places, BackupPlaces
  <2>3. CASE w \in Hots /\ HotRestore(w)
    BY <2>3 DEF HotRestore, Verify, Shake, AskToLeave, Left, GiveUpRestore, LockState, Apply, Rejoined,
       Emit, End, Places
  <2> QED
    BY <1>5, <2>1, <2>2, <2>3, Kinds DEF Worker
<1>6. CASE \E w \in Commands : Worker(w)
  BY <1>5, <1>6, Kinds DEF Goto, Typed
<1>7. CASE Control("apply")
  BY <1>7 DEF Control, LockExecution, LockRuntime, Reload, Release, Move, Typed, Controls
<1>8. CASE UNCHANGED vars
  BY <1>8 DEF vars
<1> QED
  BY <1>1, <1>2, <1>3, <1>4, <1>6, <1>7, <1>8 DEF Reader, Requests, Main

\* At first no stage has begun.
LEMMA InitStaged == Init => Staged /\ JobSound
BY Kinds DEF Init, Staged, JobSound, Controls, StepsOf

\* A step of the running stage goes on, or ends with its result.
LEMMA StepStaged ==
  ASSUME Typed, Staged, JobSound, NEW w \in Steps, Worker(w)
  PROVE  Staged' /\ JobSound'
<1>1. Backup(w) /\ w \in Workers
  BY Kinds DEF Worker
<1>2. control["job"] = "joining" /\ Stage[w] = stage /\ stage \in 1..2 /\ code[w] = "none"
  BY <1>1, BackupMoves DEF Staged, BackupPlaces
<1>3. /\ UNCHANGED <<control, stage>>
      /\ \A s \in Steps : s # w => pc'[s] = pc[s] /\ code'[s] = code[s]
      /\ code'["job"] = code["job"]
      /\ \/ pc'[w] \in BackupPlaces /\ code'[w] = "none"
         \/ pc'[w] = "exited" /\ code'[w] \in {"ok", "failed", "cancelled"}
  BY <1>1, <1>2, BackupMoves, Kinds DEF Finish, Goto, Typed
<1>4. \A r \in Steps : code[r] = "ok" => code'[r] = "ok"
  BY <1>2, <1>3
<1>5. Staged'
  BY <1>2, <1>3, <1>4 DEF Staged, StepsOf, BackupPlaces
<1>6. JobSound'
  BY <1>1, <1>2, <1>3, <1>4, BackupMoves DEF JobSound, StepsOf, BackupPlaces
<1> QED
  BY <1>5, <1>6

\* What the result of some steps says of them.
LEMMA AggregateOk ==
  ASSUME Typed, NEW S \in SUBSET Steps, Aggregate(S) = "ok"
  PROVE  \A s \in S : code[s] \in {"none", "ok"}
<1>1. "cancelled" \notin CodesOf(S) /\ "failed" \notin CodesOf(S)
  BY DEF Aggregate
<1>2. \A s \in S : code[s] \in Codes
  BY DEF Typed
<1> QED
  BY <1>1, <1>2 DEF CodesOf, Codes

\* The thread of the job starts a stage after the one before it has ended well.
LEMMA JobStaged ==
  ASSUME Typed, Staged, JobSound, Control("job")
  PROVE  Staged' /\ JobSound'
<1> USE ServeAssumption DEF locks, lifetimes, loop, mod, ControlAt, Move
<1>j. "job" \in Controls /\ Steps \subseteq Workers /\ \A s \in Steps : s # "job" /\ Stage[s] \in 1..2
  BY Kinds DEF Controls
<1>1. CASE LockExecution("job")
  BY <1>1, <1>j DEF LockExecution, Typed, Staged, JobSound, StepsOf
<1>2. CASE LockRuntime("job")
  BY <1>2, <1>j DEF LockRuntime, Typed, Staged, JobSound, StepsOf
<1>3. CASE StartStage
  <2>1. /\ control["job"] = "locked" /\ control'["job"] = "joining" /\ stage \in 1..2
        /\ UNCHANGED <<stage, code>>
        /\ \A s \in Steps : pc'[s] = IF Stage[s] = stage THEN "run" ELSE pc[s]
    BY <1>3, <1>j DEF StartStage, StepsOf, Typed
  <2>2. \A s \in Steps : Stage[s] >= stage => pc[s] = "none" /\ code[s] = "none"
    BY <2>1, <1>j DEF Staged, Typed, Codes
  <2>3. Staged'
    BY <2>1, <2>2, <1>j DEF Staged, StepsOf
  <2>4. JobSound'
    BY <2>1, <2>2, <1>j DEF Staged, JobSound, StepsOf
  <2> QED
    BY <2>3, <2>4
<1>4. CASE JoinStage
  <2>1. /\ control["job"] = "joining" /\ control'["job"] = "locked" /\ stage \in 1..2
        /\ UNCHANGED <<pc, code>>
        /\ \A s \in Steps : Stage[s] > stage => pc[s] = "none"
        /\ \A s \in Steps : Stage[s] = stage => pc[s] = "exited" /\ code[s] # "none"
    BY <1>4, <1>j DEF JoinStage, StepsOf, Typed, Staged
  <2>2. CASE Aggregate(StepsOf(stage)) = "ok" /\ stage = 1
    <3>1. \A s \in StepsOf(1) : code[s] = "ok"
      BY <2>1, <2>2, AggregateOk DEF StepsOf
    <3>2. stage' = 2
      BY <1>4, <2>2 DEF JoinStage
    <3> QED
      BY <2>1, <2>2, <3>1, <3>2, <1>j DEF Staged, JobSound, StepsOf
  <2>3. CASE Aggregate(StepsOf(stage)) = "ok" /\ stage = 2
    <3>1. stage' = 3
      BY <1>4, <2>3 DEF JoinStage
    <3>2. \A s \in Steps : pc[s] = "exited"
      BY <2>1, <2>3, <1>j DEF Staged, StepsOf
    <3> QED
      BY <2>1, <3>1, <3>2, <1>j DEF Staged, JobSound, StepsOf
  <2>4. CASE Aggregate(StepsOf(stage)) # "ok"
    <3>1. stage' = 3
      BY <1>4, <2>4 DEF JoinStage
    <3>2. \A s \in Steps : code[s] \in Codes
      BY DEF Typed
    <3>3. \E s \in StepsOf(stage) : Failed(s)
      BY <2>1, <2>4, <3>2 DEF Aggregate, CodesOf, StepsOf, Failed, Codes
    <3>4. \/ \A s \in Steps : pc[s] = "exited"
          \/ \E s \in Steps : Failed(s)
      BY <2>1, <3>3, <1>j DEF Staged, StepsOf
    <3> QED
      BY <2>1, <3>1, <3>4, <1>j DEF Staged, JobSound, StepsOf, Failed
  <2> QED
    BY <2>1, <2>2, <2>3, <2>4
<1>5. CASE EndJob
  <2>1. /\ control["job"] = "locked" /\ control'["job"] = "completed" /\ UNCHANGED <<pc, stage>>
        /\ \A s \in Steps : code'[s] = code[s]
        /\ code'["job"] = "ok" => stage = 3 /\ Aggregate(Steps) = "ok"
    BY <1>5, <1>j DEF EndJob, Release, Typed
  <2>2. Staged'
    BY <2>1, <1>j DEF Staged, StepsOf, Failed
  <2>3. ASSUME code'["job"] = "ok" PROVE \A s \in Steps : code[s] = "ok"
    <3>1. \A s \in Steps : code[s] \in {"none", "ok"}
      BY <2>1, <2>3, AggregateOk
    <3> QED
      BY <2>1, <2>3, <3>1 DEF Staged, Failed
  <2> QED
    BY <2>1, <2>2, <2>3 DEF JobSound, StepsOf
<1> QED
  BY <1>1, <1>2, <1>3, <1>4, <1>5 DEF Control, Job

\* Every step keeps the stages in their order.
LEMMA NextStaged == Typed /\ Staged /\ JobSound /\ [Next]_vars => Staged' /\ JobSound'
<1> SUFFICES ASSUME Typed, Staged, JobSound, [Next]_vars PROVE Staged' /\ JobSound'
  OBVIOUS
<1>1. CASE \/ Reader \/ Requests \/ Main
           \/ \E w \in Commands : Worker(w)
           \/ Control("apply") \/ UNCHANGED vars
  BY <1>1, JobAlone DEF Staged, JobSound, StepsOf, Failed
<1> QED
  BY <1>1, StepStaged, JobStaged DEF Next, Workers, Controls

\* No step of the second stage runs unless the first has succeeded, and a job that is reported
\* successful ran every step with success: JobRunner::Run.
THEOREM JobsReportTruly == Spec => []JobSound
BY InitTyped, NextTyped, InitStaged, NextStaged, PTL DEF Spec

-----------------------------------------------------------------------------
(* The services.                                                           *)

\* Where a thread works with the Implementation it has looked up.
InService == {"reset", "handshake", "save", "archive", "ask", "shaking", "leaving", "restore", "apply"}

\* A reload owns both locks: no command is at work, and no stage of a job.
LEMMA ReloadAlone ==
  ASSUME Typed, Locked, Staged, Reload
  PROVE  \A w \in Workers : pc[w] \notin InService
<1>1. "apply" \in Controls /\ "job" \in Controls /\ "apply" \in Owners
  BY Kinds DEF Controls
<1>2. operation = {"apply"}
  BY <1>1 DEF Reload, ControlAt, Locked, ControlsHold
<1>3. \A s \in Steps : pc[s] \in {"none", "exited"}
  BY <1>1, <1>2, Alone DEF Staged
<1>4. \A w \in Commands : pc[w] \notin InService
  <2>1. \A b \in Backups : pc[b] \notin InService
    BY <1>1, <1>2, Alone, Kinds DEF InService, BackupPlaces, Typed, HotPlaces
  <2>2. \A h \in Hots : pc[h] \notin InService
    BY <1>1, <1>2, Alone, Kinds DEF InService, BackupPlaces, Typed, HotPlaces
  <2> QED
    BY <2>1, <2>2 DEF Commands
<1> QED
  BY <1>3, <1>4 DEF Workers, InService

\* The services go only when nobody needs them any more.
LEMMA NextServed == Typed /\ Locked /\ Staged /\ ServicesStay /\ [Next]_vars => ServicesStay'
<1> SUFFICES ASSUME Typed, Locked, Staged, ServicesStay, [Next]_vars PROVE ServicesStay'
  OBVIOUS
<1> USE DEF lifetimes, loop, mod, locks, threads, ServicesStay
<1>1. CASE UNCHANGED vars
  BY <1>1 DEF vars
<1>2. CASE StartThread
  <2>1. PICK w \in reader.of : Goto(w, "lock")
    BY <1>2 DEF StartThread, Goto
  <2> QED
    BY <1>2, <2>1 DEF StartThread, Goto, Typed
<1>3. CASE ReadMessage \/ Query \/ Submit \/ AttachThread
  BY <1>3 DEF ReadMessage, Query, Submit, AttachThread
<1>4. CASE Main \/ Requests
  BY <1>4 DEF Main, Requests, Reap, SubmitControl, Shutdown, LeaveLoop, CancelCommands, CloseBridge,
     JoinReader, JoinWorkers, Status, StopServe, CancelControl, ClientSends
<1>5. ASSUME NEW w \in Commands, Command(w) \/ LockBoth(w) PROVE ServicesStay'
  BY <1>5, Kinds DEF Command, Unlock, Exit, LockBoth, Goto, Typed
<1>6. ASSUME NEW w \in Backups \cup Steps, Backup(w) PROVE ServicesStay'
  <2>1. CASE Preflight(w)
    BY <2>1, Kinds DEF Preflight, Goto, Finish, Typed
  <2>2. CASE Backup(w) /\ ~Preflight(w)
    <3>1. pc[w] \in BackupPlaces /\ UNCHANGED <<using, generation>>
      BY <2>2 DEF Backup, ResetFlags, AskToSave, Saved, GiveUpMod, Archive, BackupPlaces, At, WaitEnds
    <3>2. w \in Workers /\ \E p \in Places : Goto(w, p)
      BY <2>2, BackupMoves, Kinds DEF Finish, Places, BackupPlaces
    <3> QED
      BY <3>1, <3>2 DEF Goto, Typed, BackupPlaces
  <2> QED
    BY <1>6, <2>1, <2>2
<1>7. ASSUME NEW w \in Hots, HotRestore(w) PROVE ServicesStay'
  <2>1. CASE Verify(w)
    BY <2>1, Kinds DEF Verify, End, Goto, Typed
  <2>2. CASE HotRestore(w) /\ ~Verify(w)
    <3>1. pc[w] \in HotPlaces /\ UNCHANGED <<using, generation>>
      BY <2>2 DEF HotRestore, Shake, AskToLeave, Left, GiveUpRestore, LockState, Apply, Rejoined,
         HotPlaces, At, WaitEnds
    <3>2. pc[w] \in HotPlaces \ {"rejoining"} \/ Goto(w, "unlock")
      BY <2>2, <3>1 DEF HotRestore, Shake, AskToLeave, Left, GiveUpRestore, LockState, Apply, Rejoined,
         HotPlaces, At, WaitEnds, End
    <3>3. \E p \in Places : Goto(w, p)
      BY <2>2 DEF HotRestore, Shake, AskToLeave, Left, GiveUpRestore, LockState, Apply, Rejoined, Emit, End, Places
    <3> QED
      BY <3>1, <3>2, <3>3, Kinds DEF Goto, Typed, HotPlaces
  <2> QED
    BY <1>7, <2>1, <2>2
<1>8. ASSUME NEW c \in Controls, Control(c) PROVE ServicesStay'
  <2>1. CASE Reload
    BY <2>1, ReloadAlone DEF Reload, InService
  <2>2. CASE LockExecution(c) \/ LockRuntime(c) \/ JoinStage \/ EndJob
    BY <2>2 DEF LockExecution, LockRuntime, JoinStage, EndJob
  <2>3. CASE StartStage
    BY <2>3 DEF StartStage
  <2> QED
    BY <1>8, <2>1, <2>2, <2>3 DEF Control, Job
<1> QED
  BY <1>1, <1>2, <1>3, <1>4, <1>5, <1>6, <1>7, <1>8, Kinds DEF Next, Reader, Worker

\* The Implementation a thread works with is not replaced by a reload, also not while a hot
\* restore waits without stateMutex_ and not under the steps of a job: ProfileRuntime::Reload.
THEOREM ServicesAreKept == Spec => []ServicesStay
<1>1. Init => ServicesStay
  BY DEF Init, ServicesStay
<1> QED
  BY <1>1, InitTyped, NextTyped, InitLocked, NextLocked, InitStaged, NextStaged, NextServed, PTL DEF Spec

-----------------------------------------------------------------------------
(* A command is started once, and its events are published in order.       *)

\* At first no command has been sent.
LEMMA InitOnce == Init => Once /\ Mapped /\ Told
BY Kinds DEF Init, Once, Mapped, Told, Upto, Idle, NoOne

\* What is on the connection after an answer of the mod: no new command.
LEMMA AskSends ==
  ASSUME Typed, NEW e, Ask(e)
  PROVE  /\ Len(inbox') \in Nat /\ Len(inbox) \in Nat
         /\ \A w : \A i \in 1..Len(inbox') :
               inbox'[i] = Sent(w) => i \in 1..Len(inbox) /\ inbox[i] = Sent(w)
<1>1. CASE inbox' = inbox
  BY <1>1, LenProperties DEF Typed
<1>2. CASE inbox' = Append(inbox, [kind |-> Answer(e), of |-> NoOne])
  <2> DEFINE m == [kind |-> Answer(e), of |-> NoOne]
  <2>1. m \in Message
    BY DEF Message, Answer, Answers
  <2>2. \A w : m # Sent(w)
    <3>1. m.kind # "command" /\ \A w : Sent(w).kind = "command"
      BY DEF Answer, Sent
    <3> QED
      BY <3>1
  <2>3. inbox \in Seq(Message) /\ Len(inbox) \in Nat
    BY LenProperties DEF Typed
  <2> HIDE DEF m
  <2>4. inbox' = Append(inbox, m)
    BY <1>2 DEF m
  <2>5. /\ Len(inbox') = Len(inbox) + 1 /\ inbox'[Len(inbox) + 1] = m
        /\ \A i \in 1..Len(inbox) : inbox'[i] = inbox[i]
    BY <2>1, <2>3, <2>4, AppendProperties
  <2> QED
    BY <2>2, <2>3, <2>5
<1> QED
  BY <1>1, <1>2 DEF Ask

\* What a worker leaves alone: the reader, the map of commands, who was stopped or raced.
LEMMA WorkerMoves ==
  ASSUME Typed, NEW w \in Workers, Worker(w)
  PROVE  /\ pc[w] \notin {"none", "exited"}
         /\ \E p \in Places \ {"none"} : Goto(w, p)
         /\ pc'[w] = "exited" => pc[w] = "completed" \/ w \in Steps
         /\ pc[w] = "completed" => pc'[w] = "exited"
         /\ \A v \in Workers : v # w => pc'[v] = pc[v]
         /\ UNCHANGED <<reader, operations, attached, raced>>
         /\ inbox' = inbox \/ \E e \in {"handshake", "pre_hot_backup", "pre_hot_restore", "rejoin_world"} : Ask(e)
         /\ bridge'.closed = bridge.closed /\ (bridge.running => bridge'.running)
         /\ Up
         /\ \/ main' = main
            \/ main' = "crashed" /\ pc[w] = "completed" /\ w \notin operations
<1> USE DEF lifetimes, loop, mod, locks, threads, At, WaitEnds
<1>1. CASE w \in Commands /\ (Command(w) \/ (w \in Backups /\ LockBoth(w)))
  BY <1>1, Kinds DEF Command, Unlock, Exit, LockBoth, Goto, Places, Typed
<1>2. CASE w \in Backups \cup Steps /\ Backup(w)
  <2>1. /\ pc[w] \in BackupPlaces \cup {"run"}
        /\ \E p \in Places \ {"none", "completed"} : Goto(w, p) /\ (p = "exited" => w \in Steps)
    BY <1>2, BackupMoves, Kinds DEF Finish, Places, BackupPlaces
  <2>2. /\ UNCHANGED <<reader, operations, attached, raced, main>> /\ Up
        /\ inbox' = inbox \/ Ask("handshake") \/ Ask("pre_hot_backup")
    BY <1>2 DEF Backup, Preflight, ResetFlags, AskToSave, Saved, GiveUpMod, Archive
  <2>3. bridge' = bridge \/ bridge' = [bridge EXCEPT !.running = TRUE]
    BY <1>2 DEF Backup, Preflight, ResetFlags, AskToSave, Saved, GiveUpMod, Archive
  <2>4. bridge'.closed = bridge.closed /\ (bridge.running => bridge'.running)
    BY <2>3 DEF Typed
  <2>5. PICK p \in Places \ {"none", "completed"} : Goto(w, p) /\ (p = "exited" => w \in Steps)
    BY <2>1
  <2>6. /\ pc'[w] = p /\ pc[w] \notin {"none", "exited", "completed"}
        /\ \A v \in Workers : v # w => pc'[v] = pc[v]
    BY <2>1, <2>5 DEF Goto, Typed, BackupPlaces
  <2> QED
    BY <2>2, <2>4, <2>5, <2>6
<1>3. CASE w \in Hots /\ HotRestore(w)
  <2>1. /\ pc[w] \in HotPlaces \cup {"lock"}
        /\ \E p \in HotPlaces \cup {"unlock"} : Goto(w, p)
    BY <1>3 DEF HotRestore, Verify, Shake, AskToLeave, Left, GiveUpRestore, LockState, Apply, Rejoined,
       Emit, End, HotPlaces
  <2>2. /\ UNCHANGED <<reader, operations, attached, raced, main, bridge>> /\ Up
        /\ inbox' = inbox \/ Ask("handshake") \/ Ask("pre_hot_restore") \/ Ask("rejoin_world")
    BY <1>3 DEF HotRestore, Verify, Shake, AskToLeave, Left, GiveUpRestore, LockState, Apply, Rejoined, Emit
  <2> QED
    BY <2>1, <2>2 DEF Goto, Typed, HotPlaces, Places
<1> QED
  BY <1>1, <1>2, <1>3, Kinds DEF Worker

\* A control command moves no KnotLink command.
LEMMA ControlMoves ==
  ASSUME Typed, NEW c \in Controls, Control(c)
  PROVE  /\ \A w \in Commands : pc'[w] = pc[w]
         /\ UNCHANGED <<reader, inbox, bridge, events, operations, attached, raced, main>>
<1> USE DEF lifetimes, loop, mod, locks, threads
<1>1. CASE StartStage
  BY <1>1, Kinds DEF StartStage, StepsOf
<1>2. CASE LockExecution(c) \/ LockRuntime(c) \/ Reload \/ JoinStage \/ EndJob
  BY <1>2 DEF LockExecution, LockRuntime, Reload, JoinStage, EndJob
<1> QED
  BY <1>1, <1>2 DEF Control, Job

\* The steps of a worker start no command.
LEMMA WorkerOnce ==
  ASSUME Typed, Once, NEW w \in Workers, Worker(w)
  PROVE  Once'
<1>1. \A v \in Workers : (pc'[v] = "none") = (pc[v] = "none")
  BY WorkerMoves DEF Goto, Typed
<1>2. UNCHANGED reader /\ bridge'.closed = bridge.closed /\ (bridge.running => bridge'.running)
  BY WorkerMoves
<1>3. \A v : \A i \in 1..Len(inbox') :
        inbox'[i] = Sent(v) => i \in 1..Len(inbox) /\ inbox[i] = Sent(v)
  BY WorkerMoves, AskSends
<1>4. main' = main \/ main' = "crashed"
  BY WorkerMoves
<1>5. \A v \in Commands : v \in Workers
  BY Kinds
<1>6. \A v \in reader.of : v \in Workers
  BY Kinds, ReaderOf DEF Typed
<1> QED
  BY <1>1, <1>2, <1>3, <1>4, <1>5, <1>6 DEF Once

\* The reader takes a message off the connection before it starts its thread.
LEMMA ReaderOnce ==
  ASSUME Typed, Once, Reader
  PROVE  Once'
<1> USE DEF lifetimes, loop, mod, locks, threads
<1>n. inbox \in Seq(Message) /\ Len(inbox) \in Nat
  BY LenProperties DEF Typed
<1>1. CASE ReadMessage
  <2> DEFINE m == Head(inbox)
  <2>1. /\ m = inbox[1] /\ m \in Message /\ Len(inbox) >= 1 /\ Len(inbox') = Len(inbox) - 1
        /\ \A i \in 1..Len(inbox') : inbox'[i] = inbox[i + 1]
    BY <1>1, <1>n, HeadTailProperties, EmptySeq DEF ReadMessage
  <2> HIDE DEF m
  <2>2. \/ UNCHANGED reader
        \/ reader' = Idle
        \/ reader' = [at |-> "handle", of |-> m.of] /\ m.kind \notin Answers
    BY <1>1 DEF ReadMessage, m
  <2>3. UNCHANGED <<pc, main, bridge>> /\ reader = Idle
    BY <1>1 DEF ReadMessage
  <2>4. \A w \in Commands : \A i \in 1..Len(inbox') :
          inbox'[i] = Sent(w) =>
             /\ pc[w] = "none" /\ m # Sent(w)
             /\ \A j \in 1..Len(inbox') : inbox'[j] = Sent(w) => i = j
    BY <1>n, <2>1 DEF Once
  <2>5. m.kind \notin Answers => m.of = NoOne \/ \E w \in Commands : m = Sent(w) /\ m.of = {w}
    BY <2>1 DEF Message, Sent, Answers
  <2>6. \A w \in Commands : m = Sent(w) => pc[w] = "none"
    <3>1. 1 \in 1..Len(inbox) /\ m = inbox[1]
      BY <2>1, <1>n
    <3> QED
      BY <3>1 DEF Once
  <2>7. CASE reader' = Idle
    BY <2>3, <2>4, <2>7 DEF Once, Idle, NoOne
  <2>8. CASE reader' = [at |-> "handle", of |-> m.of] /\ m.kind \notin Answers /\ ~bridge.closed
    <3>1. reader'.at = "handle" /\ reader'.of = m.of
      BY <2>8
    <3>2. \A w \in Commands : m # Sent(w) => m.of # {w}
      BY <2>5, <2>8 DEF NoOne
    <3>3. \A w \in m.of : pc[w] = "none"
      BY <2>5, <2>6, <2>8 DEF NoOne
    <3> QED
      BY <2>3, <2>4, <2>8, <3>1, <3>2, <3>3 DEF Once
  <2>9. bridge.closed => reader' = Idle
    BY <1>1 DEF ReadMessage
  <2> QED
    BY <2>2, <2>3, <2>7, <2>8, <2>9
<1>2. CASE Query \/ AttachThread
  <2>1. /\ UNCHANGED <<pc, main, bridge, inbox>> /\ reader' = Idle
    BY <1>2 DEF Query, AttachThread
  <2> QED
    BY <2>1 DEF Once, Idle, NoOne
<1>3. CASE Submit
  <2>1. /\ UNCHANGED <<pc, main, bridge, inbox>> /\ reader.at = "handle"
        /\ reader' = Idle \/ (reader' = [reader EXCEPT !.at = "start"] /\ \E w : w \in reader.of)
    BY <1>3 DEF Submit
  <2>2. reader' = Idle \/ (reader'.at = "start" /\ reader'.of = reader.of /\ reader.of # NoOne)
    BY <2>1 DEF Typed, ReaderStates, NoOne
  <2>3. CASE reader' = Idle
    BY <2>1, <2>3 DEF Once, Idle, NoOne
  <2>4. CASE reader'.at = "start" /\ reader'.of = reader.of /\ reader.of # NoOne
    BY <2>1, <2>4 DEF Once, Idle
  <2> QED
    BY <2>2, <2>3, <2>4
<1>4. CASE StartThread
  <2>1. PICK w \in reader.of : Goto(w, "lock")
    BY <1>4 DEF StartThread, Goto
  <2>2. w \in Commands /\ w \in Workers /\ reader.of = {w}
    BY Kinds, ReaderOf DEF Typed
  <2>3. /\ reader.at = "start" /\ reader'.at = "attach" /\ reader'.of = reader.of
        /\ UNCHANGED <<main, bridge, inbox>>
    BY <1>4 DEF StartThread, Typed, ReaderStates
  <2>4. pc'[w] = "lock" /\ \A v \in Commands : v # w => pc'[v] = pc[v]
    BY <2>1, <2>2, Kinds DEF Goto, Typed
  <2>5. \A i \in 1..Len(inbox) : inbox[i] # Sent(w)
    BY <2>2 DEF Once
  <2> QED
    BY <2>2, <2>3, <2>4, <2>5 DEF Once, Idle, NoOne
<1> QED
  BY <1>1, <1>2, <1>3, <1>4 DEF Reader

\* The main thread sends each command once, and closes the bridge before it joins.
LEMMA MainOnce ==
  ASSUME Typed, Once, Main \/ Requests
  PROVE  Once'
<1> USE DEF lifetimes, loop, mod, locks, threads
<1>1. CASE \/ \E c \in Controls : Reap(c) \/ SubmitControl(c)
           \/ Status \/ StopServe \/ CancelControl \/ CancelCommands \/ LeaveLoop
  BY <1>1 DEF Reap, SubmitControl, Status, StopServe, CancelControl, CancelCommands, LeaveLoop, Once
<1>2. CASE CloseBridge \/ JoinReader \/ JoinWorkers
  <2>1. /\ UNCHANGED <<pc, reader, inbox>>
        /\ \/ bridge'.closed /\ main' = "joinReader"
           \/ bridge' = bridge /\ main = "joinReader" /\ main' = "joinWorkers" /\ reader = Idle
           \/ bridge'.closed = bridge.closed /\ main = "joinWorkers" /\ main' = "gone"
    BY <1>2 DEF CloseBridge, JoinReader, JoinWorkers, Typed
  <2> QED
    BY <2>1 DEF Once
<1>3. CASE ClientSends
  <2>1. UNCHANGED <<pc, reader, bridge, main>>
    BY <1>3 DEF ClientSends
  <2>2. PICK m \in Message :
          /\ inbox' = Append(inbox, m)
          /\ \A w \in Commands : m = Sent(w) =>
                /\ pc[w] = "none" /\ reader.of # {w}
                /\ \A i \in DOMAIN inbox : inbox[i] # Sent(w)
    <3>1. CASE Arrives([kind |-> "query", of |-> NoOne])
      BY <3>1 DEF Arrives, Message, Sent
    <3>2. CASE \E w \in Commands :
            /\ pc[w] = "none" /\ reader.of # {w}
            /\ \A i \in DOMAIN inbox : inbox[i] # Sent(w)
            /\ Arrives(Sent(w))
      <4> PICK w \in Commands :
            /\ pc[w] = "none" /\ reader.of # {w}
            /\ \A i \in DOMAIN inbox : inbox[i] # Sent(w)
            /\ inbox' = Append(inbox, Sent(w))
        BY <3>2 DEF Arrives
      <4>1. \A v : Sent(v) = Sent(w) => v = w
        BY DEF Sent
      <4>2. Sent(w) \in Message
        BY DEF Sent, Message
      <4> QED
        BY <4>1, <4>2
    <3> QED
      BY <1>3, <3>1, <3>2 DEF ClientSends, Sent
  <2>3. inbox \in Seq(Message) /\ Len(inbox) \in Nat /\ DOMAIN inbox = 1..Len(inbox)
    BY LenProperties DEF Typed
  <2>4. /\ Len(inbox') = Len(inbox) + 1 /\ inbox'[Len(inbox) + 1] = m
        /\ \A i \in 1..Len(inbox) : inbox'[i] = inbox[i]
    BY <2>2, <2>3, AppendProperties
  <2>5. \A w \in Commands : \A i \in 1..Len(inbox') :
          inbox'[i] = Sent(w) =>
             /\ pc[w] = "none" /\ reader.of # {w}
             /\ \A j \in 1..Len(inbox') : inbox'[j] = Sent(w) => i = j
    BY <2>2, <2>3, <2>4 DEF Once
  <2> QED
    BY <2>1, <2>5 DEF Once
<1> QED
  BY <1>1, <1>2, <1>3 DEF Main, Requests, Shutdown

\* Every step starts each command at most once.
LEMMA NextOnce == Typed /\ Once /\ [Next]_vars => Once'
<1> SUFFICES ASSUME Typed, Once, [Next]_vars PROVE Once'
  OBVIOUS
<1>1. CASE UNCHANGED vars
  BY <1>1 DEF Once, vars, threads, mod, loop
<1>2. ASSUME NEW c \in Controls, Control(c) PROVE Once'
  <2>1. \A w \in reader.of : w \in Commands
    BY ReaderOf DEF Typed
  <2> QED
    BY <1>2, <2>1, ControlMoves DEF Once
<1> QED
  BY <1>1, <1>2, WorkerOnce, ReaderOnce, MainOnce DEF Next

\* Only a status request takes a command that is under way out of the map.
LEMMA NextMapped == Typed /\ Once /\ Mapped /\ [Next]_vars => Mapped'
<1> SUFFICES ASSUME Typed, Once, Mapped, [Next]_vars PROVE Mapped'
  OBVIOUS
<1> USE DEF lifetimes, loop, mod, locks, threads
<1>1. CASE UNCHANGED vars
  BY <1>1 DEF Mapped, vars
<1>2. ASSUME NEW c \in Controls, Control(c) PROVE Mapped'
  BY <1>2, ControlMoves DEF Mapped
<1>3. ASSUME NEW w \in Workers, Worker(w) PROVE Mapped'
  <2>1. UNCHANGED <<reader, operations, raced>>
    BY <1>3, WorkerMoves
  <2>2. main' = main \/ (main' = "crashed" /\ pc[w] = "completed" /\ w \notin operations)
    BY <1>3, WorkerMoves
  <2>3. /\ pc[w] \notin {"none", "exited"} /\ (pc[w] = "completed" => w \in Commands)
        /\ \A v \in Workers : v # w => pc'[v] = pc[v]
    BY <1>3, WorkerMoves, Kinds DEF Typed, Commands, Workers, BackupPlaces
  <2> QED
    BY <2>1, <2>2, <2>3, Kinds DEF Mapped
<1>4. CASE ReadMessage
  <2>1. UNCHANGED <<pc, operations, raced, main>> /\ (reader'.at = "start" => reader' = reader)
    BY <1>4 DEF ReadMessage, Idle
  <2> QED
    BY <2>1 DEF Mapped
<1>5. CASE Query \/ Submit
  <2>1. /\ UNCHANGED <<pc, raced, main>>
        /\ \A w \in operations : pc[w] # "exited" => w \in operations'
    BY <1>5 DEF Query, Submit, Done
  <2>2. reader' = Idle \/ (reader' = [reader EXCEPT !.at = "start"] /\ \E w \in reader.of : w \in operations')
    BY <1>5 DEF Query, Submit
  <2>3. reader'.at = "start" => reader'.of \subseteq operations'
    BY <2>2, ReaderOf DEF Typed, ReaderStates, Idle
  <2> QED
    BY <2>1, <2>3 DEF Mapped
<1>6. CASE StartThread
  <2>1. PICK w \in reader.of : Goto(w, "lock")
    BY <1>6 DEF StartThread, Goto
  <2>2. /\ UNCHANGED <<operations, raced, main>> /\ reader.at = "start" /\ reader'.at = "attach"
    BY <1>6 DEF StartThread, Typed, ReaderStates
  <2>3. \A v \in Workers : v # w => pc'[v] = pc[v]
    BY <2>1 DEF Goto, Typed
  <2> QED
    BY <2>1, <2>2, <2>3, Kinds DEF Mapped
<1>7. CASE AttachThread
  BY <1>7 DEF AttachThread, Idle, Mapped
<1>8. CASE Status
  <2>1. UNCHANGED <<pc, reader, main>>
    BY <1>8 DEF Status
  <2>2. PICK w \in operations :
          /\ operations' = operations \ {w}
          /\ \/ pc[w] = "exited" /\ UNCHANGED raced
             \/ raced' = raced \cup {w}
    BY <1>8 DEF Status
  <2>3. CASE pc[w] = "exited" /\ UNCHANGED raced
    <3>1. reader.at = "start" => w \notin reader.of
      BY <2>3 DEF Once
    <3> QED
      BY <2>1, <2>2, <2>3, <3>1 DEF Mapped
  <2>4. CASE raced' = raced \cup {w}
    BY <2>4 DEF Mapped
  <2> QED
    BY <2>2, <2>3, <2>4
<1>9. CASE JoinWorkers
  BY <1>9 DEF JoinWorkers, Mapped, Once, Idle
<1>10. CASE \/ \E c \in Controls : Reap(c) \/ SubmitControl(c)
            \/ StopServe \/ CancelControl \/ LeaveLoop \/ CancelCommands \/ CloseBridge
            \/ JoinReader \/ ClientSends
  BY <1>10 DEF Reap, SubmitControl, StopServe, CancelControl, LeaveLoop, CancelCommands, CloseBridge,
     JoinReader, ClientSends, Mapped
<1> QED
  BY <1>1, <1>2, <1>3, <1>4, <1>5, <1>6, <1>7, <1>8, <1>9, <1>10
  DEF Next, Reader, Main, Requests, Shutdown

\* A worker joins itself only if a status request came between the start of its thread and the
\* assignment of its jthread: ProfileKnotLinkCommands::Submit and Cleanup.
THEOREM SelfJoinNeedsRace == Spec => []SelfJoinOnlyInRace
<1>1. Mapped => SelfJoinOnlyInRace
  BY DEF Mapped, SelfJoinOnlyInRace
<1> QED
  BY <1>1, InitTyped, NextTyped, InitOnce, NextOnce, NextMapped, PTL DEF Spec

\* The events of one command.
Ordered(w) ==
    /\ \A i \in 1..Len(events[w]) : Rank[events[w][i]] <= Upto(w)
    /\ \A i, j \in 1..Len(events[w]) : i < j => Rank[events[w][i]] < Rank[events[w][j]]
    /\ bridge.closed \/ Len(events[w]) = Upto(w)

\* A command's next event, published when its place moves on.
LEMMA PublishOrdered ==
  ASSUME Typed, Once, NEW w \in Commands, Ordered(w), NEW e \in Events, Publish(w, e),
         Upto(w) = Rank[e] - 1, Upto(w)' = Rank[e], bridge' = bridge
  PROVE  Ordered(w)'
<1> DEFINE n == Rank[e]
<1>1. Rank \in [Events -> 1..3] /\ n \in 1..3
  BY DEF Rank, Events
<1>2. events[w] \in Seq(Events) /\ Len(events[w]) \in Nat
  BY LenProperties DEF Typed
<1>3. /\ \A i \in 1..Len(events[w]) : Rank[events[w][i]] <= n - 1 /\ events[w][i] \in Events
      /\ \A i, j \in 1..Len(events[w]) : i < j => Rank[events[w][i]] < Rank[events[w][j]]
      /\ bridge.closed \/ Len(events[w]) = n - 1
  BY <1>2, ElementOfSeq DEF Ordered
<1>4. CASE bridge.running
  <2>1. events'[w] = Append(events[w], e)
    BY <1>4 DEF Publish, Typed
  <2>2. /\ Len(events'[w]) = Len(events[w]) + 1 /\ events'[w][Len(events[w]) + 1] = e
        /\ \A i \in 1..Len(events[w]) : events'[w][i] = events[w][i]
    BY <1>2, <2>1, AppendProperties
  <2>3. \A i \in 1..Len(events'[w]) : i \in 1..Len(events[w]) \/ i = Len(events[w]) + 1
    BY <1>2, <2>2
  <2>4. \A i \in 1..Len(events'[w]) : Rank[events'[w][i]] <= n
    BY <1>1, <1>3, <2>2, <2>3
  <2>5. \A i, j \in 1..Len(events'[w]) : i < j => Rank[events'[w][i]] < Rank[events'[w][j]]
    BY <1>1, <1>2, <1>3, <2>2, <2>3
  <2>6. bridge.closed \/ Len(events'[w]) = n
    BY <1>1, <1>2, <1>3, <2>2
  <2> QED
    BY <2>4, <2>5, <2>6 DEF Ordered
<1>5. CASE ~bridge.running
  <2>1. events' = events /\ bridge.closed
    BY <1>5 DEF Publish, Once
  <2>2. \A i \in 1..Len(events[w]) : Rank[events[w][i]] <= n
    BY <1>1, <1>3
  <2> QED
    BY <1>3, <2>1, <2>2 DEF Ordered
<1> QED
  BY <1>4, <1>5

\* Every step keeps what was published about a command in its order.
LEMMA NextTold == Typed /\ Once /\ Told /\ [Next]_vars => Told'
<1> SUFFICES ASSUME Typed, Once, Told, [Next]_vars, NEW v \in Commands PROVE Ordered(v)'
  BY DEF Told, Ordered
<1> USE DEF lifetimes, loop, mod, locks, threads
<1>o. Ordered(v) /\ v \in Workers
  BY Kinds DEF Told, Ordered
<1>k. ASSUME events'[v] = events[v], Upto(v)' = Upto(v), bridge'.closed \/ bridge'.closed = bridge.closed
      PROVE  Ordered(v)'
  BY <1>k, <1>o DEF Ordered
<1>1. CASE UNCHANGED vars
  BY <1>1, <1>k DEF Upto, vars
<1>2. ASSUME NEW c \in Controls, Control(c) PROVE Ordered(v)'
  BY <1>2, <1>k, ControlMoves DEF Upto
<1>3. ASSUME NEW w \in Workers, Worker(w), ~(w \in Commands /\ Unlock(w)) PROVE Ordered(v)'
  <2>1. events' = events
    BY <1>3 DEF Worker, Command, Exit, LockBoth, Backup, Preflight, ResetFlags, AskToSave, Saved, GiveUpMod,
       Archive, HotRestore, Verify, Shake, AskToLeave, Left, GiveUpRestore, LockState, Apply, Rejoined
  <2>2. pc[v] \notin {"none", "completed", "exited"} => pc'[v] \notin {"none", "completed", "exited"}
    <3>1. CASE w # v
      BY <1>3, <1>o, <3>1, WorkerMoves
    <3>2. CASE w = v /\ (Exit(w) \/ LockBoth(w))
      BY <1>o, <3>2 DEF Exit, LockBoth, Goto, At, Typed
    <3>3. CASE w = v /\ w \in Backups /\ Backup(w)
      BY <1>o, <3>3, BackupMoves, Kinds DEF Finish, Goto, Typed, BackupPlaces
    <3>4. CASE w = v /\ w \in Hots /\ HotRestore(w)
      <4>1. \E p \in HotPlaces \cup {"unlock"} : Goto(w, p)
        BY <3>4 DEF HotRestore, Verify, Shake, AskToLeave, Left, GiveUpRestore, LockState, Apply, Rejoined,
           Emit, End, HotPlaces
      <4> QED
        BY <1>o, <3>4, <4>1 DEF Goto, Typed, HotPlaces
    <3> QED
      BY <1>3, <1>o, <3>1, <3>2, <3>3, <3>4, Kinds DEF Worker, Command
  <2>3. /\ (pc'[v] = "none") = (pc[v] = "none")
        /\ pc[v] \in {"completed", "exited"} => pc'[v] \in {"completed", "exited"}
    BY <1>3, <1>o, WorkerMoves DEF Goto, Typed
  <2>4. UNCHANGED reader /\ bridge'.closed = bridge.closed
    BY <1>3, WorkerMoves
  <2>5. Upto(v)' = Upto(v)
    BY <2>2, <2>3, <2>4 DEF Upto
  <2> QED
    BY <1>k, <2>1, <2>4, <2>5
<1>4. ASSUME NEW w \in Commands, Unlock(w) PROVE Ordered(v)'
  <2>1. /\ pc[w] = "unlock" /\ UNCHANGED <<reader, bridge>> /\ Publish(w, "command_ended")
        /\ w \in Workers /\ pc' = [pc EXCEPT ![w] = "completed"]
    BY <1>4, Kinds DEF Unlock, At, Goto
  <2>2. CASE v = w
    <3>1. Upto(v) = 2 /\ Upto(v)' = 3
      BY <1>o, <2>1, <2>2 DEF Upto, Typed
    <3>2. "command_ended" \in Events /\ Rank["command_ended"] = 3
      BY DEF Events, Rank
    <3> QED
      BY <1>o, <2>1, <2>2, <3>1, <3>2, PublishOrdered
  <2>3. CASE v # w
    BY <1>k, <1>o, <2>1, <2>3 DEF Publish, Typed, Upto
  <2> QED
    BY <2>2, <2>3
<1>5. CASE ReadMessage
  <2>1. UNCHANGED <<pc, events, bridge>> /\ reader = Idle /\ reader'.at # "start"
    BY <1>5 DEF ReadMessage, Idle
  <2> QED
    BY <1>k, <2>1 DEF Upto, Idle
<1>6. CASE Query \/ AttachThread
  <2>1. UNCHANGED <<pc, events, bridge>> /\ reader.at # "start" /\ reader'.at # "start"
    BY <1>6 DEF Query, AttachThread, Idle
  <2> QED
    BY <1>k, <2>1 DEF Upto
<1>7. CASE Submit
  <2>1. PICK w \in reader.of :
          \/ reader' = Idle /\ UNCHANGED events
          \/ Publish(w, "command_accepted") /\ reader' = [reader EXCEPT !.at = "start"]
    BY <1>7 DEF Submit
  <2>2. /\ UNCHANGED <<pc, bridge>> /\ reader.at = "handle" /\ w \in Commands /\ reader.of = {w}
        /\ pc[w] = "none"
    BY <1>7, ReaderOf DEF Submit, Typed, Once
  <2>3. CASE reader' = Idle /\ UNCHANGED events
    <3>1. reader'.at # "start"
      BY <2>3 DEF Idle
    <3> QED
      BY <1>k, <2>2, <2>3, <3>1 DEF Upto
  <2>4. CASE Publish(w, "command_accepted") /\ reader' = [reader EXCEPT !.at = "start"]
    <3>1. reader'.at = "start" /\ reader'.of = {w}
      BY <2>2, <2>4 DEF Typed, ReaderStates
    <3>2. "command_accepted" \in Events /\ Rank["command_accepted"] = 1
      BY DEF Events, Rank
    <3>3. CASE v = w
      <4>1. Upto(v) = 0 /\ Upto(v)' = 1
        BY <2>2, <3>1, <3>3 DEF Upto
      <4> QED
        BY <1>o, <2>2, <2>4, <3>2, <3>3, <4>1, PublishOrdered
    <3>4. CASE v # w
      BY <1>k, <2>2, <2>4, <3>1, <3>4 DEF Publish, Typed, Upto
    <3> QED
      BY <3>3, <3>4
  <2> QED
    BY <2>1, <2>3, <2>4
<1>8. CASE StartThread
  <2>1. PICK w \in reader.of : Goto(w, "lock") /\ Publish(w, "command_started")
    BY <1>8 DEF StartThread, Goto
  <2>2. /\ reader.at = "start" /\ reader'.at = "attach" /\ reader.of = {w} /\ UNCHANGED bridge
        /\ w \in Commands /\ w \in Workers /\ pc[w] = "none"
    BY <1>8, ReaderOf, Kinds DEF StartThread, Typed, ReaderStates, Once
  <2>3. "command_started" \in Events /\ Rank["command_started"] = 2
    BY DEF Events, Rank
  <2>4. pc'[w] = "lock" /\ \A c \in Workers : c # w => pc'[c] = pc[c]
    BY <2>1, <2>2 DEF Goto, Typed
  <2>5. CASE v = w
    <3>1. Upto(v) = 1 /\ Upto(v)' = 2
      BY <2>2, <2>4, <2>5 DEF Upto
    <3> QED
      BY <1>o, <2>1, <2>2, <2>3, <2>5, <3>1, PublishOrdered
  <2>6. CASE v # w
    BY <1>k, <1>o, <2>1, <2>2, <2>4, <2>6 DEF Publish, Typed, Upto
  <2> QED
    BY <2>5, <2>6
<1>9. CASE Main \/ Requests
  <2>1. UNCHANGED <<pc, reader, events>>
    BY <1>9 DEF Main, Requests, Shutdown, Reap, SubmitControl, Status, StopServe, CancelControl, LeaveLoop,
       CancelCommands, CloseBridge, JoinReader, JoinWorkers, ClientSends
  <2>2. bridge' = bridge \/ CloseBridge \/ JoinWorkers
    BY <1>9 DEF Main, Requests, Shutdown, Reap, SubmitControl, Status, StopServe, CancelControl, LeaveLoop,
       CancelCommands, JoinReader, ClientSends
  <2>3. bridge'.closed \/ bridge'.closed = bridge.closed
    BY <2>2 DEF CloseBridge, JoinWorkers, Typed
  <2> QED
    BY <1>k, <2>1, <2>3 DEF Upto
<1> QED
  BY <1>1, <1>2, <1>3, <1>4, <1>5, <1>6, <1>7, <1>8, <1>9 DEF Next, Reader

\* Three events of rising rank are the whole lifecycle.
LEMMA WholeLifecycle ==
  ASSUME NEW q \in Seq(Events), Len(q) = 3,
         \A i, j \in 1..3 : i < j => Rank[q[i]] < Rank[q[j]]
  PROVE  q = Lifecycle
<1>1. \A e \in Events : Rank[e] \in 1..3
  BY DEF Events, Rank
<1>2. \A i \in 1..3 : q[i] \in Events
  BY ElementOfSeq
<1>3. Rank[q[1]] = 1 /\ Rank[q[2]] = 2 /\ Rank[q[3]] = 3
  BY <1>1, <1>2
<1>4. q[1] = Lifecycle[1] /\ q[2] = Lifecycle[2] /\ q[3] = Lifecycle[3]
  BY <1>2, <1>3 DEF Events, Rank, Lifecycle
<1>5. Lifecycle \in Seq(Events) /\ Len(Lifecycle) = 3
  BY DEF Lifecycle, Events
<1> QED
  BY <1>4, <1>5, SeqEqual

\* A command's events come in order and once each, and none is missing when it is over unless
\* the bridge was stopped: ProfileKnotLinkCommands publishes accepted, started and the end.
THEOREM EventsComeInOrder == Spec => []EventsInOrder
<1>1. Typed /\ Once /\ Told => EventsInOrder
  <2> SUFFICES ASSUME Typed, Once, Told, NEW w \in Commands
               PROVE  /\ \A i, j \in DOMAIN events[w] : i < j => Rank[events[w][i]] < Rank[events[w][j]]
                      /\ pc[w] \in {"completed", "exited"} /\ ~bridge.closed => events[w] = Lifecycle
    BY DEF EventsInOrder
  <2>1. events[w] \in Seq(Events) /\ DOMAIN events[w] = 1..Len(events[w])
    BY LenProperties DEF Typed
  <2>2. \A i, j \in 1..Len(events[w]) : i < j => Rank[events[w][i]] < Rank[events[w][j]]
    BY DEF Told
  <2>3. ASSUME pc[w] \in {"completed", "exited"}, ~bridge.closed PROVE events[w] = Lifecycle
    <3>1. Len(events[w]) = 3
      BY <2>3 DEF Told, Upto
    <3> QED
      BY <2>1, <2>2, <3>1, WholeLifecycle
  <2> QED
    BY <2>1, <2>2, <2>3
<1> QED
  BY <1>1, InitTyped, NextTyped, InitOnce, NextOnce, NextTold, PTL DEF Spec

=============================================================================
