-------------------------- MODULE TaskCoordinator --------------------------
(***************************************************************************)
(* TaskCoordinator: background tasks, each a jthread that first takes the  *)
(* mutexes of its resource keys (world:..., cloud:...) in sorted order,    *)
(* then runs its function under a stop token.  The main thread and running *)
(* tasks submit further tasks (the automatic backup submits its runs, a    *)
(* backup its cloud upload); any thread may ask for a stop by name; the    *)
(* main thread stops and joins everything when the application closes.     *)
(*                                                                         *)
(* impl_->stateMutex is held across each call; only Submit can block while *)
(* it holds it, since erasing a finished task joins its thread.            *)
(***************************************************************************)
EXTENDS Integers, FiniteSets

CONSTANTS
    Tasks,     \* the tasks that may be submitted, each once
    Main,      \* the main thread
    Keys,      \* resource keys, numbered in their sorted order
    KeysOf,    \* task -> its resource keys
    Caller,    \* task -> the thread that submits it: Main or a task
    NameOf,    \* task -> its name; names need not be unique
    Periodic   \* tasks that loop until they are told to stop

ASSUME KeysAssumption == Keys \subseteq Nat /\ KeysOf \in [Tasks -> SUBSET Keys]
ASSUME CallerAssumption == Main \notin Tasks /\ Caller \in [Tasks -> Tasks \cup {Main}]
\* The automatic backup, the only kind of task that runs until told to stop, has no keys.
ASSUME PeriodicAssumption == Periodic \subseteq Tasks /\ \A t \in Periodic : KeysOf[t] = {}

VARIABLES
    accepting,   \* Impl::accepting
    submitting,  \* the task whose Submit holds stateMutex, as a set of at most one
    records,     \* Impl::tasks
    joining,     \* the records StopAndJoin swapped out
    status,      \* where each task's thread is
    held,        \* the mutexes it holds
    stop,        \* tasks whose stop token is set
    done,        \* tasks whose done flag is set
    main,        \* the main thread: serving, joining, joined
    ahead        \* ghost: task -> those that waited for one of its keys when it was accepted

vars == <<accepting, submitting, records, joining, status, held, stop, done, main,
          ahead>>

Init ==
    /\ accepting = TRUE /\ submitting = {} /\ records = {} /\ joining = {}
    /\ status = [t \in Tasks |-> "new"]
    /\ held = [t \in Tasks |-> {}]
    /\ stop = {} /\ done = {}
    /\ main = "serving"
    /\ ahead = [t \in Tasks |-> {}]

MutexFree == submitting = {}
Become(t, s) == status' = [status EXCEPT ![t] = s]

\* The caller is at liberty to call Submit for t.
MayCall(t) ==
    IF Caller[t] = Main THEN main = "serving" ELSE status[Caller[t]] = "running"

-----------------------------------------------------------------------------
(* Submit.                                                                 *)

Refuse(t) ==
    /\ status[t] = "new" /\ MayCall(t) /\ MutexFree
    /\ ~accepting
    /\ Become(t, "refused")
    /\ UNCHANGED <<accepting, submitting, records, joining, held, stop, done, main, ahead>>

\* Mutant of Submit: accepting is not looked at.
SubmitAlways(t) ==
    /\ status[t] = "new" /\ MayCall(t) /\ MutexFree
    /\ submitting' = {t}
    /\ UNCHANGED <<accepting, records, joining, status, held, stop, done, main, ahead>>
Submit(t) ==
    /\ status[t] = "new" /\ MayCall(t) /\ MutexFree
    /\ accepting
    /\ submitting' = {t}
    /\ UNCHANGED <<accepting, records, joining, status, held, stop, done, main, ahead>>

\* The records of done tasks are erased, which waits for their threads to end; then the
\* worker thread starts.
Enlist(t) ==
    /\ t \in submitting
    /\ \A r \in records \cap done : status[r] = "exited"
    /\ records' = (records \ done) \cup {t}
    /\ Become(t, "waiting")
    /\ submitting' = {}
    /\ ahead' = [ahead EXCEPT ![t] =
                   {u \in Tasks : status[u] = "waiting" /\ KeysOf[u] \cap KeysOf[t] # {}}]
    /\ UNCHANGED <<accepting, joining, held, stop, done, main>>

-----------------------------------------------------------------------------
(* The worker thread.                                                      *)

\* Mutants of Lock: the keys are not sorted; the mutex before the one wanted is taken.
LockUnsorted(t) ==
    /\ status[t] = "waiting"
    /\ \E k \in KeysOf[t] \ held[t] :
         /\ \A u \in Tasks : k \notin held[u]
         /\ held' = [held EXCEPT ![t] = @ \cup {k}]
    /\ UNCHANGED <<accepting, submitting, records, joining, status, stop, done, main, ahead>>
LockOffByOne(t) ==
    /\ status[t] = "waiting"
    /\ \E k \in KeysOf[t] \ held[t] :
         /\ \A u \in Tasks : k - 1 \notin held[u]
         /\ held' = [held EXCEPT ![t] = @ \cup {k - 1}]
    /\ UNCHANGED <<accepting, submitting, records, joining, status, stop, done, main, ahead>>
\* heldLocks.emplace_back blocks on the next mutex in key order.
Lock(t) ==
    /\ status[t] = "waiting"
    /\ \E k \in KeysOf[t] \ held[t] :
         /\ \A j \in KeysOf[t] \ held[t] : k <= j
         /\ \A u \in Tasks : k \notin held[u]
         /\ held' = [held EXCEPT ![t] = @ \cup {k}]
    /\ UNCHANGED <<accepting, submitting, records, joining, status, stop, done, main, ahead>>

\* Stopped before it began: done is set while the locks are still held.
Abandon(t) ==
    /\ status[t] = "waiting" /\ held[t] = KeysOf[t]
    /\ t \in stop
    /\ done' = done \cup {t}
    /\ Become(t, "leaving")
    /\ UNCHANGED <<accepting, submitting, records, joining, held, stop, main, ahead>>

\* Mutant of Start: one of the task's keys is enough.
StartOnFirstKey(t) ==
    /\ status[t] = "waiting" /\ (held[t] # {} \/ KeysOf[t] = {})
    /\ t \notin stop
    /\ Become(t, "running")
    /\ UNCHANGED <<accepting, submitting, records, joining, held, stop, done, main, ahead>>
Start(t) ==
    /\ status[t] = "waiting" /\ held[t] = KeysOf[t]
    /\ t \notin stop
    /\ Become(t, "running")
    /\ UNCHANGED <<accepting, submitting, records, joining, held, stop, done, main, ahead>>

\* The function returns or throws; it is not inside a Submit of its own.
Finish(t) ==
    /\ status[t] = "running"
    /\ \A u \in submitting : Caller[u] # t
    /\ t \in Periodic => t \in stop
    /\ Become(t, "leaving")
    /\ UNCHANGED <<accepting, submitting, records, joining, held, stop, done, main, ahead>>

Unlock(t) ==
    /\ status[t] = "leaving"
    /\ \E k \in held[t] : held' = [held EXCEPT ![t] = @ \ {k}]
    /\ UNCHANGED <<accepting, submitting, records, joining, status, stop, done, main, ahead>>

Exit(t) ==
    /\ status[t] = "leaving" /\ held[t] = {}
    /\ done' = done \cup {t}
    /\ Become(t, "exited")
    /\ ahead' = [ahead EXCEPT ![t] = {}]
    /\ UNCHANGED <<accepting, submitting, records, joining, held, stop, main>>

-----------------------------------------------------------------------------
(* Stopping.                                                               *)

RequestStop(name) ==
    /\ MutexFree
    /\ stop' = stop \cup {t \in records \ done : NameOf[t] = name}
    /\ UNCHANGED <<accepting, submitting, records, joining, status, held, done, main, ahead>>

\* Mutant of StopAndJoin: the stop tokens are not set.
StopAndJoinWithoutStop ==
    /\ main = "serving" /\ MutexFree
    /\ accepting' = FALSE
    /\ joining' = records /\ records' = {}
    /\ main' = "joining"
    /\ UNCHANGED <<submitting, status, held, stop, done, ahead>>
StopAndJoin ==
    /\ main = "serving" /\ MutexFree
    /\ accepting' = FALSE
    /\ stop' = stop \cup records
    /\ joining' = records /\ records' = {}
    /\ main' = "joining"
    /\ UNCHANGED <<submitting, status, held, done, ahead>>

\* tasks.clear() has joined every thread.
Joined ==
    /\ main = "joining"
    /\ \A t \in joining : status[t] = "exited"
    /\ joining' = {}
    /\ main' = "joined"
    /\ UNCHANGED <<accepting, submitting, records, status, held, stop, done, ahead>>

-----------------------------------------------------------------------------
Worker(t) == Lock(t) \/ Abandon(t) \/ Start(t) \/ Finish(t) \/ Unlock(t) \/ Exit(t)

Names == {NameOf[t] : t \in Tasks}

\* The application has closed.
Closed == main = "joined" /\ UNCHANGED vars

Next ==
    \/ \E t \in Tasks : Submit(t) \/ Refuse(t) \/ Enlist(t) \/ Worker(t)
    \/ \E n \in Names : RequestStop(n)
    \/ StopAndJoin
    \/ Joined
    \/ Closed

Spec == Init /\ [][Next]_vars

\* Every thread that can run does: a worker, a Submit under way, the joining main thread.
Fairness ==
    /\ \A t \in Tasks : WF_vars(Worker(t)) /\ WF_vars(Enlist(t))
    /\ WF_vars(Joined)

FairSpec == Spec /\ Fairness

-----------------------------------------------------------------------------
(* Properties.                                                             *)

Statuses == {"new", "refused", "waiting", "running", "leaving", "exited"}
Live(t) == status[t] \in {"waiting", "running", "leaving"}

\* Every variable keeps its type.
TypeOK ==
    /\ accepting \in BOOLEAN
    /\ submitting \subseteq Tasks
    /\ records \subseteq Tasks /\ joining \subseteq Tasks
    /\ status \in [Tasks -> Statuses]
    /\ held \in [Tasks -> SUBSET Keys]
    /\ stop \subseteq Tasks /\ done \subseteq Tasks
    /\ main \in {"serving", "joining", "joined"}
    /\ ahead \in [Tasks -> SUBSET Tasks]

\* "tasks for one world resource should never overlap": two tasks whose functions are
\* running have no resource key in common.
Exclusion ==
    \A t, u \in Tasks :
        t # u /\ status[t] = "running" /\ status[u] = "running" => KeysOf[t] \cap KeysOf[u] = {}

\* Once StopAndJoin has returned no task runs or ever will: the application may tear
\* down what tasks use.  A task submitted by another while the main thread stops and
\* joins is refused or joined too.
ShutdownComplete ==
    main = "joined" => ~accepting /\ \A t \in Tasks : ~Live(t) /\ t \notin submitting

\* StopAndJoin returns, whatever the tasks were doing, as long as their functions end
\* when their stop token is set.
ShutdownEnds == (main = "joining") ~> (main = "joined")

\* "TaskCoordinator should run all accepted work": a task that waits for its keys runs,
\* unless somebody stops it first; tasks with several keys do not block each other.
AcceptedRuns ==
    \A t \in Tasks : status[t] = "waiting" ~> (status[t] = "running" \/ t \in stop)

\* CONTEXT.md of the profile cloud queue: tasks that share its key run in the order in
\* which they were submitted.
SubmissionOrder ==
    \A t \in Tasks : status[t] = "running" => \A u \in ahead[t] : status[u] # "waiting"

=============================================================================
