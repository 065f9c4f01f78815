----------------------- MODULE TaskCoordinator_proofs -----------------------
(* Proofs about TaskCoordinator: types, mutual exclusion on resource keys, *)
(* and that nothing runs once StopAndJoin has returned, for any number of  *)
(* tasks, keys and callers.                                                *)
EXTENDS TaskCoordinator, TLAPS

\* Every variable of the coordinator keeps its type, whatever the tasks and keys are.
THEOREM Typing == Spec => []TypeOK
<1>1. Init => TypeOK
  BY DEF Init, TypeOK, Statuses
<1>2. TypeOK /\ [Next]_vars => TypeOK'
  <2> SUFFICES ASSUME TypeOK, [Next]_vars PROVE TypeOK'
    OBVIOUS
  <2> USE KeysAssumption DEF TypeOK, Statuses, Become
  <2>1. ASSUME NEW t \in Tasks, Submit(t) \/ Refuse(t) PROVE TypeOK'
    BY <2>1 DEF Submit, Refuse
  <2>2. ASSUME NEW t \in Tasks, Enlist(t) PROVE TypeOK'
    BY <2>2 DEF Enlist
  <2>3. ASSUME NEW t \in Tasks, Lock(t) PROVE TypeOK'
    <3>1. PICK k \in KeysOf[t] \ held[t] : held' = [held EXCEPT ![t] = @ \cup {k}]
      BY <2>3 DEF Lock
    <3>2. held' \in [Tasks -> SUBSET Keys]
      BY <3>1
    <3> QED
      BY <2>3, <3>2 DEF Lock
  <2>4. ASSUME NEW t \in Tasks, Abandon(t) \/ Start(t) \/ Finish(t) PROVE TypeOK'
    BY <2>4 DEF Abandon, Start, Finish
  <2>5. ASSUME NEW t \in Tasks, Unlock(t) PROVE TypeOK'
    BY <2>5 DEF Unlock
  <2>6. ASSUME NEW t \in Tasks, Exit(t) PROVE TypeOK'
    BY <2>6 DEF Exit
  <2>7. ASSUME NEW n \in Names, RequestStop(n) PROVE TypeOK'
    BY <2>7 DEF RequestStop
  <2>8. CASE StopAndJoin
    BY <2>8 DEF StopAndJoin
  <2>9. CASE Joined
    BY <2>9 DEF Joined
  <2>10. CASE UNCHANGED vars
    BY <2>10 DEF vars
  <2> QED
    BY <2>1, <2>2, <2>3, <2>4, <2>5, <2>6, <2>7, <2>8, <2>9, <2>10 DEF Next, Worker, Closed
<1> QED
  BY <1>1, <1>2, PTL DEF Spec

-----------------------------------------------------------------------------
(* Mutual exclusion: a mutex has one holder, and a running task holds the  *)
(* mutexes of all its keys.                                                *)

Owned ==
    /\ \A t, u \in Tasks : t # u => held[t] \cap held[u] = {}
    /\ \A t \in Tasks : status[t] = "running" => held[t] = KeysOf[t]

\* Tasks that run hold all their keys, and a key has one holder.
LEMMA OwnedGivesExclusion == Owned => Exclusion
  BY DEF Owned, Exclusion

\* Every step keeps the keys owned by one task at most.
LEMMA OwnedStep == TypeOK /\ Owned /\ [Next]_vars => Owned'
<1> SUFFICES ASSUME TypeOK, Owned, [Next]_vars PROVE Owned'
  OBVIOUS
<1> USE DEF TypeOK, Owned, Become
<1>1. ASSUME NEW t \in Tasks, Submit(t) \/ Refuse(t) \/ Enlist(t) PROVE Owned'
  BY <1>1 DEF Submit, Refuse, Enlist
<1>2. ASSUME NEW t \in Tasks, Lock(t) PROVE Owned'
  <2>1. PICK k \in KeysOf[t] \ held[t] :
          (\A u \in Tasks : k \notin held[u]) /\ held' = [held EXCEPT ![t] = @ \cup {k}]
    BY <1>2 DEF Lock
  <2>2. status[t] # "running" /\ status' = status
    BY <1>2 DEF Lock
  <2> QED
    BY <2>1, <2>2
<1>3. ASSUME NEW t \in Tasks, Abandon(t) \/ Start(t) \/ Finish(t) PROVE Owned'
  BY <1>3 DEF Abandon, Start, Finish
<1>4. ASSUME NEW t \in Tasks, Unlock(t) PROVE Owned'
  BY <1>4 DEF Unlock
<1>5. ASSUME NEW t \in Tasks, Exit(t) PROVE Owned'
  BY <1>5 DEF Exit
<1>6. CASE (\E n \in Names : RequestStop(n)) \/ StopAndJoin \/ Joined \/ UNCHANGED vars
  BY <1>6 DEF RequestStop, StopAndJoin, Joined, vars
<1> QED
  BY <1>1, <1>2, <1>3, <1>4, <1>5, <1>6 DEF Next, Worker, Closed

\* "tasks for one world resource should never overlap", for any tasks and keys.
THEOREM MutualExclusion == Spec => []Exclusion
<1>1. Init => Owned
  BY DEF Init, Owned
<1> QED
  BY <1>1, Typing, OwnedStep, OwnedGivesExclusion, PTL DEF Spec

-----------------------------------------------------------------------------
(* Shutdown: every thread that is alive is in the list of records or in    *)
(* the list being joined, and stateMutex orders Submit with StopAndJoin.   *)

Accounted ==
    /\ \A t \in Tasks : Live(t) => t \in records \cup joining
    /\ main # "serving" => ~accepting /\ records = {}
    /\ main # "joining" => joining = {}
    /\ submitting # {} => accepting
    /\ \A t \in done : status[t] \in {"leaving", "exited"}
    /\ \A t \in submitting : status[t] = "new"

\* Live tasks that are all on record make the shutdown complete.
LEMMA AccountedGivesShutdown == Accounted => ShutdownComplete
  BY DEF Accounted, ShutdownComplete

\* Every step keeps the live tasks on record.
LEMMA AccountedStep == TypeOK /\ Accounted /\ [Next]_vars => Accounted'
<1> SUFFICES ASSUME TypeOK, Accounted, [Next]_vars PROVE Accounted'
  OBVIOUS
<1> USE DEF TypeOK, Accounted, Become, Live, MutexFree
<1>1. ASSUME NEW t \in Tasks, Submit(t) \/ Refuse(t) PROVE Accounted'
  BY <1>1 DEF Submit, Refuse
<1>2. ASSUME NEW t \in Tasks, Enlist(t) PROVE Accounted'
  \* Only records of ended threads are erased.
  <2>1. \A r \in records \cap done : status[r] = "exited"
    BY <1>2 DEF Enlist
  <2> QED
    BY <1>2, <2>1 DEF Enlist
<1>3. ASSUME NEW t \in Tasks, Lock(t) \/ Unlock(t) PROVE Accounted'
  BY <1>3 DEF Lock, Unlock
<1>4. ASSUME NEW t \in Tasks, Abandon(t) \/ Start(t) \/ Finish(t) PROVE Accounted'
  BY <1>4 DEF Abandon, Start, Finish
<1>5. ASSUME NEW t \in Tasks, Exit(t) PROVE Accounted'
  BY <1>5 DEF Exit
<1>6. CASE \E n \in Names : RequestStop(n)
  BY <1>6 DEF RequestStop
<1>7. CASE StopAndJoin
  BY <1>7 DEF StopAndJoin
<1>8. CASE Joined
  BY <1>8 DEF Joined
<1>9. CASE UNCHANGED vars
  BY <1>9 DEF vars
<1> QED
  BY <1>1, <1>2, <1>3, <1>4, <1>5, <1>6, <1>7, <1>8, <1>9 DEF Next, Worker, Closed

\* Once StopAndJoin has returned nothing runs or ever will, for any tasks and callers.
THEOREM ShutdownIsComplete == Spec => []ShutdownComplete
<1>1. Init => Accounted
  BY DEF Init, Accounted, Live
<1> QED
  BY <1>1, Typing, AccountedStep, AccountedGivesShutdown, PTL DEF Spec

=============================================================================
