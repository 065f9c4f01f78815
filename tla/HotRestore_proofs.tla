------------------------- MODULE HotRestore_proofs --------------------------
(* Proofs about HotRestore, for any operations, configurations, worlds and *)
(* jobs: types, that no open world is overwritten, that one operation at a *)
(* time touches a world's files, and that the hot-restore state is owned.  *)
EXTENDS HotRestore, FiniteSetTheorems, SequenceTheorems, TLAPS

Answers == {"HANDSHAKE_RESPONSE", "WORLD_SAVED", "WORLD_SAVE_AND_EXIT_COMPLETE"}
Grades == {"cold", "Degraded", "Coordinated"}
Asks == [event : Events, op : Ops]

\* TypeOK with what it leaves out: the jobs, the messages and the game.
Typed ==
    /\ job \in [Ops -> Jobs]
    /\ pc \in [Ops -> Places]
    /\ grade \in [Ops -> Grades]
    /\ hot \subseteq Ops /\ retried \subseteq Ops
    /\ hotState \in {"IDLE", "WAITING_FOR_MOD", "RESTORING"}
    /\ guard \in [Worlds -> Ops \cup {None}]
    /\ flags \subseteq {"handshake", "saved", "left"} /\ detected \in BOOLEAN
    /\ asks \in Seq(Asks)
    /\ mail \subseteq [answer : Answers, op : Ops]
    /\ fits \in BOOLEAN
    /\ open \subseteq Worlds /\ leaving \subseteq Worlds /\ session \subseteq Worlds
    /\ opens \in 0..MaxOpens /\ saved \subseteq Ops

\* Typed says all that TypeOK says.
LEMMA TypedGivesTypeOK == Typed => TypeOK
<1> SUFFICES ASSUME Typed PROVE TypeOK
  OBVIOUS
<1>1. asks \in Seq(Asks)
  BY DEF Typed
<1>2. \A i \in 1..Len(asks) : asks[i] \in Asks
  BY <1>1, ElementOfSeq
<1>3. \A i \in 1..Len(asks) : asks[i] \in [event : Events, op : Ops]
  BY <1>2 DEF Asks
<1> QED
  BY <1>3 DEF Typed, TypeOK, Grades

\* What an operation's job is made of.
LEMMA JobFields ==
  ASSUME NEW o \in Ops, job \in [Ops -> Jobs]
  PROVE  /\ World(o) \in Worlds
         /\ job[o].kind \in {"backup", "user", "command"}
         /\ job[o].safe \in BOOLEAN
         /\ job[o].config \in Configs
BY DEF World, Jobs

\* The first ask is one, and what is left are asks.
LEMMA HeadAsk ==
  ASSUME asks \in Seq(Asks), asks # <<>>
  PROVE  Head(asks).op \in Ops /\ Tail(asks) \in Seq(Asks)
<1>1. Head(asks) \in Asks /\ Tail(asks) \in Seq(Asks)
  BY HeadTailProperties
<1> QED
  BY <1>1 DEF Asks

\* Broadcasting one more event leaves a sequence of asks.
LEMMA AppendAsk ==
  ASSUME asks \in Seq(Asks), NEW o \in Ops, NEW e \in Events
  PROVE  Append(asks, Ask(e, o)) \in Seq(Asks)
<1>1. Ask(e, o) \in Asks
  BY DEF Ask, Asks
<1> QED
  BY <1>1, AppendProperties

\* The end of an operation keeps the types of what it writes.
LEMMA EndTyped ==
  ASSUME Typed, NEW o \in Ops, End(o)
  PROVE  /\ pc' \in [Ops -> Places] /\ guard' \in [Worlds -> Ops \cup {None}]
         /\ grade' \in [Ops -> Grades] /\ retried' \subseteq Ops /\ hot' \subseteq Ops
         /\ hotState' \in {"IDLE", "WAITING_FOR_MOD", "RESTORING"}
BY DEF Typed, End, Goto, Released, Grades, Places

\* So does a handshake.
LEMMA ShakeTyped ==
  ASSUME Typed, NEW o \in Ops, Shake(o)
  PROVE  /\ flags' \subseteq {"handshake", "saved", "left"} /\ detected' \in BOOLEAN
         /\ asks' \in Seq(Asks) /\ mail' \subseteq [answer : Answers, op : Ops]
BY AppendAsk DEF Typed, Shake, Events

-----------------------------------------------------------------------------
(* Types.                                                                  *)

\* The initial states have the types.
LEMMA InitTyped == Init => Typed
<1> SUFFICES ASSUME Init PROVE Typed
  OBVIOUS
<1>1. asks \in Seq(Asks)
  BY EmptySeq DEF Init
<1>2. job \in [Ops -> Jobs]
  BY DemandsAssumption DEF Init
<1>3. opens \in 0..MaxOpens
  BY BoundAssumption DEF Init
<1>4. guard \in [Worlds -> Ops \cup {None}]
  BY DEF Init
<1>5. pc \in [Ops -> Places] /\ grade \in [Ops -> Grades]
  BY DEF Init, Places, Grades
<1> QED
  BY <1>1, <1>2, <1>3, <1>4, <1>5 DEF Init, Typed

\* A step of an operation's thread keeps the types.
LEMMA StepTyped ==
  ASSUME Typed, NEW o \in Ops, Begin(o) \/ Step(o)
  PROVE  Typed'
<1>w. World(o) \in Worlds
  BY JobFields DEF Typed
<1>1. CASE Begin(o)
  BY <1>1 DEF Typed, Begin, Goto, Places, link, game
<1>2. CASE Backup(o)
  <2>1. CASE BackupStart(o)
    BY <2>1, <1>w, ShakeTyped DEF Typed, BackupStart, Goto, Places, game, link
  <2>2. CASE BackupBusy(o)
    BY <2>2, EndTyped DEF Typed, BackupBusy, link, game
  <2>3. CASE BackupAsk(o)
    <3>1. asks' \in Seq(Asks)
      BY <2>3, AppendAsk DEF BackupAsk, Typed, Events
    <3> QED
      BY <2>3, <3>1 DEF Typed, BackupAsk, Goto, Places, game
  <2>4. CASE BackupUnavailable(o)
    BY <2>4 DEF Typed, BackupUnavailable, Goto, Places, Grades, game
  <2>5. CASE BackupSaved(o)
    BY <2>5 DEF Typed, BackupSaved, Goto, Places, Grades, link, game
  <2>6. CASE BackupEnd(o)
    <3>1. CASE job[o].kind = "backup"
      BY <2>6, <3>1, EndTyped DEF Typed, BackupEnd, link
    <3>2. CASE job[o].kind # "backup"
      BY <2>6, <3>2 DEF Typed, BackupEnd, Goto, Released, Places, Grades, link
    <3> QED
      BY <3>1, <3>2
  <2>7. CASE BackupFails(o)
    BY <2>7, EndTyped DEF Typed, BackupFails, link
  <2> QED
    BY <1>2, <2>1, <2>2, <2>3, <2>4, <2>5, <2>6, <2>7 DEF Backup
<1>3. CASE Handshake(o)
  <2>1. CASE Cold(o)
    BY <2>1 DEF Typed, Cold, Goto, Places, link, game
  <2>2. CASE Enter(o)
    BY <2>2, ShakeTyped DEF Typed, Enter, Goto, Places, game
  <2>3. CASE InProgress(o) \/ Incompatible(o)
    BY <2>3, EndTyped DEF Typed, InProgress, Incompatible, link, game
  <2>4. CASE Compatible(o)
    BY <2>4 DEF Typed, Compatible, Goto, Places, link, game
  <2>5. CASE ShakeTimesOut(o)
    <3>1. CASE Shake(o)
      BY <2>5, <3>1, ShakeTyped, EndTyped DEF Typed, ShakeTimesOut, game
    <3>2. CASE ~Shake(o)
      BY <2>5, <3>2, EndTyped DEF Typed, ShakeTimesOut, game
    <3> QED
      BY <3>1, <3>2
  <2> QED
    BY <1>3, <2>1, <2>2, <2>3, <2>4, <2>5 DEF Handshake
<1>4. CASE Coordinate(o)
  <2>1. CASE AskExit(o)
    <3>1. asks' \in Seq(Asks)
      BY <2>1, AppendAsk DEF AskExit, Typed, Events
    <3> QED
      BY <2>1, <3>1 DEF Typed, AskExit, Goto, Places, game
  <2>2. CASE ExitAnswered(o)
    BY <2>2 DEF Typed, ExitAnswered, Goto, Places, link, game
  <2>3. CASE ExitTimesOut(o) \/ ReleaseTimesOut(o) \/ RejoinEnds(o)
    BY <2>3, EndTyped DEF Typed, ExitTimesOut, ReleaseTimesOut, RejoinEnds, link, game
  <2>4. CASE WorldReleased(o)
    BY <2>4 DEF Typed, WorldReleased, Goto, Places, link, game
  <2>5. CASE AskRejoin(o)
    <3>1. asks' \in Seq(Asks)
      BY <2>5, AppendAsk DEF AskRejoin, Typed, Events
    <3> QED
      BY <2>5, <3>1 DEF Typed, AskRejoin, Goto, Places, game
  <2> QED
    BY <1>4, <2>1, <2>2, <2>3, <2>4, <2>5 DEF Coordinate
<1>5. CASE Restore(o)
  <2>1. CASE Check(o)
    BY <2>1 DEF Typed, Check, Goto, Places, link, game
  <2>2. CASE Recheck(o)
    BY <2>2 DEF Typed, Recheck, Goto, Places, link, game
  <2>3. CASE Register(o)
    BY <2>3, <1>w DEF Typed, Register, Goto, Places, link, game
  <2>4. CASE RestoreFails(o)
    BY <2>4, EndTyped DEF Typed, RestoreFails, link, game
  <2>5. CASE Applied(o)
    <3>1. CASE o \in hot
      BY <2>5, <3>1 DEF Typed, Applied, Goto, Released, Places, link, game
    <3>2. CASE o \notin hot
      BY <2>5, <3>2, EndTyped DEF Typed, Applied, link, game
    <3> QED
      BY <3>1, <3>2
  <2> QED
    BY <1>5, <2>1, <2>2, <2>3, <2>4, <2>5 DEF Restore
<1> QED
  BY <1>1, <1>2, <1>3, <1>4, <1>5 DEF Step

\* So do the mod, the game, the player and the arrival of an answer.
LEMMA OutsideTyped ==
  ASSUME Typed, Game \/ \E m \in mail : Deliver(m)
  PROVE  Typed'
<1>h. asks # <<>> => Head(asks).op \in Ops /\ Tail(asks) \in Seq(Asks)
  BY HeadAsk DEF Typed
<1>w. asks # <<>> => World(Head(asks).op) \in Worlds
  BY <1>h, JobFields DEF Typed
<1>1. CASE \E m \in mail : Deliver(m)
  <2> PICK m \in mail : Deliver(m)
    BY <1>1
  <2>1. m.answer \in Answers
    BY DEF Typed
  <2>2. FlagOf(m.answer) \subseteq {"handshake", "saved", "left"}
    BY <2>1 DEF FlagOf, Answers
  <2> QED
    BY <2>2 DEF Typed, Deliver, ops, game
<1>2. CASE ModShakes
  BY <1>2, <1>h DEF Typed, ModShakes, ModHandle, ModAnswers, Answers, ops, game
<1>3. CASE ModSaves
  BY <1>3, <1>h DEF Typed, ModSaves, ModHandle, ModAnswers, Answers, ops
<1>4. CASE ModLeaves
  BY <1>4, <1>h, <1>w DEF Typed, ModLeaves, ModHandle, ModAnswers, Answers, ops
<1>5. CASE ModRejoins
  BY <1>5, <1>h, <1>w DEF Typed, ModRejoins, ModHandle, ops
<1>6. CASE \E w \in Worlds : GameReleases(w)
  BY <1>6 DEF Typed, GameReleases, ops, link
<1>7. CASE \E w \in Worlds : PlayerOpens(w)
  BY <1>7, BoundAssumption DEF Typed, PlayerOpens, ops, link
<1> QED
  BY <1>1, <1>2, <1>3, <1>4, <1>5, <1>6, <1>7 DEF Game

\* Every step keeps the types.
LEMMA NextTyped == Typed /\ [Next]_vars => Typed'
<1> SUFFICES ASSUME Typed, [Next]_vars PROVE Typed'
  OBVIOUS
<1>1. CASE UNCHANGED vars
  BY <1>1 DEF Typed, vars, ops, link, game
<1>2. CASE Next
  BY <1>2, StepTyped, OutsideTyped DEF Next
<1> QED
  BY <1>1, <1>2

\* Whatever order threads, answers and the game take their steps in, every variable has
\* its type: in particular every event that is broadcast names the operation it is for.
THEOREM Typing == Spec => []TypeOK
<1>1. Spec => []Typed
  BY InitTyped, NextTyped, PTL DEF Spec
<1> QED
  BY <1>1, TypedGivesTypeOK, PTL

-----------------------------------------------------------------------------
(* The guard: who holds it, and where.                                     *)

Holding == {"bshake", "basked", "copy", "apply"}

\* The guard of a world is held by an operation exactly while that operation is between
\* taking it and letting it go: it is never leaked, never dropped early, never another's.
Held ==
    \A w \in Worlds, o \in Ops : (guard[w] = o) <=> (w = World(o) /\ pc[o] \in Holding)

\* An operation goes on, holding what it held.
LEMMA HeldGo ==
  ASSUME Typed, Held, NEW o \in Ops, NEW place, Goto(o, place),
         UNCHANGED <<job, guard>>, (pc[o] \in Holding) = (place \in Holding)
  PROVE  Held'
BY DEF Typed, Held, Goto, World

\* An operation goes where it holds nothing, and lets go of what it held.
LEMMA HeldRelease ==
  ASSUME Typed, Held, NEW o \in Ops, NEW place, Goto(o, place),
         guard' = Released(o), UNCHANGED job, place \notin Holding
  PROVE  Held'
BY NoneAssumption DEF Typed, Held, Goto, World, Released

\* An operation that ends holds nothing any more.
LEMMA HeldEnd ==
  ASSUME Typed, Held, NEW o \in Ops, End(o), UNCHANGED job
  PROVE  Held'
BY HeldRelease DEF End, Holding

\* An operation takes the guard of its world when nobody has it.
LEMMA HeldTake ==
  ASSUME Typed, Held, NEW o \in Ops, NEW place, Goto(o, place), UNCHANGED job,
         guard[World(o)] = None, guard' = [guard EXCEPT ![World(o)] = o], place \in Holding
  PROVE  Held'
<1>1. World(o) \in Worlds
  BY JobFields DEF Typed
<1>2. pc[o] \notin Holding
  BY <1>1, NoneAssumption DEF Held
<1> QED
  BY <1>1, <1>2, NoneAssumption DEF Typed, Held, Goto, World

\* No guard is held before the first operation.
LEMMA InitHeld == Init => Held
BY NoneAssumption DEF Init, Held, Holding, World

\* A step of an operation's thread keeps who holds what.
LEMMA StepHeld ==
  ASSUME Typed, Held, NEW o \in Ops, Begin(o) \/ Step(o)
  PROVE  Held'
<1> USE DEF Holding
<1>1. CASE Begin(o)
  BY <1>1, HeldGo DEF Begin
<1>2. CASE Backup(o)
  <2>1. CASE BackupStart(o)
    BY <2>1, HeldTake DEF BackupStart
  <2>2. CASE BackupBusy(o) \/ BackupFails(o)
    BY <2>2, HeldEnd DEF BackupBusy, BackupFails
  <2>3. CASE BackupAsk(o) \/ BackupUnavailable(o) \/ BackupSaved(o)
    <3>1. CASE BackupAsk(o)
      BY <3>1, HeldGo DEF BackupAsk
    <3>2. CASE BackupUnavailable(o)
      BY <3>2, HeldGo DEF BackupUnavailable
    <3>3. CASE BackupSaved(o)
      BY <3>3, HeldGo DEF BackupSaved
    <3> QED
      BY <2>3, <3>1, <3>2, <3>3
  <2>4. CASE BackupEnd(o)
    <3>1. CASE job[o].kind = "backup"
      BY <2>4, <3>1, HeldEnd DEF BackupEnd
    <3>2. CASE job[o].kind # "backup"
      BY <2>4, <3>2, HeldRelease DEF BackupEnd
    <3> QED
      BY <3>1, <3>2
  <2> QED
    BY <1>2, <2>1, <2>2, <2>3, <2>4 DEF Backup
<1>3. CASE Handshake(o)
  <2>1. CASE Cold(o) \/ Enter(o) \/ Compatible(o)
    BY <2>1, HeldGo DEF Cold, Enter, Compatible
  <2>2. CASE InProgress(o) \/ Incompatible(o)
    BY <2>2, HeldEnd DEF InProgress, Incompatible
  <2>3. CASE ShakeTimesOut(o)
    <3>1. CASE UNCHANGED <<pc, guard>>
      BY <2>3, <3>1 DEF ShakeTimesOut, Held, World
    <3>2. CASE End(o)
      BY <2>3, <3>2, HeldEnd DEF ShakeTimesOut
    <3> QED
      BY <2>3, <3>1, <3>2 DEF ShakeTimesOut
  <2> QED
    BY <1>3, <2>1, <2>2, <2>3 DEF Handshake
<1>4. CASE Coordinate(o)
  <2>1. CASE AskExit(o) \/ ExitAnswered(o) \/ WorldReleased(o) \/ AskRejoin(o)
    BY <2>1, HeldGo DEF AskExit, ExitAnswered, WorldReleased, AskRejoin
  <2>2. CASE ExitTimesOut(o) \/ ReleaseTimesOut(o) \/ RejoinEnds(o)
    BY <2>2, HeldEnd DEF ExitTimesOut, ReleaseTimesOut, RejoinEnds
  <2> QED
    BY <1>4, <2>1, <2>2 DEF Coordinate
<1>5. CASE Restore(o)
  <2>1. CASE Check(o) \/ Recheck(o)
    BY <2>1, HeldGo DEF Check, Recheck
  <2>2. CASE Register(o)
    BY <2>2, HeldTake DEF Register
  <2>3. CASE RestoreFails(o)
    BY <2>3, HeldEnd DEF RestoreFails
  <2>4. CASE Applied(o)
    <3>1. CASE o \in hot
      BY <2>4, <3>1, HeldRelease DEF Applied
    <3>2. CASE o \notin hot
      BY <2>4, <3>2, HeldEnd DEF Applied
    <3> QED
      BY <3>1, <3>2
  <2> QED
    BY <1>5, <2>1, <2>2, <2>3, <2>4 DEF Restore
<1> QED
  BY <1>1, <1>2, <1>3, <1>4, <1>5 DEF Step

\* The mod, the game, the player and an answer that arrives change no operation, no
\* guard and no state of a hot restore.
LEMMA OutsideKeeps ==
  ASSUME Game \/ \E m \in mail : Deliver(m)
  PROVE  UNCHANGED <<job, pc, hot, hotState, guard>>
BY DEF Game, Deliver, ModShakes, ModSaves, ModLeaves, ModRejoins, GameReleases, PlayerOpens,
       ops, game

\* Every step keeps who holds what.
LEMMA NextHeld == Typed /\ Held /\ [Next]_vars => Held'
<1> SUFFICES ASSUME Typed, Held, [Next]_vars PROVE Held'
  OBVIOUS
<1>1. CASE UNCHANGED <<job, pc, guard>>
  BY <1>1 DEF Held, World
<1>2. CASE Next
  BY <1>1, <1>2, StepHeld, OutsideKeeps DEF Next
<1> QED
  BY <1>1, <1>2 DEF vars, ops

\* Two operations of one world would both be registered in its one guard.
LEMMA HeldExcludes == Typed /\ Held => OneWriter
<1> SUFFICES ASSUME Typed, Held, NEW o \in Ops, NEW p \in Ops, World(o) = World(p),
                    pc[o] = "apply", pc[p] \in Holding
             PROVE  o = p
  BY DEF OneWriter, Holding
<1>1. World(o) \in Worlds
  BY JobFields DEF Typed
<1>2. guard[World(o)] = o /\ guard[World(o)] = p
  BY <1>1 DEF Held, Holding
<1> QED
  BY <1>2

\* No operation touches the files of a world another one is replacing, whatever
\* configurations the two belong to, and though a restore lets go of the guard and takes
\* it again around its safety backup (BackupManager.cpp:171-222, RestoreService.cpp:486).
THEOREM FilesHaveOneWriter == Spec => []OneWriter
<1>1. Spec => []Typed
  BY InitTyped, NextTyped, PTL DEF Spec
<1>2. Spec => []Held
  BY <1>1, InitHeld, NextHeld, PTL DEF Spec
<1> QED
  BY <1>1, <1>2, HeldExcludes, PTL

-----------------------------------------------------------------------------
(* The world under a restore is closed.                                    *)

\* From its second look on, a restore has a closed world before it.
Closed == \A o \in Ops : pc[o] \in {"register", "apply"} => ~Occupied(World(o))

\* No restore has begun.
LEMMA InitClosed == Init => Closed
BY DEF Init, Closed

\* Only the second look leads there, and it asks for a closed world.
LEMMA StepClosed ==
  ASSUME Typed, Closed, NEW o \in Ops, Begin(o) \/ Step(o)
  PROVE  Closed'
<1>1. UNCHANGED <<job, open>>
  BY DEF Begin, Step, Backup, Handshake, Coordinate, Restore, BackupStart, BackupBusy, BackupAsk,
         BackupUnavailable, BackupSaved, BackupEnd, BackupFails, Cold, Enter, InProgress,
         Compatible, Incompatible, ShakeTimesOut, AskExit, ExitAnswered, ExitTimesOut,
         WorldReleased, ReleaseTimesOut, AskRejoin, RejoinEnds, Check, Recheck, Register,
         RestoreFails, Applied, game
<1>2. \A p \in Ops \ {o} : pc'[p] = pc[p]
  BY DEF Typed, Begin, Step, Backup, Handshake, Coordinate, Restore, BackupStart, BackupBusy,
         BackupAsk, BackupUnavailable, BackupSaved, BackupEnd, BackupFails, Cold, Enter,
         InProgress, Compatible, Incompatible, ShakeTimesOut, AskExit, ExitAnswered,
         ExitTimesOut, WorldReleased, ReleaseTimesOut, AskRejoin, RejoinEnds, Check, Recheck,
         Register, RestoreFails, Applied, End, Goto
<1>3. pc'[o] \in {"register", "apply"} => Recheck(o) \/ pc[o] \in {"register", "apply"}
  BY DEF Typed, Begin, Step, Backup, Handshake, Coordinate, Restore, BackupStart, BackupBusy,
         BackupAsk, BackupUnavailable, BackupSaved, BackupEnd, BackupFails, Cold, Enter,
         InProgress, Compatible, Incompatible, ShakeTimesOut, AskExit, ExitAnswered,
         ExitTimesOut, WorldReleased, ReleaseTimesOut, AskRejoin, RejoinEnds, Check,
         Register, RestoreFails, Applied, End, Goto
<1>4. pc'[o] \in {"register", "apply"} => ~Occupied(World(o))
  BY <1>3 DEF Closed, Recheck
<1> QED
  BY <1>1, <1>2, <1>4 DEF Closed, Occupied, World

\* A world a restore has looked at for the second time is not opened.
LEMMA OutsideClosed ==
  ASSUME Closed, Game \/ \E m \in mail : Deliver(m)
  PROVE  Closed'
<1>1. \A w \in open' : w \in open \/ MayOpen(w)
  BY DEF Game, Deliver, ModShakes, ModSaves, ModLeaves, ModRejoins, GameReleases, PlayerOpens,
         game
<1>2. UNCHANGED <<job, pc>>
  BY OutsideKeeps
<1> QED
  BY <1>1, <1>2 DEF Closed, Occupied, World, MayOpen

\* Every step keeps the world closed.
LEMMA NextClosed == Typed /\ Closed /\ [Next]_vars => Closed'
<1> SUFFICES ASSUME Typed, Closed, [Next]_vars PROVE Closed'
  OBVIOUS
<1>1. CASE UNCHANGED vars
  BY <1>1 DEF Closed, Occupied, World, vars, ops, game
<1>2. CASE Next
  BY <1>2, StepClosed, OutsideClosed DEF Next
<1> QED
  BY <1>1, <1>2

\* The files of a world are never replaced while the game has it open, though the answer
\* that lets a restore go on may be a late one meant for an earlier restore, and the player
\* may open the world during the safety backup.  It rests on what the model assumes of the
\* game between the second look and the end of the restore, and on nothing about the mod
\* (HotRestoreCoordinator.cpp:129-145, RestoreService.cpp:480).
THEOREM RestoresClosedWorlds == Spec => []NotUnderTheGame
<1>1. Spec => []Typed
  BY InitTyped, NextTyped, PTL DEF Spec
<1>2. Spec => []Closed
  BY <1>1, InitClosed, NextClosed, PTL DEF Spec
<1>3. Closed => NotUnderTheGame
  BY DEF Closed, NotUnderTheGame
<1> QED
  BY <1>2, <1>3, PTL

-----------------------------------------------------------------------------
(* The state of a hot restore.                                             *)

\* Where a restore can only be after it passed the exchange of hotkeyRestoreState.
HotPlaces == {"shake", "ready", "asked", "poll", "told", "rejoin"}
\* Where a hot restore waits for the mod; anywhere else it has found the world left.
Waiting == {"shake", "ready", "asked", "poll"}

\* The state is IDLE when no restore passed the exchange; at most one did; the operations
\* that talk to the mod about leaving did; the one that did has not ended, backs up for
\* its own safety only, and has set RESTORING once it waits no more.
HotHeld ==
    /\ (hotState = "IDLE") = (hot = {})
    /\ \A a, b \in hot : a = b
    /\ \A o \in Ops : pc[o] \in HotPlaces => o \in hot
    /\ \A o \in hot :
          /\ pc[o] \notin {"idle", "test", "done"}
          /\ pc[o] \in {"backup"} \cup (Holding \ {"apply"}) => job[o].kind = "command"
          /\ pc[o] \notin Waiting => hotState = "RESTORING"

\* A place where an operation may be, hot or not, as far as its kind and the state go.
Fits(o, place) ==
    /\ place \in HotPlaces => o \in hot
    /\ o \in hot =>
          /\ place \notin {"idle", "test", "done"}
          /\ place \in {"backup"} \cup (Holding \ {"apply"}) => job[o].kind = "command"
          /\ place \notin Waiting => hotState = "RESTORING"

\* The one hot restore goes on, or a cold operation does.
LEMMA HotHeldGo ==
  ASSUME Typed, HotHeld, NEW o \in Ops, NEW place, Goto(o, place),
         UNCHANGED <<job, hot, hotState>>, Fits(o, place)
  PROVE  HotHeld'
BY DEF Typed, HotHeld, Goto, Fits

\* What ends is hot no more, and the state goes back to IDLE with the one that was.
LEMMA HotHeldEnd ==
  ASSUME Typed, HotHeld, NEW o \in Ops, End(o), UNCHANGED job
  PROVE  HotHeld'
<1> USE DEF Holding, HotPlaces, Waiting
<1>1. CASE o \in hot
  <2>1. hot' = {} /\ hotState' = "IDLE"
    BY <1>1 DEF End, HotHeld
  <2>2. \A p \in Ops : pc'[p] \notin HotPlaces
    BY <1>1 DEF Typed, End, HotHeld, Goto
  <2> QED
    BY <2>1, <2>2 DEF HotHeld
<1>2. CASE o \notin hot
  BY <1>2 DEF Typed, HotHeld, End, Goto
<1> QED
  BY <1>1, <1>2

\* A restore passes the exchange when no other is under way.
LEMMA HotHeldEnter ==
  ASSUME Typed, HotHeld, NEW o \in Ops, Enter(o)
  PROVE  HotHeld'
<1>1. hot = {} /\ hot' = {o} /\ hotState' = "WAITING_FOR_MOD"
  BY DEF Enter, HotHeld
<1> QED
  BY <1>1 DEF Typed, HotHeld, Enter, Goto, Holding, HotPlaces, Waiting

\* The world was left: the one restore under way sets RESTORING.
LEMMA HotHeldRelease ==
  ASSUME Typed, HotHeld, NEW o \in Ops, WorldReleased(o)
  PROVE  HotHeld'
<1>1. hot = {o}
  BY DEF WorldReleased, HotHeld, HotPlaces
<1> QED
  BY <1>1 DEF Typed, HotHeld, WorldReleased, Goto, Holding, HotPlaces, Waiting

\* No restore is hot before the first has begun.
LEMMA InitHotHeld == Init => HotHeld
BY DEF Init, HotHeld, HotPlaces

\* A step of an operation's thread keeps the state owned.
LEMMA StepHotHeld ==
  ASSUME Typed, HotHeld, NEW o \in Ops, Begin(o) \/ Step(o)
  PROVE  HotHeld'
<1> USE DEF HotPlaces, Waiting, Holding, Fits
<1>k. job[o].kind \in {"backup", "user", "command"}
  BY JobFields DEF Typed
<1>1. CASE Begin(o)
  <2>1. o \notin hot
    BY <1>1 DEF Begin, HotHeld
  <2> QED
    BY <1>1, <2>1, HotHeldGo DEF Begin
<1>2. CASE Backup(o)
  <2>1. CASE BackupStart(o)
    BY <2>1, HotHeldGo DEF BackupStart, HotHeld
  <2>2. CASE BackupBusy(o) \/ BackupFails(o)
    BY <2>2, HotHeldEnd DEF BackupBusy, BackupFails
  <2>3. CASE BackupAsk(o)
    BY <2>3, HotHeldGo DEF BackupAsk, HotHeld
  <2>4. CASE BackupUnavailable(o)
    BY <2>4, HotHeldGo DEF BackupUnavailable, HotHeld
  <2>5. CASE BackupSaved(o)
    BY <2>5, HotHeldGo DEF BackupSaved, HotHeld
  <2>6. CASE BackupEnd(o)
    <3>1. CASE job[o].kind = "backup"
      BY <2>6, <3>1, HotHeldEnd DEF BackupEnd
    <3>2. CASE job[o].kind = "user"
      <4>1. o \notin hot
        BY <2>6, <3>2 DEF BackupEnd, HotHeld
      <4> QED
        BY <2>6, <3>2, <4>1, HotHeldGo DEF BackupEnd
    <3>3. CASE job[o].kind = "command"
      BY <2>6, <3>3, HotHeldGo DEF BackupEnd, HotHeld
    <3> QED
      BY <1>k, <3>1, <3>2, <3>3
  <2> QED
    BY <1>2, <2>1, <2>2, <2>3, <2>4, <2>5, <2>6 DEF Backup
<1>3. CASE Handshake(o)
  <2>1. CASE Cold(o)
    BY <2>1, HotHeldGo DEF Cold, HotHeld
  <2>2. CASE Enter(o)
    BY <2>2, HotHeldEnter
  <2>3. CASE InProgress(o) \/ Incompatible(o)
    BY <2>3, HotHeldEnd DEF InProgress, Incompatible
  <2>4. CASE Compatible(o)
    BY <2>4, HotHeldGo DEF Compatible, HotHeld
  <2>5. CASE ShakeTimesOut(o)
    <3>1. CASE UNCHANGED <<pc, hot, hotState>>
      BY <2>5, <3>1 DEF ShakeTimesOut, HotHeld
    <3>2. CASE End(o)
      BY <2>5, <3>2, HotHeldEnd DEF ShakeTimesOut
    <3> QED
      BY <2>5, <3>1, <3>2 DEF ShakeTimesOut
  <2> QED
    BY <1>3, <2>1, <2>2, <2>3, <2>4, <2>5 DEF Handshake
<1>4. CASE Coordinate(o)
  <2>1. CASE AskExit(o)
    BY <2>1, HotHeldGo DEF AskExit, HotHeld
  <2>2. CASE ExitAnswered(o)
    BY <2>2, HotHeldGo DEF ExitAnswered, HotHeld
  <2>3. CASE WorldReleased(o)
    BY <2>3, HotHeldRelease
  <2>4. CASE AskRejoin(o)
    BY <2>4, HotHeldGo DEF AskRejoin, HotHeld
  <2>5. CASE ExitTimesOut(o) \/ ReleaseTimesOut(o) \/ RejoinEnds(o)
    BY <2>5, HotHeldEnd DEF ExitTimesOut, ReleaseTimesOut, RejoinEnds
  <2> QED
    BY <1>4, <2>1, <2>2, <2>3, <2>4, <2>5 DEF Coordinate
<1>5. CASE Restore(o)
  <2>1. CASE Check(o)
    BY <2>1, HotHeldGo DEF Check, HotHeld
  <2>2. CASE Recheck(o)
    BY <2>2, HotHeldGo DEF Recheck, HotHeld
  <2>3. CASE Register(o)
    BY <2>3, HotHeldGo DEF Register, HotHeld
  <2>4. CASE RestoreFails(o)
    BY <2>4, HotHeldEnd DEF RestoreFails
  <2>5. CASE Applied(o)
    <3>1. CASE o \in hot
      BY <2>5, <3>1, HotHeldGo DEF Applied, HotHeld
    <3>2. CASE o \notin hot
      BY <2>5, <3>2, HotHeldEnd DEF Applied
    <3> QED
      BY <3>1, <3>2
  <2> QED
    BY <1>5, <2>1, <2>2, <2>3, <2>4, <2>5 DEF Restore
<1> QED
  BY <1>1, <1>2, <1>3, <1>4, <1>5 DEF Step

\* Every step keeps the state owned.
LEMMA NextHotHeld == Typed /\ HotHeld /\ [Next]_vars => HotHeld'
<1> SUFFICES ASSUME Typed, HotHeld, [Next]_vars PROVE HotHeld'
  OBVIOUS
<1>1. CASE UNCHANGED <<job, pc, hot, hotState>>
  BY <1>1 DEF HotHeld
<1>2. CASE Next
  BY <1>1, <1>2, StepHotHeld, OutsideKeeps DEF Next
<1> QED
  BY <1>1, <1>2 DEF vars, ops

\* The invariant says what the property says, and more.
LEMMA HotHeldOwned == HotHeld => HotStateOwned
<1> SUFFICES ASSUME HotHeld PROVE HotStateOwned
  OBVIOUS
<1>1. Cardinality(hot) <= 1
  <2>1. CASE hot = {}
    BY <2>1, FS_EmptySet
  <2>2. CASE hot # {}
    <3>1. PICK o \in hot : TRUE
      BY <2>2
    <3>2. hot = {o}
      BY <3>1 DEF HotHeld
    <3> QED
      BY <3>2, FS_Singleton
  <2> QED
    BY <2>1, <2>2
<1> QED
  BY <1>1 DEF HotHeld, HotStateOwned, Waiting

\* hotkeyRestoreState tells the truth for any number of restores and whatever the mod and
\* the game answer, or do not: it is IDLE when no hot restore is under way, there is at
\* most one, and one that replaces files has made it RESTORING
\* (GameSessionManager.cpp:215-235, BackupRestore.cpp:561, 600).
THEOREM OneHotRestore == Spec => []HotStateOwned
<1>1. Spec => []Typed
  BY InitTyped, NextTyped, PTL DEF Spec
<1>2. Spec => []HotHeld
  BY <1>1, InitHotHeld, NextHotHeld, PTL DEF Spec
<1> QED
  BY <1>2, HotHeldOwned, PTL

=============================================================================
