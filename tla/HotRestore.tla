----------------------------- MODULE HotRestore -----------------------------
(***************************************************************************)
(* Hot backup and hot restore of the desktop application: backups and      *)
(* restores of worlds a game may have open.  They talk to the linkage mod  *)
(* inside the game: they broadcast an event, then wait on a flag of        *)
(* g_appState.knotLinkMod for the command the mod sends back, or for a     *)
(* time-out.  There is one set of flags for all operations, and an answer  *)
(* does not say which operation it answers.                                *)
(*                                                                         *)
(* Operations are tasks; the key of a task holds the identifier of the     *)
(* configuration and the path of the world.  Two configurations may list   *)
(* one world: only the WorldOperationGuard, keyed by the path, keeps their *)
(* operations apart.                                                       *)
(***************************************************************************)
EXTENDS Naturals, Sequences, FiniteSets

CONSTANTS
    Ops,        \* the operations that may be asked for, each once
    Configs,    \* identifiers of configurations
    Worlds,     \* paths of worlds, each listed by every configuration
    Demands,    \* what may be asked for: ways of giving each operation a job
    None,       \* no operation
    MaxOpens    \* bound: how often the player opens a world by hand

ASSUME NoneAssumption == None \notin Ops
ASSUME BoundAssumption == MaxOpens \in Nat

VARIABLES
    job,         \* op -> its kind, configuration and world; does a restore back up first
    pc,          \* op -> where its thread is
    grade,       \* op -> how its backup is coordinated: "cold", "Degraded", "Coordinated"
    hot,         \* the restores that passed the exchange of hotkeyRestoreState
    hotState,    \* g_appState.hotkeyRestoreState
    retried,     \* the user restores that are at their second handshake
    guard,       \* world -> the operation registered in g_worldOpInProgress
    flags,       \* the response flags of KnotLinkModInfo that are set
    detected,    \* modDetected and versionCompatible: the mod answered and fits
    asks,        \* events broadcast and not yet seen by the mod, in order
    mail,        \* commands of the mod not yet dispatched, in no order
    fits,        \* the version of the mod is not below MIN_MOD_VERSION
    open,        \* worlds the game has open
    leaving,     \* worlds the mod is about to leave
    session,     \* worlds the mod left for a restore and would rejoin
    opens,       \* bound: how often the player opened a world
    saved        \* ghost: the backups the mod has saved their world for

ops == <<pc, grade, hot, hotState, retried, guard>>
link == <<flags, detected, asks, mail>>
game == <<fits, open, leaving, session, opens, saved>>
vars == <<job, ops, link, game>>

Jobs ==
    [kind : {"backup"}, config : Configs, world : Worlds, safe : {FALSE}]
        \cup [kind : {"user", "command"}, config : Configs, world : Worlds, safe : BOOLEAN]

ASSUME DemandsAssumption == Demands \subseteq [Ops -> Jobs]

Init ==
    /\ job \in Demands
    /\ pc = [o \in Ops |-> "idle"]
    /\ grade = [o \in Ops |-> "cold"]
    /\ hot = {} /\ hotState = "IDLE" /\ retried = {}
    /\ guard = [w \in Worlds |-> None]
    /\ flags = {} /\ detected = FALSE /\ asks = <<>> /\ mail = {}
    /\ fits \in BOOLEAN /\ open \in SUBSET Worlds
    /\ leaving = {} /\ session = {} /\ opens = 0 /\ saved = {}

World(o) == job[o].world
Occupied(w) == w \in open
Ask(event, o) == [event |-> event, op |-> o]
Goto(o, place) == pc' = [pc EXCEPT ![o] = place]

\* A guard is let go by the operation that has it only.
Released(o) == [w \in Worlds |-> IF guard[w] = o THEN None ELSE guard[w]]

\* PerformModHandshake up to its wait: the flags and what is known of the mod are
\* cleared, the event goes out.
Shake(o) ==
    /\ flags' = {} /\ detected' = FALSE
    /\ asks' = Append(asks, Ask("handshake", o))
    /\ UNCHANGED mail

\* The end of an operation; the state of a hot restore goes back to IDLE with it.
End(o) ==
    /\ Goto(o, "done")
    /\ guard' = Released(o)
    /\ grade' = [grade EXCEPT ![o] = "cold"]
    /\ retried' = retried \ {o}
    /\ hot' = hot \ {o}
    /\ hotState' = IF o \in hot THEN "IDLE" ELSE hotState

-----------------------------------------------------------------------------
(* Backups, and the backup that comes before a restore.                    *)

\* The task runs, no other task with its key does.  A restore of the user backs up
\* first when it is told to; a restore the mod commanded heads for hotkeyRestoreState.
Begin(o) ==
    /\ pc[o] = "idle"
    /\ \A p \in Ops \ {o} :
          job[p].config = job[o].config /\ World(p) = World(o) => pc[p] \in {"idle", "done"}
    /\ Goto(o, IF job[o].kind = "backup" \/ (job[o].kind = "user" /\ job[o].safe)
               THEN "backup" ELSE "test")
    /\ UNCHANGED <<job, grade, hot, hotState, retried, guard, link, game>>

\* The backup registers in the guard and looks whether its world is locked; when it
\* is, the handshake begins.
BackupStart(o) ==
    /\ pc[o] = "backup" /\ guard[World(o)] = None
    /\ guard' = [guard EXCEPT ![World(o)] = o]
    /\ IF Occupied(World(o))
       THEN Goto(o, "bshake") /\ Shake(o)
       ELSE Goto(o, "copy") /\ UNCHANGED link
    /\ UNCHANGED <<job, grade, hot, hotState, retried, game>>

\* Another operation has the world: the backup is refused, a restore with it.
BackupBusy(o) ==
    /\ pc[o] = "backup" /\ guard[World(o)] # None
    /\ End(o)
    /\ UNCHANGED <<job, link, game>>

\* The handshake succeeded: the mod is asked to save.
BackupAsk(o) ==
    /\ pc[o] = "bshake" /\ "handshake" \in flags /\ detected
    /\ Goto(o, "basked")
    /\ asks' = Append(asks, Ask("pre_hot_backup", o))
    /\ UNCHANGED <<job, grade, hot, hotState, retried, guard, flags, detected, mail, game>>

\* No answer in time, or of a mod that is too old: the live files must do.
BackupUnavailable(o) ==
    /\ pc[o] = "bshake"
    /\ detected' = IF "handshake" \in flags THEN detected ELSE FALSE
    /\ "handshake" \in flags => ~detected
    /\ grade' = [grade EXCEPT ![o] = "Degraded"]
    /\ Goto(o, "copy")
    /\ UNCHANGED <<job, hot, hotState, retried, guard, flags, asks, mail, game>>

\* The mod has saved, or the wait of ten seconds is over.
BackupSaved(o) ==
    /\ pc[o] = "basked"
    /\ \E g \in {"Coordinated", "Degraded"} :
          /\ g = "Coordinated" => "saved" \in flags
          /\ grade' = [grade EXCEPT ![o] = g]
    /\ Goto(o, "copy")
    /\ UNCHANGED <<job, hot, hotState, retried, guard, link, game>>

\* The archive is written: a backup is over, a restore goes on.
BackupEnd(o) ==
    /\ pc[o] = "copy"
    /\ IF job[o].kind = "backup"
       THEN End(o)
       ELSE /\ Goto(o, IF job[o].kind = "user" THEN "test" ELSE "recheck")
            /\ guard' = Released(o)
            /\ grade' = [grade EXCEPT ![o] = "cold"]
            /\ UNCHANGED <<hot, hotState, retried>>
    /\ saved' = saved \ {o}
    /\ UNCHANGED <<job, link, fits, open, leaving, session, opens>>

BackupFails(o) ==
    /\ pc[o] = "copy" /\ job[o].kind # "backup"
    /\ End(o)
    /\ saved' = saved \ {o}
    /\ UNCHANGED <<job, link, fits, open, leaving, session, opens>>

-----------------------------------------------------------------------------
(* The handshake of a hot restore.                                         *)

\* A closed world is restored cold; the command of the mod does not look.
Cold(o) ==
    /\ pc[o] = "test" /\ job[o].kind = "user" /\ ~Occupied(World(o))
    /\ Goto(o, "check")
    /\ UNCHANGED <<job, grade, hot, hotState, retried, guard, link, game>>

\* Mutant of Enter: hotkeyRestoreState is stored without looking.
EnterBlindly(o) ==
    /\ pc[o] = "test" /\ (job[o].kind = "user" => Occupied(World(o)))
    /\ hotState' = "WAITING_FOR_MOD" /\ hot' = hot \cup {o}
    /\ Shake(o)
    /\ Goto(o, "shake")
    /\ UNCHANGED <<job, grade, retried, guard, game>>

\* hotkeyRestoreState.compare_exchange_strong succeeds.
Enter(o) ==
    /\ pc[o] = "test" /\ (job[o].kind = "user" => Occupied(World(o)))
    /\ hotState = "IDLE"
    /\ hotState' = "WAITING_FOR_MOD" /\ hot' = hot \cup {o}
    /\ Shake(o)
    /\ Goto(o, "shake")
    /\ UNCHANGED <<job, grade, retried, guard, game>>

\* A hot restore is in progress already.
InProgress(o) ==
    /\ pc[o] = "test" /\ (job[o].kind = "user" => Occupied(World(o)))
    /\ hotState # "IDLE"
    /\ End(o)
    /\ UNCHANGED <<job, link, game>>

Compatible(o) ==
    /\ pc[o] = "shake" /\ "handshake" \in flags /\ detected
    /\ Goto(o, "ready")
    /\ retried' = retried \ {o}
    /\ UNCHANGED <<job, grade, hot, hotState, guard, link, game>>

\* Mutant of Incompatible: the early return does not reset the state.
IncompatibleReturns(o) ==
    /\ pc[o] = "shake" /\ "handshake" \in flags /\ ~detected
    /\ Goto(o, "done")
    /\ UNCHANGED <<job, grade, hot, hotState, retried, guard, link, game>>

\* The mod is too old.
Incompatible(o) ==
    /\ pc[o] = "shake" /\ "handshake" \in flags /\ ~detected
    /\ End(o)
    /\ UNCHANGED <<job, link, game>>

\* No answer in three seconds.  A restore that backed up first tries once more.
ShakeTimesOut(o) ==
    /\ pc[o] = "shake" /\ "handshake" \notin flags
    /\ IF job[o].kind = "user" /\ job[o].safe /\ o \notin retried
       THEN /\ retried' = retried \cup {o}
            /\ Shake(o)
            /\ UNCHANGED <<pc, guard, grade, hot, hotState>>
       ELSE /\ detected' = FALSE
            /\ End(o)
            /\ UNCHANGED <<flags, asks, mail>>
    /\ UNCHANGED <<job, game>>

-----------------------------------------------------------------------------
(* HotRestoreCoordinator::Run, its handshake complete.                     *)

\* The flags are cleared once more; the mod is asked to save and leave the world.
AskExit(o) ==
    /\ pc[o] = "ready"
    /\ flags' = {}
    /\ asks' = Append(asks, Ask("pre_hot_restore", o))
    /\ Goto(o, "asked")
    /\ UNCHANGED <<job, grade, hot, hotState, retried, guard, detected, mail, game>>

\* The mod answered, or the restore is cancelled for lack of an answer.
ExitAnswered(o) ==
    /\ pc[o] = "asked" /\ "left" \in flags
    /\ Goto(o, "poll")
    /\ UNCHANGED <<job, grade, hot, hotState, retried, guard, link, game>>

ExitTimesOut(o) ==
    /\ pc[o] = "asked" /\ "left" \notin flags
    /\ End(o)
    /\ UNCHANGED <<job, link, game>>

\* The game lets go of the files a little later; the world is polled until then.
WorldReleased(o) ==
    /\ pc[o] = "poll" /\ ~Occupied(World(o))
    /\ hotState' = "RESTORING"
    /\ Goto(o, "check")
    /\ UNCHANGED <<job, grade, hot, retried, guard, link, game>>

ReleaseTimesOut(o) ==
    /\ pc[o] = "poll" /\ Occupied(World(o))
    /\ End(o)
    /\ UNCHANGED <<job, link, game>>

\* restore_finished, then rejoin_world; then the wait for what became of it.
AskRejoin(o) ==
    /\ pc[o] = "told"
    /\ asks' = Append(asks, Ask("rejoin_world", o))
    /\ Goto(o, "rejoin")
    /\ UNCHANGED <<job, grade, hot, hotState, retried, guard, flags, detected, mail, game>>

\* The restore is a success whatever the mod reports, or does not report in time.
RejoinEnds(o) ==
    /\ pc[o] = "rejoin"
    /\ End(o)
    /\ UNCHANGED <<job, link, game>>

-----------------------------------------------------------------------------
(* DoRestore, hot or cold.                                                 *)

\* The first look at the world; the archives are verified under the same plan.
Check(o) ==
    /\ pc[o] = "check" /\ ~Occupied(World(o))
    /\ Goto(o, IF job[o].kind = "command" /\ job[o].safe THEN "backup" ELSE "recheck")
    /\ UNCHANGED <<job, grade, hot, hotState, retried, guard, link, game>>

\* Mutant of Recheck: the first look is taken for enough.
RecheckNot(o) ==
    /\ pc[o] = "recheck"
    /\ Goto(o, "register")
    /\ UNCHANGED <<job, grade, hot, hotState, retried, guard, link, game>>

\* The second look, after the safety backup.
Recheck(o) ==
    /\ pc[o] = "recheck" /\ ~Occupied(World(o))
    /\ Goto(o, "register")
    /\ UNCHANGED <<job, grade, hot, hotState, retried, guard, link, game>>

\* Mutant of Register: Acquired is not asked when the guard is taken again.
RegisterUnasked(o) ==
    /\ pc[o] = "register"
    /\ Goto(o, "apply")
    /\ UNCHANGED <<job, grade, hot, hotState, retried, guard, link, game>>

Register(o) ==
    /\ pc[o] = "register" /\ guard[World(o)] = None
    /\ guard' = [guard EXCEPT ![World(o)] = o]
    /\ Goto(o, "apply")
    /\ UNCHANGED <<job, grade, hot, hotState, retried, link, game>>

\* The world is open, it is taken, the archives do not verify, or replacing its files
\* fails: the mod is not asked to come back.
RestoreFails(o) ==
    /\ \/ pc[o] = "recheck" /\ Occupied(World(o))
       \/ pc[o] = "register" /\ guard[World(o)] # None
       \/ pc[o] \in {"check", "apply"}
    /\ End(o)
    /\ UNCHANGED <<job, link, game>>

\* The files are replaced; a cold restore is over.
Applied(o) ==
    /\ pc[o] = "apply"
    /\ IF o \in hot
       THEN Goto(o, "told") /\ guard' = Released(o) /\ UNCHANGED <<grade, retried, hot, hotState>>
       ELSE End(o)
    /\ UNCHANGED <<job, link, game>>

-----------------------------------------------------------------------------
(* KnotLinkService: the commands of the mod, each handled when it arrives. *)

\* Mutant of FlagOf: one answer sets the flag of another.
FlagOfOther(answer) ==
    CASE answer = "HANDSHAKE_RESPONSE" -> {"handshake"}
      [] answer = "WORLD_SAVED" -> {"rejoined"}
      [] answer = "WORLD_SAVE_AND_EXIT_COMPLETE" -> {"left"}

\* An answer that the world was left counts while a hot restore waits for the mod.
FlagOf(answer) ==
    CASE answer = "HANDSHAKE_RESPONSE" -> {"handshake"}
      [] answer = "WORLD_SAVED" -> {"saved"}
      [] answer = "WORLD_SAVE_AND_EXIT_COMPLETE" ->
            IF hotState = "WAITING_FOR_MOD" THEN {"left"} ELSE {}

Deliver(m) ==
    /\ mail' = mail \ {m}
    /\ flags' = flags \cup FlagOf(m.answer)
    /\ detected' = IF m.answer = "HANDSHAKE_RESPONSE" THEN fits ELSE detected
    /\ UNCHANGED <<job, ops, asks, game>>

-----------------------------------------------------------------------------
(* The mod, the game and the player: how src uses them, not code of src.   *)

ModHandle(event) == asks # <<>> /\ Head(asks).event = event /\ asks' = Tail(asks)
ModAnswers(answer) == mail' = mail \cup {[answer |-> answer, op |-> Head(asks).op]}

ModShakes ==
    /\ ModHandle("handshake")
    /\ IF open # {} THEN ModAnswers("HANDSHAKE_RESPONSE") ELSE UNCHANGED mail
    /\ UNCHANGED <<job, ops, flags, detected, game>>

ModSaves ==
    LET o == Head(asks).op
    IN  /\ ModHandle("pre_hot_backup")
        /\ IF Occupied(World(o))
           THEN ModAnswers("WORLD_SAVED")
                /\ saved' = IF pc[o] \in {"basked", "copy"} THEN saved \cup {o} ELSE saved
           ELSE UNCHANGED <<mail, saved>>
        /\ UNCHANGED <<job, ops, flags, detected, fits, open, leaving, session, opens>>

\* The mod saves, starts to leave the world and says so.
ModLeaves ==
    LET w == World(Head(asks).op)
    IN  /\ ModHandle("pre_hot_restore")
        /\ IF Occupied(w)
           THEN /\ ModAnswers("WORLD_SAVE_AND_EXIT_COMPLETE")
                /\ leaving' = leaving \cup {w} /\ session' = session \cup {w}
           ELSE UNCHANGED <<mail, leaving, session>>
        /\ UNCHANGED <<job, ops, flags, detected, fits, open, opens, saved>>

GameReleases(w) ==
    /\ w \in leaving
    /\ leaving' = leaving \ {w} /\ open' = open \ {w}
    /\ UNCHANGED <<job, ops, link, fits, session, opens, saved>>

\* Assumed: the game opens no world between a restore's last look at it and its end, a
\* window the code cannot close.  The player could, and so could the mod when it handles
\* a rejoin after the wait for it has timed out and another restore has begun.
MayOpen(w) ==
    \A o \in Ops : pc[o] \in {"register", "apply"} => World(o) # w

\* The mod goes back into the world it left; the game may fail to load it.  Its
\* REJOIN_RESULT decides what is reported and nothing else, and is left out.
ModRejoins ==
    LET w == World(Head(asks).op)
    IN  /\ ModHandle("rejoin_world")
        /\ IF w \in session
           THEN /\ session' = session \ {w}
                /\ \/ MayOpen(w) /\ open' = open \cup {w}
                   \/ UNCHANGED open
           ELSE UNCHANGED <<open, session>>
        /\ UNCHANGED <<job, ops, flags, detected, mail, fits, leaving, opens, saved>>

PlayerOpens(w) ==
    /\ w \notin open /\ opens < MaxOpens
    /\ MayOpen(w)
    /\ open' = open \cup {w} /\ opens' = opens + 1
    /\ session' = session \ {w}
    /\ UNCHANGED <<job, ops, link, fits, leaving, saved>>

-----------------------------------------------------------------------------
Backup(o) ==
    \/ BackupStart(o) \/ BackupBusy(o) \/ BackupAsk(o) \/ BackupUnavailable(o)
    \/ BackupSaved(o) \/ BackupEnd(o) \/ BackupFails(o)

Handshake(o) ==
    \/ Cold(o) \/ Enter(o) \/ InProgress(o) \/ Compatible(o) \/ Incompatible(o)
    \/ ShakeTimesOut(o)

Coordinate(o) ==
    \/ AskExit(o) \/ ExitAnswered(o) \/ ExitTimesOut(o) \/ WorldReleased(o)
    \/ ReleaseTimesOut(o) \/ AskRejoin(o) \/ RejoinEnds(o)

Restore(o) == Check(o) \/ Recheck(o) \/ Register(o) \/ RestoreFails(o) \/ Applied(o)

Step(o) == Backup(o) \/ Handshake(o) \/ Coordinate(o) \/ Restore(o)

Game ==
    \/ ModShakes \/ ModSaves \/ ModLeaves \/ ModRejoins
    \/ \E w \in Worlds : GameReleases(w) \/ PlayerOpens(w)

Next ==
    \/ \E o \in Ops : Begin(o) \/ Step(o)
    \/ \E m \in mail : Deliver(m)
    \/ Game

\* A thread that can go on does: its waits are bounded by time-outs and its archive
\* processes end.  Nothing is assumed of the mod, the game and the player.
Fairness == \A o \in Ops : WF_vars(Step(o))

Spec == Init /\ [][Next]_vars /\ Fairness

-----------------------------------------------------------------------------
Places == {"idle", "backup", "bshake", "basked", "copy", "test", "shake", "ready", "asked",
           "poll", "check", "recheck", "register", "apply", "told", "rejoin", "done"}
Events == {"handshake", "pre_hot_backup", "pre_hot_restore", "rejoin_world"}

TypeOK ==
    /\ pc \in [Ops -> Places] /\ hot \subseteq Ops /\ retried \subseteq Ops
    /\ grade \in [Ops -> {"cold", "Degraded", "Coordinated"}]
    /\ hotState \in {"IDLE", "WAITING_FOR_MOD", "RESTORING"}
    /\ flags \subseteq {"handshake", "saved", "left"} /\ detected \in BOOLEAN
    /\ guard \in [Worlds -> Ops \cup {None}]
    /\ \A i \in 1..Len(asks) : asks[i] \in [event : Events, op : Ops]
    /\ open \subseteq Worlds /\ leaving \subseteq Worlds /\ session \subseteq Worlds
    /\ opens \in 0..MaxOpens /\ saved \subseteq Ops

\* The files of a world are never replaced while the game has it open, though the answer
\* that lets a restore go on may be a late one meant for an earlier restore, and the
\* player may open the world during the safety backup
\* (HotRestoreCoordinator.cpp:129-145, RestoreService.cpp:480).
NotUnderTheGame == \A o \in Ops : pc[o] = "apply" => ~Occupied(World(o))

\* No operation touches the files of a world another one is replacing, not even one of
\* another configuration; the guard is let go and taken again around the safety backup
\* (BackupManager.cpp:171-222, RestoreService.cpp:486).
OneWriter ==
    \A o, p \in Ops :
        (o # p /\ World(o) = World(p) /\ pc[o] = "apply")
            => pc[p] \notin {"apply", "copy", "bshake", "basked"}

\* hotkeyRestoreState tells the truth: it is IDLE when no hot restore is under way,
\* there is at most one, and one that replaces files has made it RESTORING
\* (GameSessionManager.cpp:215-235, BackupRestore.cpp:561, 600).
HotStateOwned ==
    /\ (hotState = "IDLE") = (hot = {})
    /\ Cardinality(hot) <= 1
    /\ \A o \in hot : pc[o] \in {"apply", "told", "rejoin"} => hotState = "RESTORING"

\* A mod that never answers, a player who opens the world again and a restore that fails
\* cannot keep later restores out: the state returns to IDLE
\* (HotRestoreCoordinator.cpp:116-145, BackupRestore.cpp:600-602).
HotRestoreEnds == (hotState # "IDLE") ~> (hotState = "IDLE")

\* "The mod has completed the world save": a backup graded Coordinated has had its world
\* saved by the mod after it asked for it (DataModels.h:211, BackupManagerDesktop.cpp:54).
CoordinatedIsSaved ==
    \A o \in Ops : pc[o] = "copy" /\ grade[o] = "Coordinated" => o \in saved

=============================================================================
