---------------------------- MODULE CloudHistory ----------------------------
(* One world of one configuration that several machines keep in the same   *)
(* rclone remote: upload after a backup, upload of the backup folder, the  *)
(* history snapshot, synchronisation with downloads, and the completion of *)
(* a restore chain (core/CloudSyncService.cpp, core/CloudHistorySync.cpp,  *)
(* core/CloudHistoryAnalysis.cpp).                                         *)
(*                                                                         *)
(* Each rclone command is a step that may fail.  Backups, merges and       *)
(* deletions go on between the steps, because cloud tasks take another     *)
(* resource key than the world's; and another configuration, on a machine  *)
(* of its own, uploads to the same history file, which no lock protects    *)
(* between machines.  An archive is abstracted to the span of              *)
(* backups it covers: a Full one reaches from 0 to its backup, a Smart one *)
(* from the backup it builds on.                                           *)
EXTENDS Integers, FiniteSets

CONSTANTS
    Machines,       \* computers that share the remote
    Others,         \* remote history entries of another configuration
    MaxBackups,     \* bound on backups, over all machines
    MaxMerges,      \* bound on merges by retention
    MaxDrops,       \* bound on deletions of a local archive
    MaxTasks,       \* bound on cloud tasks, uploads of the other configuration included
    MaxFaults       \* bound on failing rclone commands

ASSUME CloudAssumption ==
    /\ MaxBackups \in Nat \ {0}
    /\ {MaxMerges, MaxDrops, MaxTasks, MaxFaults} \subseteq Nat
    /\ IsFiniteSet(Machines) /\ IsFiniteSet(Others)

Ids == 1..MaxBackups
Kinds == {"Full", "Smart"}
Names == [id : Ids, kind : Kinds]
NoName == [id |-> 0, kind |-> "none"]
Entries == [name : Names, cloud : Names \cup {NoName}]
Spans == [from : 0..MaxBackups, to : Ids]
NoState == [last |-> NoName, base |-> NoName]
\* A remote file that is not there.
NoFile == [missing |-> TRUE]
NoManifest == {NoName}
NoHistory == [own |-> {}, others |-> {}]

VARIABLES
    history,    \* machine -> entries of the configuration
    archives,   \* machine -> archive name -> span
    records,    \* machine -> archive name -> name of the previous archive
    state,      \* machine -> state.json
    remote,     \* the remote's files
    task,       \* machine -> the cloud task that holds g_cloudMutex
    nextId, merges, drops, tasks, faults,
    merged,     \* backups whose archives some machine has merged
    unsent,     \* archives that a folder upload marked without having sent them
    other,      \* the history that the other configuration's upload has read, NoFile before
    late        \* ghost: machine -> entries of others added since its upload read the history

local == <<history, archives, records, state>>
bounds == <<nextId, merges, drops, tasks, faults, merged, unsent>>
vars == <<local, remote, task, bounds, other, late>>

-----------------------------------------------------------------------------
With(f, x, v) == [y \in DOMAIN f \cup {x} |-> IF y = x THEN v ELSE f[y]]
Without(f, S) == [y \in DOMAIN f \ S |-> f[y]]
Overlaid(f, g) == [y \in DOMAIN f \cup DOMAIN g |-> IF y \in DOMAIN g THEN g[y] ELSE f[y]]
Nothing == [n \in {} |-> 0]
NamesOf(h) == {e.name : e \in h}

\* Mutant of RemotePath: the path does not tell two backups of a kind apart.
RemotePathShared(e) == [id |-> 1, kind |-> e.name.kind]

\* BuildHistoryPaths: the path the entry carries, else the one its name gives.
RemotePath(e) == IF e.cloud # NoName THEN e.cloud ELSE e.name

\* HasLocalBackupOrMetadata
HasLocal(m, e) ==
    /\ e.name \in DOMAIN archives[m]
    /\ e.name.kind = "Smart" => state[m] # NoState /\ e.name \in DOMAIN records[m]

\* Mutant of Marked: a marked entry is added.
MarkedAdded(h, n, path) == h \cup {[name |-> n, cloud |-> path]}

\* UpdateHistoryCloudState, which finds the entry by its name
Marked(h, n, path) == {IF e.name = n THEN [e EXCEPT !.cloud = path] ELSE e : e \in h}

\* UpsertHistoryEntry with overwriteExisting = false: an empty field is filled.
Upserted(h, es) ==
    {IF e.cloud # NoName THEN e
     ELSE [e EXCEPT !.cloud = IF \E f \in es : f.name = e.name
                              THEN (CHOOSE f \in es : f.name = e.name).cloud ELSE NoName]
       : e \in h}
    \cup {e \in es : e.name \notin NamesOf(h)}

NoTask == [pc |-> "idle", kind |-> "none", entry |-> [name |-> NoName, cloud |-> NoName],
           loaded |-> NoFile, manifest |-> NoManifest, mine |-> {}, todo |-> {}, whole |-> TRUE]

Init ==
    /\ history = [m \in Machines |-> {}]
    /\ archives = [m \in Machines |-> Nothing]
    /\ records = [m \in Machines |-> Nothing]
    /\ state = [m \in Machines |-> NoState]
    /\ \E h \in {NoFile, [own |-> {}, others |-> Others]} :
         remote = [archives |-> Nothing, records |-> Nothing, state |-> NoState,
                   history |-> h, manifest |-> NoManifest]
    /\ task = [m \in Machines |-> NoTask]
    /\ nextId = 1 /\ merges = 0 /\ drops = 0 /\ tasks = 0 /\ faults = 0
    /\ merged = {} /\ unsent = {}
    /\ other = NoFile
    /\ late = [m \in Machines |-> {}]

-----------------------------------------------------------------------------
(* What happens on the machine itself (BackupChain has the detail).        *)

\* state.json and the two archives it names are there (BackupScanStatus).
ChainUsable(m) ==
    /\ state[m] # NoState
    /\ {state[m].last, state[m].base} \subseteq DOMAIN archives[m]

\* The record of a Smart archive names the one whose state it was compared with.
Previous(m) == state[m].last

\* A backup: archive, record, state.json and history entry.
Backup(m, mode) ==
    /\ nextId \in Ids
    /\ LET smart == mode = "Smart" /\ ChainUsable(m)
           name == [id |-> nextId, kind |-> IF smart THEN "Smart" ELSE "Full"]
           from == IF smart THEN state[m].last.id ELSE 0
       IN /\ archives' = [archives EXCEPT ![m] = With(@, name, [from |-> from, to |-> nextId])]
          /\ records' = [records EXCEPT ![m] =
                           With(@, name, IF smart THEN Previous(m) ELSE NoName)]
          /\ state' = [state EXCEPT ![m] = [last |-> name,
                                            base |-> IF smart THEN @.base ELSE name]]
          /\ history' = [history EXCEPT ![m] = @ \cup {[name |-> name, cloud |-> NoName]}]
    /\ nextId' = nextId + 1
    /\ UNCHANGED <<remote, task, merges, drops, tasks, faults, merged, unsent>>

Renamed(n, old, new) == IF n = old THEN new ELSE n

\* Retention merges the oldest archive into its Smart successor, which takes over the kind
\* and the predecessor; history and records follow the rename (ApplyHistoryChanges).
Merge(m) ==
    /\ merges < MaxMerges
    /\ \E t \in history[m] : \E s \in history[m] \ {t} :
         LET target == t.name
             next == s.name
             final == [id |-> next.id, kind |-> target.kind]
         IN /\ {target, next} \subseteq DOMAIN archives[m] \cap DOMAIN records[m]
            /\ \A e \in history[m] \ {t} : target.id < e.name.id
            /\ \A e \in history[m] \ {t, s} : next.id < e.name.id
            /\ next.kind = "Smart"
            /\ archives' = [archives EXCEPT ![m] =
                 With(Without(@, {target, next}), final,
                      [from |-> @[target].from, to |-> @[next].to])]
            /\ records' = [records EXCEPT ![m] =
                 With([n \in DOMAIN @ \ {target, next} |-> Renamed(@[n], next, final)],
                      final, @[target])]
            /\ state' = [state EXCEPT ![m] =
                 [last |-> Renamed(@.last, next, final),
                  base |-> Renamed(@.base, target, final)]]
            /\ history' = [history EXCEPT ![m] = (@ \ {t, s}) \cup {[s EXCEPT !.name = final]}]
            /\ merged' = merged \cup {target.id, next.id}
    /\ merges' = merges + 1
    /\ UNCHANGED <<remote, task, nextId, drops, tasks, faults, unsent>>

\* The window's "delete local file only": the record and state.json go too.
DropLocal(m, n) ==
    /\ drops < MaxDrops
    /\ n \in DOMAIN archives[m] \cap NamesOf(history[m])
    /\ archives' = [archives EXCEPT ![m] = Without(@, {n})]
    /\ records' = [records EXCEPT ![m] = Without(@, {n})]
    /\ state' = [state EXCEPT ![m] = NoState]
    /\ drops' = drops + 1
    /\ UNCHANGED <<history, remote, task, nextId, merges, tasks, faults, merged, unsent>>

-----------------------------------------------------------------------------
(* Starting a cloud task: one at a time per process (g_cloudMutex).        *)

At(m, pc) == task[m].pc = pc
Goto(m, pc) == task' = [task EXCEPT ![m].pc = pc]
End(m) == task' = [task EXCEPT ![m] = NoTask]

Command == UNCHANGED bounds
\* RcloneClient::Execute gave up after its retries.
CommandFails ==
    /\ faults < MaxFaults
    /\ faults' = faults + 1
    /\ UNCHANGED <<nextId, merges, drops, tasks, merged, unsent>>

Start(m, kind, pc, e) ==
    /\ At(m, "idle")
    /\ tasks < MaxTasks
    /\ tasks' = tasks + 1
    /\ task' = [task EXCEPT ![m] = [NoTask EXCEPT !.kind = kind, !.pc = pc, !.entry = e]]
    /\ UNCHANGED <<local, remote, nextId, merges, drops, faults, merged, unsent>>

\* The entry is copied when the task is submitted.
StartUpload(m) ==
    \E e \in {f \in history[m] : f.name \in DOMAIN archives[m]} : Start(m, "upload", "putArchive", e)
StartFolder(m) == DOMAIN archives[m] # {} /\ Start(m, "folder", "putFolder", NoTask.entry)
StartSnapshot(m) == Start(m, "snapshot", "load", NoTask.entry)
StartSync(m) == Start(m, "sync", "load", NoTask.entry)
StartEnsure(m) == \E e \in history[m] : Start(m, "ensure", "load", e)
StartDownload(m) ==
    \E e \in history[m] : e.cloud # NoName /\ Start(m, "download", "getArchive", e)

-----------------------------------------------------------------------------
(* Upload of one entry, and of a world's backup folder.                    *)

Entry(m) == task[m].entry
Path(m) == RemotePath(Entry(m))

\* Mutant of PutArchive: the upload's result is not looked at.
PutArchiveUnchecked(m) ==
    /\ At(m, "putArchive")
    /\ \/ /\ Entry(m).name \in DOMAIN archives[m]
          /\ remote' = [remote EXCEPT !.archives =
                          With(@, Path(m), archives[m][Entry(m).name])]
          /\ Command
       \/ /\ \/ Entry(m).name \notin DOMAIN archives[m] /\ Command
             \/ CommandFails
          /\ UNCHANGED remote
    /\ Goto(m, "putState")
    /\ UNCHANGED local
PutArchive(m) ==
    /\ At(m, "putArchive")
    /\ \/ /\ Entry(m).name \in DOMAIN archives[m]
          /\ remote' = [remote EXCEPT !.archives =
                          With(@, Path(m), archives[m][Entry(m).name])]
          /\ Goto(m, "putState") /\ Command
       \/ /\ \/ Entry(m).name \notin DOMAIN archives[m] /\ Command
             \/ CommandFails
          /\ End(m)
          /\ UNCHANGED remote
    /\ UNCHANGED local

\* A failed upload of the metadata is a warning.
PutState(m) ==
    /\ At(m, "putState")
    /\ \/ /\ remote' = IF state[m] = NoState THEN remote ELSE [remote EXCEPT !.state = state[m]]
          /\ Command
       \/ UNCHANGED remote /\ CommandFails
    /\ Goto(m, "putRecord")
    /\ UNCHANGED local

PutRecord(m) ==
    /\ At(m, "putRecord")
    /\ \/ /\ remote' = IF Entry(m).name \notin DOMAIN records[m] THEN remote
                       ELSE [remote EXCEPT !.records =
                               With(@, Path(m), records[m][Entry(m).name])]
          /\ Command
       \/ UNCHANGED remote /\ CommandFails
    /\ Goto(m, "mark")
    /\ UNCHANGED local

\* The history snapshot follows (cloudSyncHistoryAfterUpload).
MarkUploaded(m) ==
    /\ At(m, "mark")
    /\ history' = [history EXCEPT ![m] = Marked(@, Entry(m).name, Path(m))]
    /\ Goto(m, "load")
    /\ UNCHANGED <<archives, records, state, remote, bounds>>

PutFolder(m) ==
    /\ At(m, "putFolder")
    /\ \/ /\ remote' = [remote EXCEPT !.archives = Overlaid(@, archives[m])]
          /\ Goto(m, "putMetadata") /\ Command
       \/ End(m) /\ UNCHANGED remote /\ CommandFails
    /\ UNCHANGED local

PutMetadata(m) ==
    /\ At(m, "putMetadata")
    /\ \/ /\ remote' = [remote EXCEPT !.records = Overlaid(@, records[m]),
                                      !.state = IF state[m] = NoState THEN @ ELSE state[m]]
          /\ Command
       \/ UNCHANGED remote /\ CommandFails
    /\ Goto(m, "markAll")
    /\ UNCHANGED local

\* Every entry with a local archive is marked with the path BuildHistoryPaths gives, one
\* that a backup added since the copy, or that a merge renamed, too.
MarkFolder(m) ==
    /\ At(m, "markAll")
    /\ history' = [history EXCEPT ![m] =
         {IF e.name \in DOMAIN archives[m] THEN [e EXCEPT !.cloud = RemotePath(e)] ELSE e : e \in @}]
    /\ unsent' = unsent \cup ({RemotePath(e) : e \in {f \in history[m] : f.name \in DOMAIN archives[m]}}
                              \ DOMAIN remote.archives)
    /\ Goto(m, "load")
    /\ UNCHANGED <<archives, records, state, remote, nextId, merges, drops, tasks, faults, merged>>

-----------------------------------------------------------------------------
(* Reading the remote history, and uploading the local one.                *)

Importing(m) == task[m].kind \in {"sync", "ensure"}

Loaded(m) ==
    /\ remote.history # NoFile
    /\ task' = [task EXCEPT ![m].loaded = remote.history, ![m].mine = history[m],
                            ![m].pc = IF Importing(m) THEN "loadManifest" ELSE "putHistory"]
    /\ Command

\* IsRemoteObjectMissing: the first upload starts from an empty history.
LoadMissing(m) ==
    /\ remote.history = NoFile
    /\ task' = [task EXCEPT ![m] =
         CASE @.kind = "sync" -> NoTask
           [] @.kind = "ensure" -> [@ EXCEPT !.pc = "plan"]
           [] OTHER -> [@ EXCEPT !.loaded = NoHistory, !.mine = history[m], !.pc = "putHistory"]]
    /\ Command

\* Mutant of LoadFails: any failure counts as a missing history.
LoadFailsAsMissing(m) ==
    /\ CommandFails
    /\ IF Importing(m) THEN End(m)
       ELSE task' = [task EXCEPT ![m].loaded = NoHistory,
                                 ![m].mine = history[m], ![m].pc = "putHistory"]

\* A history that cannot be read must not be taken for an empty one.
LoadFails(m) ==
    /\ CommandFails
    /\ IF task[m].kind = "ensure" THEN Goto(m, "plan") ELSE End(m)

Load(m) ==
    /\ At(m, "load")
    /\ Loaded(m) \/ LoadMissing(m) \/ LoadFails(m)
    /\ late' = [late EXCEPT ![m] = {}]
    /\ UNCHANGED <<local, remote>>

\* What the shared history holds of others, and its replacement as a whole.
Shared == IF remote.history = NoFile THEN {} ELSE remote.history.others
Share(h) ==
    /\ remote' = [remote EXCEPT !.history = h]
    /\ late' = [m \in Machines |->
         IF At(m, "putHistory") THEN late[m] \cup (h.others \ Shared) ELSE late[m]]

\* UploadConfigurationHistorySnapshot: the entries of this configuration are replaced, those
\* of others are written as they were read.
PutHistory(m) ==
    /\ At(m, "putHistory")
    /\ \/ /\ Share([own |-> task[m].mine, others |-> task[m].loaded.others])
          /\ Goto(m, "putManifest") /\ Command
       \/ End(m) /\ UNCHANGED <<remote, late>> /\ CommandFails
    /\ UNCHANGED local

PutManifest(m) ==
    /\ At(m, "putManifest")
    /\ \/ remote' = [remote EXCEPT !.manifest = NamesOf(task[m].mine)] /\ Command
       \/ UNCHANGED remote /\ CommandFails
    /\ End(m)
    /\ UNCHANGED <<local, late>>

\* The same upload by the other configuration, which has any entries of its own by now; its
\* machine's g_cloudMutex is not ours.
OtherLoads ==
    /\ other = NoFile
    /\ tasks < MaxTasks
    /\ tasks' = tasks + 1
    /\ other' = IF remote.history = NoFile THEN NoHistory ELSE remote.history
    /\ UNCHANGED <<local, remote, task, nextId, merges, drops, faults, merged, unsent, late>>

OtherPuts ==
    /\ other # NoFile
    /\ \E entries \in SUBSET Others : Share([own |-> other.own, others |-> entries])
    /\ other' = NoFile
    /\ UNCHANGED <<local, task, bounds>>

-----------------------------------------------------------------------------
(* Taking over remote entries and downloading archives.                    *)

LoadManifest(m) ==
    /\ At(m, "loadManifest")
    /\ \/ task' = [task EXCEPT ![m].manifest = remote.manifest, ![m].pc = "import"] /\ Command
       \/ End(m) /\ CommandFails
    /\ UNCHANGED <<local, remote>>

\* AnalyzeRemoteHistory: entries that the manifest, when there is one, still lists.
Importable(m) ==
    {e \in task[m].loaded.own : task[m].manifest # NoManifest => e.name \in task[m].manifest}

Import(m) ==
    /\ At(m, "import")
    /\ history' = [history EXCEPT ![m] = Upserted(@, Importable(m))]
    /\ task' = [task EXCEPT ![m].todo = IF @ = {} /\ task[m].kind = "sync"
                                        THEN Importable(m) ELSE {},
                            ![m].pc = IF task[m].kind = "sync" THEN "next" ELSE "plan"]
    /\ UNCHANGED <<archives, records, state, remote, bounds>>

\* The entries a chain needs, by their order in the history: back to the nearest Full one.
\* Entries with the time of that Full one may sort before or after it.
Heads(m, id) ==
    {e \in history[m] : /\ e.name.kind = "Full" /\ e.name.id <= id
                        /\ \A f \in history[m] :
                             f.name.kind = "Full" /\ f.name.id <= id => f.name.id <= e.name.id}
Between(m, a, b) == {e \in history[m] : a < e.name.id /\ e.name.id < b}

Plan(m) ==
    /\ At(m, "plan")
    /\ LET target == {e \in history[m] : e.name = Entry(m).name}
           id == Entry(m).name.id
           heads == Heads(m, id)
       IN \/ /\ target = {}
             /\ End(m)
          \/ /\ target # {}
             /\ \E e \in target, same \in SUBSET {f \in history[m] :
                                                    \E h \in heads : f.name.id = h.name.id /\ f # h} :
                  task' = [task EXCEPT ![m].pc = "next", ![m].todo =
                    IF e.name.kind = "Full" THEN {e}
                    ELSE {e} \cup heads \cup same
                         \cup Between(m, IF heads = {} THEN 0
                                         ELSE (CHOOSE h \in heads : TRUE).name.id, id)]
    /\ UNCHANGED <<local, remote, bounds>>

\* The next archive that is not here, in the order of the list.
NextDownload(m) ==
    /\ At(m, "next")
    /\ LET absent == {e \in task[m].todo : ~HasLocal(m, e)}
       IN \/ absent = {} /\ End(m)
          \/ \E e \in absent :
               /\ \A f \in absent : e.name.id <= f.name.id
               /\ task' = [task EXCEPT ![m].pc = "getArchive", ![m].entry = e, ![m].whole = TRUE,
                                       ![m].todo = {f \in @ : f # e /\ e.name.id <= f.name.id}]
    /\ UNCHANGED <<local, remote, bounds>>

\* Mutant of DownloadFailed: the failed download is tried again.
DownloadFailedAgain(m) ==
    IF task[m].kind = "sync"
    THEN task' = [task EXCEPT ![m].pc = "next", ![m].todo = @ \cup {Entry(m)}] ELSE End(m)

\* AggregateCloudDownloads goes on after a failed download, a restore chain does not.
DownloadFailed(m) == IF task[m].kind = "sync" THEN Goto(m, "next") ELSE End(m)

GetArchive(m) ==
    /\ At(m, "getArchive")
    /\ \/ /\ Path(m) \in DOMAIN remote.archives
          /\ archives' = [archives EXCEPT ![m] = With(@, Entry(m).name, remote.archives[Path(m)])]
          /\ Goto(m, "getState") /\ Command
       \/ /\ \/ Path(m) \notin DOMAIN remote.archives /\ Command
             \/ CommandFails
          /\ DownloadFailed(m)
          /\ UNCHANGED archives
    /\ UNCHANGED <<history, records, state, remote>>

GetState(m) ==
    /\ At(m, "getState")
    /\ \/ /\ remote.state # NoState
          /\ state' = [state EXCEPT ![m] = remote.state]
          /\ Goto(m, "getRecord") /\ Command
       \/ /\ \/ remote.state = NoState /\ Command
             \/ CommandFails
          /\ task' = [task EXCEPT ![m].pc = "getRecord", ![m].whole = FALSE]
          /\ UNCHANGED state
    /\ UNCHANGED <<history, archives, records, remote>>

\* The record, and the cloud fields of the entry; a Smart archive needs its metadata.
GetRecord(m) ==
    /\ At(m, "getRecord")
    /\ history' = [history EXCEPT ![m] = Marked(@, Entry(m).name, Path(m))]
    /\ \/ /\ Path(m) \in DOMAIN remote.records
          /\ records' = [records EXCEPT ![m] = With(@, Entry(m).name, remote.records[Path(m)])]
          /\ Command
          /\ IF Entry(m).name.kind = "Smart" /\ ~task[m].whole
             THEN DownloadFailed(m) ELSE Goto(m, "next")
       \/ /\ \/ Path(m) \notin DOMAIN remote.records /\ Command
             \/ CommandFails
          /\ UNCHANGED records
          /\ IF Entry(m).name.kind = "Smart" THEN DownloadFailed(m) ELSE Goto(m, "next")
    /\ UNCHANGED <<archives, state, remote>>

-----------------------------------------------------------------------------
Upload(m) ==
    /\ \/ PutArchive(m) \/ PutState(m) \/ PutRecord(m) \/ MarkUploaded(m)
       \/ PutFolder(m) \/ PutMetadata(m) \/ MarkFolder(m)
    /\ UNCHANGED late
Snapshot(m) == Load(m) \/ PutHistory(m) \/ PutManifest(m)
Download(m) ==
    /\ \/ LoadManifest(m) \/ Import(m) \/ Plan(m) \/ NextDownload(m)
       \/ GetArchive(m) \/ GetState(m) \/ GetRecord(m)
    /\ UNCHANGED late
Task(m) == (Upload(m) \/ Snapshot(m) \/ Download(m)) /\ UNCHANGED other

User(m) ==
    /\ \/ StartUpload(m) \/ StartFolder(m) \/ StartSnapshot(m)
       \/ StartSync(m) \/ StartEnsure(m) \/ StartDownload(m)
       \/ Merge(m)
       \/ \E mode \in Kinds : Backup(m, mode)
       \/ \E n \in Names : DropLocal(m, n)
    /\ UNCHANGED <<other, late>>

Next == (\E m \in Machines : Task(m) \/ User(m)) \/ OtherLoads \/ OtherPuts

Spec == Init /\ [][Next]_vars
\* Every rclone command has a timeout.
FairSpec == Spec /\ \A m \in Machines : WF_vars(Task(m))

-----------------------------------------------------------------------------
(* Properties.                                                             *)

Maps(D, R) == UNION {[S -> R] : S \in SUBSET D}
States == [last : Names \cup {NoName}, base : Names \cup {NoName}]

TypeOK ==
    /\ \A m \in Machines :
         /\ history[m] \subseteq Entries
         /\ \A e, f \in history[m] : e.name = f.name => e = f
         /\ DOMAIN archives[m] \subseteq Names
         /\ \A n \in DOMAIN archives[m] : archives[m][n] \in Spans
         /\ DOMAIN records[m] \subseteq Names
         /\ \A n \in DOMAIN records[m] : records[m][n] \in Names \cup {NoName}
         /\ state[m] \in States
    /\ DOMAIN remote.archives \subseteq Names
    /\ \A h \in {remote.history, other} \ {NoFile} : h.own \subseteq Entries /\ h.others \subseteq Others
    /\ late \in [Machines -> SUBSET Others]

\* No step of a machine's task takes from the shared history what another configuration had in
\* it when the task read the file, also when that reading failed.  Entries that came in between
\* its reading and its upload are lost, whoever wrote them: nothing locks the file between
\* machines (CloudSyncService.cpp:388 to :429).
OthersKept == [][\A m \in Machines : task'[m] # task[m] => Shared \ Shared' \subseteq late[m]]_vars

\* What any history, local or remote, calls a cloud copy is in the remote; the entries that a
\* folder upload marks without having sent them are the one exception.
ListedIsUploaded ==
    \A h \in {history[m] : m \in Machines}
             \cup (IF remote.history = NoFile THEN {} ELSE {remote.history.own}) :
      \A e \in h : e.cloud # NoName => e.cloud \in DOMAIN remote.archives \cup unsent

\* The archives a restore of n reads: a Full one alone, a Smart one back along the records
\* (BuildAndVerify, BuildMetadataChain).
Links(m, n) ==
    LET back[x \in Names] ==
          {x} \cup (IF x \in DOMAIN records[m] /\ records[m][x] # NoName
                    THEN back[records[m][x]] ELSE {})
    IN IF n.kind = "Full" THEN {n} ELSE back[n]

Accepted(m, n) ==
    /\ Links(m, n) \subseteq DOMAIN archives[m]
    /\ n.kind = "Smart" =>
         /\ Links(m, n) \subseteq DOMAIN records[m]
         /\ \A x \in Links(m, n) : records[m][x] = NoName => x.kind = "Full"

\* The spans follow each other from nothing to the backup: the restored world is the one
\* that was backed up.
Contiguous(m, n) ==
    LET head(x) == n.kind = "Full" \/ records[m][x] = NoName
    IN /\ archives[m][n].to = n.id
       /\ \A x \in Links(m, n) :
            archives[m][x].from = IF head(x) THEN 0 ELSE archives[m][records[m][x]].to

\* A restore that is accepted gives the world as it was backed up, on every machine and
\* whichever metadata and archives were downloaded over the local ones; backups that a
\* merge has touched are the subject of CloudCopyRestores.
RestoreSound ==
    \A m \in Machines : \A n \in DOMAIN archives[m] :
      Accepted(m, n) /\ (\A x \in Links(m, n) : x.id \notin merged) => Contiguous(m, n)

\* A download brings the archive the entry names, as the comment at CloudHistorySync.cpp:238
\* promises, also after a merge has renamed the entry.  (It may replace a local archive: the
\* window offers it whenever there is a cloud copy.)
CloudCopyRestores ==
    \A m \in Machines : \A n \in DOMAIN archives[m] : Accepted(m, n) => Contiguous(m, n)

\* Every cloud task ends, whatever is missing in the remote, and gives the queue free.
CloudTaskEnds == \A m \in Machines : ~At(m, "idle") ~> At(m, "idle")
=============================================================================
