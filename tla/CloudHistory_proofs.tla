------------------------- MODULE CloudHistory_proofs -------------------------
(* Proofs about CloudHistory, for any number of machines, backups, tasks    *)
(* and failures: types with the names of a history, that what a history     *)
(* calls a cloud copy was uploaded, that an upload takes from the shared    *)
(* file only what others added after it had read it, and that a restore     *)
(* from what was downloaded gives back what was backed up.                  *)
EXTENDS CloudHistory, WellFoundedInduction, TLAPS

Paths == Names \cup {NoName}
Snapshots == [own : SUBSET Entries, others : SUBSET Others]
Files == Snapshots \cup {NoFile}
Remotes == [archives : Maps(Names, Spans), records : Maps(Names, Paths), state : States,
            history : Files, manifest : SUBSET Paths]
Places == {"idle", "putArchive", "putState", "putRecord", "mark", "putFolder", "putMetadata",
           "markAll", "load", "putHistory", "putManifest", "loadManifest", "import", "plan",
           "next", "getArchive", "getState", "getRecord"}
TaskKinds == {"none", "upload", "folder", "snapshot", "sync", "ensure", "download"}
Tasks == [pc : Places, kind : TaskKinds, entry : [name : Paths, cloud : Paths], loaded : Files,
          manifest : SUBSET Paths, mine : SUBSET Entries, todo : SUBSET Entries, whole : BOOLEAN]

\* The types of the machines' files, of the remote's and of the tasks.
Typed ==
    /\ history \in [Machines -> SUBSET Entries]
    /\ archives \in [Machines -> Maps(Names, Spans)]
    /\ records \in [Machines -> Maps(Names, Paths)]
    /\ state \in [Machines -> States]
    /\ remote \in Remotes
    /\ task \in [Machines -> Tasks]
    /\ nextId \in Nat /\ unsent \subseteq Names

\* Where a task works on one archive, and where that archive is known to be in the remote.
Sending == {"putArchive", "putState", "putRecord", "mark", "getArchive", "getState", "getRecord"}
Sent == {"putState", "putRecord", "mark", "getState", "getRecord"}

\* Where it uses the remote history it has read.
Using == {"putHistory", "loadManifest", "import"}

\* What a task has at hand at each place.
Shaped ==
    \A m \in Machines :
       /\ task[m].pc \in Sending => task[m].entry \in Entries
       /\ task[m].pc \in Using => task[m].loaded \in Snapshots

\* Entries with names of their own, of backups below n, whose cloud copies are among P.
Sound(es, n, P) ==
    /\ \A e, f \in es : e.name = f.name => e = f
    /\ \A e \in es : e.name.id < n
    /\ \A e \in es : e.cloud # NoName => e.cloud \in P
Present == DOMAIN remote.archives \cup unsent

\* The entries of every history, and of the copies a task has made of one.
Known ==
    /\ \A m \in Machines :
          /\ Sound(history[m], nextId, Present)
          /\ Sound(task[m].mine, nextId, Present)
          /\ task[m].loaded # NoFile => Sound(task[m].loaded.own, nextId, Present)
          /\ task[m].pc \in Sent => Path(m) \in DOMAIN remote.archives
    /\ remote.history # NoFile => Sound(remote.history.own, nextId, Present)

\* The types of the other configuration's upload and of what has come late.
OtherTyped == other \in Files /\ late \in [Machines -> SUBSET Others]

\* What it has read of this configuration's entries.
OtherKnown == other # NoFile => Sound(other.own, nextId, Present)

\* A task that uploads a history has read what others keep in it, but for what has come since.
Kept == \A m \in Machines : task[m].pc = "putHistory" => Shared \subseteq task[m].loaded.others \cup late[m]
-----------------------------------------------------------------------------
(* Operators.                                                              *)

\* What it is to be a map.
LEMMA MapIs ==
  ASSUME NEW D, NEW R, NEW f \in Maps(D, R)
  PROVE  /\ DOMAIN f \subseteq D /\ f \in [DOMAIN f -> R]
         /\ \A x \in DOMAIN f : f[x] \in R
BY DEF Maps

\* A function with a domain within D and values in R is a map.
LEMMA IsMap ==
  ASSUME NEW D, NEW R, NEW S \in SUBSET D, NEW f \in [S -> R]
  PROVE  f \in Maps(D, R) /\ DOMAIN f = S
BY DEF Maps

\* Adding to, removing from and overlaying a map.
LEMMA WithMap ==
  ASSUME NEW D, NEW R, NEW f \in Maps(D, R), NEW x \in D, NEW v \in R
  PROVE  With(f, x, v) \in Maps(D, R)
<1>1. DOMAIN f \cup {x} \in SUBSET D /\ With(f, x, v) \in [DOMAIN f \cup {x} -> R]
  BY MapIs DEF With
<1> QED
  BY <1>1, IsMap

\* Removing keys keeps a map a map.
LEMMA WithoutMap ==
  ASSUME NEW D, NEW R, NEW f \in Maps(D, R), NEW S
  PROVE  Without(f, S) \in Maps(D, R)
<1>1. DOMAIN f \ S \in SUBSET D /\ Without(f, S) \in [DOMAIN f \ S -> R]
  BY MapIs DEF Without
<1> QED
  BY <1>1, IsMap

\* A map laid over a map is a map.
LEMMA OverlaidMap ==
  ASSUME NEW D, NEW R, NEW f \in Maps(D, R), NEW g \in Maps(D, R)
  PROVE  Overlaid(f, g) \in Maps(D, R)
<1>1. DOMAIN f \cup DOMAIN g \in SUBSET D /\ Overlaid(f, g) \in [DOMAIN f \cup DOMAIN g -> R]
  BY MapIs DEF Overlaid
<1> QED
  BY <1>1, IsMap

\* An entry with another cloud path is an entry of the same name.
LEMMA EntryWith ==
  ASSUME NEW e \in Entries, NEW c \in Paths
  PROVE  /\ [e EXCEPT !.cloud = c] \in Entries
         /\ [e EXCEPT !.cloud = c].name = e.name /\ [e EXCEPT !.cloud = c].cloud = c
BY DEF Entries, Paths

\* What an entry is made of.
LEMMA EntryHas ==
  ASSUME NEW e \in Entries
  PROVE  e.name \in Names /\ e.cloud \in Paths /\ RemotePath(e) \in Names
BY DEF Entries, Paths, RemotePath

\* Marking, and taking over entries, give entries.
LEMMA MarkedEntries ==
  ASSUME NEW h \in SUBSET Entries, NEW n, NEW c \in Paths
  PROVE  Marked(h, n, c) \in SUBSET Entries
BY EntryWith DEF Marked

\* Taking over the entries of another history gives entries.
LEMMA UpsertedEntries ==
  ASSUME NEW h \in SUBSET Entries, NEW es \in SUBSET Entries
  PROVE  Upserted(h, es) \in SUBSET Entries
<1>1. ASSUME NEW e \in h PROVE
        (IF e.cloud # NoName THEN e
         ELSE [e EXCEPT !.cloud = IF \E f \in es : f.name = e.name
                                  THEN (CHOOSE f \in es : f.name = e.name).cloud ELSE NoName]) \in Entries
  <2> DEFINE g == CHOOSE f \in es : f.name = e.name
  <2>1. (\E f \in es : f.name = e.name) => g \in es
    OBVIOUS
  <2> HIDE DEF g
  <2>2. (\E f \in es : f.name = e.name) => g.cloud \in Paths
    BY <2>1, EntryHas
  <2>3. (IF \E f \in es : f.name = e.name THEN g.cloud ELSE NoName) \in Paths
    BY <2>2 DEF Paths
  <2> QED
    BY <2>3, EntryWith DEF g
<1> QED
  BY <1>1 DEF Upserted

\* A file that is there is a snapshot.
LEMMA FileThere ==
  ASSUME NEW f \in Files
  PROVE  f # NoFile => f \in Snapshots /\ f.own \in SUBSET Entries /\ f.others \in SUBSET Others
BY DEF Files, Snapshots

\* A history to be sent is a history file.
LEMMA IsSnapshot ==
  ASSUME NEW a \in SUBSET Entries, NEW b \in SUBSET Others
  PROVE  /\ [own |-> a, others |-> b] \in Snapshots /\ [own |-> a, others |-> b] \in Files
         /\ [own |-> a, others |-> b] # NoFile
BY DEF Files, Snapshots, NoFile

-----------------------------------------------------------------------------
(* How the steps change the record of a task, and the remote's.            *)

Moved(t, p) == [t EXCEPT !.pc = p]
Loading(t, f, h, p) == [t EXCEPT !.loaded = f, !.mine = h, !.pc = p]
Reading(t, f, p) == [t EXCEPT !.manifest = f, !.pc = p]
Planning(t, es, p) == [t EXCEPT !.todo = es, !.pc = p]
Taking(t, e, es, p) == [t EXCEPT !.pc = p, !.entry = e, !.whole = TRUE, !.todo = es]
Doubting(t, p) == [t EXCEPT !.pc = p, !.whole = FALSE]
Starting(k, p, e) == [NoTask EXCEPT !.kind = k, !.pc = p, !.entry = e]

\* A task u at place p that has the copies and the entry of t.
Same(u, t, p) ==
    /\ u \in Tasks /\ u.pc = p
    /\ u.loaded = t.loaded /\ u.mine = t.mine /\ u.entry = t.entry

\* Most steps of a task leave its kind and its entry.
LEMMA TaskKeeps ==
  ASSUME NEW t \in Tasks, NEW p \in Places
  PROVE  /\ Same(Moved(t, p), t, p) /\ Same(Doubting(t, p), t, p)
         /\ \A f \in SUBSET Paths : Same(Reading(t, f, p), t, p)
         /\ \A es \in SUBSET Entries : Same(Planning(t, es, p), t, p)
<1>1. Same(Moved(t, p), t, p)
  BY DEF Tasks, Same, Moved
<1>2. Same(Doubting(t, p), t, p)
  BY DEF Tasks, Same, Doubting
<1>3. \A f \in SUBSET Paths : Same(Reading(t, f, p), t, p)
  BY DEF Tasks, Same, Reading
<1>4. \A es \in SUBSET Entries : Same(Planning(t, es, p), t, p)
  BY DEF Tasks, Same, Planning
<1> QED
  BY <1>1, <1>2, <1>3, <1>4

\* Reading the remote history gives a task.
LEMMA TaskLoads ==
  ASSUME NEW t \in Tasks, NEW f \in Files, NEW h \in SUBSET Entries, NEW p \in Places
  PROVE  /\ Loading(t, f, h, p) \in Tasks /\ Loading(t, f, h, p).pc = p
         /\ Loading(t, f, h, p).loaded = f /\ Loading(t, f, h, p).mine = h
         /\ Loading(t, f, h, p).entry = t.entry
BY DEF Tasks, Loading

\* Taking the next entry gives a task.
LEMMA TaskTakes ==
  ASSUME NEW t \in Tasks, NEW e \in Entries, NEW es \in SUBSET Entries, NEW p \in Places
  PROVE  /\ Taking(t, e, es, p) \in Tasks /\ Taking(t, e, es, p).pc = p
         /\ Taking(t, e, es, p).loaded = t.loaded /\ Taking(t, e, es, p).mine = t.mine
         /\ Taking(t, e, es, p).entry = e
BY DEF Tasks, Taking, Entries, Paths

\* Having nothing to do is a task that holds nothing.
LEMMA NoTaskIs ==
  NoTask \in Tasks /\ NoTask.pc = "idle" /\ NoTask.mine = {} /\ NoTask.loaded = NoFile
BY DEF NoTask, Tasks, Places, TaskKinds, Paths, Files, NoManifest

\* A task that begins has read nothing yet.
LEMMA TaskStarts ==
  ASSUME NEW k \in TaskKinds, NEW p \in Places, NEW e \in [name : Paths, cloud : Paths]
  PROVE  /\ Starting(k, p, e) \in Tasks /\ Starting(k, p, e).pc = p
         /\ Starting(k, p, e).loaded = NoFile /\ Starting(k, p, e).mine = {}
         /\ Starting(k, p, e).entry = e
<1>1. /\ Starting(k, p, e) \in Tasks /\ Starting(k, p, e).pc = p
      /\ Starting(k, p, e).loaded = NoTask.loaded /\ Starting(k, p, e).mine = NoTask.mine
      /\ Starting(k, p, e).entry = e
  BY NoTaskIs DEF Starting, Tasks
<1> QED
  BY <1>1, NoTaskIs

\* The remote with some of its files replaced, and the history and archives it then has.
Remote(r, a, h) == r \in Remotes /\ r.archives = a /\ r.history = h
WithArchives(r, a) == [r EXCEPT !.archives = a]
WithRecords(r, a) == [r EXCEPT !.records = a]
WithState(r, s) == [r EXCEPT !.state = s]
WithMetadata(r, a, s) == [r EXCEPT !.records = a, !.state = s]
WithHistory(r, h) == [r EXCEPT !.history = h]
WithManifest(r, ns) == [r EXCEPT !.manifest = ns]

\* The remote side after one of its parts was written.
LEMMA RemoteWith ==
  ASSUME NEW r \in Remotes
  PROVE  /\ Remote(r, r.archives, r.history)
         /\ \A a \in Maps(Names, Spans) : Remote(WithArchives(r, a), a, r.history)
         /\ \A a \in Maps(Names, Paths) : Remote(WithRecords(r, a), r.archives, r.history)
         /\ \A s \in States : Remote(WithState(r, s), r.archives, r.history)
         /\ \A a \in Maps(Names, Paths) : \A s \in States :
               Remote(WithMetadata(r, a, s), r.archives, r.history)
         /\ \A h \in Files : Remote(WithHistory(r, h), r.archives, h)
         /\ \A ns \in SUBSET Paths : Remote(WithManifest(r, ns), r.archives, r.history)
<1>1. /\ Remote(r, r.archives, r.history)
      /\ \A a \in Maps(Names, Spans) : Remote(WithArchives(r, a), a, r.history)
      /\ \A a \in Maps(Names, Paths) : Remote(WithRecords(r, a), r.archives, r.history)
  BY DEF Remotes, Remote, WithArchives, WithRecords
<1>2. \A a \in Maps(Names, Paths) : \A s \in States : Remote(WithMetadata(r, a, s), r.archives, r.history)
  BY DEF Remotes, Remote, WithMetadata
<1>3. /\ \A s \in States : Remote(WithState(r, s), r.archives, r.history)
      /\ \A h \in Files : Remote(WithHistory(r, h), r.archives, h)
      /\ \A ns \in SUBSET Paths : Remote(WithManifest(r, ns), r.archives, r.history)
  BY DEF Remotes, Remote, WithState, WithHistory, WithManifest
<1> QED
  BY <1>1, <1>2, <1>3

\* A step sets the record of one machine's task.
TaskIs(m, t) ==
    /\ task' \in [Machines -> Tasks] /\ task'[m] = t
    /\ \A o \in Machines : o # m => task'[o] = task[o]

\* A step that sets the task of one machine leaves those of the others.
LEMMA SetTask ==
  ASSUME Typed, NEW m \in Machines, NEW t \in Tasks, task' = [task EXCEPT ![m] = t]
  PROVE  TaskIs(m, t)
BY DEF Typed, TaskIs

\* The fields of a task have their types.
LEMMA FieldTypes ==
  ASSUME Typed, NEW m \in Machines
  PROVE  /\ task[m] \in Tasks /\ task[m].pc \in Places /\ task[m].loaded \in Files
         /\ task[m].mine \in SUBSET Entries /\ task[m].todo \in SUBSET Entries
         /\ task[m].entry \in [name : Paths, cloud : Paths]
         /\ history[m] \in SUBSET Entries /\ state[m] \in States
         /\ archives[m] \in Maps(Names, Spans) /\ records[m] \in Maps(Names, Paths)
BY DEF Typed, Tasks

\* The parts of the remote side have their types.
LEMMA RemoteTypes ==
  ASSUME Typed
  PROVE  /\ remote \in Remotes /\ remote.archives \in Maps(Names, Spans)
         /\ remote.records \in Maps(Names, Paths) /\ remote.state \in States
         /\ remote.history \in Files /\ remote.manifest \in SUBSET Paths
BY DEF Typed, Remotes

\* A task goes to another place, or ends.
LEMMA GotoTask ==
  ASSUME Typed, NEW m \in Machines, NEW p \in Places, Goto(m, p)
  PROVE  TaskIs(m, Moved(task[m], p)) /\ Same(Moved(task[m], p), task[m], p)
<1>1. task' = [task EXCEPT ![m] = Moved(task[m], p)]
  BY DEF Goto, Moved, Typed
<1>2. Same(Moved(task[m], p), task[m], p)
  BY TaskKeeps, FieldTypes
<1> QED
  BY <1>1, <1>2, SetTask DEF Same

\* A task that ends leaves the machine without one.
LEMMA EndTask ==
  ASSUME Typed, NEW m \in Machines, End(m)
  PROVE  TaskIs(m, NoTask)
BY NoTaskIs, SetTask DEF End

\* Reading the remote history ends the task or gives it a plan.
LEMMA LoadTask ==
  ASSUME Typed, NEW m \in Machines, Load(m)
  PROVE  \E t \in Tasks :
           /\ TaskIs(m, t)
           /\ \/ t = NoTask
              \/ Same(t, task[m], "plan")
              \/ /\ t.pc \in {"loadManifest", "putHistory"} /\ t.mine = history[m]
                 /\ remote.history # NoFile /\ t.loaded = remote.history
              \/ /\ t.pc = "putHistory" /\ t.mine = history[m]
                 /\ remote.history = NoFile /\ t.loaded = NoHistory
<1>1. NoHistory \in Files
  BY IsSnapshot DEF NoHistory
<1>p. "plan" \in Places /\ "loadManifest" \in Places /\ "putHistory" \in Places
  BY DEF Places
<1>2. CASE Loaded(m)
  <2> DEFINE p == IF Importing(m) THEN "loadManifest" ELSE "putHistory"
  <2>1. p \in Places /\ p \in {"loadManifest", "putHistory"}
    BY <1>p
  <2>2. task' = [task EXCEPT ![m] = Loading(task[m], remote.history, history[m], p)]
    BY <1>2 DEF Loaded, Typed, Loading
  <2> HIDE DEF p
  <2> DEFINE t == Loading(task[m], remote.history, history[m], p)
  <2>3. t \in Tasks /\ t.pc = p /\ t.loaded = remote.history /\ t.mine = history[m]
    BY <2>1, TaskLoads, FieldTypes, RemoteTypes
  <2> HIDE DEF t
  <2>4. TaskIs(m, t)
    BY <2>2, <2>3, SetTask DEF t
  <2> QED
    BY <1>2, <2>1, <2>3, <2>4 DEF Loaded
<1>3. CASE LoadMissing(m)
  <2>1. \/ End(m)
        \/ Goto(m, "plan")
        \/ task' = [task EXCEPT ![m] = Loading(task[m], NoHistory, history[m], "putHistory")]
    BY <1>3 DEF LoadMissing, Typed, Loading, NoHistory, End, Goto
  <2> DEFINE t == Loading(task[m], NoHistory, history[m], "putHistory")
  <2>2. t \in Tasks /\ t.pc = "putHistory" /\ t.loaded = NoHistory /\ t.mine = history[m]
    BY <1>1, <1>p, TaskLoads, FieldTypes
  <2> HIDE DEF t
  <2>3. task' = [task EXCEPT ![m] = t] => TaskIs(m, t)
    BY <2>2, SetTask
  <2>4. remote.history = NoFile
    BY <1>3 DEF LoadMissing
  <2>5. End(m) => TaskIs(m, NoTask) /\ NoTask \in Tasks
    BY EndTask, NoTaskIs
  <2>6. Goto(m, "plan") =>
          /\ TaskIs(m, Moved(task[m], "plan")) /\ Same(Moved(task[m], "plan"), task[m], "plan")
          /\ Moved(task[m], "plan") \in Tasks
    BY <1>p, GotoTask DEF Same
  <2> QED
    BY <2>1, <2>2, <2>3, <2>4, <2>5, <2>6 DEF t
<1>4. CASE LoadFails(m)
  BY <1>4, <1>p, EndTask, GotoTask, NoTaskIs DEF LoadFails, Same
<1> QED
  BY <1>2, <1>3, <1>4 DEF Load

\* What a step may make of the task of machine m: it ends, it goes on with what it has, it
\* takes the next entry to download, or it has read the remote history.
Ends(t) == t = NoTask
GoesOn(m, t) ==
    /\ Same(t, task[m], t.pc) /\ t.pc # "putHistory"
    /\ t.pc \in Sending => task[m].pc \in Sending
    /\ t.pc \in Using => task[m].pc \in Using
    /\ t.pc \in Sent => task[m].pc \in Sent \/ Path(m) \in DOMAIN remote'.archives
Takes(m, t) ==
    t.pc = "getArchive" /\ t.loaded = task[m].loaded /\ t.mine = task[m].mine /\ t.entry \in Entries
Reads(m, t) ==
    /\ t.pc \in {"loadManifest", "putHistory"} /\ t.mine = history[m] /\ UNCHANGED remote
    /\ \/ remote.history # NoFile /\ t.loaded = remote.history
       \/ remote.history = NoFile /\ t.loaded = NoHistory /\ t.pc = "putHistory"
Leads(m, t) == t \in Tasks /\ TaskIs(m, t) /\ (Ends(t) \/ GoesOn(m, t) \/ Takes(m, t) \/ Reads(m, t))

\* Ending is a step a task may take.
LEMMA EndLeads ==
  ASSUME Typed, NEW m \in Machines, End(m)
  PROVE  \E t : Leads(m, t)
BY EndTask, NoTaskIs DEF Leads, Ends

\* Going on to the next place is a step a task may take.
LEMMA GotoLeads ==
  ASSUME Typed, NEW m \in Machines, NEW p \in Places \ {"putHistory"}, Goto(m, p),
         p \in Sending => task[m].pc \in Sending,
         p \in Using => task[m].pc \in Using,
         p \in Sent => task[m].pc \in Sent \/ Path(m) \in DOMAIN remote'.archives
  PROVE  \E t : Leads(m, t)
<1> DEFINE t == Moved(task[m], p)
<1>1. TaskIs(m, t) /\ Same(t, task[m], p)
  BY GotoTask
<1> HIDE DEF t
<1>2. t.pc = p /\ t \in Tasks
  BY <1>1 DEF Same
<1> QED
  BY <1>1, <1>2 DEF Leads, GoesOn

\* The steps of an upload are steps a task may take.
LEMMA UploadLeads ==
  ASSUME Typed, NEW m \in Machines, Upload(m)
  PROVE  \E t : Leads(m, t)
<1> USE DEF Places, Sending, Using, Sent, At
<1>1. CASE PutArchive(m)
  <2>1. CASE End(m)
    BY <2>1, EndLeads
  <2>2. CASE Goto(m, "putState") /\ remote' = [remote EXCEPT !.archives = With(@, Path(m), archives[m][Entry(m).name])]
    <3>1. Path(m) \in DOMAIN With(remote.archives, Path(m), archives[m][Entry(m).name])
      BY DEF With
    <3>2. Path(m) \in DOMAIN remote'.archives
      BY <2>2, <3>1, RemoteTypes DEF Remotes
    <3> QED
      BY <1>1, <2>2, <3>2, GotoLeads DEF PutArchive
  <2> QED
    BY <1>1, <2>1, <2>2 DEF PutArchive
<1>2. CASE PutState(m)
  BY <1>2, GotoLeads DEF PutState
<1>3. CASE PutRecord(m)
  BY <1>3, GotoLeads DEF PutRecord
<1>4. CASE MarkUploaded(m)
  BY <1>4, GotoLeads DEF MarkUploaded
<1>5. CASE PutFolder(m)
  BY <1>5, EndLeads, GotoLeads DEF PutFolder
<1>6. CASE PutMetadata(m)
  BY <1>6, GotoLeads DEF PutMetadata
<1>7. CASE MarkFolder(m)
  BY <1>7, GotoLeads DEF MarkFolder
<1> QED
  BY <1>1, <1>2, <1>3, <1>4, <1>5, <1>6, <1>7 DEF Upload

\* The steps that send a history are steps a task may take.
LEMMA SnapshotLeads ==
  ASSUME Typed, NEW m \in Machines, Snapshot(m)
  PROVE  \E t : Leads(m, t)
<1>1. CASE Load(m)
  <2>1. PICK t \in Tasks :
           /\ TaskIs(m, t)
           /\ \/ t = NoTask
              \/ Same(t, task[m], "plan")
              \/ /\ t.pc \in {"loadManifest", "putHistory"} /\ t.mine = history[m]
                 /\ remote.history # NoFile /\ t.loaded = remote.history
              \/ /\ t.pc = "putHistory" /\ t.mine = history[m]
                 /\ remote.history = NoFile /\ t.loaded = NoHistory
    BY <1>1, LoadTask
  <2>2. UNCHANGED remote
    BY <1>1 DEF Load
  <2>3. Same(t, task[m], "plan") => GoesOn(m, t)
    BY DEF Same, GoesOn, Sending, Using, Sent
  <2> QED
    BY <2>1, <2>2, <2>3 DEF Leads, Ends, Reads
<1>2. CASE PutHistory(m)
  BY <1>2, EndLeads, GotoLeads DEF PutHistory, Places, Sending, Using, Sent
<1>3. CASE PutManifest(m)
  BY <1>3, EndLeads DEF PutManifest
<1> QED
  BY <1>1, <1>2, <1>3 DEF Snapshot

\* What is imported are entries.
LEMMA ImportableEntries ==
  ASSUME Typed, Shaped, NEW m \in Machines, task[m].pc \in Using
  PROVE  Importable(m) \in SUBSET Entries /\ task[m].loaded # NoFile
<1>1. task[m].loaded \in Snapshots
  BY DEF Shaped
<1>2. task[m].loaded.own \in SUBSET Entries /\ task[m].loaded # NoFile
  BY <1>1 DEF Snapshots, NoFile
<1> QED
  BY <1>2 DEF Importable

\* The list of a task is replaced.
LEMMA PlanLeads ==
  ASSUME Typed, NEW m \in Machines, NEW es \in SUBSET Entries, NEW p \in {"next", "plan"},
         task' = [task EXCEPT ![m] = Planning(task[m], es, p)]
  PROVE  \E t : Leads(m, t)
<1> DEFINE t == Planning(task[m], es, p)
<1>1. Same(t, task[m], p)
  BY TaskKeeps, FieldTypes DEF Places
<1> HIDE DEF t
<1>2. TaskIs(m, t) /\ t \in Tasks /\ t.pc = p
  BY <1>1, SetTask DEF Same, t
<1> QED
  BY <1>1, <1>2 DEF Leads, GoesOn, Sending, Using, Sent

\* A download that fails ends or tries the next entry.
LEMMA FailedLeads ==
  ASSUME Typed, NEW m \in Machines, DownloadFailed(m)
  PROVE  \E t : Leads(m, t)
BY EndLeads, GotoLeads DEF DownloadFailed, Places, Sending, Using, Sent

\* The steps of a download are steps a task may take.
LEMMA DownloadLeads ==
  ASSUME Typed, Shaped, NEW m \in Machines, Download(m)
  PROVE  \E t : Leads(m, t)
<1> USE DEF Places, Sending, Using, Sent, At
<1>1. CASE LoadManifest(m)
  <2>1. CASE End(m)
    BY <2>1, EndLeads
  <2>2. CASE task' = [task EXCEPT ![m].manifest = remote.manifest, ![m].pc = "import"]
    <3> DEFINE t == Reading(task[m], remote.manifest, "import")
    <3>1. Same(t, task[m], "import")
      BY TaskKeeps, FieldTypes, RemoteTypes
    <3>2. task' = [task EXCEPT ![m] = t]
      BY <2>2 DEF Typed, Reading
    <3> HIDE DEF t
    <3>3. TaskIs(m, t) /\ t \in Tasks
      BY <3>1, <3>2, SetTask DEF Same
    <3> QED
      BY <1>1, <3>1, <3>3 DEF Leads, GoesOn, Same, LoadManifest
  <2> QED
    BY <1>1, <2>1, <2>2 DEF LoadManifest
<1>2. CASE Import(m)
  <2> DEFINE es == IF task[m].todo = {} /\ task[m].kind = "sync" THEN Importable(m) ELSE {}
             p == IF task[m].kind = "sync" THEN "next" ELSE "plan"
             t == Planning(task[m], es, p)
  <2>1. p \in {"next", "plan"}
    OBVIOUS
  <2>2. task' = [task EXCEPT ![m] = t]
    BY <1>2 DEF Import, Typed, Planning
  <2>3. es \in SUBSET Entries
    BY <1>2, ImportableEntries DEF Import
  <2> QED
    BY <2>1, <2>2, <2>3, PlanLeads
<1>3. CASE Plan(m)
  <2>1. CASE End(m)
    BY <2>1, EndLeads
  <2>2. CASE ~End(m)
    <3> DEFINE id == Entry(m).name.id
               heads == Heads(m, id)
               low == IF heads = {} THEN 0 ELSE (CHOOSE h \in heads : TRUE).name.id
               list(e, same) == IF e.name.kind = "Full" THEN {e}
                                ELSE {e} \cup heads \cup same \cup Between(m, low, id)
    <3>1. PICK e \in history[m], same \in SUBSET history[m] :
            task' = [task EXCEPT ![m].pc = "next", ![m].todo = list(e, same)]
      BY <1>3, <2>2 DEF Plan
    <3>2. list(e, same) \in SUBSET history[m]
      BY DEF Heads, Between
    <3> HIDE DEF list
    <3>3. list(e, same) \in SUBSET Entries
      BY <3>2, FieldTypes
    <3>4. task' = [task EXCEPT ![m] = Planning(task[m], list(e, same), "next")]
      BY <3>1 DEF Typed, Planning
    <3> QED
      BY <3>3, <3>4, PlanLeads
  <2> QED
    BY <2>1, <2>2
<1>4. CASE NextDownload(m)
  <2>1. CASE End(m)
    BY <2>1, EndLeads
  <2>2. CASE ~End(m)
    <3> DEFINE list(e) == {f \in task[m].todo : f # e /\ e.name.id <= f.name.id}
    <3>1. PICK e \in task[m].todo :
            task' = [task EXCEPT ![m].pc = "getArchive", ![m].entry = e, ![m].whole = TRUE, ![m].todo = list(e)]
      BY <1>4, <2>2 DEF NextDownload, Typed
    <3>2. e \in Entries /\ list(e) \in SUBSET Entries
      BY FieldTypes
    <3> HIDE DEF list
    <3> DEFINE t == Taking(task[m], e, list(e), "getArchive")
    <3>3. task' = [task EXCEPT ![m] = t]
      BY <3>1 DEF Typed, Taking
    <3>4. t \in Tasks /\ t.pc = "getArchive" /\ t.loaded = task[m].loaded /\ t.mine = task[m].mine /\ t.entry = e
      BY <3>2, TaskTakes, FieldTypes
    <3> HIDE DEF t
    <3>5. TaskIs(m, t)
      BY <3>3, <3>4, SetTask
    <3> QED
      BY <3>2, <3>4, <3>5 DEF Leads, Takes
  <2> QED
    BY <2>1, <2>2
<1>5. CASE GetArchive(m)
  <2>1. CASE DownloadFailed(m)
    BY <2>1, FailedLeads
  <2>2. CASE Path(m) \in DOMAIN remote.archives /\ Goto(m, "getState")
    BY <1>5, <2>2, GotoLeads DEF GetArchive
  <2> QED
    BY <1>5, <2>1, <2>2 DEF GetArchive
<1>6. CASE GetState(m)
  <2>1. CASE Goto(m, "getRecord")
    BY <1>6, <2>1, GotoLeads DEF GetState
  <2>2. CASE task' = [task EXCEPT ![m].pc = "getRecord", ![m].whole = FALSE]
    <3> DEFINE t == Doubting(task[m], "getRecord")
    <3>1. Same(t, task[m], "getRecord")
      BY TaskKeeps, FieldTypes
    <3>2. task' = [task EXCEPT ![m] = t]
      BY <2>2 DEF Typed, Doubting
    <3> HIDE DEF t
    <3>3. TaskIs(m, t) /\ t \in Tasks
      BY <3>1, <3>2, SetTask DEF Same
    <3> QED
      BY <1>6, <3>1, <3>3 DEF Leads, GoesOn, Same, GetState
  <2> QED
    BY <1>6, <2>1, <2>2 DEF GetState
<1>7. CASE GetRecord(m)
  BY <1>7, FailedLeads, GotoLeads DEF GetRecord
<1> QED
  BY <1>1, <1>2, <1>3, <1>4, <1>5, <1>6, <1>7 DEF Download

\* The user's steps start a task on an idle machine, or leave the tasks alone.
Starts(m, t) ==
    /\ t \in Tasks /\ TaskIs(m, t)
    /\ t.loaded = NoFile /\ t.mine = {} /\ t.pc \in {"putArchive", "putFolder", "load", "getArchive"}
    /\ t.pc \in Sending => t.entry \in Entries

\* The user starts a task where a task begins, or leaves the tasks alone.
LEMMA UserStarts ==
  ASSUME Typed, NEW m \in Machines, User(m)
  PROVE  UNCHANGED task \/ \E t : Starts(m, t)
<1>1. ASSUME NEW k \in TaskKinds, NEW p \in {"putArchive", "putFolder", "load", "getArchive"},
             NEW e \in [name : Paths, cloud : Paths], Start(m, k, p, e), p \in Sending => e \in Entries
      PROVE  \E t : Starts(m, t)
  <2> DEFINE t == Starting(k, p, e)
  <2>1. t \in Tasks /\ t.pc = p /\ t.loaded = NoFile /\ t.mine = {} /\ t.entry = e
    BY TaskStarts DEF Places
  <2>2. task' = [task EXCEPT ![m] = t]
    BY <1>1 DEF Start, Starting
  <2> HIDE DEF t
  <2>3. TaskIs(m, t)
    BY <2>1, <2>2, SetTask
  <2> QED
    BY <1>1, <2>1, <2>3 DEF Starts
<1>2. \A e \in history[m] : e \in Entries /\ e \in [name : Paths, cloud : Paths]
  BY FieldTypes DEF Entries, Paths
<1>3. NoTask.entry \in [name : Paths, cloud : Paths]
  BY NoTaskIs DEF Tasks
<1>4. CASE StartUpload(m) \/ StartDownload(m)
  BY <1>1, <1>2, <1>4 DEF StartUpload, StartDownload, TaskKinds
<1>5. CASE StartEnsure(m)
  BY <1>1, <1>2, <1>5 DEF StartEnsure, TaskKinds
<1>6. CASE StartFolder(m) \/ StartSnapshot(m) \/ StartSync(m)
  BY <1>1, <1>3, <1>6 DEF StartFolder, StartSnapshot, StartSync, TaskKinds, Sending
<1>7. CASE Merge(m) \/ (\E mode \in Kinds : Backup(m, mode)) \/ (\E n \in Names : DropLocal(m, n))
  BY <1>7 DEF Merge, Backup, DropLocal
<1> QED
  BY <1>4, <1>5, <1>6, <1>7 DEF User

-----------------------------------------------------------------------------
(* What the steps do to the remote and to the machine's files.             *)

\* No archive leaves the remote.  Where its history is replaced, it is by the task's copy and what it has read.
Uploaded(m) == [own |-> task[m].mine, others |-> task[m].loaded.others]

\* A task takes no archive away and replaces the remote history by the one it planned only.
LEMMA TaskRemote ==
  ASSUME Typed, Shaped, NEW m \in Machines, Task(m)
  PROVE  /\ remote' \in Remotes /\ DOMAIN remote.archives \subseteq DOMAIN remote'.archives
         /\ \/ remote'.history = remote.history
            \/ remote'.history = Uploaded(m) /\ task[m].pc = "putHistory"
<1> DEFINE goal == /\ remote' \in Remotes /\ DOMAIN remote.archives \subseteq DOMAIN remote'.archives
                   /\ \/ remote'.history = remote.history
                      \/ remote'.history = Uploaded(m) /\ task[m].pc = "putHistory"
<1> SUFFICES goal
  OBVIOUS
<1>0. ASSUME UNCHANGED remote PROVE goal
  BY <1>0, RemoteTypes
<1>r. ASSUME NEW a \in Maps(Names, Spans), DOMAIN remote.archives \subseteq DOMAIN a,
             Remote(remote', a, remote.history)
      PROVE  goal
  BY <1>r DEF Remote
<1>s. remote.archives \in Maps(Names, Spans)
  BY RemoteTypes
<1> HIDE DEF goal
<1>e. task[m].pc \in Sending => Entry(m).name \in Names /\ Path(m) \in Names
  BY EntryHas DEF Shaped, Entry, Path
<1>1. CASE PutArchive(m)
  <2>1. CASE UNCHANGED remote
    BY <1>0, <2>1
  <2>2. CASE remote' # remote
    <3> DEFINE v == archives[m][Entry(m).name]
               a == With(remote.archives, Path(m), v)
    <3>1. v \in Spans /\ Path(m) \in Names
      BY <1>1, <1>e, <2>2, FieldTypes, MapIs DEF PutArchive, At, Sending
    <3> HIDE DEF v
    <3>2. a \in Maps(Names, Spans)
      BY <1>s, <3>1, WithMap
    <3>4. DOMAIN a = DOMAIN remote.archives \cup {Path(m)}
      BY DEF With
    <3>3. remote' = WithArchives(remote, a)
      BY <1>1, <2>2 DEF PutArchive, WithArchives, v
    <3> HIDE DEF a
    <3> QED
      BY <1>r, <3>2, <3>3, <3>4, RemoteTypes, RemoteWith
  <2> QED
    BY <2>1, <2>2
<1>2. CASE PutState(m)
  <2>1. remote' = remote \/ remote' = WithState(remote, state[m])
    BY <1>2 DEF PutState, WithState
  <2> QED
    BY <1>0, <1>r, <1>s, <2>1, RemoteTypes, RemoteWith, FieldTypes
<1>3. CASE PutRecord(m)
  <2>1. CASE UNCHANGED remote
    BY <1>0, <2>1
  <2>2. CASE remote' # remote
    <3> DEFINE v == records[m][Entry(m).name]
               a == With(remote.records, Path(m), v)
    <3>1. v \in Paths /\ Path(m) \in Names
      BY <1>3, <1>e, <2>2, FieldTypes, MapIs DEF PutRecord, At, Sending
    <3>2. a \in Maps(Names, Paths)
      BY <3>1, WithMap, RemoteTypes
    <3>3. remote' = WithRecords(remote, a)
      BY <1>3, <2>2 DEF PutRecord, WithRecords
    <3> HIDE DEF a
    <3> QED
      BY <1>r, <1>s, <3>2, <3>3, RemoteTypes, RemoteWith
  <2> QED
    BY <2>1, <2>2
<1>4. CASE PutFolder(m)
  <2>1. CASE UNCHANGED remote
    BY <1>0, <2>1
  <2>2. CASE remote' # remote
    <3> DEFINE a == Overlaid(remote.archives, archives[m])
    <3>0. archives[m] \in Maps(Names, Spans)
      BY FieldTypes
    <3>1. a \in Maps(Names, Spans)
      BY <1>s, <3>0, OverlaidMap
    <3>3. DOMAIN a = DOMAIN remote.archives \cup DOMAIN archives[m]
      BY DEF Overlaid
    <3>2. remote' = WithArchives(remote, a)
      BY <1>4, <2>2 DEF PutFolder, WithArchives
    <3> HIDE DEF a
    <3> QED
      BY <1>r, <3>1, <3>2, <3>3, RemoteTypes, RemoteWith
  <2> QED
    BY <2>1, <2>2
<1>5. CASE PutMetadata(m)
  <2>1. CASE UNCHANGED remote
    BY <1>0, <2>1
  <2>2. CASE remote' # remote
    <3> DEFINE a == Overlaid(remote.records, records[m])
               t == IF state[m] = NoState THEN remote.state ELSE state[m]
    <3>1. a \in Maps(Names, Paths) /\ t \in States
      BY RemoteTypes, FieldTypes, OverlaidMap
    <3>2. remote' = WithMetadata(remote, a, t)
      BY <1>5, <2>2 DEF PutMetadata, WithMetadata
    <3> HIDE DEF a, t
    <3> QED
      BY <1>r, <1>s, <3>1, <3>2, RemoteTypes, RemoteWith
  <2> QED
    BY <2>1, <2>2
<1>6. CASE PutHistory(m)
  <2>1. CASE UNCHANGED remote
    BY <1>0, <2>1
  <2>2. CASE remote' # remote
    <3>1. task[m].pc = "putHistory" /\ remote' = WithHistory(remote, Uploaded(m))
      BY <1>6, <2>2 DEF PutHistory, Share, At, WithHistory, Uploaded
    <3>2. task[m].loaded \in Snapshots
      BY <3>1 DEF Shaped, Using
    <3>3. Uploaded(m) \in Files
      BY <3>2, FieldTypes, IsSnapshot DEF Uploaded, Snapshots
    <3>4. Remote(remote', remote.archives, Uploaded(m))
      BY <3>1, <3>3, RemoteTypes, RemoteWith
    <3> QED
      BY <3>1, <3>4 DEF Remote, goal
  <2> QED
    BY <2>1, <2>2
<1>7. CASE PutManifest(m)
  <2>1. CASE UNCHANGED remote
    BY <1>0, <2>1
  <2>2. CASE remote' # remote
    <3>1. NamesOf(task[m].mine) \in SUBSET Paths
      BY FieldTypes, EntryHas DEF NamesOf, Paths
    <3>2. remote' = WithManifest(remote, NamesOf(task[m].mine))
      BY <1>7, <2>2 DEF PutManifest, WithManifest
    <3> QED
      BY <1>r, <1>s, <3>1, <3>2, RemoteTypes, RemoteWith
  <2> QED
    BY <2>1, <2>2
<1>8. CASE Load(m) \/ Download(m) \/ MarkUploaded(m) \/ MarkFolder(m)
  BY <1>0, <1>8 DEF Load, Download, MarkUploaded, MarkFolder, LoadManifest, Import, Plan, NextDownload,
     GetArchive, GetState, GetRecord
<1> QED
  BY <1>1, <1>2, <1>3, <1>4, <1>5, <1>6, <1>7, <1>8 DEF Task, Upload, Snapshot, goal

\* How a task changes the history of its machine.
MarkedIn(h, D) == {IF e.name \in D THEN [e EXCEPT !.cloud = RemotePath(e)] ELSE e : e \in h}
FolderMarked(m) == MarkedIn(history[m], DOMAIN archives[m])

\* A task changes the history of its own machine, by marking or by taking over entries.
LEMMA TaskHistory ==
  ASSUME Typed, NEW m \in Machines, Task(m)
  PROVE  /\ \A o \in Machines : o # m => history'[o] = history[o]
         /\ DOMAIN history' = Machines
         /\ \/ history'[m] = history[m]
            \/ history'[m] = Marked(history[m], Entry(m).name, Path(m)) /\ task[m].pc \in Sent
            \/ history'[m] = FolderMarked(m) /\ MarkFolder(m)
            \/ history'[m] = Upserted(history[m], Importable(m)) /\ task[m].pc \in Using
<1>1. CASE Import(m)
  BY <1>1 DEF Import, Typed, At, Using
<1>2. CASE MarkUploaded(m)
  BY <1>2 DEF MarkUploaded, Typed, At, Sent
<1>3. CASE GetRecord(m)
  BY <1>3 DEF GetRecord, Typed, At, Sent
<1>4. CASE MarkFolder(m)
  <2>1. history' = [history EXCEPT ![m] = FolderMarked(m)]
    BY <1>4 DEF MarkFolder, FolderMarked, MarkedIn
  <2> QED
    BY <1>4, <2>1 DEF Typed
<1>5. CASE \/ PutArchive(m) \/ PutState(m) \/ PutRecord(m) \/ PutFolder(m) \/ PutMetadata(m) \/ Snapshot(m)
           \/ LoadManifest(m) \/ Plan(m) \/ NextDownload(m) \/ GetArchive(m) \/ GetState(m)
  BY <1>5 DEF PutArchive, PutState, PutRecord, PutFolder, PutMetadata, Snapshot, Load, PutHistory, PutManifest,
     LoadManifest, Plan, NextDownload, GetArchive, GetState, local, Typed
<1> QED
  BY <1>1, <1>2, <1>3, <1>4, <1>5 DEF Task, Upload, Snapshot, Download

\* The counters and marks: only a backup gives a number, and no mark is taken back.
LEMMA TaskBounds ==
  ASSUME NEW m \in Machines, Task(m)
  PROVE  /\ nextId' = nextId
         /\ unsent' = unsent \/ MarkFolder(m)
BY DEF Task, Upload, Snapshot, Download, PutArchive, PutState, PutRecord, MarkUploaded, PutFolder, PutMetadata,
   MarkFolder, Load, Loaded, LoadMissing, LoadFails, PutHistory, PutManifest, LoadManifest, Import, Plan,
   NextDownload, GetArchive, GetState, GetRecord, Command, CommandFails, bounds

-----------------------------------------------------------------------------
(* Types.                                                                  *)

\* Marking the uploaded folder gives entries.
LEMMA FolderMarkedEntries ==
  ASSUME NEW h \in SUBSET Entries, NEW D
  PROVE  MarkedIn(h, D) \in SUBSET Entries
BY EntryWith, EntryHas DEF MarkedIn, Paths

\* A task writes the archive, the record and the state it has downloaded.
LEMMA TaskFiles ==
  ASSUME Typed, Shaped, NEW m \in Machines, Task(m)
  PROVE  /\ archives' \in [Machines -> Maps(Names, Spans)]
         /\ records' \in [Machines -> Maps(Names, Paths)]
         /\ state' \in [Machines -> States]
<1>t. /\ archives \in [Machines -> Maps(Names, Spans)]
      /\ records \in [Machines -> Maps(Names, Paths)]
      /\ state \in [Machines -> States]
  BY DEF Typed
<1>e. task[m].pc \in Sending => Entry(m).name \in Names
  BY EntryHas DEF Shaped, Entry
<1>1. CASE GetArchive(m)
  <2>1. CASE UNCHANGED archives
    BY <1>1, <1>t, <2>1 DEF GetArchive
  <2>2. CASE archives' # archives
    <3> DEFINE v == remote.archives[Path(m)]
               a == With(archives[m], Entry(m).name, v)
    <3>1. v \in Spans /\ Entry(m).name \in Names
      BY <1>1, <1>e, <2>2, RemoteTypes, MapIs DEF GetArchive, At, Sending
    <3> HIDE DEF v
    <3>2. a \in Maps(Names, Spans)
      BY <3>1, FieldTypes, WithMap
    <3>3. archives' = [archives EXCEPT ![m] = a] /\ UNCHANGED <<records, state>>
      BY <1>1, <2>2 DEF GetArchive, v
    <3> HIDE DEF a
    <3> QED
      BY <1>t, <3>2, <3>3
  <2> QED
    BY <2>1, <2>2
<1>2. CASE GetState(m)
  <2>1. UNCHANGED <<archives, records>> /\ (UNCHANGED state \/ state' = [state EXCEPT ![m] = remote.state])
    BY <1>2 DEF GetState
  <2> QED
    BY <1>t, <2>1, RemoteTypes
<1>3. CASE GetRecord(m)
  <2>1. CASE UNCHANGED records
    BY <1>3, <1>t, <2>1 DEF GetRecord
  <2>2. CASE records' # records
    <3> DEFINE v == remote.records[Path(m)]
               a == With(records[m], Entry(m).name, v)
    <3>1. v \in Paths /\ Entry(m).name \in Names
      BY <1>3, <1>e, <2>2, RemoteTypes, MapIs DEF GetRecord, At, Sending
    <3> HIDE DEF v
    <3>2. a \in Maps(Names, Paths)
      BY <3>1, FieldTypes, WithMap
    <3>3. records' = [records EXCEPT ![m] = a] /\ UNCHANGED <<archives, state>>
      BY <1>3, <2>2 DEF GetRecord, v
    <3> HIDE DEF a
    <3> QED
      BY <1>t, <3>2, <3>3
  <2> QED
    BY <2>1, <2>2
<1>4. CASE Upload(m) \/ Snapshot(m) \/ LoadManifest(m) \/ Import(m) \/ Plan(m) \/ NextDownload(m)
  BY <1>4, <1>t DEF Upload, PutArchive, PutState, PutRecord, MarkUploaded, PutFolder, PutMetadata, MarkFolder,
     Snapshot, Load, PutHistory, PutManifest, LoadManifest, Import, Plan, NextDownload, local
<1> QED
  BY <1>1, <1>2, <1>3, <1>4 DEF Task, Download

\* What a step leads to is a task with what its place needs.
LEMMA TaskShaped ==
  ASSUME Typed, Shaped, NEW m \in Machines, NEW t, Leads(m, t) \/ Starts(m, t)
  PROVE  task' \in [Machines -> Tasks] /\ Shaped'
<1>1. task' \in [Machines -> Tasks] /\ task'[m] = t /\ \A o \in Machines : o # m => task'[o] = task[o]
  BY DEF Leads, Starts, TaskIs
<1>2. t.pc \in Sending => t.entry \in Entries
  BY NoTaskIs DEF Leads, Starts, Ends, GoesOn, Takes, Reads, Same, Shaped, Sending
<1>3. t.pc \in Using => t.loaded \in Snapshots
  <2>1. remote.history # NoFile => remote.history \in Snapshots
    BY RemoteTypes, FileThere
  <2>2. NoHistory \in Snapshots
    BY IsSnapshot DEF NoHistory
  <2> QED
    BY <2>1, <2>2, NoTaskIs DEF Leads, Starts, Ends, GoesOn, Takes, Reads, Same, Shaped, Using
<1> QED
  BY <1>1, <1>2, <1>3 DEF Shaped

\* Every step of a task keeps the types.
LEMMA TaskTyped ==
  ASSUME Typed, Shaped, NEW m \in Machines, Task(m)
  PROVE  Typed' /\ Shaped'
<1>1. PICK t : Leads(m, t)
  BY UploadLeads, SnapshotLeads, DownloadLeads DEF Task
<1>2. task' \in [Machines -> Tasks] /\ Shaped'
  BY <1>1, TaskShaped
<1>3. history' \in [Machines -> SUBSET Entries]
  <2>0. history' = [history EXCEPT ![m] = history'[m]]
    <3>1. CASE UNCHANGED history
      BY <3>1 DEF Typed
    <3>2. CASE MarkUploaded(m) \/ MarkFolder(m) \/ Import(m) \/ GetRecord(m)
      BY <3>2 DEF Typed, MarkUploaded, MarkFolder, Import, GetRecord
    <3>3. UNCHANGED history \/ MarkUploaded(m) \/ MarkFolder(m) \/ Import(m) \/ GetRecord(m)
      BY DEF Task, Upload, Snapshot, Download, PutArchive, PutState, PutRecord, PutFolder, PutMetadata, Load,
         PutHistory, PutManifest, LoadManifest, Plan, NextDownload, GetArchive, GetState, local
    <3> QED
      BY <3>1, <3>2, <3>3
  <2>1. task[m].pc \in Sent => Path(m) \in Paths
    BY EntryHas DEF Shaped, Sent, Sending, Path, Entry, Paths
  <2>2. task[m].pc \in Using => Importable(m) \in SUBSET Entries
    BY ImportableEntries
  <2>3. history'[m] \in SUBSET Entries
    BY <2>1, <2>2, TaskHistory, FieldTypes, MarkedEntries, UpsertedEntries, FolderMarkedEntries
    DEF FolderMarked
  <2> QED
    BY <2>0, <2>3 DEF Typed
<1>4. unsent' \subseteq Names
  <2>1. \A e \in history[m] : RemotePath(e) \in Names
    BY FieldTypes, EntryHas
  <2> QED
    BY <2>1, TaskBounds DEF MarkFolder, Typed
<1> QED
  BY <1>2, <1>3, <1>4, TaskBounds, TaskFiles, TaskRemote DEF Typed

\* Names are made of a number and a kind.
LEMMA NamesAre ==
  /\ \A i \in Ids : \A k \in Kinds : [id |-> i, kind |-> k] \in Names
  /\ \A n \in Names : n.id \in Ids /\ n.kind \in Kinds
  /\ NoName \in Paths /\ NoState \in States /\ Names \subseteq Paths
  /\ \A i \in Ids : i \in Nat
BY CloudAssumption DEF Names, Paths, States, NoState, Ids

\* What an archive holds is a span of numbers.
LEMMA SpansAre ==
  ASSUME NEW i \in 0..MaxBackups, NEW j \in Ids
  PROVE  [from |-> i, to |-> j] \in Spans
BY DEF Spans

\* A state is made of two paths.
LEMMA StatesAre ==
  ASSUME NEW a \in Paths, NEW b \in Paths
  PROVE  [last |-> a, base |-> b] \in States
BY DEF Paths, States

\* The fields of a state are paths.
LEMMA StateFields ==
  ASSUME NEW t \in States
  PROVE  t.last \in Paths /\ t.base \in Paths
BY DEF Paths, States

\* The files of one machine are replaced by others of their types.
LEMMA LocalTyped ==
  ASSUME Typed, NEW m \in Machines,
         NEW h \in SUBSET Entries, history' = [history EXCEPT ![m] = h],
         NEW a \in Maps(Names, Spans), archives' = [archives EXCEPT ![m] = a],
         NEW r \in Maps(Names, Paths), records' = [records EXCEPT ![m] = r],
         NEW t \in States, state' = [state EXCEPT ![m] = t],
         UNCHANGED <<remote, task, unsent>>, nextId' \in Nat
  PROVE  Typed'
BY DEF Typed

\* A backup keeps the types.
LEMMA BackupTyped ==
  ASSUME Typed, NEW m \in Machines, NEW mode \in Kinds, Backup(m, mode)
  PROVE  Typed'
<1> DEFINE smart == mode = "Smart" /\ ChainUsable(m)
           name == [id |-> nextId, kind |-> IF smart THEN "Smart" ELSE "Full"]
           from == IF smart THEN state[m].last.id ELSE 0
           span == [from |-> from, to |-> nextId]
           previous == IF smart THEN Previous(m) ELSE NoName
           base == IF smart THEN state[m].base ELSE name
           entry == [name |-> name, cloud |-> NoName]
<1>1. nextId \in Ids /\ name \in Names
  BY NamesAre DEF Backup, Kinds
<1>2. smart => state[m].last \in Names
  BY FieldTypes, MapIs DEF ChainUsable
<1>3. from \in 0..MaxBackups
  BY <1>2, NamesAre, CloudAssumption DEF Ids
<1>4. previous \in Paths /\ base \in Paths
  BY <1>1, FieldTypes, StateFields, NamesAre DEF Previous
<1>5. /\ archives' = [archives EXCEPT ![m] = With(archives[m], name, span)]
      /\ records' = [records EXCEPT ![m] = With(records[m], name, previous)]
      /\ state' = [state EXCEPT ![m] = [last |-> name, base |-> base]]
      /\ history' = [history EXCEPT ![m] = history[m] \cup {entry}]
      /\ UNCHANGED <<remote, task, unsent>> /\ nextId' = nextId + 1
  BY DEF Backup, Typed
<1>6. entry \in Entries
  BY <1>1 DEF Entries
<1> HIDE DEF name, from, previous, base
<1>7. span \in Spans
  BY <1>1, <1>3, SpansAre
<1> HIDE DEF span, entry
<1>8. /\ With(archives[m], name, span) \in Maps(Names, Spans)
      /\ With(records[m], name, previous) \in Maps(Names, Paths)
  BY <1>1, <1>4, <1>7, WithMap, FieldTypes
<1>9. history[m] \cup {entry} \in SUBSET Entries /\ [last |-> name, base |-> base] \in States
  BY <1>1, <1>4, <1>6, FieldTypes, StatesAre, NamesAre
<1>10. nextId' \in Nat /\ UNCHANGED <<remote, task, unsent>>
  BY <1>1, <1>5, NamesAre
<1> QED
  BY <1>5, <1>8, <1>9, <1>10, LocalTyped

\* A merge keeps the types.
LEMMA MergeTyped ==
  ASSUME Typed, NEW m \in Machines, Merge(m)
  PROVE  Typed'
<1> PICK t \in history[m], s \in history[m] :
       LET target == t.name
           next == s.name
           final == [id |-> next.id, kind |-> target.kind]
       IN /\ {target, next} \subseteq DOMAIN archives[m] \cap DOMAIN records[m]
          /\ archives' = [archives EXCEPT ![m] =
               With(Without(@, {target, next}), final, [from |-> @[target].from, to |-> @[next].to])]
          /\ records' = [records EXCEPT ![m] =
               With([n \in DOMAIN @ \ {target, next} |-> Renamed(@[n], next, final)], final, @[target])]
          /\ state' = [state EXCEPT ![m] =
               [last |-> Renamed(@.last, next, final), base |-> Renamed(@.base, target, final)]]
          /\ history' = [history EXCEPT ![m] = (@ \ {t, s}) \cup {[s EXCEPT !.name = final]}]
  BY DEF Merge
<1> DEFINE target == t.name
           next == s.name
           final == [id |-> next.id, kind |-> target.kind]
           span == [from |-> archives[m][target].from, to |-> archives[m][next].to]
           rest == Without(archives[m], {target, next})
           others == [n \in DOMAIN records[m] \ {target, next} |-> Renamed(records[m][n], next, final)]
           last == Renamed(state[m].last, next, final)
           base == Renamed(state[m].base, target, final)
           entry == [s EXCEPT !.name = final]
<1>1. target \in Names /\ next \in Names /\ s \in Entries
  BY FieldTypes, EntryHas
<1>2. final \in Names
  BY <1>1, NamesAre
<1>3. entry \in Entries
  BY <1>1, <1>2 DEF Entries
<1>4. archives[m][target] \in Spans /\ archives[m][next] \in Spans /\ records[m][target] \in Paths
  BY FieldTypes, MapIs
<1>5. /\ archives' = [archives EXCEPT ![m] = With(rest, final, span)]
      /\ records' = [records EXCEPT ![m] = With(others, final, records[m][target])]
      /\ state' = [state EXCEPT ![m] = [last |-> last, base |-> base]]
      /\ history' = [history EXCEPT ![m] = (history[m] \ {t, s}) \cup {entry}]
      /\ UNCHANGED <<remote, task, unsent, nextId>>
  BY DEF Merge, Typed
<1>6. span \in Spans
  BY <1>4 DEF Spans
<1> HIDE DEF final, span, entry
<1>7. others \in Maps(Names, Paths)
  <2>1. \A n \in DOMAIN records[m] : n \in Names /\ Renamed(records[m][n], next, final) \in Paths
    BY <1>2, FieldTypes, MapIs, NamesAre DEF Renamed
  <2>2. DOMAIN records[m] \ {target, next} \in SUBSET Names
    BY <2>1
  <2>3. others \in [DOMAIN records[m] \ {target, next} -> Paths]
    BY <2>1
  <2> HIDE DEF others
  <2> QED
    BY <2>2, <2>3, IsMap
<1>8. last \in Paths /\ base \in Paths
  BY <1>2, FieldTypes, StateFields, NamesAre DEF Renamed
<1>9. rest \in Maps(Names, Spans)
  BY FieldTypes, WithoutMap
<1> HIDE DEF others, rest, last, base
<1>10. /\ With(rest, final, span) \in Maps(Names, Spans)
       /\ With(others, final, records[m][target]) \in Maps(Names, Paths)
  BY <1>2, <1>4, <1>6, <1>7, <1>9, WithMap
<1>11. (history[m] \ {t, s}) \cup {entry} \in SUBSET Entries /\ [last |-> last, base |-> base] \in States
  BY <1>3, <1>8, FieldTypes, StatesAre
<1> QED
  BY <1>5, <1>10, <1>11, LocalTyped DEF Typed

\* Losing a local archive keeps the types.
LEMMA DropTyped ==
  ASSUME Typed, NEW m \in Machines, NEW n \in Names, DropLocal(m, n)
  PROVE  Typed'
<1>1. /\ archives' = [archives EXCEPT ![m] = Without(archives[m], {n})]
      /\ records' = [records EXCEPT ![m] = Without(records[m], {n})]
      /\ state' = [state EXCEPT ![m] = NoState]
      /\ history' = [history EXCEPT ![m] = history[m]]
      /\ UNCHANGED <<remote, task, unsent, nextId>>
  BY DEF DropLocal, Typed
<1>2. Without(archives[m], {n}) \in Maps(Names, Spans) /\ Without(records[m], {n}) \in Maps(Names, Paths)
  BY FieldTypes, WithoutMap
<1> QED
  BY <1>1, <1>2, FieldTypes, NamesAre, LocalTyped DEF Typed

\* What the user does keeps the types.
LEMMA UserTyped ==
  ASSUME Typed, Shaped, NEW m \in Machines, User(m)
  PROVE  Typed' /\ Shaped'
<1>1. CASE Merge(m) \/ (\E mode \in Kinds : Backup(m, mode)) \/ (\E n \in Names : DropLocal(m, n))
  <2>1. UNCHANGED task
    BY <1>1 DEF Merge, Backup, DropLocal
  <2> QED
    BY <1>1, <2>1, MergeTyped, BackupTyped, DropTyped DEF Shaped
<1>2. CASE ~(Merge(m) \/ (\E mode \in Kinds : Backup(m, mode)) \/ (\E n \in Names : DropLocal(m, n)))
  <2>1. UNCHANGED <<local, remote, nextId, unsent>>
    BY <1>2 DEF User, StartUpload, StartFolder, StartSnapshot, StartSync, StartEnsure, StartDownload, Start
  <2>2. CASE UNCHANGED task
    BY <2>1, <2>2 DEF Typed, Shaped, local
  <2>3. CASE \E t : Starts(m, t)
    <3>1. task' \in [Machines -> Tasks] /\ Shaped'
      BY <2>3, TaskShaped
    <3> QED
      BY <2>1, <3>1 DEF Typed, local
  <2> QED
    BY <2>2, <2>3, UserStarts
<1> QED
  BY <1>1, <1>2

\* A task leaves the other configuration's upload alone; what comes late is marked so for every
\* machine that is about to upload.
LEMMA TaskLate ==
  ASSUME Typed, Shaped, OtherTyped, NEW m \in Machines, Task(m)
  PROVE  /\ OtherTyped' /\ other' = other
         /\ \A o \in Machines : o # m /\ task[o].pc = "putHistory" =>
               late[o] \subseteq late'[o] /\ Shared' \ Shared \subseteq late'[o]
<1>0. other' = other /\ other \in Files /\ late \in [Machines -> SUBSET Others]
  BY DEF Task, OtherTyped
<1>1. CASE UNCHANGED remote /\ (UNCHANGED late \/ late' = [late EXCEPT ![m] = {}])
  BY <1>0, <1>1 DEF OtherTyped, Shared
<1>2. CASE Shared' = Shared /\ UNCHANGED late
  BY <1>0, <1>2 DEF OtherTyped
<1>3. CASE task[m].pc = "putHistory" /\ Share(Uploaded(m))
  <2>1. Uploaded(m).others \in SUBSET Others /\ Uploaded(m) # NoFile
    BY <1>3, FieldTypes, IsSnapshot DEF Uploaded, Snapshots, Shaped, Using
  <2>2. remote'.history = Uploaded(m)
    BY <1>3, RemoteTypes DEF Share, Remotes
  <2>3. Shared' = Uploaded(m).others
    BY <2>1, <2>2 DEF Shared
  <2> QED
    BY <1>0, <1>3, <2>1, <2>3 DEF Share, At, OtherTyped
<1>4. CASE Load(m)
  BY <1>1, <1>4 DEF Load
<1>5. CASE PutHistory(m)
  BY <1>1, <1>3, <1>5 DEF PutHistory, At, Uploaded
<1>6. CASE PutManifest(m) \/ Upload(m) \/ Download(m)
  <2>1. UNCHANGED late
    BY <1>6 DEF PutManifest, Upload, Download
  <2>2. remote'.history = remote.history
    BY <1>6, RemoteTypes DEF Remotes, PutManifest, Upload, PutArchive, PutState, PutRecord, MarkUploaded,
       PutFolder, PutMetadata, MarkFolder, Download, LoadManifest, Import, Plan, NextDownload,
       GetArchive, GetState, GetRecord
  <2>3. Shared' = Shared
    BY <2>2 DEF Shared
  <2> QED
    BY <1>2, <2>1, <2>3
<1> QED
  BY <1>4, <1>5, <1>6 DEF Task, Snapshot

\* The other configuration reads the shared history, and replaces it with what it has read and
\* entries of its own.
LEMMA OtherRemote ==
  ASSUME Typed, OtherTyped, OtherLoads \/ OtherPuts
  PROVE  /\ UNCHANGED <<local, task, nextId, merged, unsent>>
         /\ remote' \in Remotes /\ remote'.archives = remote.archives /\ remote'.records = remote.records
         /\ \/ remote'.history = remote.history
            \/ other # NoFile /\ remote'.history # NoFile /\ remote'.history.own = other.own
         /\ OtherTyped'
         /\ other' = NoFile \/ other'.own = {} \/ (remote.history # NoFile /\ other' = remote.history)
         /\ \A m \in Machines : task[m].pc = "putHistory" =>
               late[m] \subseteq late'[m] /\ Shared' \ Shared \subseteq late'[m]
<1>0. other \in Files /\ late \in [Machines -> SUBSET Others] /\ NoHistory \in Files /\ NoFile \in Files
  BY IsSnapshot DEF OtherTyped, NoHistory, Files
<1>1. CASE OtherLoads
  <2>1. UNCHANGED <<local, task, nextId, merged, unsent, remote, late>>
    BY <1>1 DEF OtherLoads
  <2>2. other' = NoHistory \/ (remote.history # NoFile /\ other' = remote.history)
    BY <1>1 DEF OtherLoads
  <2>3. NoHistory.own = {}
    BY DEF NoHistory
  <2> QED
    BY <1>0, <2>1, <2>2, <2>3, RemoteTypes DEF OtherTyped, Shared
<1>2. CASE OtherPuts
  <2>1. PICK entries \in SUBSET Others : Share([own |-> other.own, others |-> entries])
    BY <1>2 DEF OtherPuts
  <2> DEFINE h == [own |-> other.own, others |-> entries]
  <2>2. other # NoFile /\ other.own \in SUBSET Entries
    BY <1>0, <1>2, FileThere DEF OtherPuts
  <2>3. h \in Files /\ h # NoFile /\ h.own = other.own /\ h.others = entries
    BY <2>2, IsSnapshot
  <2> HIDE DEF h
  <2>4. Share(h)
    BY <2>1 DEF h
  <2>5. /\ remote' \in Remotes /\ remote'.archives = remote.archives
        /\ remote'.records = remote.records /\ remote'.history = h
    BY <2>3, <2>4, RemoteTypes DEF Share, Remotes
  <2>6. Shared' = entries
    BY <2>3, <2>5 DEF Shared
  <2>7. UNCHANGED <<local, task, nextId, merged, unsent>> /\ other' = NoFile
    BY <1>2 DEF OtherPuts, bounds
  <2>8. /\ late' \in [Machines -> SUBSET Others]
        /\ \A m \in Machines : task[m].pc = "putHistory" =>
              late[m] \subseteq late'[m] /\ Shared' \ Shared \subseteq late'[m]
    BY <1>0, <2>3, <2>4, <2>6 DEF Share, At
  <2> QED
    BY <1>0, <2>2, <2>3, <2>5, <2>7, <2>8 DEF OtherTyped
<1> QED
  BY <1>1, <1>2

\* The initial state is typed.
LEMMA InitTyped == Init => Typed /\ Shaped /\ OtherTyped
<1> SUFFICES ASSUME Init PROVE Typed /\ Shaped /\ OtherTyped
  OBVIOUS
<1>6. OtherTyped
  BY DEF Init, OtherTyped, Files
<1>1. /\ Nothing \in Maps(Names, Spans) /\ Nothing \in Maps(Names, Paths)
  <2>1. {} \in SUBSET Names /\ Nothing \in [{} -> Spans] /\ Nothing \in [{} -> Paths]
    BY DEF Nothing
  <2> QED
    BY <2>1, IsMap
<1>2. [own |-> {}, others |-> Others] \in Files /\ NoFile \in Files
  BY IsSnapshot DEF Files
<1>3. remote \in Remotes
  <2>1. PICK h \in Files :
          remote = [archives |-> Nothing, records |-> Nothing, state |-> NoState,
                    history |-> h, manifest |-> NoManifest]
    BY <1>2 DEF Init
  <2>2. NoManifest \in SUBSET Paths
    BY DEF NoManifest, Paths
  <2> QED
    BY <1>1, <2>1, <2>2, NamesAre DEF Remotes
<1>4. task \in [Machines -> Tasks]
  BY NoTaskIs DEF Init
<1>5. Shaped
  BY NoTaskIs DEF Init, Shaped, Sending, Using
<1> QED
  BY <1>1, <1>3, <1>4, <1>5, <1>6, NamesAre DEF Init, Typed

\* Every step keeps the types.
LEMMA NextTyped == Typed /\ Shaped /\ OtherTyped /\ [Next]_vars => Typed' /\ Shaped' /\ OtherTyped'
<1> SUFFICES ASSUME Typed, Shaped, OtherTyped, [Next]_vars PROVE Typed' /\ Shaped' /\ OtherTyped'
  OBVIOUS
<1>1. CASE UNCHANGED vars
  BY <1>1 DEF Typed, Shaped, OtherTyped, vars, local, bounds
<1>2. ASSUME NEW m \in Machines, Task(m) PROVE Typed' /\ Shaped' /\ OtherTyped'
  BY <1>2, TaskTyped, TaskLate
<1>3. ASSUME NEW m \in Machines, User(m) PROVE Typed' /\ Shaped' /\ OtherTyped'
  BY <1>3, UserTyped DEF User, OtherTyped
<1>4. CASE OtherLoads \/ OtherPuts
  BY <1>4, OtherRemote DEF Typed, Shaped, local
<1> QED
  BY <1>1, <1>2, <1>3, <1>4 DEF Next

-----------------------------------------------------------------------------
(* Histories stay sound.                                                   *)

\* More backups and more archives in the remote leave entries sound.
LEMMA SoundGrows ==
  ASSUME NEW es \in SUBSET Entries, NEW n \in Nat, NEW k \in Nat, n <= k, NEW P, NEW Q, P \subseteq Q,
         Sound(es, n, P)
  PROVE  Sound(es, k, Q)
BY EntryHas, NamesAre DEF Sound

\* No entries are sound.
LEMMA SoundEmpty ==
  ASSUME NEW n, NEW P
  PROVE  Sound({}, n, P)
BY DEF Sound

\* Marking an entry keeps the names.
LEMMA SoundMarked ==
  ASSUME NEW es \in SUBSET Entries, NEW n, NEW P, Sound(es, n, P), NEW x, NEW c \in Paths, c \in P
  PROVE  Sound(Marked(es, x, c), n, P)
<1> DEFINE new(e) == IF e.name = x THEN [e EXCEPT !.cloud = c] ELSE e
<1>1. \A e \in es : new(e).name = e.name /\ new(e).cloud \in {e.cloud, c}
  BY EntryWith
<1>2. Marked(es, x, c) = {new(e) : e \in es}
  BY DEF Marked
<1> HIDE DEF new
<1> QED
  BY <1>1, <1>2 DEF Sound

\* Marking entries whose archives are there keeps them sound.
LEMMA SoundMarkedIn ==
  ASSUME NEW es \in SUBSET Entries, NEW n, NEW P, NEW D, Sound(es, n, P),
         NEW Q, P \subseteq Q, \A e \in es : e.name \in D => RemotePath(e) \in Q
  PROVE  Sound(MarkedIn(es, D), n, Q)
<1> DEFINE new(e) == IF e.name \in D THEN [e EXCEPT !.cloud = RemotePath(e)] ELSE e
<1>1. \A e \in es : new(e).name = e.name /\ (new(e).cloud = e.cloud \/ new(e).cloud \in Q)
  BY EntryWith, EntryHas, NamesAre
<1>2. MarkedIn(es, D) = {new(e) : e \in es}
  BY DEF MarkedIn
<1> HIDE DEF new
<1> QED
  BY <1>1, <1>2 DEF Sound

\* Taking over sound entries: fields that are empty are filled, other entries are added.
LEMMA SoundUpserted ==
  ASSUME NEW h \in SUBSET Entries, NEW es \in SUBSET Entries, NEW n, NEW P,
         Sound(h, n, P), Sound(es, n, P)
  PROVE  Sound(Upserted(h, es), n, P)
<1> DEFINE c(e) == IF \E f \in es : f.name = e.name
                   THEN (CHOOSE f \in es : f.name = e.name).cloud ELSE NoName
           new(e) == IF e.cloud # NoName THEN e ELSE [e EXCEPT !.cloud = c(e)]
           added == {e \in es : e.name \notin NamesOf(h)}
<1>1. \A e \in h : c(e) \in Paths /\ (c(e) # NoName => c(e) \in P)
  <2> TAKE e \in h
  <2>1. CASE \E f \in es : f.name = e.name
    <3> DEFINE g == CHOOSE f \in es : f.name = e.name
    <3>1. g \in es
      BY <2>1
    <3> HIDE DEF g
    <3>2. g.cloud \in Paths /\ (g.cloud # NoName => g.cloud \in P)
      BY <3>1, EntryHas DEF Sound
    <3>3. c(e) = g.cloud
      BY <2>1 DEF g
    <3> QED
      BY <3>2, <3>3
  <2>2. CASE ~\E f \in es : f.name = e.name
    BY <2>2, NamesAre
  <2> QED
    BY <2>1, <2>2
<1> HIDE DEF c
<1>2. \A e \in h : new(e).name = e.name /\ (new(e).cloud # NoName => new(e).cloud \in P)
  BY <1>1, EntryWith DEF Sound
<1>3. Upserted(h, es) = {new(e) : e \in h} \cup added
  BY DEF Upserted, c
<1> HIDE DEF new
<1>4. \A e \in added : e \in es /\ \A f \in h : f.name # e.name
  BY DEF NamesOf
<1> HIDE DEF added
<1> QED
  BY <1>2, <1>3, <1>4 DEF Sound

\* A backup's entry, and the one a merge leaves.
LEMMA SoundAdded ==
  ASSUME NEW h \in SUBSET Entries, NEW n \in Nat, NEW P, Sound(h, n, P),
         NEW e \in Entries, e.name.id = n, e.cloud = NoName
  PROVE  Sound(h \cup {e}, n + 1, P)
BY EntryHas, NamesAre DEF Sound

\* Replacing the two entries of a merge by one keeps the history sound.
LEMMA SoundMerged ==
  ASSUME NEW h \in SUBSET Entries, NEW n \in Nat, NEW P, Sound(h, n, P), NEW rest \in SUBSET h,
         NEW s \in h, NEW e \in Entries, e.name.id = s.name.id, e.cloud = s.cloud,
         \A f \in rest : s.name.id < f.name.id
  PROVE  Sound(rest \cup {e}, n, P)
BY EntryHas, NamesAre DEF Sound

\* Everything that is known stays so when numbers and the remote grow.
LEMMA KnownStep ==
  ASSUME Typed, Known, Typed', NEW m \in Machines, nextId <= nextId', Present \subseteq Present',
         DOMAIN remote.archives \subseteq DOMAIN remote'.archives,
         \A o \in Machines : o # m => history'[o] = history[o] /\ task'[o] = task[o],
         Sound(history'[m], nextId', Present'),
         Sound(task'[m].mine, nextId', Present'),
         task'[m].loaded # NoFile => Sound(task'[m].loaded.own, nextId', Present'),
         task'[m].pc \in Sent => RemotePath(task'[m].entry) \in DOMAIN remote'.archives,
         remote'.history # NoFile => Sound(remote'.history.own, nextId', Present')
  PROVE  Known'
<1> DEFINE n == nextId
           k == nextId'
           P == Present
           Q == Present'
<1>1. n \in Nat /\ k \in Nat
  BY DEF Typed
<1>2. ASSUME NEW o \in Machines, o # m
      PROVE  /\ Sound(history'[o], k, Q) /\ Sound(task'[o].mine, k, Q)
             /\ task'[o].loaded # NoFile => Sound(task'[o].loaded.own, k, Q)
             /\ task'[o].pc \in Sent => RemotePath(task'[o].entry) \in DOMAIN remote'.archives
  <2>1. /\ Sound(history[o], n, P) /\ Sound(task[o].mine, n, P)
        /\ task[o].loaded # NoFile => Sound(task[o].loaded.own, n, P)
        /\ task[o].pc \in Sent => RemotePath(task[o].entry) \in DOMAIN remote.archives
    BY DEF Known, Path, Entry
  <2>2. /\ history[o] \in SUBSET Entries /\ task[o].mine \in SUBSET Entries
        /\ task[o].loaded # NoFile => task[o].loaded.own \in SUBSET Entries
    BY FieldTypes, FileThere
  <2> HIDE DEF n, k, P, Q
  <2>3. /\ Sound(history[o], k, Q) /\ Sound(task[o].mine, k, Q)
        /\ task[o].loaded # NoFile => Sound(task[o].loaded.own, k, Q)
    BY <1>1, <2>1, <2>2, SoundGrows DEF n, k, P, Q
  <2> QED
    BY <1>2, <2>1, <2>3
<1> QED
  BY <1>2 DEF Known, Path, Entry

\* The entries machine m knows of, and the remote's, stay sound when the rest grows.
LEMMA OldSound ==
  ASSUME Typed, Known, Typed', NEW m \in Machines, nextId <= nextId', Present \subseteq Present'
  PROVE  /\ Sound(history[m], nextId', Present') /\ Sound(task[m].mine, nextId', Present')
         /\ task[m].loaded # NoFile => Sound(task[m].loaded.own, nextId', Present')
         /\ remote.history # NoFile => Sound(remote.history.own, nextId', Present')
<1> DEFINE n == nextId
           k == nextId'
           P == Present
           Q == Present'
<1>1. n \in Nat /\ k \in Nat
  BY DEF Typed
<1>2. /\ Sound(history[m], n, P) /\ Sound(task[m].mine, n, P)
      /\ task[m].loaded # NoFile => Sound(task[m].loaded.own, n, P)
      /\ remote.history # NoFile => Sound(remote.history.own, n, P)
  BY DEF Known
<1>3. /\ history[m] \in SUBSET Entries /\ task[m].mine \in SUBSET Entries
      /\ task[m].loaded # NoFile => task[m].loaded.own \in SUBSET Entries
      /\ remote.history # NoFile => remote.history.own \in SUBSET Entries
  BY FieldTypes, RemoteTypes, FileThere
<1> HIDE DEF n, k, P, Q
<1> QED
  BY <1>1, <1>2, <1>3, SoundGrows DEF n, k, P, Q

\* The names that can be listed only grow.
LEMMA TaskPresent ==
  ASSUME Typed, Shaped, NEW m \in Machines, Task(m)
  PROVE  /\ Present \subseteq Present'
         /\ MarkFolder(m) => \A e \in history[m] : e.name \in DOMAIN archives[m] => RemotePath(e) \in Present'
<1>1. DOMAIN remote.archives \subseteq DOMAIN remote'.archives /\ (unsent' = unsent \/ MarkFolder(m))
  BY TaskRemote, TaskBounds
<1>2. MarkFolder(m) =>
        /\ unsent \subseteq unsent'
        /\ \A e \in history[m] : e.name \in DOMAIN archives[m] =>
              RemotePath(e) \in DOMAIN remote.archives \cup unsent'
  BY DEF MarkFolder
<1> QED
  BY <1>1, <1>2 DEF Present

\* A task leaves its machine a history whose marked entries are in the cloud.
LEMMA TaskHistorySound ==
  ASSUME Typed, Shaped, Known, NEW m \in Machines, Task(m), Typed'
  PROVE  Sound(history'[m], nextId', Present')
<1>1. nextId' = nextId /\ nextId \in Nat /\ nextId <= nextId' /\ Present \subseteq Present'
  BY TaskBounds, TaskPresent DEF Typed
<1>2. Sound(history[m], nextId', Present') /\ (task[m].loaded # NoFile => Sound(task[m].loaded.own, nextId', Present'))
  BY <1>1, OldSound
<1>3. CASE history'[m] = Marked(history[m], Entry(m).name, Path(m)) /\ task[m].pc \in Sent
  <2>1. Path(m) \in Paths
    BY <1>3, EntryHas DEF Shaped, Sent, Sending, Path, Entry, Paths
  <2>2. Path(m) \in Present'
    BY <1>1, <1>3 DEF Known, Present
  <2> QED
    BY <1>2, <1>3, <2>1, <2>2, FieldTypes, SoundMarked
<1>4. CASE history'[m] = FolderMarked(m) /\ MarkFolder(m)
  <2>1. \A e \in history[m] : e.name \in DOMAIN archives[m] => RemotePath(e) \in Present'
    BY <1>4, TaskPresent
  <2> QED
    BY <1>2, <1>4, <2>1, FieldTypes, SoundMarkedIn DEF FolderMarked
<1>5. CASE history'[m] = Upserted(history[m], Importable(m)) /\ task[m].pc \in Using
  <2>1. Importable(m) \in SUBSET Entries /\ task[m].loaded # NoFile
    BY <1>5, ImportableEntries
  <2>2. Sound(Importable(m), nextId', Present')
    BY <1>2, <2>1 DEF Sound, Importable
  <2> QED
    BY <1>2, <1>5, <2>1, <2>2, FieldTypes, SoundUpserted
<1> QED
  BY <1>2, <1>3, <1>4, <1>5, TaskHistory

\* A task keeps every history it may send sound.
LEMMA TaskKnown ==
  ASSUME Typed, Shaped, Known, NEW m \in Machines, Task(m), Typed'
  PROVE  Known'
<1> DEFINE k == nextId'
           Q == Present'
<1>1. nextId <= nextId' /\ Present \subseteq Present' /\ DOMAIN remote.archives \subseteq DOMAIN remote'.archives
  BY TaskBounds, TaskPresent, TaskRemote DEF Typed
<1>2. /\ Sound(history[m], k, Q) /\ Sound(task[m].mine, k, Q)
      /\ task[m].loaded # NoFile => Sound(task[m].loaded.own, k, Q)
      /\ remote.history # NoFile => Sound(remote.history.own, k, Q)
  BY <1>1, OldSound
<1>3. Sound(history'[m], k, Q) /\ Sound({}, k, Q)
  BY TaskHistorySound, SoundEmpty
<1> HIDE DEF k, Q
<1>4. PICK t : Leads(m, t)
  BY UploadLeads, SnapshotLeads, DownloadLeads DEF Task
<1>5. task'[m] = t /\ \A o \in Machines : o # m => task'[o] = task[o]
  BY <1>4 DEF Leads, TaskIs
<1>6. Sound(t.mine, k, Q)
  BY <1>2, <1>3, <1>4, NoTaskIs DEF Leads, Ends, GoesOn, Takes, Reads, Same
<1>7. t.loaded # NoFile => Sound(t.loaded.own, k, Q)
  <2>1. NoHistory.own = {}
    BY DEF NoHistory
  <2> QED
    BY <1>2, <1>3, <1>4, <2>1, NoTaskIs DEF Leads, Ends, GoesOn, Takes, Reads, Same
<1>8. t.pc \in Sent => RemotePath(t.entry) \in DOMAIN remote'.archives
  <2>1. t.pc \in Sent => GoesOn(m, t)
    BY <1>4, NoTaskIs DEF Leads, Ends, Takes, Reads, Sent
  <2> QED
    BY <1>1, <2>1 DEF GoesOn, Same, Known, Path, Entry
<1>9. remote'.history # NoFile => Sound(remote'.history.own, k, Q)
  <2>1. Uploaded(m).own = task[m].mine
    BY DEF Uploaded
  <2> QED
    BY <1>2, <2>1, TaskRemote
<1> QED
  BY <1>1, <1>3, <1>5, <1>6, <1>7, <1>8, <1>9, KnownStep, TaskHistory DEF k, Q

\* What the user does keeps every history sound.
LEMMA UserKnown ==
  ASSUME Typed, Shaped, Known, NEW m \in Machines, User(m), Typed'
  PROVE  Known'
<1> DEFINE k == nextId'
           Q == Present'
<1>1. UNCHANGED <<remote, unsent>> /\ (nextId' = nextId \/ nextId' = nextId + 1)
  BY DEF User, StartUpload, StartFolder, StartSnapshot, StartSync, StartEnsure, StartDownload, Start,
     Merge, Backup, DropLocal
<1>2. nextId <= nextId' /\ Present' = Present
  BY <1>1 DEF Present, Typed
<1>3. /\ Sound(history[m], k, Q) /\ Sound(task[m].mine, k, Q)
      /\ task[m].loaded # NoFile => Sound(task[m].loaded.own, k, Q)
      /\ remote.history # NoFile => Sound(remote.history.own, k, Q)
  BY <1>2, OldSound
<1>4. Sound(history'[m], k, Q) /\ \A o \in Machines : o # m => history'[o] = history[o]
  <2>1. CASE UNCHANGED history
    BY <1>3, <2>1
  <2>2. CASE \E mode \in Kinds : Backup(m, mode)
    <3> PICK mode \in Kinds : Backup(m, mode)
      BY <2>2
    <3>1. PICK c \in Kinds :
            history' = [history EXCEPT ![m] = history[m] \cup {[name |-> [id |-> nextId, kind |-> c], cloud |-> NoName]}]
      BY DEF Backup, Typed, Kinds
    <3> DEFINE e == [name |-> [id |-> nextId, kind |-> c], cloud |-> NoName]
    <3>2. e \in Entries /\ e.name.id = nextId /\ e.cloud = NoName
      BY NamesAre DEF Backup, Entries
    <3> HIDE DEF e
    <3>3. Sound(history[m], nextId, Present) /\ nextId \in Nat /\ nextId' = nextId + 1
      BY DEF Known, Typed, Backup
    <3>4. Sound(history[m] \cup {e}, nextId + 1, Present)
      BY <3>2, <3>3, FieldTypes, SoundAdded
    <3>5. history' = [history EXCEPT ![m] = history[m] \cup {e}]
      BY <3>1 DEF e
    <3> QED
      BY <1>2, <3>3, <3>4, <3>5 DEF Typed
  <2>3. CASE Merge(m)
    <3> PICK t \in history[m], s \in history[m] :
          LET final == [id |-> s.name.id, kind |-> t.name.kind]
          IN /\ \A e \in history[m] \ {t, s} : s.name.id < e.name.id
             /\ history' = [history EXCEPT ![m] = (@ \ {t, s}) \cup {[s EXCEPT !.name = final]}]
      BY <2>3 DEF Merge
    <3> DEFINE final == [id |-> s.name.id, kind |-> t.name.kind]
               e == [s EXCEPT !.name = final]
               rest == history[m] \ {t, s}
    <3>1. s \in Entries /\ t \in Entries
      BY FieldTypes
    <3>2. final \in Names /\ final.id = s.name.id
      BY <3>1, EntryHas, NamesAre
    <3> HIDE DEF final
    <3>3. e \in Entries /\ e.name = final /\ e.cloud = s.cloud
      BY <3>1, <3>2 DEF Entries
    <3>4. history' = [history EXCEPT ![m] = rest \cup {e}]
      BY DEF final, Typed
    <3> HIDE DEF e
    <3>5. Sound(history[m], nextId, Present) /\ nextId \in Nat /\ nextId' = nextId
      BY <2>3 DEF Known, Typed, Merge
    <3>6. Sound(rest \cup {e}, nextId, Present)
      BY <3>2, <3>3, <3>5, FieldTypes, SoundMerged
    <3> QED
      BY <1>2, <3>4, <3>5, <3>6 DEF Typed
  <2>4. history' = history \/ Merge(m) \/ \E mode \in Kinds : Backup(m, mode)
    BY DEF User, StartUpload, StartFolder, StartSnapshot, StartSync, StartEnsure, StartDownload, Start,
       DropLocal, local
  <2> QED
    BY <2>1, <2>2, <2>3, <2>4
<1>5. Sound({}, k, Q)
  BY SoundEmpty
<1> HIDE DEF k, Q
<1>6. CASE UNCHANGED task
  <2>1. task[m].pc \in Sent => RemotePath(task[m].entry) \in DOMAIN remote.archives
    BY DEF Known, Path, Entry
  <2> QED
    BY <1>1, <1>2, <1>3, <1>4, <1>6, <2>1, KnownStep DEF k, Q
<1>7. CASE \E t : Starts(m, t)
  <2>1. PICK t : Starts(m, t)
    BY <1>7
  <2>2. task'[m] = t /\ \A o \in Machines : o # m => task'[o] = task[o]
    BY <2>1 DEF Starts, TaskIs
  <2>3. t.loaded = NoFile /\ t.mine = {} /\ t.pc \notin Sent
    BY <2>1 DEF Starts, Sent
  <2> QED
    BY <1>1, <1>2, <1>3, <1>4, <1>5, <2>2, <2>3, KnownStep DEF k, Q
<1> QED
  BY <1>6, <1>7, UserStarts

\* What the other configuration has read stays sound, and is all it writes back.
LEMMA OtherSound ==
  ASSUME Typed, Shaped, OtherTyped, Known, OtherKnown, Next
  PROVE  OtherKnown' /\ (OtherLoads \/ OtherPuts => Known')
<1> DEFINE n == nextId
           k == nextId'
           P == Present
           Q == Present'
<1>1. ASSUME NEW m \in Machines, Task(m) \/ User(m) PROVE OtherKnown'
  <2>1. other' = other /\ Present \subseteq Present'
    BY <1>1, TaskPresent DEF Task, User, StartUpload, StartFolder, StartSnapshot, StartSync, StartEnsure,
       StartDownload, Start, Merge, Backup, DropLocal, Present
  <2>0. nextId' = nextId \/ nextId' = nextId + 1
    BY <1>1, TaskBounds DEF User, StartUpload, StartFolder, StartSnapshot, StartSync, StartEnsure,
       StartDownload, Start, Merge, Backup, DropLocal
  <2>2. nextId \in Nat /\ nextId' \in Nat /\ nextId <= nextId'
    BY <2>0 DEF Typed
  <2>3. other # NoFile => other.own \in SUBSET Entries /\ Sound(other.own, n, P)
    BY FileThere DEF OtherTyped, OtherKnown
  <2>4. n \in Nat /\ k \in Nat /\ n <= k /\ P \subseteq Q
    BY <2>1, <2>2
  <2> HIDE DEF n, k, P, Q
  <2>5. other # NoFile => Sound(other.own, k, Q)
    BY <2>3, <2>4, SoundGrows
  <2> QED
    BY <2>1, <2>5 DEF OtherKnown, k, Q
<1>2. CASE OtherLoads \/ OtherPuts
  <2>1. /\ UNCHANGED <<local, task, nextId, unsent>> /\ Present' = Present
        /\ remote'.archives = remote.archives
    BY <1>2, OtherRemote DEF Present
  <2>2. OtherKnown'
    BY <1>2, <2>1, OtherRemote, SoundEmpty DEF OtherKnown, Known
  <2>3. remote'.history # NoFile => Sound(remote'.history.own, nextId, Present)
    BY <1>2, OtherRemote DEF OtherKnown, Known
  <2>4. Known'
    BY <2>1, <2>3 DEF Known, Path, Entry, local
  <2> QED
    BY <2>2, <2>4
<1> QED
  BY <1>1, <1>2 DEF Next

\* At first nothing is listed and nothing is to be kept.
LEMMA InitKnown == Init => Known /\ OtherKnown /\ Kept
<1> SUFFICES ASSUME Init PROVE Known /\ OtherKnown /\ Kept
  OBVIOUS
<1>1. \A m \in Machines : task[m] = NoTask /\ history[m] = {}
  BY DEF Init
<1>2. Sound({}, nextId, Present)
  BY SoundEmpty
<1>3. remote.history # NoFile => remote.history.own = {}
  BY DEF Init
<1>4. OtherKnown
  BY DEF Init, OtherKnown
<1> QED
  BY <1>1, <1>2, <1>3, <1>4, NoTaskIs DEF Known, Kept, Sent

\* Every step keeps every history sound.
LEMMA NextKnown ==
  Typed /\ Shaped /\ OtherTyped /\ Known /\ OtherKnown /\ [Next]_vars => Known' /\ OtherKnown'
<1> SUFFICES ASSUME Typed, Shaped, OtherTyped, Known, OtherKnown, [Next]_vars PROVE Known' /\ OtherKnown'
  OBVIOUS
<1>1. CASE UNCHANGED vars
  BY <1>1 DEF Known, OtherKnown, Present, Path, Entry, vars, local, bounds
<1>2. ASSUME NEW m \in Machines, Task(m) \/ User(m) PROVE Known'
  BY <1>2, NextTyped, TaskKnown, UserKnown DEF Next
<1> QED
  BY <1>1, <1>2, OtherSound DEF Next

\* Types; a history has one entry of a name, also after imports and merges
\* (UpsertHistoryEntry, UpdateHistoryCloudState, ApplyHistoryChanges).
THEOREM Typing == Spec => []TypeOK
<1>1. Typed /\ OtherTyped /\ Known => TypeOK
  <2> SUFFICES ASSUME Typed, OtherTyped, Known PROVE TypeOK
    OBVIOUS
  <2>1. ASSUME NEW m \in Machines
        PROVE  /\ history[m] \subseteq Entries
               /\ \A e, f \in history[m] : e.name = f.name => e = f
               /\ DOMAIN archives[m] \subseteq Names
               /\ \A n \in DOMAIN archives[m] : archives[m][n] \in Spans
               /\ DOMAIN records[m] \subseteq Names
               /\ \A n \in DOMAIN records[m] : records[m][n] \in Names \cup {NoName}
               /\ state[m] \in States
    BY FieldTypes, MapIs DEF Known, Sound, Paths
  <2>2. /\ DOMAIN remote.archives \subseteq Names
        /\ \A h \in {remote.history, other} \ {NoFile} : h.own \subseteq Entries /\ h.others \subseteq Others
    BY RemoteTypes, MapIs, FileThere DEF OtherTyped
  <2> QED
    BY <2>1, <2>2 DEF TypeOK, OtherTyped
<1>2. Init => Known /\ OtherKnown
  BY InitKnown
<1> QED
  BY <1>1, <1>2, InitTyped, NextTyped, NextKnown, PTL DEF Spec

\* What a history, local or remote, calls a cloud copy is in the remote, but for what a folder
\* upload marked without having sent it: PutArchive before MarkUploaded, GetArchive before
\* GetRecord, and no entry is taken over that its machine had not uploaded.
THEOREM ListedWasUploaded == Spec => []ListedIsUploaded
<1>1. Known => ListedIsUploaded
  BY DEF Known, Sound, ListedIsUploaded, Present
<1>2. Init => Known /\ OtherKnown
  BY InitKnown
<1> QED
  BY <1>1, <1>2, InitTyped, NextTyped, NextKnown, PTL DEF Spec

\* A step of a machine's task takes from the shared history only what came after it had read it.
LEMMA UploadKeeps ==
  ASSUME Typed, Shaped, Kept, [Next]_vars, NEW m \in Machines, task'[m] # task[m]
  PROVE  Shared \ Shared' \subseteq late[m]
<1>1. CASE Task(m)
  <2>1. CASE remote'.history = remote.history
    BY <2>1 DEF Shared
  <2>2. CASE remote'.history = Uploaded(m) /\ task[m].pc = "putHistory"
    <3>1. task[m].loaded \in Snapshots
      BY <2>2 DEF Shaped, Using
    <3>2. Uploaded(m) # NoFile /\ Uploaded(m).others = task[m].loaded.others
      BY <3>1, FieldTypes, IsSnapshot DEF Uploaded, Snapshots
    <3>3. Shared \subseteq task[m].loaded.others \cup late[m]
      BY <2>2 DEF Kept
    <3> QED
      BY <2>2, <3>2, <3>3 DEF Shared
  <2> QED
    BY <1>1, <2>1, <2>2, TaskRemote
<1>2. ASSUME NEW o \in Machines, o # m PROVE ~Task(o)
  <2>1. \A t : Leads(o, t) => task'[m] = task[m]
    BY <1>2 DEF Leads, TaskIs
  <2> QED
    BY <2>1, UploadLeads, SnapshotLeads, DownloadLeads DEF Task
<1>3. CASE \E o \in Machines : User(o)
  <2>1. UNCHANGED remote
    BY <1>3 DEF User, StartUpload, StartFolder, StartSnapshot, StartSync, StartEnsure, StartDownload, Start,
       Merge, Backup, DropLocal
  <2> QED
    BY <2>1 DEF Shared
<1>4. ~(OtherLoads \/ OtherPuts) /\ ~UNCHANGED vars
  BY DEF OtherLoads, OtherPuts, vars
<1> QED
  BY <1>1, <1>2, <1>3, <1>4 DEF Next

\* What is about to be sent goes on holding what others had when it was read.
LEMMA NextKept == Typed /\ Shaped /\ OtherTyped /\ Kept /\ [Next]_vars => Kept'
<1> SUFFICES ASSUME Typed, Shaped, OtherTyped, Kept, [Next]_vars PROVE Kept'
  OBVIOUS
<1>1. CASE UNCHANGED <<remote, task, late>>
  BY <1>1 DEF Kept, Shared
<1>2. ASSUME NEW m \in Machines, Task(m) PROVE Kept'
  <2>1. PICK t : Leads(m, t)
    BY <1>2, UploadLeads, SnapshotLeads, DownloadLeads DEF Task
  <2>2. task'[m] = t /\ \A o \in Machines : o # m => task'[o] = task[o]
    BY <2>1 DEF Leads, TaskIs
  <2>3. ASSUME t.pc = "putHistory" PROVE Shared' \subseteq t.loaded.others
    <3>1. Reads(m, t)
      BY <2>1, <2>3, NoTaskIs DEF Leads, Ends, GoesOn, Takes
    <3> QED
      BY <3>1 DEF Reads, Shared
  <2>4. ASSUME NEW o \in Machines, o # m, task[o].pc = "putHistory"
        PROVE  Shared' \subseteq task[o].loaded.others \cup late'[o]
    <3>1. Shared \subseteq task[o].loaded.others \cup late[o]
      BY <2>4 DEF Kept
    <3>2. late[o] \subseteq late'[o] /\ Shared' \ Shared \subseteq late'[o]
      BY <1>2, <2>4, TaskLate
    <3> QED
      BY <3>1, <3>2
  <2> QED
    BY <2>2, <2>3, <2>4 DEF Kept
<1>3. ASSUME NEW m \in Machines, User(m) PROVE Kept'
  <2>0. UNCHANGED <<remote, late>>
    BY <1>3 DEF User, StartUpload, StartFolder, StartSnapshot, StartSync, StartEnsure, StartDownload, Start,
       Merge, Backup, DropLocal
  <2>1. CASE UNCHANGED task
    BY <1>1, <2>0, <2>1
  <2>2. CASE \E t : Starts(m, t)
    <3>1. PICK t : Starts(m, t)
      BY <2>2
    <3>2. task'[m] = t /\ t.pc # "putHistory" /\ \A o \in Machines : o # m => task'[o] = task[o]
      BY <3>1 DEF Starts, TaskIs
    <3> QED
      BY <2>0, <3>2 DEF Kept, Shared
  <2> QED
    BY <1>3, <2>1, <2>2, UserStarts
<1>4. CASE OtherLoads \/ OtherPuts
  <2>1. /\ UNCHANGED task
        /\ \A m \in Machines : task[m].pc = "putHistory" =>
              late[m] \subseteq late'[m] /\ Shared' \ Shared \subseteq late'[m]
    BY <1>4, OtherRemote
  <2>2. ASSUME NEW m \in Machines, task[m].pc = "putHistory"
        PROVE  Shared' \subseteq task[m].loaded.others \cup late'[m]
    BY <2>1, <2>2 DEF Kept
  <2> QED
    BY <2>1, <2>2 DEF Kept
<1>5. UNCHANGED vars => UNCHANGED <<remote, task, late>>
  BY DEF vars
<1> QED
  BY <1>1, <1>2, <1>3, <1>4, <1>5 DEF Next

\* Whatever fails, and however the uploads of several machines and of another configuration run
\* into each other, an upload takes from the shared history none of the other configuration's
\* entries that were in it when it was read (UploadConfigurationHistorySnapshot).  What is put
\* there between the reading and the upload is not kept, and the theorem does not say so.
THEOREM UploadsKeepWhatTheyRead == Spec => OthersKept
<1>1. Typed /\ Shaped /\ Kept /\ [Next]_vars =>
        [\A m \in Machines : task'[m] # task[m] => Shared \ Shared' \subseteq late[m]]_vars
  BY UploadKeeps
<1>2. Init => Kept
  BY InitKnown
<1> QED
  BY <1>1, <1>2, InitTyped, NextTyped, NextKept, PTL DEF Spec, OthersKept

-----------------------------------------------------------------------------
(* Restores.  Where a cloud path leads, and what an archive and its record *)
(* say of each other, wherever either of them is held.                     *)

\* Two names of one archive: they differ at most by a merge.
Alike(a, b, M) == a = b \/ (a.id = b.id /\ a.id \in M)

\* Entries whose cloud path is their own name, but for a merge.
Straight(es, M) == \A e \in es : e.cloud # NoName => Alike(e.cloud, e.name, M)

\* Every entry of a history, and every one a task has at hand, is straight.
Direct ==
    /\ \A m \in Machines :
          /\ Straight(history[m], merged) /\ Straight(task[m].mine, merged)
          /\ Straight(task[m].todo, merged) /\ Straight({task[m].entry}, merged)
          /\ task[m].loaded # NoFile => Straight(task[m].loaded.own, merged)
    /\ remote.history # NoFile => Straight(remote.history.own, merged)

\* What the other configuration has read.
OtherDirect == other # NoFile => Straight(other.own, merged)

\* What is held of a name, on a machine or in the remote.
Holds(f, n, v) == n \in DOMAIN f /\ f[n] = v
HeldArchive(n, s) == Holds(remote.archives, n, s) \/ \E m \in Machines : Holds(archives[m], n, s)
HeldRecord(n, p) == Holds(remote.records, n, p) \/ \E m \in Machines : Holds(records[m], n, p)

\* Every copy of an archive and every copy of its record agree on the backup it builds on,
\* and records point backwards; merged archives may disagree.
ArchiveFits(n, s) ==
    /\ n.id < nextId
    /\ n.id \notin merged => s.to = n.id /\ (n.kind = "Full" => s.from = 0)
RecordFits(n, p) == n.id < nextId /\ p.id < n.id
Spanned ==
    /\ \A n \in Names : \A s \in Spans : HeldArchive(n, s) => ArchiveFits(n, s)
    /\ \A n \in Names : \A p \in Paths : HeldRecord(n, p) => RecordFits(n, p)
    /\ \A n \in Names : \A s \in Spans : \A p \in Paths :
          HeldArchive(n, s) /\ HeldRecord(n, p) /\ n.id \notin merged => s.from = p.id

\* More merges leave entries straight.
LEMMA StraightGrows ==
  ASSUME NEW es, NEW M, NEW N, M \subseteq N, Straight(es, M)
  PROVE  Straight(es, N)
BY DEF Straight, Alike

\* The path of a straight entry is its name, but for a merge.
LEMMA StraightPath ==
  ASSUME NEW e, NEW M, Straight({e}, M)
  PROVE  Alike(RemotePath(e), e.name, M) /\ Alike(e.name, RemotePath(e), M)
BY DEF Straight, Alike, RemotePath

\* Marking an entry with a path of its name keeps entries straight.
LEMMA StraightMarked ==
  ASSUME NEW es \in SUBSET Entries, NEW M, Straight(es, M), NEW x, NEW c \in Paths, Alike(c, x, M)
  PROVE  Straight(Marked(es, x, c), M)
<1> DEFINE new(e) == IF e.name = x THEN [e EXCEPT !.cloud = c] ELSE e
<1>1. \A e \in es : new(e).name = e.name /\ new(e).cloud = IF e.name = x THEN c ELSE e.cloud
  BY EntryWith
<1>2. Marked(es, x, c) = {new(e) : e \in es}
  BY DEF Marked
<1> HIDE DEF new
<1> QED
  BY <1>1, <1>2 DEF Straight

\* Marking the uploaded folder keeps entries straight.
LEMMA StraightMarkedIn ==
  ASSUME NEW es \in SUBSET Entries, NEW M, NEW D, Straight(es, M)
  PROVE  Straight(MarkedIn(es, D), M)
<1> DEFINE new(e) == IF e.name \in D THEN [e EXCEPT !.cloud = RemotePath(e)] ELSE e
<1>1. \A e \in es : new(e).name = e.name /\ new(e).cloud \in {e.cloud, RemotePath(e)}
  BY EntryWith, EntryHas, NamesAre
<1>2. \A e \in es : Alike(RemotePath(e), e.name, M)
  BY DEF Straight, Alike, RemotePath
<1>3. MarkedIn(es, D) = {new(e) : e \in es}
  BY DEF MarkedIn
<1> HIDE DEF new
<1> QED
  BY <1>1, <1>2, <1>3 DEF Straight

\* Taking over straight entries keeps entries straight.
LEMMA StraightUpserted ==
  ASSUME NEW h \in SUBSET Entries, NEW es \in SUBSET Entries, NEW M, Straight(h, M), Straight(es, M)
  PROVE  Straight(Upserted(h, es), M)
<1> DEFINE c(e) == IF \E f \in es : f.name = e.name
                   THEN (CHOOSE f \in es : f.name = e.name).cloud ELSE NoName
           new(e) == IF e.cloud # NoName THEN e ELSE [e EXCEPT !.cloud = c(e)]
           added == {e \in es : e.name \notin NamesOf(h)}
<1>1. \A e \in h : c(e) \in Paths /\ (c(e) # NoName => Alike(c(e), e.name, M))
  <2> TAKE e \in h
  <2>1. CASE \E f \in es : f.name = e.name
    <3> DEFINE g == CHOOSE f \in es : f.name = e.name
    <3>1. g \in es /\ g.name = e.name
      BY <2>1
    <3> HIDE DEF g
    <3>2. g.cloud \in Paths /\ (g.cloud # NoName => Alike(g.cloud, g.name, M))
      BY <3>1, EntryHas DEF Straight
    <3>3. c(e) = g.cloud
      BY <2>1 DEF g
    <3> QED
      BY <3>1, <3>2, <3>3
  <2>2. CASE ~\E f \in es : f.name = e.name
    BY <2>2, NamesAre
  <2> QED
    BY <2>1, <2>2
<1> HIDE DEF c
<1>2. \A e \in h : new(e).name = e.name /\ (new(e).cloud # NoName => Alike(new(e).cloud, e.name, M))
  BY <1>1, EntryWith DEF Straight
<1>3. Upserted(h, es) = {new(e) : e \in h} \cup added
  BY DEF Upserted, c
<1> HIDE DEF new
<1>4. \A e \in added : e \in es
  OBVIOUS
<1> HIDE DEF added
<1> QED
  BY <1>2, <1>3, <1>4 DEF Straight

\* No step of a task merges.
LEMMA TaskMerged ==
  ASSUME NEW m \in Machines, Task(m)
  PROVE  merged' = merged
BY DEF Task, Upload, Snapshot, Download, PutArchive, PutState, PutRecord, MarkUploaded, PutFolder, PutMetadata,
   MarkFolder, Load, Loaded, LoadMissing, LoadFails, PutHistory, PutManifest, LoadManifest, Import, Plan,
   NextDownload, GetArchive, GetState, GetRecord, Command, CommandFails, bounds

\* Where the entries come from that a step leaves task t of machine m to work on.
Draws(m, t) ==
    /\ t.todo \subseteq task[m].todo \cup history[m]
         \cup (IF task[m].pc \in Using THEN Importable(m) ELSE {})
    /\ t.entry \in task[m].todo \cup history[m] \cup {task[m].entry, NoTask.entry}

\* Ending, or going on with what is at hand, draws on nothing new.
LEMMA StayDraws ==
  ASSUME Typed, NEW m \in Machines, NEW p, End(m) \/ Goto(m, p) \/ DownloadFailed(m)
  PROVE  Draws(m, task'[m])
<1>1. NoTask.todo = {}
  BY DEF NoTask
<1>2. task \in [Machines -> Tasks]
  BY DEF Typed
<1>3. \A t \in Tasks : \A q : [t EXCEPT !.pc = q].todo = t.todo /\ [t EXCEPT !.pc = q].entry = t.entry
  BY DEF Tasks
<1>4. ASSUME NEW q, Goto(m, q) PROVE Draws(m, task'[m])
  <2>1. task'[m] = [task[m] EXCEPT !.pc = q]
    BY <1>2, <1>4 DEF Goto
  <2> QED
    BY <1>2, <1>3, <2>1 DEF Draws
<1>5. End(m) => Draws(m, task'[m])
  BY <1>1, <1>2 DEF End, Draws
<1> QED
  BY <1>4, <1>5 DEF DownloadFailed

\* A task works on what it was given, what its machine lists and what it takes over.
LEMMA TaskDraws ==
  ASSUME Typed, Shaped, NEW m \in Machines, Task(m)
  PROVE  Draws(m, task'[m])
<1>t. task \in [Machines -> Tasks] /\ task[m] \in Tasks
  BY DEF Typed
<1>n. NoTask.todo = {}
  BY DEF NoTask
<1>k. ASSUME task'[m].todo = task[m].todo, task'[m].entry = task[m].entry PROVE Draws(m, task'[m])
  BY <1>k DEF Draws
<1>1. CASE Upload(m) \/ PutHistory(m) \/ PutManifest(m)
  <2>1. End(m) \/ \E p : Goto(m, p)
    BY <1>1 DEF Upload, PutArchive, PutState, PutRecord, MarkUploaded, PutFolder, PutMetadata, MarkFolder,
       PutHistory, PutManifest
  <2> QED
    BY <2>1, StayDraws
<1>2. CASE Load(m)
  <2>1. CASE LoadFails(m)
    BY <2>1, StayDraws DEF LoadFails
  <2>2. CASE Loaded(m)
    <3>1. task'[m].todo = task[m].todo /\ task'[m].entry = task[m].entry
      BY <1>t, <2>2 DEF Loaded, Tasks
    <3> QED
      BY <1>k, <3>1
  <2>3. CASE LoadMissing(m)
    <3>1. \/ task'[m] = NoTask
          \/ task'[m].todo = task[m].todo /\ task'[m].entry = task[m].entry
      BY <1>t, <2>3 DEF LoadMissing, Tasks
    <3> QED
      BY <1>k, <1>n, <3>1 DEF Draws
  <2> QED
    BY <1>2, <2>1, <2>2, <2>3 DEF Load
<1>3. CASE LoadManifest(m)
  <2>1. CASE End(m)
    BY <2>1, StayDraws
  <2>2. CASE task' = [task EXCEPT ![m].manifest = remote.manifest, ![m].pc = "import"]
    <3>1. task'[m].todo = task[m].todo /\ task'[m].entry = task[m].entry
      BY <1>t, <2>2 DEF Tasks
    <3> QED
      BY <1>k, <3>1
  <2> QED
    BY <1>3, <2>1, <2>2 DEF LoadManifest
<1>4. CASE Import(m)
  <2>1. task[m].pc \in Using
    BY <1>4 DEF Import, At, Using
  <2>2. task'[m].todo \in {Importable(m), {}} /\ task'[m].entry = task[m].entry
    BY <1>4, <1>t DEF Import, Tasks
  <2> QED
    BY <2>1, <2>2 DEF Draws
<1>5. CASE Plan(m)
  <2>1. CASE End(m)
    BY <2>1, StayDraws
  <2>2. CASE ~End(m)
    <3> DEFINE id == Entry(m).name.id
               heads == Heads(m, id)
               low == IF heads = {} THEN 0 ELSE (CHOOSE h \in heads : TRUE).name.id
               list(e, same) == IF e.name.kind = "Full" THEN {e}
                                ELSE {e} \cup heads \cup same \cup Between(m, low, id)
    <3>1. PICK e \in history[m], same \in SUBSET history[m] :
            task' = [task EXCEPT ![m].pc = "next", ![m].todo = list(e, same)]
      BY <1>5, <2>2 DEF Plan
    <3>2. list(e, same) \subseteq history[m]
      BY DEF Heads, Between
    <3> HIDE DEF list
    <3>3. task'[m].todo = list(e, same) /\ task'[m].entry = task[m].entry
      BY <1>t, <3>1 DEF Tasks
    <3> QED
      BY <3>2, <3>3 DEF Draws
  <2> QED
    BY <2>1, <2>2
<1>6. CASE NextDownload(m)
  <2>1. CASE End(m)
    BY <2>1, StayDraws
  <2>2. CASE ~End(m)
    <3> DEFINE list(e) == {f \in task[m].todo : f # e /\ e.name.id <= f.name.id}
    <3>1. PICK e \in task[m].todo :
            task' = [task EXCEPT ![m].pc = "getArchive", ![m].entry = e, ![m].whole = TRUE, ![m].todo = list(e)]
      BY <1>6, <2>2 DEF NextDownload, Typed
    <3>2. list(e) \subseteq task[m].todo
      OBVIOUS
    <3> HIDE DEF list
    <3>3. task'[m].todo = list(e) /\ task'[m].entry = e
      BY <1>t, <3>1 DEF Tasks
    <3> QED
      BY <3>2, <3>3 DEF Draws
  <2> QED
    BY <2>1, <2>2
<1>7. CASE GetArchive(m)
  BY <1>7, StayDraws DEF GetArchive
<1>8. CASE GetState(m)
  <2>1. CASE Goto(m, "getRecord")
    BY <2>1, StayDraws
  <2>2. CASE task' = [task EXCEPT ![m].pc = "getRecord", ![m].whole = FALSE]
    <3>1. task'[m].todo = task[m].todo /\ task'[m].entry = task[m].entry
      BY <1>t, <2>2 DEF Tasks
    <3> QED
      BY <1>k, <3>1
  <2> QED
    BY <1>8, <2>1, <2>2 DEF GetState
<1>9. CASE GetRecord(m)
  BY <1>9, StayDraws DEF GetRecord
<1> QED
  BY <1>1, <1>2, <1>3, <1>4, <1>5, <1>6, <1>7, <1>8, <1>9 DEF Task, Snapshot, Download

\* A task that the user starts works on an entry of the history.
LEMMA UserDraws ==
  ASSUME Typed, NEW m \in Machines, User(m)
  PROVE  Draws(m, task'[m])
<1>t. task \in [Machines -> Tasks]
  BY DEF Typed
<1>1. ASSUME NEW k, NEW p, NEW e \in history[m] \cup {NoTask.entry}, Start(m, k, p, e)
      PROVE  Draws(m, task'[m])
  <2>1. task'[m] = [NoTask EXCEPT !.kind = k, !.pc = p, !.entry = e]
    BY <1>t, <1>1 DEF Start
  <2>2. task'[m].todo = {} /\ task'[m].entry = e
    BY <2>1 DEF NoTask
  <2> QED
    BY <2>2 DEF Draws
<1>2. CASE \/ StartUpload(m) \/ StartFolder(m) \/ StartSnapshot(m)
           \/ StartSync(m) \/ StartEnsure(m) \/ StartDownload(m)
  BY <1>1, <1>2 DEF StartUpload, StartFolder, StartSnapshot, StartSync, StartEnsure, StartDownload
<1>3. CASE Merge(m) \/ (\E mode \in Kinds : Backup(m, mode)) \/ (\E n \in Names : DropLocal(m, n))
  <2>1. UNCHANGED task
    BY <1>3 DEF Merge, Backup, DropLocal
  <2> QED
    BY <2>1 DEF Draws
<1> QED
  BY <1>2, <1>3 DEF User

\* What is straight stays so when machine m's own entries and the remote's do.
LEMMA DirectStep ==
  ASSUME Direct, NEW m \in Machines, merged \subseteq merged',
         \A o \in Machines : o # m => history'[o] = history[o] /\ task'[o] = task[o],
         Straight(history'[m], merged'), Straight(task'[m].mine, merged'),
         Straight(task'[m].todo, merged'), Straight({task'[m].entry}, merged'),
         task'[m].loaded # NoFile => Straight(task'[m].loaded.own, merged'),
         remote'.history # NoFile => Straight(remote'.history.own, merged')
  PROVE  Direct'
<1> DEFINE M == merged
           N == merged'
<1>1. ASSUME NEW o \in Machines, o # m
      PROVE  /\ Straight(history[o], N) /\ Straight(task[o].mine, N)
             /\ Straight(task[o].todo, N) /\ Straight({task[o].entry}, N)
             /\ task[o].loaded # NoFile => Straight(task[o].loaded.own, N)
  <2>1. /\ Straight(history[o], M) /\ Straight(task[o].mine, M)
        /\ Straight(task[o].todo, M) /\ Straight({task[o].entry}, M)
        /\ task[o].loaded # NoFile => Straight(task[o].loaded.own, M)
    BY DEF Direct
  <2>2. M \subseteq N
    OBVIOUS
  <2> HIDE DEF M, N
  <2> QED
    BY <2>1, <2>2, StraightGrows
<1> QED
  BY <1>1 DEF Direct

\* What machine m has at hand stays straight when backups are merged.
LEMMA OldDirect ==
  ASSUME Direct, NEW m \in Machines, merged \subseteq merged'
  PROVE  /\ Straight(history[m], merged') /\ Straight(task[m].mine, merged')
         /\ Straight(task[m].todo, merged') /\ Straight({task[m].entry}, merged')
         /\ task[m].loaded # NoFile => Straight(task[m].loaded.own, merged')
         /\ remote.history # NoFile => Straight(remote.history.own, merged')
<1> DEFINE M == merged
           N == merged'
<1>1. /\ Straight(history[m], M) /\ Straight(task[m].mine, M)
      /\ Straight(task[m].todo, M) /\ Straight({task[m].entry}, M)
      /\ task[m].loaded # NoFile => Straight(task[m].loaded.own, M)
      /\ remote.history # NoFile => Straight(remote.history.own, M)
  BY DEF Direct
<1>2. M \subseteq N
  OBVIOUS
<1> HIDE DEF M, N
<1> QED
  BY <1>1, <1>2, StraightGrows DEF M, N

\* What the task of machine m has read of a history, and will send.
LEMMA CopiesDirect ==
  ASSUME Direct, NEW m \in Machines, merged \subseteq merged', NEW t, Leads(m, t) \/ Starts(m, t)
  PROVE  /\ Straight(t.mine, merged')
         /\ t.loaded # NoFile => Straight(t.loaded.own, merged')
<1> DEFINE N == merged'
<1>1. /\ Straight(history[m], N) /\ Straight(task[m].mine, N)
      /\ task[m].loaded # NoFile => Straight(task[m].loaded.own, N)
      /\ remote.history # NoFile => Straight(remote.history.own, N)
  BY OldDirect
<1>2. Straight({}, N) /\ NoHistory.own = {}
  BY DEF Straight, NoHistory
<1> HIDE DEF N
<1>3. Straight(t.mine, N)
  BY <1>1, <1>2, NoTaskIs DEF Leads, Starts, Ends, GoesOn, Takes, Reads, Same
<1>4. t.loaded # NoFile => Straight(t.loaded.own, N)
  BY <1>1, <1>2, NoTaskIs DEF Leads, Starts, Ends, GoesOn, Takes, Reads, Same
<1> QED
  BY <1>3, <1>4 DEF N

\* What a task draws on is straight.
LEMMA DrawnDirect ==
  ASSUME Typed, Shaped, Direct, NEW m \in Machines, merged \subseteq merged', NEW t, Draws(m, t)
  PROVE  Straight(t.todo, merged') /\ Straight({t.entry}, merged')
<1> DEFINE N == merged'
<1>1. /\ Straight(history[m], N) /\ Straight(task[m].todo, N) /\ Straight({task[m].entry}, N)
      /\ task[m].loaded # NoFile => Straight(task[m].loaded.own, N)
  BY OldDirect
<1>2. NoTask.entry.cloud = NoName
  BY DEF NoTask
<1>3. task[m].pc \in Using => Straight(Importable(m), N)
  BY <1>1, ImportableEntries DEF Straight, Importable
<1> HIDE DEF N
<1> QED
  BY <1>1, <1>2, <1>3 DEF Draws, Straight, N

\* The history a task leaves on its machine is straight.
LEMMA TaskHistoryDirect ==
  ASSUME Typed, Shaped, Direct, NEW m \in Machines, Task(m)
  PROVE  Straight(history'[m], merged')
<1> DEFINE N == merged'
<1>0. merged' = merged
  BY TaskMerged
<1>1. /\ Straight(history[m], N) /\ Straight({task[m].entry}, N)
      /\ task[m].loaded # NoFile => Straight(task[m].loaded.own, N)
  BY <1>0, OldDirect
<1> HIDE DEF N
<1>2. CASE history'[m] = Marked(history[m], Entry(m).name, Path(m)) /\ task[m].pc \in Sent
  <2>1. Path(m) \in Paths /\ Alike(Path(m), Entry(m).name, N)
    BY <1>1, <1>2, EntryHas, StraightPath DEF Shaped, Sent, Sending, Path, Entry, Paths
  <2> QED
    BY <1>1, <1>2, <2>1, FieldTypes, StraightMarked DEF N
<1>3. CASE history'[m] = FolderMarked(m)
  BY <1>1, <1>3, FieldTypes, StraightMarkedIn DEF FolderMarked, N
<1>4. CASE history'[m] = Upserted(history[m], Importable(m)) /\ task[m].pc \in Using
  <2>1. Importable(m) \in SUBSET Entries /\ Straight(Importable(m), N)
    BY <1>1, <1>4, ImportableEntries DEF Straight, Importable
  <2> QED
    BY <1>1, <1>4, <2>1, FieldTypes, StraightUpserted DEF N
<1> QED
  BY <1>1, <1>2, <1>3, <1>4, TaskHistory DEF N

\* A task keeps everything straight.
LEMMA TaskDirect ==
  ASSUME Typed, Shaped, Direct, NEW m \in Machines, Task(m)
  PROVE  Direct'
<1>0. merged' = merged /\ merged \subseteq merged'
  BY TaskMerged
<1>1. PICK t : Leads(m, t)
  BY UploadLeads, SnapshotLeads, DownloadLeads DEF Task
<1>2. task'[m] = t /\ \A o \in Machines : o # m => task'[o] = task[o]
  BY <1>1 DEF Leads, TaskIs
<1>3. Straight(t.mine, merged') /\ (t.loaded # NoFile => Straight(t.loaded.own, merged'))
  BY <1>0, <1>1, CopiesDirect
<1>4. Straight(t.todo, merged') /\ Straight({t.entry}, merged')
  BY <1>0, <1>2, TaskDraws, DrawnDirect
<1>5. remote'.history # NoFile => Straight(remote'.history.own, merged')
  <2>1. Uploaded(m).own = task[m].mine
    BY DEF Uploaded
  <2> QED
    BY <1>0, <2>1, TaskRemote, OldDirect
<1>6. Straight(history'[m], merged') /\ \A o \in Machines : o # m => history'[o] = history[o]
  BY TaskHistoryDirect, TaskHistory
<1> QED
  BY <1>0, <1>2, <1>3, <1>4, <1>5, <1>6, DirectStep

\* Merges mark what they touch, and nothing else changes what was merged.
LEMMA UserMerged ==
  ASSUME NEW m \in Machines, User(m)
  PROVE  merged' = merged \/ (Merge(m) /\ merged \subseteq merged')
BY DEF User, StartUpload, StartFolder, StartSnapshot, StartSync, StartEnsure, StartDownload, Start,
   Merge, Backup, DropLocal

\* What a merge does: the older of two neighbours goes, the younger keeps its number.
Joins(m, t, s) ==
    LET target == t.name
        next == s.name
        final == [id |-> next.id, kind |-> target.kind]
    IN /\ {target, next} \subseteq DOMAIN archives[m] \cap DOMAIN records[m]
       /\ target.id < next.id
       /\ archives' = [archives EXCEPT ![m] =
            With(Without(archives[m], {target, next}), final,
                 [from |-> archives[m][target].from, to |-> archives[m][next].to])]
       /\ records' = [records EXCEPT ![m] =
            With([n \in DOMAIN records[m] \ {target, next} |-> Renamed(records[m][n], next, final)],
                 final, records[m][target])]
       /\ history' = [history EXCEPT ![m] = (history[m] \ {t, s}) \cup {[s EXCEPT !.name = final]}]
       /\ merged' = merged \cup {target.id, next.id}

\* Two neighbours are merged.
LEMMA MergeJoins ==
  ASSUME Typed, NEW m \in Machines, Merge(m)
  PROVE  /\ \E t, s \in history[m] : Joins(m, t, s)
         /\ UNCHANGED <<remote, task, nextId>>
<1>1. \E t, s \in history[m] : Joins(m, t, s)
  BY DEF Merge, Joins, Typed
<1> QED
  BY <1>1 DEF Merge

\* What the user does keeps everything straight.
LEMMA UserDirect ==
  ASSUME Typed, Shaped, Direct, NEW m \in Machines, User(m)
  PROVE  Direct'
<1>0. merged \subseteq merged' /\ UNCHANGED remote
  BY UserMerged DEF User, StartUpload, StartFolder, StartSnapshot, StartSync, StartEnsure, StartDownload, Start,
     Merge, Backup, DropLocal
<1> DEFINE N == merged'
<1>1. /\ Straight(history[m], N) /\ Straight(task[m].mine, N)
      /\ task[m].loaded # NoFile => Straight(task[m].loaded.own, N)
      /\ remote.history # NoFile => Straight(remote.history.own, N)
  BY <1>0, OldDirect
<1>2. Straight(task'[m].todo, N) /\ Straight({task'[m].entry}, N)
  BY <1>0, UserDraws, DrawnDirect
<1>3. /\ \A o \in Machines : o # m => task'[o] = task[o]
      /\ Straight(task'[m].mine, N)
      /\ task'[m].loaded # NoFile => Straight(task'[m].loaded.own, N)
  <2>1. CASE UNCHANGED task
    BY <1>1, <2>1
  <2>2. CASE \E t : Starts(m, t)
    <3>1. PICK t : Starts(m, t)
      BY <2>2
    <3>2. task'[m] = t /\ \A o \in Machines : o # m => task'[o] = task[o]
      BY <3>1 DEF Starts, TaskIs
    <3> QED
      BY <1>0, <3>1, <3>2, CopiesDirect
  <2> QED
    BY <2>1, <2>2, UserStarts
<1>4. Straight(history'[m], N) /\ \A o \in Machines : o # m => history'[o] = history[o]
  <2>1. CASE UNCHANGED history
    BY <1>1, <2>1
  <2>2. CASE \E mode \in Kinds : Backup(m, mode)
    <3>1. PICK n : history' = [history EXCEPT ![m] = history[m] \cup {[name |-> n, cloud |-> NoName]}]
      BY <2>2 DEF Backup, Typed
    <3>2. Straight(history[m] \cup {[name |-> n, cloud |-> NoName]}, N)
      BY <1>1 DEF Straight
    <3> HIDE DEF N
    <3> QED
      BY <3>1, <3>2 DEF Typed
  <2>3. CASE Merge(m)
    <3>1. PICK t, s \in history[m] : Joins(m, t, s)
      BY <2>3, MergeJoins
    <3> DEFINE final == [id |-> s.name.id, kind |-> t.name.kind]
               e == [s EXCEPT !.name = final]
    <3>2. s \in Entries
      BY <3>1, FieldTypes
    <3>3. e.name.id = s.name.id /\ e.cloud = s.cloud
      BY <3>2 DEF Entries
    <3>4. history' = [history EXCEPT ![m] = (history[m] \ {t, s}) \cup {e}] /\ s.name.id \in N
      BY <3>1 DEF Joins
    <3> HIDE DEF e
    <3>5. Straight({s}, N)
      BY <1>1, <3>1 DEF Straight
    <3>6. Straight((history[m] \ {t, s}) \cup {e}, N)
      BY <1>1, <3>3, <3>4, <3>5 DEF Straight, Alike
    <3> HIDE DEF N
    <3> QED
      BY <3>4, <3>6 DEF Typed
  <2>4. history' = history \/ Merge(m) \/ \E mode \in Kinds : Backup(m, mode)
    BY DEF User, StartUpload, StartFolder, StartSnapshot, StartSync, StartEnsure, StartDownload, Start,
       DropLocal, local
  <2> QED
    BY <2>1, <2>2, <2>3, <2>4
<1> HIDE DEF N
<1> QED
  BY <1>0, <1>1, <1>2, <1>3, <1>4, DirectStep DEF N

\* What With and Overlaid hold, and Without.
LEMMA WithHolds ==
  ASSUME NEW f, NEW x, NEW v, NEW n, NEW s, Holds(With(f, x, v), n, s)
  PROVE  (n = x /\ s = v) \/ (n # x /\ Holds(f, n, s))
BY DEF Holds, With

\* What one map laid over another holds, one of them held.
LEMMA OverlaidHolds ==
  ASSUME NEW f, NEW g, NEW n, NEW s, Holds(Overlaid(f, g), n, s)
  PROVE  Holds(f, n, s) \/ Holds(g, n, s)
BY DEF Holds, Overlaid

\* What is left of a map was in it.
LEMMA WithoutHolds ==
  ASSUME NEW f, NEW S, NEW n, NEW s, Holds(Without(f, S), n, s)
  PROVE  Holds(f, n, s)
BY DEF Holds, Without

\* Wherever an archive or a record is held after a step that copies, it was held before, under
\* that name or one of a merged backup of the same number.
Copied ==
    /\ \A n \in Names : \A s \in Spans :
          HeldArchive(n, s)' => \E k \in Names : Alike(n, k, merged) /\ HeldArchive(k, s)
    /\ \A n \in Names : \A p \in Paths :
          HeldRecord(n, p)' => \E k \in Names : Alike(n, k, merged) /\ HeldRecord(k, p)

\* The path of the entry that a task works on is one of its names.
LEMMA PathAlike ==
  ASSUME Typed, Shaped, Direct, NEW m \in Machines, task[m].pc \in Sending
  PROVE  /\ Entry(m).name \in Names /\ Path(m) \in Names
         /\ Alike(Path(m), Entry(m).name, merged) /\ Alike(Entry(m).name, Path(m), merged)
BY EntryHas, StraightPath DEF Shaped, Entry, Path, Direct

\* The remote's archives after a step of a task were there, or on its machine.
LEMMA TaskRemoteArchives ==
  ASSUME Typed, Shaped, Direct, NEW m \in Machines, Task(m),
         NEW n \in Names, NEW s \in Spans, Holds(remote'.archives, n, s)
  PROVE  \E k \in Names : Alike(n, k, merged) /\ HeldArchive(k, s)
<1>0. Alike(n, n, merged)
  BY DEF Alike
<1>1. CASE remote'.archives = remote.archives
  BY <1>0, <1>1 DEF HeldArchive
<1>2. CASE PutArchive(m) /\ remote'.archives # remote.archives
  <2>1. Entry(m).name \in DOMAIN archives[m] /\ task[m].pc \in Sending
    BY <1>2 DEF PutArchive, At, Sending
  <2>2. remote'.archives = With(remote.archives, Path(m), archives[m][Entry(m).name])
    BY <1>2, RemoteTypes DEF PutArchive, Remotes
  <2>3. \/ n = Path(m) /\ s = archives[m][Entry(m).name]
        \/ Holds(remote.archives, n, s)
    BY <2>2, WithHolds
  <2>4. HeldArchive(Entry(m).name, archives[m][Entry(m).name])
    BY <2>1 DEF HeldArchive, Holds
  <2> QED
    BY <1>0, <2>1, <2>3, <2>4, PathAlike DEF HeldArchive
<1>3. CASE PutFolder(m) /\ remote'.archives # remote.archives
  <2>1. remote'.archives = Overlaid(remote.archives, archives[m])
    BY <1>3, RemoteTypes DEF PutFolder, Remotes
  <2> QED
    BY <1>0, <2>1, OverlaidHolds DEF HeldArchive
<1>4. remote'.archives = remote.archives \/ PutArchive(m) \/ PutFolder(m)
  BY RemoteTypes DEF Remotes, Task, Upload, Snapshot, Download, PutState, PutRecord, MarkUploaded,
     PutMetadata, MarkFolder, Load, PutHistory, Share, PutManifest, LoadManifest, Import, Plan,
     NextDownload, GetArchive, GetState, GetRecord
<1> QED
  BY <1>1, <1>2, <1>3, <1>4

\* The remote's records after a step of a task were there, or on its machine.
LEMMA TaskRemoteRecords ==
  ASSUME Typed, Shaped, Direct, NEW m \in Machines, Task(m),
         NEW n \in Names, NEW p \in Paths, Holds(remote'.records, n, p)
  PROVE  \E k \in Names : Alike(n, k, merged) /\ HeldRecord(k, p)
<1>0. Alike(n, n, merged)
  BY DEF Alike
<1>1. CASE remote'.records = remote.records
  BY <1>0, <1>1 DEF HeldRecord
<1>2. CASE PutRecord(m) /\ remote'.records # remote.records
  <2>1. Entry(m).name \in DOMAIN records[m] /\ task[m].pc \in Sending
    BY <1>2 DEF PutRecord, At, Sending
  <2>2. remote'.records = With(remote.records, Path(m), records[m][Entry(m).name])
    BY <1>2, RemoteTypes DEF PutRecord, Remotes
  <2>3. \/ n = Path(m) /\ p = records[m][Entry(m).name]
        \/ Holds(remote.records, n, p)
    BY <2>2, WithHolds
  <2>4. HeldRecord(Entry(m).name, records[m][Entry(m).name])
    BY <2>1 DEF HeldRecord, Holds
  <2> QED
    BY <1>0, <2>1, <2>3, <2>4, PathAlike DEF HeldRecord
<1>3. CASE PutMetadata(m) /\ remote'.records # remote.records
  <2>1. remote'.records = Overlaid(remote.records, records[m])
    BY <1>3, RemoteTypes DEF PutMetadata, Remotes
  <2> QED
    BY <1>0, <2>1, OverlaidHolds DEF HeldRecord
<1>4. remote'.records = remote.records \/ PutRecord(m) \/ PutMetadata(m)
  BY RemoteTypes DEF Remotes, Task, Upload, Snapshot, Download, PutArchive, PutState, MarkUploaded,
     PutFolder, MarkFolder, Load, PutHistory, Share, PutManifest, LoadManifest, Import, Plan,
     NextDownload, GetArchive, GetState, GetRecord
<1> QED
  BY <1>1, <1>2, <1>3, <1>4

\* A machine's archives after a step of a task were there, or in the remote.
LEMMA TaskArchives ==
  ASSUME Typed, Shaped, Direct, NEW m \in Machines, Task(m), NEW o \in Machines,
         NEW n \in Names, NEW s \in Spans, Holds(archives'[o], n, s)
  PROVE  \E k \in Names : Alike(n, k, merged) /\ HeldArchive(k, s)
<1>0. Alike(n, n, merged)
  BY DEF Alike
<1>1. CASE archives'[o] = archives[o]
  BY <1>0, <1>1 DEF HeldArchive
<1>2. CASE archives'[o] # archives[o]
  <2>1. GetArchive(m)
    BY <1>2 DEF Task, Upload, Snapshot, Download, PutArchive, PutState, PutRecord, MarkUploaded, PutFolder,
       PutMetadata, MarkFolder, Load, PutHistory, PutManifest, LoadManifest, Import, Plan,
       NextDownload, GetState, GetRecord, local
  <2>2. /\ Path(m) \in DOMAIN remote.archives /\ task[m].pc \in Sending
        /\ archives' = [archives EXCEPT ![m] = With(archives[m], Entry(m).name, remote.archives[Path(m)])]
    BY <1>2, <2>1 DEF GetArchive, At, Sending
  <2>3. o = m /\ archives'[m] = With(archives[m], Entry(m).name, remote.archives[Path(m)])
    BY <1>2, <2>2 DEF Typed
  <2>4. \/ n = Entry(m).name /\ s = remote.archives[Path(m)]
        \/ Holds(archives[m], n, s)
    BY <2>3, WithHolds
  <2>5. HeldArchive(Path(m), remote.archives[Path(m)])
    BY <2>2 DEF HeldArchive, Holds
  <2> QED
    BY <1>0, <2>2, <2>4, <2>5, PathAlike DEF HeldArchive
<1> QED
  BY <1>1, <1>2

\* A machine's records after a step of a task were there, or in the remote.
LEMMA TaskRecords ==
  ASSUME Typed, Shaped, Direct, NEW m \in Machines, Task(m), NEW o \in Machines,
         NEW n \in Names, NEW p \in Paths, Holds(records'[o], n, p)
  PROVE  \E k \in Names : Alike(n, k, merged) /\ HeldRecord(k, p)
<1>0. Alike(n, n, merged)
  BY DEF Alike
<1>1. CASE records'[o] = records[o]
  BY <1>0, <1>1 DEF HeldRecord
<1>2. CASE records'[o] # records[o]
  <2>1. GetRecord(m)
    BY <1>2 DEF Task, Upload, Snapshot, Download, PutArchive, PutState, PutRecord, MarkUploaded, PutFolder,
       PutMetadata, MarkFolder, Load, PutHistory, PutManifest, LoadManifest, Import, Plan,
       NextDownload, GetArchive, GetState, local
  <2>2. /\ Path(m) \in DOMAIN remote.records /\ task[m].pc \in Sending
        /\ records' = [records EXCEPT ![m] = With(records[m], Entry(m).name, remote.records[Path(m)])]
    BY <1>2, <2>1 DEF GetRecord, At, Sending
  <2>3. o = m /\ records'[m] = With(records[m], Entry(m).name, remote.records[Path(m)])
    BY <1>2, <2>2 DEF Typed
  <2>4. \/ n = Entry(m).name /\ p = remote.records[Path(m)]
        \/ Holds(records[m], n, p)
    BY <2>3, WithHolds
  <2>5. HeldRecord(Path(m), remote.records[Path(m)])
    BY <2>2 DEF HeldRecord, Holds
  <2> QED
    BY <1>0, <2>2, <2>4, <2>5, PathAlike DEF HeldRecord
<1> QED
  BY <1>1, <1>2

\* A task only copies.
LEMMA TaskCopies ==
  ASSUME Typed, Shaped, Direct, NEW m \in Machines, Task(m)
  PROVE  Copied
<1>1. ASSUME NEW n \in Names, NEW s \in Spans, HeldArchive(n, s)'
      PROVE  \E k \in Names : Alike(n, k, merged) /\ HeldArchive(k, s)
  <2>1. Holds(remote'.archives, n, s) \/ \E o \in Machines : Holds(archives'[o], n, s)
    BY <1>1 DEF HeldArchive, Holds
  <2> QED
    BY <2>1, TaskRemoteArchives, TaskArchives
<1>2. ASSUME NEW n \in Names, NEW p \in Paths, HeldRecord(n, p)'
      PROVE  \E k \in Names : Alike(n, k, merged) /\ HeldRecord(k, p)
  <2>1. Holds(remote'.records, n, p) \/ \E o \in Machines : Holds(records'[o], n, p)
    BY <1>2 DEF HeldRecord, Holds
  <2> QED
    BY <2>1, TaskRemoteRecords, TaskRecords
<1> QED
  BY <1>1, <1>2 DEF Copied

\* How a step may change what is held: copies, and merged archives and records.
Spreads ==
    /\ nextId <= nextId' /\ merged \subseteq merged'
    /\ \A n \in Names : \A s \in Spans : HeldArchive(n, s)' =>
          HeldArchive(n, s) \/ (n.id \in merged' /\ n.id < nextId)
    /\ \A n \in Names : \A p \in Paths : HeldRecord(n, p)' =>
          \/ \E q \in Paths : q.id = p.id /\ HeldRecord(n, q)
          \/ n.id \in merged' /\ RecordFits(n, p)

\* Names have numbers.
LEMMA PathNumbers ==
  /\ \A p \in Paths : p.id \in Nat
  /\ NoName.id = 0 /\ NoName \notin Names
<1>1. NoName.id = 0 /\ 0 \notin Ids
  BY DEF NoName, Ids
<1>2. NoName \notin Names
  BY <1>1, NamesAre
<1>3. \A p \in Paths : p \in Names \/ p = NoName
  BY DEF Paths
<1> QED
  BY <1>1, <1>2, <1>3, NamesAre

\* What is held goes on fitting.
LEMMA SpreadSpanned ==
  ASSUME Typed, Typed', Spanned, Spreads
  PROVE  Spanned'
<1>0. nextId \in Nat /\ nextId' \in Nat /\ nextId <= nextId' /\ merged \subseteq merged'
  BY DEF Typed, Spreads
<1>1. ASSUME NEW n \in Names, NEW s \in Spans, HeldArchive(n, s)'
      PROVE  ArchiveFits(n, s)'
  <2>1. HeldArchive(n, s) \/ (n.id \in merged' /\ n.id < nextId)
    BY <1>1 DEF Spreads
  <2>2. HeldArchive(n, s) => ArchiveFits(n, s)
    BY DEF Spanned
  <2> QED
    BY <1>0, <2>1, <2>2, NamesAre DEF ArchiveFits
<1>2. ASSUME NEW n \in Names, NEW p \in Paths, HeldRecord(n, p)'
      PROVE  RecordFits(n, p)'
  <2>1. \/ \E q \in Paths : q.id = p.id /\ HeldRecord(n, q)
        \/ n.id \in merged' /\ RecordFits(n, p)
    BY <1>2 DEF Spreads
  <2>2. RecordFits(n, p)
    BY <2>1 DEF Spanned, RecordFits
  <2> QED
    BY <1>0, <2>2, NamesAre DEF RecordFits
<1>3. ASSUME NEW n \in Names, NEW s \in Spans, NEW p \in Paths, HeldArchive(n, s)', HeldRecord(n, p)',
             n.id \notin merged'
      PROVE  s.from = p.id
  <2>1. HeldArchive(n, s) /\ n.id \notin merged
    BY <1>0, <1>3 DEF Spreads
  <2>2. PICK q \in Paths : q.id = p.id /\ HeldRecord(n, q)
    BY <1>3 DEF Spreads
  <2> QED
    BY <2>1, <2>2 DEF Spanned
<1> QED
  BY <1>1, <1>2, <1>3 DEF Spanned

\* Copies spread what fits.
LEMMA CopiedSpreads ==
  ASSUME Typed, Spanned, Copied, UNCHANGED <<nextId, merged>>
  PROVE  Spreads
<1>0. nextId \in Nat
  BY DEF Typed
<1>1. ASSUME NEW n \in Names, NEW s \in Spans, HeldArchive(n, s)'
      PROVE  HeldArchive(n, s) \/ (n.id \in merged' /\ n.id < nextId)
  <2>1. PICK k \in Names : Alike(n, k, merged) /\ HeldArchive(k, s)
    BY <1>1 DEF Copied
  <2> QED
    BY <2>1 DEF Alike, Spanned, ArchiveFits
<1>2. ASSUME NEW n \in Names, NEW p \in Paths, HeldRecord(n, p)'
      PROVE  \/ \E q \in Paths : q.id = p.id /\ HeldRecord(n, q)
             \/ n.id \in merged' /\ RecordFits(n, p)
  <2>1. PICK k \in Names : Alike(n, k, merged) /\ HeldRecord(k, p)
    BY <1>2 DEF Copied
  <2> QED
    BY <2>1 DEF Alike, Spanned, RecordFits
<1> QED
  BY <1>0, <1>1, <1>2 DEF Spreads

\* A merge leaves an archive and a record under the number of the younger one, which it marks.
LEMMA MergeSpreads ==
  ASSUME Typed, Spanned, NEW m \in Machines, Merge(m)
  PROVE  Spreads
<1>0. nextId \in Nat /\ UNCHANGED <<remote, nextId>>
  BY MergeJoins DEF Typed
<1>1. PICK t, s \in history[m] : Joins(m, t, s)
  BY MergeJoins
<1> DEFINE target == t.name
           next == s.name
           final == [id |-> next.id, kind |-> target.kind]
           span == [from |-> archives[m][target].from, to |-> archives[m][next].to]
           rest == Without(archives[m], {target, next})
           others == [n \in DOMAIN records[m] \ {target, next} |-> Renamed(records[m][n], next, final)]
<1>2. target \in Names /\ next \in Names
  BY <1>1, FieldTypes, EntryHas
<1>3. final \in Names /\ final.id = next.id
  BY <1>2, NamesAre
<1>4. /\ archives' = [archives EXCEPT ![m] = With(rest, final, span)]
      /\ records' = [records EXCEPT ![m] = With(others, final, records[m][target])]
      /\ target \in DOMAIN records[m] /\ next \in DOMAIN archives[m] /\ target.id < next.id
      /\ merged' = merged \cup {target.id, next.id}
  BY <1>1 DEF Joins
<1>5. next.id < nextId
  <2>1. archives[m][next] \in Spans /\ HeldArchive(next, archives[m][next])
    BY <1>4, FieldTypes, MapIs DEF HeldArchive, Holds
  <2> QED
    BY <1>2, <2>1 DEF Spanned, ArchiveFits
<1>6. records[m][target] \in Paths /\ records[m][target].id < target.id
  <2>1. records[m][target] \in Paths /\ HeldRecord(target, records[m][target])
    BY <1>4, FieldTypes, MapIs DEF HeldRecord, Holds
  <2> QED
    BY <1>2, <2>1 DEF Spanned, RecordFits
<1> HIDE DEF target, next, final, span
<1>7. ASSUME NEW n \in Names, NEW v \in Spans, HeldArchive(n, v)'
      PROVE  HeldArchive(n, v) \/ (n.id \in merged' /\ n.id < nextId)
  <2>1. CASE Holds(remote'.archives, n, v)
    BY <1>0, <2>1 DEF HeldArchive
  <2>2. CASE \E o \in Machines : Holds(archives'[o], n, v)
    <3>1. PICK o \in Machines : Holds(archives'[o], n, v)
      BY <2>2
    <3>2. CASE o # m
      BY <1>4, <3>1, <3>2 DEF HeldArchive, Typed
    <3>3. CASE o = m
      <4>1. Holds(With(rest, final, span), n, v)
        BY <1>4, <3>1, <3>3 DEF Typed
      <4>2. n = final \/ Holds(archives[m], n, v)
        BY <4>1, WithHolds, WithoutHolds
      <4> QED
        BY <1>3, <1>4, <1>5, <4>2 DEF HeldArchive
    <3> QED
      BY <3>2, <3>3
  <2> QED
    BY <1>7, <2>1, <2>2 DEF HeldArchive, Holds
<1>8. ASSUME NEW n \in Names, NEW p \in Paths, HeldRecord(n, p)'
      PROVE  \/ \E q \in Paths : q.id = p.id /\ HeldRecord(n, q)
             \/ n.id \in merged' /\ RecordFits(n, p)
  <2>1. CASE Holds(remote'.records, n, p)
    BY <1>0, <2>1 DEF HeldRecord
  <2>2. CASE \E o \in Machines : Holds(records'[o], n, p)
    <3>1. PICK o \in Machines : Holds(records'[o], n, p)
      BY <2>2
    <3>2. CASE o # m
      BY <1>4, <3>1, <3>2 DEF HeldRecord, Typed
    <3>3. CASE o = m
      <4>1. Holds(With(others, final, records[m][target]), n, p)
        BY <1>4, <3>1, <3>3 DEF Typed
      <4>2. (n = final /\ p = records[m][target]) \/ Holds(others, n, p)
        BY <4>1, WithHolds
      <4>3. CASE n = final /\ p = records[m][target]
        <5>1. p.id < n.id /\ n.id < nextId /\ n.id \in merged'
          BY <1>2, <1>3, <1>4, <1>5, <1>6, <4>3, NamesAre, PathNumbers
        <5> QED
          BY <5>1 DEF RecordFits
      <4>4. CASE Holds(others, n, p)
        <5>1. n \in DOMAIN records[m] /\ p = Renamed(records[m][n], next, final)
          BY <4>4 DEF Holds
        <5>2. records[m][n] \in Paths /\ records[m][n].id = p.id
          BY <1>3, <5>1, FieldTypes, MapIs DEF Renamed
        <5> QED
          BY <5>1, <5>2 DEF HeldRecord, Holds
      <4> QED
        BY <4>2, <4>3, <4>4
    <3> QED
      BY <3>2, <3>3
  <2> QED
    BY <1>8, <2>1, <2>2 DEF HeldRecord, Holds
<1> QED
  BY <1>0, <1>4, <1>7, <1>8 DEF Spreads

\* Losing a local archive leaves less to fit.
LEMMA DropSpreads ==
  ASSUME Typed, Spanned, NEW m \in Machines, NEW n \in Names, DropLocal(m, n)
  PROVE  Spreads
<1>0. nextId \in Nat /\ UNCHANGED <<remote, nextId, merged>>
  BY DEF Typed, DropLocal
<1>1. /\ archives' = [archives EXCEPT ![m] = Without(archives[m], {n})]
      /\ records' = [records EXCEPT ![m] = Without(records[m], {n})]
  BY DEF DropLocal
<1>2. \A o \in Machines : \A k, v :
         /\ Holds(archives'[o], k, v) => Holds(archives[o], k, v)
         /\ Holds(records'[o], k, v) => Holds(records[o], k, v)
  BY <1>1, WithoutHolds DEF Typed
<1>3. \A k \in Names : (\A v \in Spans : HeldArchive(k, v)' => HeldArchive(k, v))
                       /\ (\A p \in Paths : HeldRecord(k, p)' => HeldRecord(k, p))
  BY <1>0, <1>2 DEF HeldArchive, HeldRecord, Holds
<1> QED
  BY <1>0, <1>3 DEF Spreads

\* A backup has a number of its own, and its record names the backup its archive builds on.
LEMMA BackupSpanned ==
  ASSUME Typed, Spanned, NEW m \in Machines, NEW mode \in Kinds, Backup(m, mode)
  PROVE  Spanned'
<1> DEFINE smart == mode = "Smart" /\ ChainUsable(m)
           name == [id |-> nextId, kind |-> IF smart THEN "Smart" ELSE "Full"]
           from == IF smart THEN state[m].last.id ELSE 0
           span == [from |-> from, to |-> nextId]
           previous == IF smart THEN Previous(m) ELSE NoName
<1>0. nextId \in Ids /\ nextId \in Nat \ {0} /\ nextId' = nextId + 1 /\ UNCHANGED <<remote, merged>>
  BY DEF Backup, Typed, Ids
<1>1. /\ archives' = [archives EXCEPT ![m] = With(archives[m], name, span)]
      /\ records' = [records EXCEPT ![m] = With(records[m], name, previous)]
  BY DEF Backup
<1>2. name.id = nextId /\ (name.kind = "Full" => from = 0) /\ from = previous.id
      /\ span.from = from /\ span.to = nextId
  BY PathNumbers DEF Previous
<1>3. previous.id < nextId
  <2>1. CASE smart
    <3>1. state[m].last \in DOMAIN archives[m]
      BY <2>1 DEF ChainUsable
    <3>2. state[m].last \in Names /\ archives[m][state[m].last] \in Spans
      BY <3>1, FieldTypes, MapIs
    <3>3. HeldArchive(state[m].last, archives[m][state[m].last])
      BY <3>1 DEF HeldArchive, Holds
    <3> QED
      BY <2>1, <3>2, <3>3 DEF Spanned, ArchiveFits, Previous
  <2>2. CASE ~smart
    BY <1>0, <2>2, PathNumbers
  <2> QED
    BY <2>1, <2>2
<1> HIDE DEF name, from, span, previous
<1>4. ASSUME NEW n \in Names, NEW s \in Spans, HeldArchive(n, s)'
      PROVE  (n = name /\ s = span) \/ HeldArchive(n, s)
  <2>1. CASE Holds(remote'.archives, n, s)
    BY <1>0, <2>1 DEF HeldArchive
  <2>2. CASE \E o \in Machines : Holds(archives'[o], n, s)
    <3>1. PICK o \in Machines : Holds(archives'[o], n, s)
      BY <2>2
    <3>2. o # m => archives'[o] = archives[o]
      BY <1>1 DEF Typed
    <3>3. o = m => archives'[o] = With(archives[m], name, span)
      BY <1>1 DEF Typed
    <3> QED
      BY <3>1, <3>2, <3>3, WithHolds DEF HeldArchive
  <2> QED
    BY <1>4, <2>1, <2>2 DEF HeldArchive, Holds
<1>5. ASSUME NEW n \in Names, NEW p \in Paths, HeldRecord(n, p)'
      PROVE  (n = name /\ p = previous) \/ HeldRecord(n, p)
  <2>1. CASE Holds(remote'.records, n, p)
    BY <1>0, <2>1 DEF HeldRecord
  <2>2. CASE \E o \in Machines : Holds(records'[o], n, p)
    <3>1. PICK o \in Machines : Holds(records'[o], n, p)
      BY <2>2
    <3>2. o # m => records'[o] = records[o]
      BY <1>1 DEF Typed
    <3>3. o = m => records'[o] = With(records[m], name, previous)
      BY <1>1 DEF Typed
    <3> QED
      BY <3>1, <3>2, <3>3, WithHolds DEF HeldRecord
  <2> QED
    BY <1>5, <2>1, <2>2 DEF HeldRecord, Holds
<1>6. \A n \in Names : \A s \in Spans : HeldArchive(n, s) => ArchiveFits(n, s) /\ n # name
  BY <1>0, <1>2 DEF Spanned, ArchiveFits
<1>7. \A n \in Names : \A p \in Paths : HeldRecord(n, p) => RecordFits(n, p) /\ n # name
  BY <1>0, <1>2 DEF Spanned, RecordFits
<1>8. ASSUME NEW n \in Names, NEW s \in Spans, HeldArchive(n, s)'
      PROVE  ArchiveFits(n, s)'
  BY <1>0, <1>2, <1>4, <1>6, <1>8, NamesAre DEF ArchiveFits
<1>9. ASSUME NEW n \in Names, NEW p \in Paths, HeldRecord(n, p)'
      PROVE  RecordFits(n, p)'
  BY <1>0, <1>2, <1>3, <1>5, <1>7, <1>9, NamesAre, PathNumbers DEF RecordFits
<1>10. ASSUME NEW n \in Names, NEW s \in Spans, NEW p \in Paths, HeldArchive(n, s)', HeldRecord(n, p)',
              n.id \notin merged'
       PROVE  s.from = p.id
  <2>1. CASE n = name
    BY <1>2, <1>4, <1>5, <1>6, <1>7, <1>10, <2>1
  <2>2. CASE n # name
    BY <1>0, <1>4, <1>5, <1>10, <2>2 DEF Spanned
  <2> QED
    BY <2>1, <2>2
<1> QED
  BY <1>8, <1>9, <1>10 DEF Spanned

\* Every step keeps everything straight and fitting.
LEMMA NextSpanned ==
  Typed /\ Shaped /\ OtherTyped /\ Direct /\ OtherDirect /\ Spanned /\ [Next]_vars =>
    Direct' /\ OtherDirect' /\ Spanned'
<1> SUFFICES ASSUME Typed, Shaped, OtherTyped, Direct, OtherDirect, Spanned, [Next]_vars
             PROVE  Direct' /\ OtherDirect' /\ Spanned'
  OBVIOUS
<1>0. Typed'
  BY NextTyped
<1>1. CASE UNCHANGED vars
  BY <1>1 DEF Direct, OtherDirect, Spanned, HeldArchive, HeldRecord, ArchiveFits, RecordFits, vars, local, bounds
<1>2. ASSUME NEW m \in Machines, Task(m) PROVE Direct' /\ Spanned'
  <2>1. Spreads
    BY <1>2, TaskCopies, TaskBounds, TaskMerged, CopiedSpreads
  <2> QED
    BY <1>0, <1>2, <2>1, TaskDirect, SpreadSpanned
<1>3. ASSUME NEW m \in Machines, User(m) PROVE Spanned'
  <2>1. CASE Merge(m) \/ \E n \in Names : DropLocal(m, n)
    BY <1>0, <2>1, MergeSpreads, DropSpreads, SpreadSpanned
  <2>2. CASE \E mode \in Kinds : Backup(m, mode)
    BY <2>2, BackupSpanned
  <2>3. CASE \/ StartUpload(m) \/ StartFolder(m) \/ StartSnapshot(m)
             \/ StartSync(m) \/ StartEnsure(m) \/ StartDownload(m)
    <3>1. UNCHANGED <<archives, records, remote, nextId, merged>>
      BY <2>3 DEF StartUpload, StartFolder, StartSnapshot, StartSync, StartEnsure, StartDownload, Start, local
    <3> QED
      BY <3>1 DEF Spanned, HeldArchive, HeldRecord, ArchiveFits, RecordFits
  <2> QED
    BY <1>3, <2>1, <2>2, <2>3 DEF User
<1>4. ASSUME NEW m \in Machines, Task(m) \/ User(m) PROVE OtherDirect'
  <2>1. other' = other /\ merged \subseteq merged'
    BY <1>4, TaskMerged, UserMerged DEF Task, User
  <2> DEFINE M == merged
             N == merged'
  <2>2. (other # NoFile => Straight(other.own, M)) /\ M \subseteq N
    BY <2>1 DEF OtherDirect
  <2> HIDE DEF M, N
  <2>3. other # NoFile => Straight(other.own, N)
    BY <2>2, StraightGrows
  <2> QED
    BY <2>1, <2>3 DEF OtherDirect, N
<1>5. CASE OtherLoads \/ OtherPuts
  <2>1. UNCHANGED <<history, archives, records, task, nextId, merged>>
    BY <1>5, OtherRemote DEF local
  <2>2. remote'.archives = remote.archives /\ remote'.records = remote.records
    BY <1>5, OtherRemote
  <2>3. Straight({}, merged)
    BY DEF Straight
  <2>4. OtherDirect' /\ Direct'
    BY <1>5, <2>1, <2>3, OtherRemote DEF OtherDirect, Direct
  <2>5. Spanned'
    BY <2>1, <2>2 DEF Spanned, HeldArchive, HeldRecord, ArchiveFits, RecordFits
  <2> QED
    BY <2>4, <2>5
<1> QED
  BY <1>1, <1>2, <1>3, <1>4, <1>5, UserDirect DEF Next

\* At first nothing is held.
LEMMA InitSpanned == Init => Direct /\ OtherDirect /\ Spanned
<1> SUFFICES ASSUME Init PROVE Direct /\ OtherDirect /\ Spanned
  OBVIOUS
<1>0. OtherDirect
  BY DEF Init, OtherDirect
<1>1. /\ \A m \in Machines : /\ task[m] = NoTask /\ history[m] = {}
                             /\ archives[m] = Nothing /\ records[m] = Nothing
      /\ remote.archives = Nothing /\ remote.records = Nothing
      /\ remote.history # NoFile => remote.history.own = {}
  BY DEF Init
<1>2. /\ NoTask.mine = {} /\ NoTask.todo = {} /\ NoTask.loaded = NoFile
      /\ NoTask.entry.cloud = NoName
  BY DEF NoTask
<1>3. Direct
  BY <1>1, <1>2 DEF Direct, Straight
<1>4. \A n, v : ~Holds(Nothing, n, v)
  BY DEF Holds, Nothing
<1>5. Spanned
  BY <1>1, <1>4 DEF Spanned, HeldArchive, HeldRecord
<1> QED
  BY <1>0, <1>3, <1>5

-----------------------------------------------------------------------------
(* The links of a restore.                                                 *)

\* The archive whose state the one of x was compared with.
HasPrevious(m, x) == x \in DOMAIN records[m] /\ records[m][x] # NoName
IsBack(m, f) ==
    f = [x \in Names |-> {x} \cup (IF HasPrevious(m, x) THEN f[records[m][x]] ELSE {})]

\* Names with the ones they build on.
Closed(m, S) == \A x \in S : HasPrevious(m, x) => records[m][x] \in S

\* The names that every closed set with x has are what the records lead to from x.
LEMMA BackExists ==
  ASSUME Typed, NEW m \in Machines
  PROVE  \E f : IsBack(m, f)
<1> DEFINE reach(x) == {y \in Names : \A S \in SUBSET Names : x \in S /\ Closed(m, S) => y \in S}
           rest(x) == IF HasPrevious(m, x) THEN reach(records[m][x]) ELSE {}
           f == [x \in Names |-> reach(x)]
<1>1. \A x \in DOMAIN records[m] : HasPrevious(m, x) => records[m][x] \in Names
  BY FieldTypes, MapIs DEF HasPrevious, Paths
<1>2. ASSUME NEW x \in Names
      PROVE  reach(x) = {x} \cup rest(x)
  <2>1. x \in reach(x)
    OBVIOUS
  <2>2. HasPrevious(m, x) => reach(records[m][x]) \subseteq reach(x)
    BY DEF Closed
  <2>3. {x} \cup rest(x) \in SUBSET Names
    OBVIOUS
  <2>4. Closed(m, {x} \cup rest(x))
    <3> SUFFICES ASSUME NEW z \in {x} \cup rest(x), HasPrevious(m, z)
                 PROVE  records[m][z] \in rest(x)
      BY DEF Closed
    <3>1. records[m][z] \in Names
      BY <1>1 DEF HasPrevious
    <3>2. CASE z = x
      BY <3>1, <3>2
    <3>3. CASE z \in rest(x)
      <4>1. HasPrevious(m, x) /\ z \in reach(records[m][x])
        BY <3>3
      <4>2. records[m][z] \in reach(records[m][x])
        BY <3>1, <4>1 DEF Closed
      <4> QED
        BY <4>1, <4>2
    <3> QED
      BY <3>2, <3>3
  <2>5. reach(x) \subseteq {x} \cup rest(x)
    BY <2>3, <2>4
  <2> QED
    BY <2>1, <2>2, <2>5
<1>3. \A x \in Names : rest(x) = IF HasPrevious(m, x) THEN f[records[m][x]] ELSE {}
  BY <1>1 DEF HasPrevious
<1>4. f = [x \in Names |-> {x} \cup (IF HasPrevious(m, x) THEN f[records[m][x]] ELSE {})]
  BY <1>2, <1>3
<1> HIDE DEF f
<1> QED
  BY <1>4 DEF IsBack

\* A set of numbers that has a member has a least one.
LEMMA LeastNumber ==
  ASSUME NEW S \in SUBSET Nat, S # {}
  PROVE  \E m \in S : \A k \in S : m <= k
<1>1. \E m \in S : \A k \in S : <<k, m>> \notin OpToRel(<, Nat)
  BY WFMin, NatLessThanWellFounded
<1>2. \A k, m \in Nat : <<k, m>> \notin OpToRel(<, Nat) => m <= k
  BY DEF OpToRel
<1> QED
  BY <1>1, <1>2

\* What the records lead to is closed, because they lead to older backups: there would be an
\* oldest one for which it is not.
LEMMA BackClosed ==
  ASSUME Typed, Spanned, NEW m \in Machines, NEW f, IsBack(m, f), NEW n \in Names
  PROVE  n \in f[n] /\ Closed(m, f[n])
<1> DEFINE next(x) == records[m][x]
           S == {i \in Nat : \E x \in Names : x.id = i /\ ~Closed(m, f[x])}
<1>1. \A x \in Names : f[x] = {x} \cup (IF HasPrevious(m, x) THEN f[next(x)] ELSE {})
  BY DEF IsBack
<1>2. ASSUME NEW x \in Names, HasPrevious(m, x)
      PROVE  next(x) \in Names /\ next(x).id \in Nat /\ next(x).id < x.id
  <2>1. next(x) \in Paths /\ next(x) \in Names
    BY <1>2, FieldTypes, MapIs DEF HasPrevious, Paths
  <2>2. HeldRecord(x, next(x))
    BY <1>2 DEF HasPrevious, HeldRecord, Holds
  <2> QED
    BY <2>1, <2>2, PathNumbers DEF Spanned, RecordFits
<1>3. S = {}
  <2> SUFFICES ASSUME S # {} PROVE FALSE
    OBVIOUS
  <2>1. PICK i \in S : \A k \in S : i <= k
    BY LeastNumber
  <2>2. PICK x \in Names : x.id = i /\ ~Closed(m, f[x])
    BY <2>1
  <2>3. CASE ~HasPrevious(m, x)
    <3>1. f[x] = {x}
      BY <1>1, <2>3
    <3> QED
      BY <2>2, <2>3, <3>1 DEF Closed
  <2>4. CASE HasPrevious(m, x)
    <3>1. next(x) \in Names /\ next(x).id \in Nat /\ next(x).id < i
      BY <1>2, <2>2, <2>4
    <3>2. Closed(m, f[next(x)])
      BY <2>1, <3>1
    <3>3. f[x] = {x} \cup f[next(x)] /\ next(x) \in f[next(x)]
      BY <1>1, <2>4, <3>1
    <3> QED
      BY <2>2, <3>2, <3>3 DEF Closed
  <2> QED
    BY <2>3, <2>4
<1>4. Closed(m, f[n])
  BY <1>3, NamesAre
<1> QED
  BY <1>1, <1>4

\* The links of an archive have it, and of each Smart one the one it builds on.
LEMMA LinksClosed ==
  ASSUME Typed, Spanned, NEW m \in Machines, NEW n \in Names, n.kind # "Full"
  PROVE  n \in Links(m, n) /\ Closed(m, Links(m, n))
<1> DEFINE f == CHOOSE g : IsBack(m, g)
<1>1. Links(m, n) = f[n]
  BY DEF Links, IsBack, HasPrevious
<1>2. IsBack(m, f)
  BY BackExists
<1> HIDE DEF f
<1> QED
  BY <1>1, <1>2, BackClosed

\* An archive, where it is held, covers what its record and its name say.
LEMMA LocalFits ==
  ASSUME Typed, Spanned, NEW m \in Machines, NEW x \in DOMAIN archives[m], x.id \notin merged
  PROVE  /\ x \in Names /\ archives[m][x].to = x.id
         /\ x.kind = "Full" => archives[m][x].from = 0
         /\ x \in DOMAIN records[m] => archives[m][x].from = records[m][x].id
<1>1. x \in Names /\ archives[m][x] \in Spans
  BY FieldTypes, MapIs
<1>2. HeldArchive(x, archives[m][x])
  BY DEF HeldArchive, Holds
<1>3. x \in DOMAIN records[m] => records[m][x] \in Paths /\ HeldRecord(x, records[m][x])
  BY FieldTypes, MapIs DEF HeldRecord, Holds
<1> QED
  BY <1>1, <1>2, <1>3 DEF Spanned, ArchiveFits

\* On every machine and whatever was downloaded over the local archives and metadata, a restore
\* that is accepted gives the world as it was backed up, if no link was merged: for any number of
\* machines, backups, losses and failing commands, and chains of any length.
THEOREM DownloadsAreSound == Spec => []RestoreSound
<1>1. Typed /\ Spanned => RestoreSound
  <2> SUFFICES ASSUME Typed, Spanned, NEW m \in Machines, NEW n \in DOMAIN archives[m],
                      Accepted(m, n), \A x \in Links(m, n) : x.id \notin merged
               PROVE  Contiguous(m, n)
    BY DEF RestoreSound
  <2>1. n \in Names
    BY FieldTypes, MapIs
  <2>2. CASE n.kind = "Full"
    <3>1. Links(m, n) = {n}
      BY <2>2 DEF Links
    <3>2. archives[m][n].to = n.id /\ archives[m][n].from = 0
      BY <2>2, <3>1, LocalFits
    <3> QED
      BY <2>2, <3>1, <3>2 DEF Contiguous
  <2>3. CASE n.kind # "Full"
    <3>1. n \in Links(m, n) /\ Closed(m, Links(m, n))
      BY <2>1, <2>3, LinksClosed
    <3>2. Links(m, n) \subseteq DOMAIN archives[m] /\ Links(m, n) \subseteq DOMAIN records[m]
      BY <2>1, <2>3, NamesAre DEF Accepted, Kinds
    <3>3. archives[m][n].to = n.id
      BY <3>1, LocalFits
    <3>4. ASSUME NEW x \in Links(m, n)
          PROVE  archives[m][x].from = IF records[m][x] = NoName THEN 0 ELSE archives[m][records[m][x]].to
      <4>1. archives[m][x].from = records[m][x].id
        BY <3>2, LocalFits
      <4>2. CASE records[m][x] = NoName
        BY <4>1, <4>2, PathNumbers
      <4>3. CASE records[m][x] # NoName
        <5>1. records[m][x] \in Links(m, n)
          BY <3>1, <3>2, <4>3 DEF Closed, HasPrevious
        <5>2. archives[m][records[m][x]].to = records[m][x].id
          BY <3>2, <5>1, LocalFits
        <5> QED
          BY <4>1, <4>3, <5>2
      <4> QED
        BY <4>2, <4>3
    <3> QED
      BY <2>3, <3>3, <3>4 DEF Contiguous
  <2> QED
    BY <2>2, <2>3
<1> QED
  BY <1>1, InitTyped, InitSpanned, NextTyped, NextSpanned, PTL DEF Spec

=============================================================================
