\* World tasks with one and with several keys, submitted by the main thread and by a task.
CONSTANTS
  auto = auto
  run = run
  all = all
  all2 = all2
  backup = backup
  upload = upload
  sync = sync
  Main = Main
  Tasks = {auto, run, all, all2}
  Keys = {1, 2, 3}
  KeysOf <- MCKeysOf
  Caller <- MCCaller
  NameOf <- MCNameOf
  Periodic = {auto}
SPECIFICATION FairSpec
INVARIANTS TypeOK Exclusion ShutdownComplete
PROPERTIES ShutdownEnds AcceptedRuns
