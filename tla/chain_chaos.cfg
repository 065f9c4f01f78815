\* Everything that can go wrong at once, on two backups; every operation ends.
\* Nothing may be left to do once the bounds are used up and the history is empty.
CONSTANTS
  a = a
  b = b
  Files = {a}
  Permanent = {}
  MaxBackups = 2
  MaxEdits = 1
  MaxFaults = 2
  MaxCrashes = 1
  MaxSetbacks = 1
  MaxMarked = 1
  Modes = {"Full", "Smart"}
  KeepCount = 1
  MaxSmart = 0
  SkipIfUnchanged = TRUE
  Deletions = {"HistoryOnly", "LocalArchiveOnly", "LocalArchiveAndHistory", "Safe"}
SPECIFICATION FairSpec
PROPERTIES ImportantKept OperationEnds
CHECK_DEADLOCK FALSE
