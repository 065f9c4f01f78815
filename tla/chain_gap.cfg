\* The user deletes an archive and its entry out of a Smart chain; retention merges later.
\* Nothing may be left to do once the bounds are used up and the history is empty.
CONSTANTS
  a = a
  b = b
  Files = {a, b}
  Permanent = {a}
  MaxBackups = 5
  MaxEdits = 3
  MaxFaults = 0
  MaxCrashes = 0
  MaxSetbacks = 0
  MaxMarked = 0
  Modes = {"Smart"}
  KeepCount = 3
  MaxSmart = 0
  SkipIfUnchanged = TRUE
  Deletions = {"LocalArchiveAndHistory"}
SPECIFICATION Spec
INVARIANT RestoreSound
CHECK_DEADLOCK FALSE
