\* Five backups, Smart with every third one forced Full beside Overwrite ones: merges in the
\* middle of a chain by retention and by safe deletion, no failures.
CONSTANTS
  a = a
  b = b
  Files = {a, b}
  Permanent = {a}
  MaxBackups = 5
  MaxEdits = 2
  MaxFaults = 0
  MaxCrashes = 0
  MaxSetbacks = 0
  MaxMarked = 0
  Modes = {"Smart", "Overwrite"}
  KeepCount = 3
  MaxSmart = 2
  SkipIfUnchanged = FALSE
  Deletions = {"Safe"}
SPECIFICATION Spec
INVARIANTS RestoreSound HistoryRestorable RecordsDescribeArchives

