\* Four backups, one failing step, safe deletion.
CONSTANTS
  a = a
  b = b
  Files = {a, b}
  Permanent = {a}
  MaxBackups = 4
  MaxEdits = 3
  MaxFaults = 1
  MaxCrashes = 0
  MaxSetbacks = 0
  MaxMarked = 0
  Modes = {"Full", "Smart"}
  KeepCount = 2
  MaxSmart = 0
  SkipIfUnchanged = TRUE
  Deletions = {"Safe"}
SPECIFICATION Spec
INVARIANTS TypeOK RestoreSound StateDescribesLast
PROPERTY FailureUndone
