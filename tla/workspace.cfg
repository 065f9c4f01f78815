\* Three restores of a two-file world, two failing steps, one crash; the bounds end the run.
CONSTANTS
  level = level
  lock = lock
  NoTree = NoTree
  Entries = {level, lock}
  Preserved = {lock}
  MaxAttempts = 3
  MaxFaults = 2
  MaxCrashes = 1
SPECIFICATION FairSpec
INVARIANTS TypeOK Recoverable RollbackExact CommitExact
PROPERTY RestoreEnds
CHECK_DEADLOCK FALSE
