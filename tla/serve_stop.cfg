\* A stop request during a backup.  The process may end.
CONSTANTS
  b1 = b1
  h1 = h1
  s1 = s1
  s2 = s2
  s3 = s3
  Backups = {b1}
  Hots = {h1}
  Steps = {s1, s2, s3}
  Stage <- MCStage
  MaxRequests = 1
SPECIFICATION Spec
INVARIANT FreezeReleased
CHECK_DEADLOCK FALSE
