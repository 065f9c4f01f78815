\* One machine: upload, merge, deletion of the local archive, download.
\* The bounds end the system.
CONSTANTS
  m1 = m1
  m2 = m2
  foreign = foreign
  Machines = {m1}
  Others = {foreign}
  MaxBackups = 2
  MaxMerges = 1
  MaxDrops = 1
  MaxTasks = 2
  MaxFaults = 0
SPECIFICATION Spec
INVARIANT CloudCopyRestores
CHECK_DEADLOCK FALSE
