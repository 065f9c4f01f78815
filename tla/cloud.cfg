\* Two machines, two backups, two cloud tasks, one failing command, one merge and one deletion.
\* The bounds end the system.
CONSTANTS
  m1 = m1
  m2 = m2
  foreign = foreign
  Machines = {m1, m2}
  Others = {foreign}
  MaxBackups = 2
  MaxMerges = 1
  MaxDrops = 1
  MaxTasks = 2
  MaxFaults = 1
SPECIFICATION FairSpec
INVARIANTS TypeOK ListedIsUploaded RestoreSound
PROPERTIES OthersKept CloudTaskEnds
CHECK_DEADLOCK FALSE
