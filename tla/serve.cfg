\* One BACKUP, one hot RESTORE, queries, a job of two parallel steps and one after them, and a
\* profile that is applied: any two of these, with status, cancel and stop requests.
\* The process may end.
CONSTANTS
  b1 = b1
  h1 = h1
  s1 = s1
  s2 = s2
  s3 = s3
  Backups = {b1}
  Hots = {h1}
  Steps = {s1, s2, s3}
  Stage <- MCStage
  MaxRequests = 2
SPECIFICATION FairSpec
INVARIANTS TypeOK ServicesStay JobSound EventsInOrder SelfJoinOnlyInRace
PROPERTIES CommandEnds ServeEnds
CHECK_DEADLOCK FALSE
