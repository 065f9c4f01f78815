\* Two backups, three failing steps, one crash or power loss, one edit of the history.
CONSTANTS
  n1 = n1
  n2 = n2
  Missing = Missing
  Garbage = Garbage
  State = State
  History = History
  Names <- MCNames
  Paths <- MCPaths
  Values <- MCValues
  Callers = {"backup", "user"}
  MaxFaults = 3
  MaxBackups = 2
  MaxEdits = 1
  MaxCrashes = 1
SPECIFICATION Spec
INVARIANTS TypeOK OutcomeTrue NamedHasRecord
PROPERTY ImplementsStore
CHECK_DEADLOCK FALSE
