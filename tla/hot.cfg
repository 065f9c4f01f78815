CONSTANTS
  o1 = o1
  o2 = o2
  c1 = c1
  c2 = c2
  w1 = w1
  w2 = w2
  None = None
  Demands <- MCDemands
  Ops <- MCOps
  Configs <- MCConfigs
  Worlds <- MCWorlds
  MaxOpens = 1
SPECIFICATION Spec
INVARIANTS TypeOK NotUnderTheGame OneWriter HotStateOwned
PROPERTY HotRestoreEnds
CHECK_DEADLOCK FALSE
