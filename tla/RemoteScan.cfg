SPECIFICATION FairSpec
CONSTANTS
  a = a
  b = b
  Pages = {a, b}
  IdOrder <- Order
  Window = 1
  Lag = 0
  Budget = 1
  MaxTime = 2
  MaxEvents = 2
  MaxFaults = 1
  Movable = {b}
INVARIANTS TypeOK WatermarkPromise
PROPERTIES DoomedOnlyIfOut DeletionsNoticed ReachableReceived
\* nothing has to happen once no pull is started any more
CHECK_DEADLOCK FALSE
