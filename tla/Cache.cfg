CONSTANTS
    Uid = {1}
    Delay = 1
    Period = 2
    MaxHandlers = 5
    MaxChanges = 1
    MaxFaults = 1
SPECIFICATION Spec
INVARIANTS
  TypeOK
  BoundedLoss
  PartsMatch
PROPERTIES
  ImplementsStore
CHECK_DEADLOCK FALSE
