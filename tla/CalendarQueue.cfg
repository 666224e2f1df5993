SPECIFICATION Spec
CONSTANTS
  NAgents = 3
  Buckets = 4
  Resolution = 2
  MaxDelay = 7
  MaxTime = 6
CHECK_DEADLOCK FALSE
INVARIANTS
  TypeOK
  OneEventEach
  NothingOverdue
PROPERTY PopsEarliest
