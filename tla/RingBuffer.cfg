SPECIFICATION Spec
CONSTANTS
  N = 4
  Items = {a, b}
  NoItem = NoItem
CHECK_DEADLOCK FALSE
INVARIANTS
  TypeOK
  NoDataRace
  StoppedIsEmpty
PROPERTIES
  ImplementsFifo
  Drains
