SPECIFICATION Spec
CONSTANTS
  NAgents = 2
  OrderCap = 2
  TradeCap = 2
  MaxOrders = 4
CHECK_DEADLOCK FALSE
INVARIANTS
  TypeOK
  EngineDrains
PROPERTY Terminates
