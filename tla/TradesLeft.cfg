SPECIFICATION Spec
CONSTANTS
  NAgents = 1
  OrderCap = 2
  TradeCap = 2
  MaxOrders = 2
CHECK_DEADLOCK FALSE
INVARIANT InboxesEmptied
