SPECIFICATION Spec
CONSTANTS
  MaxLevel = 2
  RoundsUp = {1}
  RoundsDown = {}
  Slots = {s1, s2, s3}
  NoSlot = NoSlot
  Clients = {c1}
  LimitPrices = {0, 1}
  Quantities = {1, 2}
  QueueCap = 2
  MaxOrders = 3
CHECK_DEADLOCK FALSE
INVARIANTS
  TypeOK
  NodesHaveOneHolder
  LevelsAreQueues
  BestIsExact
  NumberedOrders
  BookNotCrossed
  TradesWithinLimits
PROPERTIES
  ImplementsPriceTime
  OrdersSettle
