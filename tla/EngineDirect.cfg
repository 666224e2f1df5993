SPECIFICATION DirectSpec
CONSTANTS
  MaxLevel = 2
  RoundsUp = {}
  RoundsDown = {}
  Slots = {s1, s2, s3, s4}
  NoSlot = NoSlot
  Clients = {c1}
  LimitPrices = {1, 2, 3}
  Quantities = {1, 2}
  QueueCap = 1
  MaxOrders = 5
SYMMETRY SlotSymmetry
VIEW LiveState
CHECK_DEADLOCK FALSE
INVARIANTS
  NodesHaveOneHolder
  LevelsAreQueues
  BestIsExact
  NumberedOrders
  BookNotCrossed
  TradesWithinLimits
PROPERTY ImplementsPriceTime
