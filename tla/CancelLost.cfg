SPECIFICATION Spec
CONSTANTS
  MaxLevel = 2
  RoundsUp = {}
  RoundsDown = {}
  Slots = {s1, s2, s3}
  NoSlot = NoSlot
  Clients = {c1}
  LimitPrices = {1}
  Quantities = {1}
  QueueCap = 2
  MaxOrders = 3
CHECK_DEADLOCK FALSE
PROPERTY CancelHonoured
