SPECIFICATION Spec
CONSTANTS
  PoolSize = 5
  MaxLevel = 2
  RoundsUp = {}
  RoundsDown = {}
  RandomAgents = {r1, r2}
  MarketMakers = {}
  MomentumTraders = {}
  LimitPrices = {1}
  Lot = 1
  BaseCents = 1
  InitialCash = 10
  InitialUnits = 5
  QueueCap = 3
  InboxCap = 2
  MaxOrders = 3
  NoTaker = NoTaker
CHECK_DEADLOCK FALSE
INVARIANT ActiveOrdersTracked
