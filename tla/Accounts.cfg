SPECIFICATION Spec
CONSTANTS
  PoolSize = 5
  MaxLevel = 3
  RoundsUp = {1}
  RoundsDown = {}
  RandomAgents = {r1, r2}
  MarketMakers = {m}
  MomentumTraders = {t}
  LimitPrices = {1, 2}
  Lot = 2
  BaseCents = 2
  InitialCash = 11
  InitialUnits = 3
  QueueCap = 2
  InboxCap = 1
  MaxOrders = 4
  NoTaker = NoTaker
SYMMETRY RandomSymmetry
VIEW Unreported
CHECK_DEADLOCK FALSE
INVARIANTS
  TypeOK
  FreeListSound
  ReservedCovers
  DebtIsBounded
PROPERTY ImplementsLedger
