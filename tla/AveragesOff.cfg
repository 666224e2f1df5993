SPECIFICATION Spec
CONSTANTS
  ShortSize = 4
  LongSize = 8
  MidPrices = {1, 2}
  Threshold = 0
CHECK_DEADLOCK FALSE
INVARIANT SumsOfWindows
