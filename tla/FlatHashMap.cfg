SPECIFICATION Spec
CONSTANTS
  Capacity = 4
  Keys = {1, 3, 7, 11}
  Values = {v1, v2}
  NoValue = NoValue
INVARIANTS
  TypeOK
  KeysReachable
PROPERTIES
  ImplementsMap
  ProbesEnd
