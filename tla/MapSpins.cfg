SPECIFICATION Spec
CONSTANTS
  Capacity = 2
  Keys = {0, 1}
  Values = {v1}
  NoValue = NoValue
PROPERTY CallsReturn
