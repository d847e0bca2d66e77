SPECIFICATION Spec
CONSTANTS
  Keys <- MCKeys
  Cells = {c1, c2, c3}
  NULL = null
  MAX_CLIENTS = 2
CHECK_DEADLOCK FALSE
PROPERTY RunsOnTableValues
