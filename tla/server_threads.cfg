SPECIFICATION SpecThreads
CONSTANTS
  Keys <- MCKeys
  Cells = {c1, c2, c3}
  NULL = null
  MAX_CLIENTS = 2
  EPOLL_MAX_EVENTS = 1
CHECK_DEADLOCK FALSE
SYMMETRY MCSymmetry
INVARIANT ThreadsTypeOK
INVARIANT HoldsLinkedCells
INVARIANT NoLostClient
INVARIANT StopsCleanly
PROPERTY EveryoneServicedOnce
PROPERTY ImplementsMap
