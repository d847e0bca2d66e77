SPECIFICATION SpecThreads
CONSTANTS
  Keys = {1, 3}
  Cells = {c1, c2}
  NULL = null
  MAX_CLIENTS = 2
  EPOLL_MAX_EVENTS = 2
CHECK_DEADLOCK FALSE
PROPERTY WalksEnd
 
