SPECIFICATION Spec
CONSTANTS
  p = p
  q = q
  none = none
  garbled = garbled
  Fds <- MCFds3
  server_socket = 3
  Peers <- MCPeers
  NoServer = none
  Garbled = garbled
  Rntis = {7}
  EPOLL_MAX_EVENTS = 10
  MaxBuffer = 1
  Closers = {}
  Overlap = FALSE
SYMMETRY MCSymmetry
INVARIANT ToldTheLink
CHECK_DEADLOCK FALSE
