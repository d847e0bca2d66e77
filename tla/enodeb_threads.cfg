SPECIFICATION Spec
CONSTANTS
  p = p
  q = q
  none = none
  garbled = garbled
  Fds <- MCFds2
  server_socket = 3
  Peers <- MCPeers
  NoServer = none
  Garbled = garbled
  Rntis = {7}
  EPOLL_MAX_EVENTS = 10
  MaxBuffer = 1
  Closers = {"services", "console"}
  Overlap = FALSE
SYMMETRY MCSymmetry
INVARIANT TypeOK
INVARIANT RegistryCount
 
 
 
INVARIANT OnlyX2SocketsLeak
INVARIANT ClientFound
CHECK_DEADLOCK FALSE
