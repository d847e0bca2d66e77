SPECIFICATION FairSpec
CONSTANTS
  p = p
  q = q
  none = none
  garbled = garbled
  Fds <- MCFds2
  server_socket = 3
  Peers <- MCPeers
  NoServer = none
  Garbled = garbled
  Rntis = {7, 8}
  EPOLL_MAX_EVENTS = 2
  MaxBuffer = 1
  Closers = {}
  Overlap = FALSE
INVARIANT BatchAccurate
INVARIANT ClientsKnowLink
PROPERTY LinkKept
PROPERTY HangupNoticed
CHECK_DEADLOCK FALSE
