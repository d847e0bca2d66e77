SPECIFICATION Spec
CONSTANTS
  empty = empty
  odd = odd
  None = None
  Clients = {a, b}
  Files <- MCFiles
  size <- MCSize
  Fds <- MCFds
  DOWNLOAD_PACKET_SIZE = 2
  Preempted = FALSE
CHECK_DEADLOCK FALSE
INVARIANT TypeOK
INVARIANT OwnDescriptor
INVARIANT OnlyDisconnectsLeak
PROPERTY ImplementsTransfer
PROPERTY Completes
