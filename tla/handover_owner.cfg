SPECIFICATION Spec
CONSTANTS
  UEs = {u1, u2, u3}
  Fds <- MCFds
  None = None
  Packets = 2
  MaxInfos = 2
  MaxStarts = 1
CHECK_DEADLOCK FALSE
INVARIANT OwnSession
