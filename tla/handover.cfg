SPECIFICATION Spec
CONSTANTS
  UEs = {u1, u2}
  Fds <- MCFds
  None = None
  Packets = 2
  MaxInfos = 2
  MaxStarts = 2
CHECK_DEADLOCK FALSE
INVARIANT TypeOK
INVARIANT NoGap
INVARIANT SessionKept
PROPERTY Delivered
