CONSTANTS
  s1 = s1
  s2 = s2
  c1 = c1
  c2 = c2
  Socks = {s1, s2}
  Ctxs = {c1, c2}
  StaleStates = {"STOPPED"}
  Ports = {1}
  MaxFd = 2
  Host = Host
  None = None
  Pinned = {}
  Winsock = TRUE
  Asserts = TRUE
  CloseMayFail = FALSE
  Rules = {"open", "nonblocking"}
SPECIFICATION Spec
CHECK_DEADLOCK FALSE
SYMMETRY Symmetry
INVARIANTS StoppedHoldsNoSocket
PROPERTIES SocketsOutliveOtherContexts

