CONSTANTS
  s1 = s1
  s2 = s2
  Socks = {s1, s2}
  Ports = {1}
  MaxFd = 3
  Host = Host
  None = None
  Pinned = {}
  Winsock = TRUE
  Asserts = TRUE
  CloseMayFail = TRUE
  Rules = {"stop"}
SPECIFICATION Spec
SYMMETRY Symmetry
CHECK_DEADLOCK FALSE
INVARIANTS DescriptorOwned BoundAsAsked PortsHeldByBound
PROPERTIES Isolation RepeatedCloseIsHarmless
