CONSTANTS
  s1 = s1
  s2 = s2
  Socks = {s1, s2}
  Ports = {0, 1, 2}
  MaxFd = 3
  Host = Host
  None = None
  Pinned = {0}
  Winsock = FALSE
  Asserts = FALSE
  CloseMayFail = TRUE
  Rules = {"close", "open", "nonblocking"}
SPECIFICATION Spec
SYMMETRY Symmetry
INVARIANTS TypeOK DescriptorOwned BoundAsAsked NoLeak FlagsTrackKernel PortExclusive SilentFailureNeedsClose
PROPERTIES Isolation ImplementsSocketLife
