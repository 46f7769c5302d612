CONSTANTS
  s1 = s1
  s2 = s2
  Socks = {s1, s2}
  Ports = {1}
  MaxFd = 2
  Host = Host
  None = None
  Pinned = {0}
  Winsock = FALSE
  Asserts = TRUE
  CloseMayFail = TRUE
  Rules = {"close", "open", "nonblocking"}
SPECIFICATION Spec
SYMMETRY Symmetry
INVARIANTS IPv4DisabledIsTrue
