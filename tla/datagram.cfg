CONSTANTS
  s1 = s1
  s2 = s2
  Socks = {s1, s2}
  Ports = {1, 2}
  MaxFd = 2
  Host = Host
  None = None
  Pinned = {0}
  Winsock = FALSE
  Asserts = TRUE
  CloseMayFail = FALSE
  Rules = {"close", "open", "nonblocking"}
  Lens = {2}
  Caps = {1, 2}
  Network = {"loss", "dup", "reorder"}
  QueueMax = 1
  MaxSends = 2
SPECIFICATION MCSpec
CHECK_DEADLOCK FALSE
CONSTRAINT BlockingOnly
SYMMETRY Symmetry
INVARIANTS TypeOK ReplyReaches SenderRecognised
