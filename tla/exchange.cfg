CONSTANTS
  Server = Server
  Client = Client
  MaxFd = 3
  Host = Host
  None = None
  Pinned = {}
  Winsock = TRUE
  CloseMayFail = FALSE
  Context = Context
SPECIFICATION Spec
CHECK_DEADLOCK FALSE
INVARIANTS Awaited EndsClean ReceivesWhatWasSent
PROPERTIES Ends
