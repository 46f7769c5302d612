CONSTANTS
  c1 = c1
  c2 = c2
  c3 = c3
  Ctxs = {c1, c2, c3}
  StaleStates = {"STOPPED"}
  Winsock = TRUE
SPECIFICATION Spec
INVARIANTS RefCount SetupDelivers
