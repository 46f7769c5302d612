CONSTANTS
  c1 = c1
  Ctxs = {c1}
  StaleStates = {"STOPPED", "STARTED", "other"}
  Winsock = FALSE
SPECIFICATION Spec
INVARIANTS SetupDelivers
