\* The listening socket and up to two connections compete for two places.
SPECIFICATION ServerSpec
CONSTANTS
  Clients = {c1, c2, c3}
  Listen = Listen
  None = None
  MaxFds = 2
  MAXEVENTS = 2
  Faults = {}
CHECK_DEADLOCK FALSE
PROPERTIES FinishedIsReclaimed EventIsHandled ArrivedIsAccepted
