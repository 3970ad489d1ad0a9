\* Two clients, and a descriptor for each.
SPECIFICATION ServerSpec
CONSTANTS
  Clients = {c1, c2}
  Listen = Listen
  None = None
  MaxFds = 2
  MAXEVENTS = 2
  Faults = {}
CHECK_DEADLOCK FALSE
PROPERTY ClientsServedTogether
