\* One descriptor and two clients.
SPECIFICATION ServerSpec
CONSTANTS
  Clients = {c1, c2}
  Listen = Listen
  None = None
  MaxFds = 1
  MAXEVENTS = 2
  Faults = {}
CHECK_DEADLOCK FALSE
PROPERTY SilentClientsLetServerBlock
