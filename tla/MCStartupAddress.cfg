\* No system call fails.
SPECIFICATION Spec
CONSTANTS
  Faults = {}
  MaxClients = 1
CHECK_DEADLOCK FALSE
INVARIANT BoundAsAsked
