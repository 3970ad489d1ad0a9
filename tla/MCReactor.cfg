\* More clients than descriptors, more ready items than one round takes, and
\* a registration that may fail.
SPECIFICATION Spec
CONSTANTS
  Clients = {c1, c2, c3}
  Listen = Listen
  None = None
  MaxFds = 2
  MAXEVENTS = 2
  Faults = {"ADD", "MOD"}
SYMMETRY Symmetry
CHECK_DEADLOCK FALSE
INVARIANTS TypeOK NoDanglingChannel RegistryMatchesFds CallbacksPaired NoForgottenEvent
PROPERTIES OnlyFinishedDestroyed ImplementsConnectionPool ImplementsHandlers
