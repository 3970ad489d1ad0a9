\* epoll_ctl ADD may fail in the constructor.
SPECIFICATION Spec
CONSTANTS
  SndCap = 1
  MaxBytes = 1
  ReadChunk = 1
  Faults = {"ADD"}
CHECK_DEADLOCK FALSE
INVARIANT ConstructedIsRegistered
