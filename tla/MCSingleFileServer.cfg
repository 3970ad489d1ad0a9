\* Any call may fail; the client goes on reading.
SPECIFICATION FairSpec
CONSTANTS
  SndCap = 2
  MaxBytes = 5
  ReadChunk = 2
  Faults = {"start", "ADD", "MOD"}
CHECK_DEADLOCK FALSE
INVARIANTS EchoInOrder NoLostWakeup RegisteredOrClosed
PROPERTIES ImplementsEchoService HangUpCloses
