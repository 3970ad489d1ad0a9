\* Any call may fail; nothing is assumed of the client.
SPECIFICATION ServerSpec
CONSTANTS
  SndCap = 2
  MaxBytes = 5
  ReadChunk = 2
  Faults = {"start", "ADD", "MOD"}
CHECK_DEADLOCK FALSE
PROPERTY RestsOrAwaitsReader
