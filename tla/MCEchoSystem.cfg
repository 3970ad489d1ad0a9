\* Lines longer than any buffer or chunk on the way; MOD may fail, so that the
\* server may be the first to close.
SPECIFICATION FairSystemSpec
CONSTANTS
  SndCap = 1
  MaxBytes = 5
  ReadChunk = 2
  RcvCap = 2
  MaxLine = 4
  Faults = {"MOD"}
CHECK_DEADLOCK FALSE
INVARIANTS ClientTypeOK ReplyIsTheLine NeverBothBlocked
PROPERTIES EveryLineIsAnswered SessionEnds
