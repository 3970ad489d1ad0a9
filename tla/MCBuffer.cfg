CONSTANTS
  Byte = {0, 1, 2}
  Zero = 0
  InitialSize = 2
  MaxVolume = 5
  MaxChunk = 2
SPECIFICATION Spec
INVARIANT TypeOK
INVARIANT DrainedIsRewound
PROPERTY ImplementsByteQueue
