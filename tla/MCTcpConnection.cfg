\* Any failures of epoll_ctl; the client may stop reading at any time.
SPECIFICATION ServerSpec
CONSTANTS
  SndCap = 2
  MaxBytes = 5
  ReadChunk = 2
  Faults = {"ADD", "MOD"}
CHECK_DEADLOCK FALSE
INVARIANTS TypeOK EchoInOrder NoUnreadAfterPeerClosed NoLostWakeup AtRestAllIsDone GracefulClose
PROPERTIES ImplementsEchoService ImplementsHandler NoBusyLoop EventuallyQuiet EveryByteComesBack HangUpCloses
