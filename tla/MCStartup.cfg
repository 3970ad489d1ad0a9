\* Any of the system calls may fail; two clients connect at any time.
SPECIFICATION FairSpec
CONSTANTS
  Faults = {"epoll_create1", "socket", "setsockopt", "bind", "listen", "epoll_ctl"}
  MaxClients = 2
CHECK_DEADLOCK FALSE
INVARIANT RunsOnlyWhenReady
PROPERTIES WaitingClientsGetAnAnswer StartsAgain
