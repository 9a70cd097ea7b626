SPECIFICATION Spec
CONSTANTS
  NULL = NULL
  Bits = {0}
  Bytes = {0, 1}
  Words4 <- MCWords4
  FirstFd = 3
  MaxFd = 4
  MaxFiles = 3
  MaxRequests = 4
  Creations <- MCCreations
  ClientPorts <- MCClientPorts
  Garbage <- MCGarbage
CHECK_DEADLOCK FALSE
INVARIANTS
  SocketsTypeOK
  ReceivesAreFromOwnConnection
  
PROPERTIES
  ClosesOnlyOwnConnection
  OnlyApplicationsLoseDescriptors
