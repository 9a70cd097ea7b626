CONSTANTS
  NULL = NULL
  Sockets = {stream}
  ServerSockets = {}
  DatagramSockets = {}
  MaxItems = 2
  QueueSize = 2
  BUFFERS = 4
  SubmitFaults = FALSE
  InitResults = {"OK"}
  Outcomes = {"OK", "EOF"}
  ConnectTargets = {"IPV4"}
  DatagramReturns = {}
  MaxRing = 4
  MaxMore = 0

SPECIFICATION Spec

INVARIANTS
  BufferHasOneOwner

CHECK_DEADLOCK FALSE
