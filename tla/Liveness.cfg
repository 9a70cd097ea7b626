CONSTANTS
  NULL = NULL
  Sockets = {server, stream}
  ServerSockets = {server}
  DatagramSockets = {}
  MaxItems = 3
  QueueSize = 2
  BUFFERS = 4
  SubmitFaults = TRUE
  InitResults = {"OK"}
  Outcomes = {"OK", "EINVAL", "ENOBUFS"}
  ConnectTargets = {"IPV4"}
  DatagramReturns = {}
  MaxRing = 4
  MaxMore = 0

SPECIFICATION FairSpec

PROPERTIES
  RequestsEnd
  ServerKeepsAccepting

CHECK_DEADLOCK FALSE
