CONSTANTS
  NULL = NULL
  Sockets = {server, stream}
  ServerSockets = {server}
  DatagramSockets = {}
  MaxItems = 3
  QueueSize = 2
  BUFFERS = 4
  SubmitFaults = TRUE
  InitResults = {"OK", "FAILED"}
  Outcomes = {"OK", "EOF", "ENOBUFS", "EINVAL", "ECONNRESET", "ERR"}
  ConnectTargets = {"IPV4", "IPV6"}
  DatagramReturns = {}
  MaxRing = 2
  MaxMore = 0

SPECIFICATION Spec

INVARIANTS
  TypeOK
  OutstandingItemIsLive
  OneRequestPerItem
  CallbackGetsItsOwnResult
  AcceptLengthIsFresh
  NoBufferIsLost
PROPERTIES
  ImplementsRequestLifecycle
  SendsAreCalledBack
  StallsOnlyByENOBUFS

CHECK_DEADLOCK FALSE
