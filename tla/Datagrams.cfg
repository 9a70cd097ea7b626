CONSTANTS
  NULL = NULL
  Sockets = {dgram}
  ServerSockets = {}
  DatagramSockets = {dgram}
  MaxItems = 2
  QueueSize = 2
  BUFFERS = 4
  SubmitFaults = FALSE
  InitResults = {"OK"}
  Outcomes = {"OK", "BADMSG", "ENOBUFS", "ECONNRESET", "ERR"}
  ConnectTargets = {"IPV4"}
  DatagramReturns = {"RE_SUBMIT"}
  MaxRing = 4
  MaxMore = 2

SPECIFICATION Spec

INVARIANTS
  OutstandingItemIsLive
  CallbackGetsItsOwnResult
  NoBufferIsLost
  BufferHasOneOwner

CHECK_DEADLOCK FALSE
