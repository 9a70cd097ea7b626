CONSTANTS
  NULL = NULL
  Sockets = {dgram}
  ServerSockets = {}
  DatagramSockets = {dgram}
  MaxItems = 2
  QueueSize = 2
  BUFFERS = 4
  SubmitFaults = FALSE
  InitResults = {"OK"}
  Outcomes = {"OK"}
  ConnectTargets = {"IPV4"}
  DatagramReturns = {"NONE", "RE_SUBMIT"}
  MaxRing = 4
  MaxMore = 2

SPECIFICATION Spec

INVARIANTS
  LateCompletionFindsNothing

CHECK_DEADLOCK FALSE
