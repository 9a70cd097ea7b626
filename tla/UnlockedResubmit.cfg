SPECIFICATION Spec
CONSTANTS
  NULL = NULL
  poller = poller
  resolver = resolver
  other = other
  Threads = {poller, resolver}
  Unlocked = {poller}
  QueueSize = 2
  SubmitFaults = FALSE
  MaxRequests = 3
INVARIANT NoRequestIsLost
CHECK_DEADLOCK FALSE
