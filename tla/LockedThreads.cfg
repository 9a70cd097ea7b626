SPECIFICATION FairSpec
CONSTANTS
  NULL = NULL
  poller = poller
  resolver = resolver
  other = other
  Threads = {poller, resolver, other}
  Unlocked = {}
  QueueSize = 2
  SubmitFaults = TRUE
  MaxRequests = 5
INVARIANTS
  TypeOK
  NoRequestIsLost
PROPERTIES
  SubmissionsEnd
  ImplementsAtomicSubmission
CHECK_DEADLOCK FALSE
