SPECIFICATION FairSpec
CONSTANTS
  NULL = NULL
  Failed = Failed
  www = www
  mail = mail
  addr = addr
  p = p
  q = q
  Names <- MCNames
  Literals <- MCLiterals
  Addresses <- MCAddresses
  MaxCalls = 4
  Reentrant = TRUE
  OneAtATime = TRUE
  KeepsNames = TRUE
  LookupFaults = TRUE
INVARIANTS
  TypeOK
  NoFreedRequestIsUsed
  HandlersAreCalledInOrder
PROPERTIES
  ImplementsNameService
  HandlersInTimeAreCalled
CHECK_DEADLOCK FALSE
