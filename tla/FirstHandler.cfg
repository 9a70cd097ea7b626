SPECIFICATION Spec
CONSTANTS
  NULL = NULL
  Failed = Failed
  www = www
  mail = mail
  addr = addr
  p = p
  q = q
  Names <- MCNames
  Literals <- MCLiterals
  Addresses <- MCAddresses
  MaxCalls = 3
  Reentrant = FALSE
  OneAtATime = FALSE
  KeepsNames = TRUE
  LookupFaults = FALSE
INVARIANT RequestsAreListed
CHECK_DEADLOCK FALSE
