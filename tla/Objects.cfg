CONSTANTS
  x = x
  y = y
  octet = octet
  eth0 = eth0
  lo = lo
  a1 = a1
  a2 = a2
  b1 = b1
  NULL = NULL
  Objects = {x, y}
  Bits = {0, 1}
  Bytes = {0, 1}
  Words4 <- MCWords4
  Ctors = {"in_addr", "in6_addr", "sockaddr_in", "sockaddr_in6", "parse", "sockaddr_storage"}
  PAD = PAD
  Capacity = 6
  Octets <- MCOctets
  Texts <- MCTexts
  Numbers <- MCNumbers
  Structs <- MCStructs
  MaxGets = 2
  NoAddress = NoAddress
  Interfaces = {eth0, lo}
  Loopback = lo
  m_interface_name = eth0
  Addresses4 = {a1, a2}
  Addresses6 = {b1}
  m_tune = TRUE

SPECIFICATION Spec

INVARIANTS
  ObjectsTellWhatWasMeant
  EqualMeansSameAddress
  OrderAgreesWithEqual
  PacketTypeOK
  DoneMeansSent
PROPERTY
  StartUpEnds

CHECK_DEADLOCK FALSE
