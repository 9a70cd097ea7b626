------------------------------ MODULE IPAddress ------------------------------
(***************************************************************************)
(* The class IPAddress: an optional sockaddr_in and an optional            *)
(* sockaddr_in6, ports in network byte order, a hash, == and <.            *)
(*                                                                         *)
(* A 32-bit word is the set of its one bits, a 16-bit port the pair of its *)
(* bytes, high byte first: htons and ntohs swap them.  Members that        *)
(* abort() on an empty address are not called on one.                      *)
(***************************************************************************)
EXTENDS Integers

CONSTANTS
  NULL,     (* an empty optional, or a null pointer                       *)
  Bits,     (* the bit positions of a word                                *)
  Bytes,    (* the values of a byte of a port                             *)
  Words4    (* the four words of the IPv6 addresses that occur            *)

Words == SUBSET Bits

Ports == Bytes \X Bytes
Families == {"AF_INET", "AF_INET6"}

sockaddr_in == [sin_family : Families, sin_port : Ports, sin_addr : Words]
sockaddr_in6 == [sin6_family : Families, sin6_port : Ports, sin6_addr : Words4]

ASSUME IPAddressAssumption ==
  /\ Bits \subseteq Int
  /\ Words4 \subseteq Words \X Words \X Words \X Words
  /\ NULL \notin sockaddr_in \cup sockaddr_in6

(* sockaddr_storage: the word that sockaddr_in uses for its address, and   *)
(* the four that sockaddr_in6 uses.                                        *)
sockaddr_storage == [family : Families, port : Ports, first : Words, rest : Words4]

(* What is in the storage when an address of a family was written into it. *)
Written(family, addr, port) ==
  {s \in sockaddr_storage :
     /\ s.family = family
     /\ s.port = port
     /\ addr = IF family = "AF_INET" THEN s.first ELSE s.rest}

-----------------------------------------------------------------------------
htons(p) == <<p[2], p[1]>>

(* The storage read as a sockaddr_in, and as a sockaddr_in6. *)
in4(s) == [sin_family |-> s.family, sin_port |-> s.port, sin_addr |-> s.first]
in6(s) == [sin6_family |-> s.family, sin6_port |-> s.port, sin6_addr |-> s.rest]

Empty == [m_in4 |-> NULL, m_in6 |-> NULL]

(* The constructors from in_addr and in6_addr, then from sockaddrs. *)
FromAddr4(addr, port) ==
  [Empty EXCEPT !.m_in4 = [sin_family |-> "AF_INET", sin_port |-> htons(port), sin_addr |-> addr]]
FromAddr6(addr, port) ==
  [Empty EXCEPT !.m_in6 = [sin6_family |-> "AF_INET6", sin6_port |-> htons(port), sin6_addr |-> addr]]

FromSockaddr4(sa) == [Empty EXCEPT !.m_in4 = sa]
FromSockaddr6(sa) == [Empty EXCEPT !.m_in6 = sa]

(* The constructor from a sockaddr_storage and a length. *)
FromStorage(s, len) ==
  [m_in4 |-> IF len = "sizeof(sockaddr_in)" THEN NULL ELSE in4(s),
   m_in6 |-> IF len = "sizeof(sockaddr_in6)" THEN NULL ELSE in6(s)]

SizeOf(family) == IF family = "AF_INET" THEN "sizeof(sockaddr_in)" ELSE "sizeof(sockaddr_in6)"

get_ipv4(a) == a.m_in4
get_ipv6(a) == a.m_in6
valid(a) == get_ipv4(a) # NULL \/ get_ipv6(a) # NULL

get_port(a) == IF get_ipv4(a) # NULL THEN htons(a.m_in4.sin_port) ELSE htons(a.m_in6.sin6_port)

Faulty_set_port(a, port) ==
  IF get_ipv4(a) # NULL THEN [a EXCEPT !.m_in4.sin_port = htons(port)] ELSE a
set_port(a, port) ==
  IF get_ipv4(a) # NULL THEN [a EXCEPT !.m_in4.sin_port = htons(port)]
  ELSE [a EXCEPT !.m_in6.sin6_port = htons(port)]

(* A 64-bit number, by its low and its high word. *)
get_hash(a) ==
  IF a.m_in4 # NULL THEN [low |-> a.m_in4.sin_addr, high |-> {}]
  ELSE [low |-> a.m_in6.sin6_addr[1] \cup a.m_in6.sin6_addr[3],
        high |-> a.m_in6.sin6_addr[2] \cup a.m_in6.sin6_addr[4]]

Faulty_Equal(a, b) ==
  \/ a.m_in4 # NULL /\ b.m_in4 # NULL /\ a.m_in4.sin_addr = b.m_in4.sin_addr
  \/ a.m_in6 # NULL /\ b.m_in6 # NULL /\ a.m_in6.sin6_addr[1] = b.m_in6.sin6_addr[1]
(* operator==, which compares all the members of a sockaddr modelled here. *)
Equal(a, b) ==
  IF a.m_in4 # NULL /\ b.m_in4 # NULL THEN a.m_in4 = b.m_in4
  ELSE a.m_in6 # NULL /\ b.m_in6 # NULL /\ a.m_in6 = b.m_in6

Faulty_WordLess(v, w) == w \ v # {}
(* < on unsigned words: the highest bit in which they differ decides. *)
WordLess(v, w) == \E i \in w \ v : \A j \in Bits : j > i => (j \in v <=> j \in w)

(* operator< compares the hashes. *)
Less(a, b) ==
  LET g == get_hash(a)
      h == get_hash(b)
  IN \/ WordLess(g.high, h.high)
     \/ g.high = h.high /\ WordLess(g.low, h.low)

=============================================================================
