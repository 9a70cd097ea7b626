---------------------------- MODULE AddressObjects ----------------------------
(***************************************************************************)
(* Some objects of the class IPAddress, which are constructed and assigned *)
(* in all ways; meant is what each of them ought to stand for.             *)
(***************************************************************************)
EXTENDS IPAddress

CONSTANTS
  Objects,  (* the objects of class IPAddress                             *)
  Ctors     (* the constructors used: see Construct                       *)

(* What an object may stand for, and how it was made.                      *)
Meanings ==
  [family : {"AF_INET"}, addr : Words, port : Ports, stored : BOOLEAN] \cup
  [family : {"AF_INET6"}, addr : Words4, port : Ports, stored : BOOLEAN]

ASSUME AddressObjectsAssumption == NULL \notin Meanings

VARIABLES
  obj,      (* the contents of each object                                *)
  meant     (* what each was made from, NULL while it is empty: the       *)
            (* family, address and port, and how (see AsMade)             *)

address_vars == <<obj, meant>>

-----------------------------------------------------------------------------
AddressInit ==
  /\ obj = [v \in Objects |-> Empty]
  /\ meant = [v \in Objects |-> NULL]

Meaning(family, addr, port, stored) ==
  [family |-> family, addr |-> addr, port |-> port, stored |-> stored]

Is(v, a, meaning) ==
  /\ obj' = [obj EXCEPT ![v] = a]
  /\ meant' = [meant EXCEPT ![v] = meaning]

(* IPAddress::parse fills in no port: any port is what was meant.          *)
Construct(v, port) ==
  \/ \E w \in Words :
       \/ /\ "in_addr" \in Ctors
          /\ Is(v, FromAddr4(w, port), Meaning("AF_INET", w, port, FALSE))
       \/ /\ Ctors \cap {"sockaddr_in", "parse"} # {}
          /\ \E s \in Written("AF_INET", w, htons(port)) :
               Is(v, FromSockaddr4(in4(s)), Meaning("AF_INET", w, port, FALSE))
  \/ \E w \in Words4 :
       \/ /\ "in6_addr" \in Ctors
          /\ Is(v, FromAddr6(w, port), Meaning("AF_INET6", w, port, FALSE))
       \/ /\ Ctors \cap {"sockaddr_in6", "parse"} # {}
          /\ \E s \in Written("AF_INET6", w, htons(port)) :
               Is(v, FromSockaddr6(in6(s)), Meaning("AF_INET6", w, port, FALSE))

ConstructFromStorage(v, port) ==
  /\ "sockaddr_storage" \in Ctors
  /\ \E family \in Families : \E w \in IF family = "AF_INET" THEN Words ELSE Words4 :
       \E s \in Written(family, w, htons(port)) :
         Is(v, FromStorage(s, SizeOf(family)), Meaning(family, w, port, TRUE))

SetPort(v, port) ==
  /\ valid(obj[v])
  /\ obj' = [obj EXCEPT ![v] = set_port(@, port)]
  /\ meant' = [meant EXCEPT ![v].port = port]

(* create_sock_addr_in: an IPv4 address with another port, through text.   *)
create_sock_addr_in(v, w, port) ==
  /\ get_ipv4(obj[w]) # NULL
  /\ Is(v, FromAddr4(obj[w].m_in4.sin_addr, port),
        Meaning("AF_INET", obj[w].m_in4.sin_addr, port, FALSE))

AddressNext ==
  \E v \in Objects, port \in Ports :
    \/ Construct(v, port)
    \/ ConstructFromStorage(v, port)
    \/ SetPort(v, port)
    \/ \E w \in Objects : create_sock_addr_in(v, w, port)

AddressSpec == AddressInit /\ [][AddressNext]_address_vars

-----------------------------------------------------------------------------
(* Properties.                                                             *)

IPAddresses ==
  [m_in4 : sockaddr_in \cup {NULL}, m_in6 : sockaddr_in6 \cup {NULL}]

(* Type invariant. *)
AddressTypeOK ==
  /\ obj \in [Objects -> IPAddresses]
  /\ \A v \in Objects : valid(obj[v]) <=> meant[v] # NULL

ValidObjects == {v \in Objects : valid(obj[v])}

(* The objects that hold what they were made from: all but those made from *)
(* a sockaddr_storage, whose constructor takes the length of one family    *)
(* for that of the other.                                                  *)
AsMade == {v \in ValidObjects : ~meant[v].stored}

(* An object tells what it was made from: the port that was given, in a    *)
(* constructor or later, through both changes of the byte order and        *)
(* whatever sockaddr keeps it; and the family ("returns null if not ipv4", *)
(* "returns null if not ipv6", IPAddress.hpp:170 and 181), in its own      *)
(* sockaddr too, unless it was made from a sockaddr_storage.               *)
ObjectsTellWhatWasMeant ==
  /\ \A v \in ValidObjects : get_port(obj[v]) = meant[v].port
  /\ \A v \in AsMade :
       LET a == obj[v] IN
       /\ get_ipv4(a) # NULL <=> meant[v].family = "AF_INET"
       /\ get_ipv6(a) # NULL <=> meant[v].family = "AF_INET6"
       /\ get_ipv4(a) # NULL => a.m_in4.sin_family = "AF_INET"
       /\ get_ipv6(a) # NULL => a.m_in6.sin6_family = "AF_INET6"

(* == holds between objects that stand for the same address and port, and  *)
(* between no others, whichever way each of them was made.                 *)
EqualMeansSameAddress ==
  \A v, w \in AsMade : Equal(obj[v], obj[w]) <=> meant[v] = meant[w]

(* The hash and < agree with ==, for containers that use them together:    *)
(* equal addresses have equal hashes and neither comes before the other;   *)
(* of two different IPv4 addresses exactly one does.                       *)
OrderAgreesWithEqual ==
  /\ \A v, w \in ValidObjects : Equal(obj[v], obj[w]) =>
       get_hash(obj[v]) = get_hash(obj[w]) /\ ~Less(obj[v], obj[w])
  /\ \A v, w \in AsMade :
       get_ipv4(obj[v]) # NULL /\ get_ipv4(obj[w]) # NULL /\ meant[v].addr # meant[w].addr =>
         (Less(obj[v], obj[w]) <=> ~Less(obj[w], obj[v]))

=============================================================================
