---------------------------- MODULE ObjectProofs ----------------------------
(***************************************************************************)
(* The classes that an application uses from one thread: what objects of   *)
(* the class IPAddress tell, what a send sends, and where the address of   *)
(* the adapter comes from.  For any number of objects, words of any width, *)
(* any ports, packets of any capacity, any texts, numbers and structures,  *)
(* and any interfaces, however their addresses come and go.                *)
(***************************************************************************)
EXTENDS AddressObjects, SendPacket, NetworkAdapter, SequenceTheorems,
        WellFoundedInduction, TLAPS

(* AddressObjects. *)

(* A port comes back from htons and ntohs.                                 *)
LEMMA PortsComeBack ==
  ASSUME NEW port \in Ports
  PROVE  htons(port) \in Ports /\ htons(htons(port)) = port
  BY DEF Ports, htons

(* What an object holds that was made as m says, but from no               *)
(* sockaddr_storage.                                                       *)
Made(m) == IF m.family = "AF_INET" THEN FromAddr4(m.addr, m.port) ELSE FromAddr6(m.addr, m.port)

(* The constructor from a sockaddr_storage keeps the port, in the sockaddr *)
(* of the other family.                                                    *)
MadeFromStorage(m, a) ==
  IF m.family = "AF_INET"
    THEN /\ a.m_in4 = NULL
         /\ a.m_in6 \in sockaddr_in6
         /\ a.m_in6.sin6_port = htons(m.port)
    ELSE /\ a.m_in4 \in sockaddr_in
         /\ a.m_in6 = NULL
         /\ a.m_in4.sin_port = htons(m.port)

ObjectInv(a, m) ==
  /\ a \in IPAddresses
  /\ \/ m = NULL /\ a = Empty
     \/ m \in Meanings /\ ~m.stored /\ a = Made(m)
     \/ m \in Meanings /\ m.stored /\ MadeFromStorage(m, a)

AddressInv ==
  /\ obj \in [Objects -> IPAddresses]
  /\ meant \in [Objects -> Meanings \cup {NULL}]
  /\ \A v \in Objects : ObjectInv(obj[v], meant[v])

-----------------------------------------------------------------------------
(* The constructors.                                                       *)

(* A meaning that is composed is one.                                      *)
LEMMA MeaningTyped ==
  ASSUME NEW family \in Families, NEW port \in Ports, NEW stored \in BOOLEAN,
         NEW w \in IF family = "AF_INET" THEN Words ELSE Words4
  PROVE  /\ Meaning(family, w, port, stored) \in Meanings
         /\ Meaning(family, w, port, stored).family = family
         /\ Meaning(family, w, port, stored).addr = w
         /\ Meaning(family, w, port, stored).port = port
         /\ Meaning(family, w, port, stored).stored = stored
  BY DEF Meaning, Meanings, Families

(* The same of an object made from a sockaddr_storage.                     *)
LEMMA StoredMeaning ==
  ASSUME NEW family \in Families, NEW port \in Ports,
         NEW w \in IF family = "AF_INET" THEN Words ELSE Words4
  PROVE  /\ Meaning(family, w, port, TRUE) \in Meanings
         /\ Meaning(family, w, port, TRUE).stored = TRUE
         /\ Meaning(family, w, port, TRUE).family = family
         /\ Meaning(family, w, port, TRUE).port = port
  <1>1. \A stored \in BOOLEAN :
          /\ Meaning(family, w, port, stored) \in Meanings
          /\ Meaning(family, w, port, stored).stored = stored
    BY MeaningTyped
  <1>2. /\ Meaning(family, w, port, TRUE) \in Meanings
        /\ Meaning(family, w, port, TRUE).stored = TRUE
    BY <1>1, Zenon
  <1>3. /\ Meaning(family, w, port, TRUE).family = family
        /\ Meaning(family, w, port, TRUE).port = port
    BY DEF Meaning
  <1>4. QED
    BY <1>1, <1>2, <1>3

(* The constructor from an in_addr.                                        *)
LEMMA Made4 ==
  ASSUME NEW w \in Words, NEW port \in Ports
  PROVE  ObjectInv(FromAddr4(w, port), Meaning("AF_INET", w, port, FALSE))
  <1>1. FromAddr4(w, port) \in IPAddresses
    BY PortsComeBack DEF FromAddr4, Empty, IPAddresses, sockaddr_in, Families
  <1>2. /\ Meaning("AF_INET", w, port, FALSE) \in Meanings
        /\ ~Meaning("AF_INET", w, port, FALSE).stored
        /\ Made(Meaning("AF_INET", w, port, FALSE)) = FromAddr4(w, port)
    BY DEF Meaning, Meanings, Made
  <1>3. QED
    BY <1>1, <1>2 DEF ObjectInv

(* The constructor from an in6_addr.                                       *)
LEMMA Made6 ==
  ASSUME NEW w \in Words4, NEW port \in Ports
  PROVE  ObjectInv(FromAddr6(w, port), Meaning("AF_INET6", w, port, FALSE))
  <1>1. FromAddr6(w, port) \in IPAddresses
    BY PortsComeBack DEF FromAddr6, Empty, IPAddresses, sockaddr_in6, Families
  <1>2. /\ Meaning("AF_INET6", w, port, FALSE) \in Meanings
        /\ ~Meaning("AF_INET6", w, port, FALSE).stored
        /\ Made(Meaning("AF_INET6", w, port, FALSE)) = FromAddr6(w, port)
    BY DEF Meaning, Meanings, Made
  <1>3. QED
    BY <1>1, <1>2 DEF ObjectInv

(* The constructors from a sockaddr give the same objects as those from an *)
(* address and a port.                                                     *)
LEMMA SockaddrsAgree ==
  ASSUME NEW port \in Ports, NEW w
  PROVE  /\ \A s \in Written("AF_INET", w, htons(port)) :
              FromSockaddr4(in4(s)) = FromAddr4(w, port)
         /\ \A s \in Written("AF_INET6", w, htons(port)) :
              FromSockaddr6(in6(s)) = FromAddr6(w, port)
  BY DEF Written, FromSockaddr4, FromSockaddr6, in4, in6, FromAddr4, FromAddr6

(* The constructor from a sockaddr_storage.                                *)
LEMMA MadeStored ==
  ASSUME NEW family \in Families, NEW port \in Ports,
         NEW w \in IF family = "AF_INET" THEN Words ELSE Words4,
         NEW s \in Written(family, w, htons(port))
  PROVE  ObjectInv(FromStorage(s, SizeOf(family)), Meaning(family, w, port, TRUE))
  <1> DEFINE a == FromStorage(s, SizeOf(family))
             m == Meaning(family, w, port, TRUE)
  <1>1. m \in Meanings /\ m.stored /\ m.family = family /\ m.port = port
    BY StoredMeaning, Zenon
  <1>2. s \in sockaddr_storage /\ s.family = family /\ s.port = htons(port)
    BY DEF Written
  <1>3. in4(s) \in sockaddr_in /\ in4(s).sin_port = htons(port)
    BY <1>2 DEF in4, sockaddr_in, sockaddr_storage
  <1>4. in6(s) \in sockaddr_in6 /\ in6(s).sin6_port = htons(port)
    BY <1>2 DEF in6, sockaddr_in6, sockaddr_storage
  <1>5. CASE family = "AF_INET"
    <2>1. a.m_in4 = NULL /\ a.m_in6 = in6(s) /\ a \in IPAddresses
      BY <1>4, <1>5 DEF FromStorage, SizeOf, IPAddresses
    <2>2. QED
      BY <1>1, <1>4, <1>5, <2>1 DEF ObjectInv, MadeFromStorage
  <1>6. CASE family = "AF_INET6"
    <2>1. a.m_in4 = in4(s) /\ a.m_in6 = NULL /\ a \in IPAddresses
      BY <1>3, <1>6 DEF FromStorage, SizeOf, IPAddresses
    <2>2. QED
      BY <1>1, <1>3, <1>6, <2>1 DEF ObjectInv, MadeFromStorage
  <1>7. QED
    BY <1>5, <1>6 DEF Families

(* Which of its two sockaddrs an object has.                               *)
LEMMA OneSockaddr ==
  ASSUME NEW a, NEW m \in Meanings, ObjectInv(a, m)
  PROVE  /\ a.m_in4 # NULL <=> (m.family = "AF_INET" <=> ~m.stored)
         /\ a.m_in6 # NULL <=> a.m_in4 = NULL
         /\ valid(a)
  <1>1. m # NULL /\ m.family \in Families
    BY AddressObjectsAssumption, IPAddressAssumption DEF Meanings, Families
  <1>2. CASE ~m.stored
    <2>1. CASE m.family = "AF_INET"
      <3>1. a.m_in4 = [sin_family |-> "AF_INET", sin_port |-> htons(m.port), sin_addr |-> m.addr]
            /\ a.m_in6 = NULL
        BY <1>1, <1>2, <2>1 DEF ObjectInv, Made, FromAddr4, Empty
      <3>2. a.m_in4 \in sockaddr_in
        BY <1>2, <2>1, <3>1, PortsComeBack DEF Meanings, sockaddr_in, Families
      <3>3. QED
        BY <1>2, <2>1, <3>1, <3>2, AddressObjectsAssumption, IPAddressAssumption DEF valid, get_ipv4
    <2>2. CASE m.family = "AF_INET6"
      <3>1. a.m_in6 = [sin6_family |-> "AF_INET6", sin6_port |-> htons(m.port), sin6_addr |-> m.addr]
            /\ a.m_in4 = NULL
        BY <1>1, <1>2, <2>2 DEF ObjectInv, Made, FromAddr6, Empty
      <3>2. a.m_in6 \in sockaddr_in6
        BY <1>2, <2>2, <3>1, PortsComeBack DEF Meanings, sockaddr_in6, Families
      <3>3. QED
        BY <1>2, <2>2, <3>1, <3>2, AddressObjectsAssumption, IPAddressAssumption DEF valid, get_ipv6
    <2>3. QED
      BY <1>1, <2>1, <2>2 DEF Families
  <1>3. CASE m.stored
    <2>1. MadeFromStorage(m, a)
      BY <1>1, <1>3 DEF ObjectInv
    <2>2. QED
      BY <1>1, <1>3, <2>1, AddressObjectsAssumption, IPAddressAssumption
         DEF MadeFromStorage, valid, get_ipv4, get_ipv6, Families
  <1>4. QED
    BY <1>2, <1>3 DEF Meanings

(* An object has the port that was meant.                                  *)
LEMMA HasPort ==
  ASSUME NEW a, NEW m \in Meanings, ObjectInv(a, m)
  PROVE  get_port(a) = m.port
  <1>1. m # NULL /\ m.family \in Families /\ m.port \in Ports /\ m.stored \in BOOLEAN
    BY AddressObjectsAssumption, IPAddressAssumption DEF Meanings, Families
  <1>2. IF a.m_in4 # NULL THEN a.m_in4.sin_port = htons(m.port)
                          ELSE a.m_in6.sin6_port = htons(m.port)
    <2>1. CASE m.stored
      BY <1>1, <2>1, OneSockaddr DEF ObjectInv, MadeFromStorage, Families
    <2>2. CASE ~m.stored
      BY <1>1, <2>2, OneSockaddr DEF ObjectInv, Made, FromAddr4, FromAddr6, Empty, Families
    <2>3. QED
      BY <1>1, <2>1, <2>2
  <1>3. QED
    BY <1>1, <1>2, PortsComeBack DEF get_port, get_ipv4

(* set_port changes the port in the sockaddr that get_port reads, and      *)
(* nothing else.                                                           *)
LEMMA SetPortInv ==
  ASSUME NEW a, NEW m \in Meanings, ObjectInv(a, m), NEW port \in Ports
  PROVE  ObjectInv(set_port(a, port), [m EXCEPT !.port = port])
  <1> DEFINE n == [m EXCEPT !.port = port]
             b == set_port(a, port)
  <1>1. m # NULL /\ m.family \in Families /\ m.stored \in BOOLEAN /\ htons(port) \in Ports
    BY AddressObjectsAssumption, IPAddressAssumption, PortsComeBack DEF Meanings, Families
  <1>2. n \in Meanings /\ n.family = m.family /\ n.stored = m.stored /\ n.port = port
        /\ n.addr = m.addr
    BY DEF Meanings
  <1>3. CASE a.m_in4 # NULL
    <2>1. b = [a EXCEPT !.m_in4 = [a.m_in4 EXCEPT !.sin_port = htons(port)]]
      BY <1>3 DEF set_port, get_ipv4
    <2>2. a \in IPAddresses /\ a.m_in4 \in sockaddr_in /\ a.m_in6 = NULL
      BY <1>3, OneSockaddr DEF ObjectInv, IPAddresses
    <2>3. [a.m_in4 EXCEPT !.sin_port = htons(port)] \in sockaddr_in
          /\ [a.m_in4 EXCEPT !.sin_port = htons(port)].sin_port = htons(port)
      BY <1>1, <2>2 DEF sockaddr_in
    <2>4. b \in IPAddresses /\ b.m_in4 \in sockaddr_in /\ b.m_in6 = NULL
          /\ b.m_in4.sin_port = htons(port)
      BY <2>1, <2>2, <2>3 DEF IPAddresses
    <2>5. CASE m.stored
      <3>1. m.family = "AF_INET6"
        BY <1>1, <1>3, <2>5, OneSockaddr DEF Families
      <3>2. QED
        BY <1>2, <2>4, <2>5, <3>1 DEF ObjectInv, MadeFromStorage
    <2>6. CASE ~m.stored
      <3>1. m.family = "AF_INET" /\ a = FromAddr4(m.addr, m.port)
        BY <1>1, <1>3, <2>6, OneSockaddr DEF ObjectInv, Made
      <3>2. b = FromAddr4(m.addr, port)
        BY <2>1, <3>1 DEF FromAddr4, Empty
      <3>3. QED
        BY <1>2, <2>4, <2>6, <3>1, <3>2 DEF ObjectInv, Made
    <2>7. QED
      BY <1>1, <2>5, <2>6
  <1>4. CASE a.m_in4 = NULL
    <2>1. b = [a EXCEPT !.m_in6 = [a.m_in6 EXCEPT !.sin6_port = htons(port)]]
      BY <1>4 DEF set_port, get_ipv4
    <2>2. a \in IPAddresses /\ a.m_in6 \in sockaddr_in6
      BY <1>4, OneSockaddr DEF ObjectInv, IPAddresses
    <2>3. [a.m_in6 EXCEPT !.sin6_port = htons(port)] \in sockaddr_in6
          /\ [a.m_in6 EXCEPT !.sin6_port = htons(port)].sin6_port = htons(port)
      BY <1>1, <2>2 DEF sockaddr_in6
    <2>4. b \in IPAddresses /\ b.m_in6 \in sockaddr_in6 /\ b.m_in4 = NULL
          /\ b.m_in6.sin6_port = htons(port)
      BY <1>4, <2>1, <2>2, <2>3 DEF IPAddresses
    <2>5. CASE m.stored
      <3>1. m.family = "AF_INET"
        BY <1>1, <1>4, <2>5, OneSockaddr DEF Families
      <3>2. QED
        BY <1>2, <2>4, <2>5, <3>1 DEF ObjectInv, MadeFromStorage
    <2>6. CASE ~m.stored
      <3>1. m.family = "AF_INET6" /\ a = FromAddr6(m.addr, m.port)
        BY <1>1, <1>4, <2>6, OneSockaddr DEF ObjectInv, Made, Families
      <3>2. b = FromAddr6(m.addr, port)
        BY <2>1, <3>1 DEF FromAddr6, Empty
      <3>3. QED
        BY <1>2, <2>4, <2>6, <3>1, <3>2 DEF ObjectInv, Made
    <2>7. QED
      BY <1>1, <2>5, <2>6
  <1>5. QED
    BY <1>3, <1>4

-----------------------------------------------------------------------------
(* The invariant.                                                          *)

(* The objects start empty.                                                *)
LEMMA AddressInitInv == AddressInit => AddressInv
  BY DEF AddressInit, AddressInv, ObjectInv, Empty, IPAddresses

(* A constructor touches one object only.                                  *)
LEMMA IsInv ==
  ASSUME AddressInv, NEW v \in Objects, NEW a, NEW m \in Meanings,
         ObjectInv(a, m), Is(v, a, m)
  PROVE  AddressInv'
  <1>1. a \in IPAddresses
    BY DEF ObjectInv
  <1>2. obj' \in [Objects -> IPAddresses] /\ meant' \in [Objects -> Meanings \cup {NULL}]
    BY <1>1 DEF AddressInv, Is
  <1>3. \A w \in Objects : /\ obj'[w] = IF w = v THEN a ELSE obj[w]
                          /\ meant'[w] = IF w = v THEN m ELSE meant[w]
    BY DEF AddressInv, Is
  <1>4. \A w \in Objects : ObjectInv(obj'[w], meant'[w])
    BY <1>3 DEF AddressInv
  <1>5. QED
    BY <1>2, <1>4 DEF AddressInv

(* Only an empty object stands for nothing.                                *)
LEMMA ValidIsMeant ==
  ASSUME AddressInv, NEW v \in Objects
  PROVE  valid(obj[v]) <=> meant[v] # NULL
  <1>1. ObjectInv(obj[v], meant[v])
    BY DEF AddressInv
  <1>2. CASE meant[v] = NULL
    <2>1. obj[v] = Empty
      BY <1>1, <1>2, AddressObjectsAssumption, IPAddressAssumption DEF ObjectInv
    <2>2. QED
      BY <1>2, <2>1 DEF valid, get_ipv4, get_ipv6, Empty
  <1>3. CASE meant[v] # NULL
    <2>1. meant[v] \in Meanings
      BY <1>1, <1>3 DEF ObjectInv
    <2>2. QED
      BY <1>1, <1>3, <2>1, OneSockaddr
  <1>4. QED
    BY <1>2, <1>3

(* The constructors of Construct.                                          *)
LEMMA ConstructInv ==
  ASSUME AddressInv, NEW v \in Objects, NEW port \in Ports, Construct(v, port)
  PROVE  AddressInv'
  <1>1. ASSUME NEW w \in Words, Is(v, FromAddr4(w, port), Meaning("AF_INET", w, port, FALSE))
        PROVE  AddressInv'
    <2>1. Meaning("AF_INET", w, port, FALSE) \in Meanings
      BY DEF Meaning, Meanings
    <2>2. QED
      BY <1>1, <2>1, Made4, IsInv
  <1>2. ASSUME NEW w \in Words4, Is(v, FromAddr6(w, port), Meaning("AF_INET6", w, port, FALSE))
        PROVE  AddressInv'
    <2>1. Meaning("AF_INET6", w, port, FALSE) \in Meanings
      BY DEF Meaning, Meanings
    <2>2. QED
      BY <1>2, <2>1, Made6, IsInv
  <1>3. ASSUME NEW w \in Words, NEW s \in Written("AF_INET", w, htons(port)),
               Is(v, FromSockaddr4(in4(s)), Meaning("AF_INET", w, port, FALSE))
        PROVE  AddressInv'
    <2>1. FromSockaddr4(in4(s)) = FromAddr4(w, port)
      BY SockaddrsAgree
    <2>2. QED
      BY <1>1, <1>3, <2>1
  <1>4. ASSUME NEW w \in Words4, NEW s \in Written("AF_INET6", w, htons(port)),
               Is(v, FromSockaddr6(in6(s)), Meaning("AF_INET6", w, port, FALSE))
        PROVE  AddressInv'
    <2>1. FromSockaddr6(in6(s)) = FromAddr6(w, port)
      BY SockaddrsAgree
    <2>2. QED
      BY <1>2, <1>4, <2>1
  <1>5. QED
    BY <1>1, <1>2, <1>3, <1>4 DEF Construct

(* Every step keeps what the objects hold true to what was meant.          *)
LEMMA AddressStepInv ==
  ASSUME AddressInv, [AddressNext]_address_vars
  PROVE  AddressInv'
  <1>1. ASSUME NEW v \in Objects, NEW port \in Ports, ConstructFromStorage(v, port)
        PROVE  AddressInv'
    <2>1. PICK family \in Families :
            \E w \in IF family = "AF_INET" THEN Words ELSE Words4 :
              \E s \in Written(family, w, htons(port)) :
                Is(v, FromStorage(s, SizeOf(family)), Meaning(family, w, port, TRUE))
      BY <1>1 DEF ConstructFromStorage
    <2>2. PICK w \in IF family = "AF_INET" THEN Words ELSE Words4 :
            \E s \in Written(family, w, htons(port)) :
              Is(v, FromStorage(s, SizeOf(family)), Meaning(family, w, port, TRUE))
      BY <2>1
    <2>3. PICK s \in Written(family, w, htons(port)) :
            Is(v, FromStorage(s, SizeOf(family)), Meaning(family, w, port, TRUE))
      BY <2>2
    <2>4. Meaning(family, w, port, TRUE) \in Meanings
      BY StoredMeaning, Zenon
    <2>5. ObjectInv(FromStorage(s, SizeOf(family)), Meaning(family, w, port, TRUE))
      BY MadeStored
    <2>6. QED
      BY <2>3, <2>4, <2>5, IsInv
  <1>2. ASSUME NEW v \in Objects, NEW port \in Ports, SetPort(v, port)
        PROVE  AddressInv'
    <2>1. ObjectInv(obj[v], meant[v]) /\ meant[v] \in Meanings
      BY <1>2, ValidIsMeant DEF SetPort, AddressInv
    <2>2. Is(v, set_port(obj[v], port), [meant[v] EXCEPT !.port = port])
      BY <1>2 DEF SetPort, Is
    <2>3. [meant[v] EXCEPT !.port = port] \in Meanings
      BY <2>1 DEF Meanings
    <2>4. QED
      BY <2>1, <2>2, <2>3, SetPortInv, IsInv
  <1>3. ASSUME NEW v \in Objects, NEW port \in Ports, NEW w \in Objects,
               create_sock_addr_in(v, w, port)
        PROVE  AddressInv'
    <2>1. obj[w] \in IPAddresses /\ obj[w].m_in4 # NULL
      BY <1>3 DEF create_sock_addr_in, get_ipv4, AddressInv
    <2>2. obj[w].m_in4.sin_addr \in Words
      BY <2>1 DEF IPAddresses, sockaddr_in
    <2>3. Meaning("AF_INET", obj[w].m_in4.sin_addr, port, FALSE) \in Meanings
      BY <2>2 DEF Meaning, Meanings
    <2>4. QED
      BY <1>3, <2>2, <2>3, Made4, IsInv DEF create_sock_addr_in
  <1>4. CASE UNCHANGED address_vars
    BY <1>4 DEF address_vars, AddressInv
  <1>5. QED
    BY <1>1, <1>2, <1>3, <1>4, ConstructInv DEF AddressNext

(* AddressInv holds in every reachable state.                              *)
LEMMA AddressesAreKept == AddressSpec => []AddressInv
  BY AddressInitInv, AddressStepInv, PTL DEF AddressSpec

-----------------------------------------------------------------------------
(* The results.                                                            *)

(* The members of an object made without a sockaddr_storage.               *)
LEMMA AsMadeMembers ==
  ASSUME AddressInv, NEW v \in AsMade
  PROVE  /\ v \in Objects /\ meant[v] \in Meanings /\ ~meant[v].stored
         /\ meant[v].family \in Families
         /\ ObjectInv(obj[v], meant[v])
         /\ obj[v] = Made(meant[v])
         /\ obj[v].m_in4 # NULL <=> meant[v].family = "AF_INET"
         /\ obj[v].m_in6 # NULL <=> meant[v].family = "AF_INET6"
  <1>1. v \in Objects /\ valid(obj[v]) /\ ~meant[v].stored
    BY DEF AsMade, ValidObjects
  <1>2. meant[v] \in Meanings /\ meant[v] # NULL /\ ObjectInv(obj[v], meant[v])
    BY <1>1, ValidIsMeant DEF AddressInv
  <1>3. meant[v].family \in Families
    BY <1>2 DEF Meanings, Families
  <1>4. QED
    BY <1>1, <1>2, <1>3, OneSockaddr DEF ObjectInv, Families

(* The type of the addresses: an object is valid exactly when it was given *)
(* an address, and holds one sockaddr_in or sockaddr_in6 (IPAddress.hpp).  *)
THEOREM AddressesAreTyped == AddressSpec => []AddressTypeOK
  <1>1. AddressInv => AddressTypeOK
    BY ValidIsMeant DEF AddressInv, AddressTypeOK
  <1>2. QED
    BY <1>1, AddressesAreKept, PTL

(* The getters of IPAddress.hpp tell the port and the family that were     *)
(* given, whatever constructor was used and however often the port was set.*)
THEOREM ObjectsTellTheTruth == AddressSpec => []ObjectsTellWhatWasMeant
  <1>1. ASSUME AddressInv PROVE ObjectsTellWhatWasMeant
    <2>1. ASSUME NEW v \in ValidObjects
          PROVE  get_port(obj[v]) = meant[v].port
      <3>1. v \in Objects /\ meant[v] # NULL
        BY <1>1, ValidIsMeant DEF ValidObjects
      <3>2. meant[v] \in Meanings /\ ObjectInv(obj[v], meant[v])
        BY <1>1, <3>1 DEF AddressInv
      <3>3. QED
        BY <3>2, HasPort
    <2>2. ASSUME NEW v \in AsMade
          PROVE  /\ obj[v].m_in4 # NULL => obj[v].m_in4.sin_family = "AF_INET"
                 /\ obj[v].m_in6 # NULL => obj[v].m_in6.sin6_family = "AF_INET6"
      <3>1. CASE meant[v].family = "AF_INET"
        <4>1. obj[v].m_in4 = [sin_family |-> "AF_INET", sin_port |-> htons(meant[v].port),
                              sin_addr |-> meant[v].addr]
          BY <1>1, <3>1, AsMadeMembers DEF Made, FromAddr4, Empty
        <4>2. obj[v].m_in6 = NULL
          BY <1>1, <3>1, AsMadeMembers
        <4>3. QED
          BY <4>1, <4>2
      <3>2. CASE meant[v].family = "AF_INET6"
        <4>1. obj[v].m_in6 = [sin6_family |-> "AF_INET6", sin6_port |-> htons(meant[v].port),
                              sin6_addr |-> meant[v].addr]
          BY <1>1, <3>2, AsMadeMembers DEF Made, FromAddr6, Empty
        <4>2. obj[v].m_in4 = NULL
          BY <1>1, <3>2, AsMadeMembers
        <4>3. QED
          BY <4>1, <4>2
      <3>3. QED
        BY <1>1, <3>1, <3>2, AsMadeMembers DEF Families
    <2>3. QED
      BY <1>1, <2>1, <2>2, AsMadeMembers DEF ObjectsTellWhatWasMeant, get_ipv4, get_ipv6
  <1>2. QED
    BY <1>1, AddressesAreKept, PTL

(* operator== of IPAddress.cpp holds between two objects exactly when they *)
(* were made for the same family, address and port.                        *)
THEOREM EqualityIsExact == AddressSpec => []EqualMeansSameAddress
  <1>1. ASSUME AddressInv, NEW v \in AsMade, NEW w \in AsMade
        PROVE  Equal(obj[v], obj[w]) <=> meant[v] = meant[w]
    <2> DEFINE m == meant[v]
               n == meant[w]
    <2>1. /\ m \in Meanings /\ ~m.stored /\ obj[v] = Made(m)
          /\ n \in Meanings /\ ~n.stored /\ obj[w] = Made(n)
          /\ m.family \in Families /\ n.family \in Families
      BY <1>1, AsMadeMembers
    <2>2. m = n <=> m.family = n.family /\ m.addr = n.addr /\ m.port = n.port
      BY <2>1 DEF Meanings
    <2>3. m.port \in Ports /\ n.port \in Ports
      BY <2>1 DEF Meanings
    <2>4. m.port = n.port <=> htons(m.port) = htons(n.port)
      BY <2>3, PortsComeBack
    <2>5. CASE m.family # n.family
      <3>1. ~Equal(obj[v], obj[w])
        BY <1>1, <2>1, <2>5, AsMadeMembers DEF Equal, Families
      <3>2. QED
        BY <2>2, <2>5, <3>1
    <2>6. CASE m.family = "AF_INET" /\ n.family = "AF_INET"
      <3>1. Equal(obj[v], obj[w]) <=> obj[v].m_in4 = obj[w].m_in4
        BY <1>1, <2>6, AsMadeMembers DEF Equal
      <3>2. /\ obj[v].m_in4 = [sin_family |-> "AF_INET", sin_port |-> htons(m.port), sin_addr |-> m.addr]
            /\ obj[w].m_in4 = [sin_family |-> "AF_INET", sin_port |-> htons(n.port), sin_addr |-> n.addr]
        BY <2>1, <2>6 DEF Made, FromAddr4, Empty
      <3>3. QED
        BY <2>2, <2>4, <2>6, <3>1, <3>2
    <2>7. CASE m.family = "AF_INET6" /\ n.family = "AF_INET6"
      <3>1. Equal(obj[v], obj[w]) <=> obj[v].m_in6 = obj[w].m_in6
        BY <1>1, <2>7, AsMadeMembers DEF Equal, Families
      <3>2. /\ obj[v].m_in6 = [sin6_family |-> "AF_INET6", sin6_port |-> htons(m.port), sin6_addr |-> m.addr]
            /\ obj[w].m_in6 = [sin6_family |-> "AF_INET6", sin6_port |-> htons(n.port), sin6_addr |-> n.addr]
        BY <2>1, <2>7 DEF Made, FromAddr6, Empty
      <3>3. QED
        BY <2>2, <2>4, <2>7, <3>1, <3>2
    <2>8. m.family \in {"AF_INET", "AF_INET6"} /\ n.family \in {"AF_INET", "AF_INET6"}
      BY <2>1 DEF Families
    <2>9. \/ m.family # n.family
          \/ m.family = "AF_INET" /\ n.family = "AF_INET"
          \/ m.family = "AF_INET6" /\ n.family = "AF_INET6"
      BY <2>8
    <2>10. QED
      BY <2>5, <2>6, <2>7, <2>9
  <1>2. AddressInv => EqualMeansSameAddress
    BY <1>1 DEF EqualMeansSameAddress
  <1>3. QED
    BY <1>2, AddressesAreKept, PTL

(* The highest of some bits, when words have a width. *)
LEMMA HighestBit ==
  ASSUME NEW width \in Nat, Bits \subseteq 0 .. width, NEW D, D \subseteq Bits, D # {}
  PROVE  \E i \in D : \A j \in D : j <= i
  <1> DEFINE R == {width - i : i \in D}
             Smaller == {ss \in Nat \X Nat : ss[1] < ss[2]}
  <1>1. R \subseteq Nat /\ R # {}
    <2>1. ASSUME NEW i \in D
          PROVE  width - i \in Nat
      <3>1. i \in 0 .. width
        OBVIOUS
      <3>2. i \in Int /\ i <= width /\ width \in Int
        BY <3>1
      <3>3. QED
        BY <3>2
    <2>2. QED
      BY <2>1
  <1>2. IsWellFoundedOn(Smaller, Nat)
    BY NatLessThanWellFounded DEF OpToRel
  <1>3. PICK r \in R : \A q \in R : <<q, r>> \notin Smaller
    <2> HIDE DEF Smaller, R
    <2>1. QED
      BY <1>1, <1>2, WFMin
  <1>4. \A q \in R : r <= q
    <2>1. SUFFICES ASSUME NEW q \in R
                   PROVE  r <= q
      OBVIOUS
    <2>2. q \in Nat /\ r \in Nat
      BY <1>1
    <2>3. <<q, r>> \in Nat \X Nat /\ <<q, r>>[1] = q /\ <<q, r>>[2] = r
      BY <2>2
    <2>4. ~(q < r)
      BY <1>3, <2>3
    <2>5. QED
      BY <2>2, <2>4
  <1>5. PICK i \in D : r = width - i
    BY <1>3
  <1>6. ASSUME NEW j \in D
        PROVE  j <= i
    <2>1. r <= width - j /\ i \in Int /\ j \in Int
      BY <1>4
    <2>2. QED
      BY <1>5, <2>1
  <1>7. QED
    BY <1>6

(* < on words is irreflexive.                                              *)
LEMMA NotLessThanItself ==
  ASSUME NEW v \in Words
  PROVE  ~WordLess(v, v)
  BY DEF WordLess

(* It is total where words have a width: the highest bit in which two      *)
(* words differ is in one of them.                                         *)
LEMMA WordsAreOrdered ==
  ASSUME NEW width \in Nat, Bits \subseteq 0 .. width,
         NEW v \in Words, NEW w \in Words, v # w
  PROVE  WordLess(v, w) <=> ~WordLess(w, v)
  <1> DEFINE D == (v \ w) \cup (w \ v)
  <1>1. v \subseteq Bits /\ w \subseteq Bits
    BY DEF Words
  <1>2. D \subseteq Bits /\ D # {}
    BY <1>1
  <1>3. PICK i \in D : \A j \in D : j <= i
    <2> HIDE DEF D
    <2>1. QED
      BY <1>2, HighestBit
  <1> HIDE DEF D
  <1>4. \A k \in D : k <= i /\ k \in Int /\ k \in Bits
    BY <1>2, <1>3
  <1> USE DEF D
  <1>5. \A j \in Bits : j > i => (j \in v <=> j \in w)
    <2>1. SUFFICES ASSUME NEW j \in Bits, j > i, j \in D
                   PROVE  FALSE
      OBVIOUS
    <2>2. j <= i /\ i \in Int /\ j \in Int
      BY <1>2, <1>3, <1>4, <2>1
    <2>3. QED
      BY <2>1, <2>2
  <1>6. \A k \in D : (\A j \in Bits : j > k => (j \in v <=> j \in w)) => k = i
    <2>1. SUFFICES ASSUME NEW k \in D, \A j \in Bits : j > k => (j \in v <=> j \in w)
                   PROVE  k = i
      OBVIOUS
    <2>2. k <= i /\ i \in Int /\ k \in Int /\ i \in Bits
      <3> HIDE DEF D
      <3>1. QED
        BY <1>3, <1>4, <2>1
    <2>3. ~(i > k)
      <3>1. i > k => (i \in v <=> i \in w)
        BY <2>1, <2>2
      <3>2. ~(i \in v <=> i \in w)
        BY <1>3
      <3>3. QED
        BY <3>1, <3>2
    <2>4. QED
      BY <2>2, <2>3
  <1>7. WordLess(v, w) <=> i \in w \ v
    BY <1>3, <1>5, <1>6 DEF WordLess
  <1>8. WordLess(w, v) <=> i \in v \ w
    BY <1>3, <1>5, <1>6 DEF WordLess
  <1>9. QED
    BY <1>3, <1>7, <1>8

(* The hash that operator< compares and the operators == of IPAddress.cpp  *)
(* agree: equal objects have the same hash, and neither comes before the   *)
(* other; of two IPv4 addresses that differ, exactly one does.             *)
THEOREM OrderIsConsistent ==
  ASSUME NEW width \in Nat, Bits \subseteq 0 .. width
  PROVE  AddressSpec => []OrderAgreesWithEqual
  <1>1. ASSUME AddressInv, NEW v \in ValidObjects, NEW w \in ValidObjects, Equal(obj[v], obj[w])
        PROVE  get_hash(obj[v]) = get_hash(obj[w]) /\ ~Less(obj[v], obj[w])
    <2>1. /\ v \in Objects /\ meant[v] \in Meanings /\ ObjectInv(obj[v], meant[v])
          /\ w \in Objects /\ meant[w] \in Meanings /\ ObjectInv(obj[w], meant[w])
      BY <1>1, ValidIsMeant DEF ValidObjects, AddressInv
    <2>2. /\ obj[v].m_in6 # NULL <=> obj[v].m_in4 = NULL
          /\ obj[w].m_in6 # NULL <=> obj[w].m_in4 = NULL
          /\ obj[v] \in IPAddresses
      BY <2>1, OneSockaddr DEF ObjectInv
    <2>3. get_hash(obj[v]) = get_hash(obj[w])
      <3>1. \/ obj[v].m_in4 # NULL /\ obj[v].m_in4 = obj[w].m_in4
            \/ obj[v].m_in4 = NULL /\ obj[w].m_in4 = NULL /\ obj[v].m_in6 = obj[w].m_in6
        BY <1>1, <2>2 DEF Equal
      <3>2. QED
        BY <3>1 DEF get_hash
    <2>4. get_hash(obj[v]).low \in Words /\ get_hash(obj[v]).high \in Words
      <3>1. CASE obj[v].m_in4 # NULL
        <4>1. obj[v].m_in4.sin_addr \in Words /\ {} \in Words
          BY <2>2, <3>1 DEF IPAddresses, sockaddr_in, Words
        <4>2. QED
          BY <3>1, <4>1 DEF get_hash
      <3>2. CASE obj[v].m_in4 = NULL
        <4>1. obj[v].m_in6.sin6_addr \in Words \X Words \X Words \X Words
          BY <2>2, <3>2, IPAddressAssumption DEF IPAddresses, sockaddr_in6
        <4>2. \A a \in Words, b \in Words : a \cup b \in Words
          BY DEF Words
        <4>3. QED
          BY <3>2, <4>1, <4>2 DEF get_hash
      <3>3. QED
        BY <3>1, <3>2
    <2>5. ~Less(obj[v], obj[w])
      BY <2>3, <2>4, NotLessThanItself DEF Less
    <2>6. QED
      BY <2>3, <2>5
  <1>2. ASSUME AddressInv, NEW v \in AsMade, NEW w \in AsMade,
               get_ipv4(obj[v]) # NULL, get_ipv4(obj[w]) # NULL, meant[v].addr # meant[w].addr
        PROVE  Less(obj[v], obj[w]) <=> ~Less(obj[w], obj[v])
    <2> DEFINE m == meant[v].addr
               n == meant[w].addr
    <2>1. /\ meant[v] \in Meanings /\ obj[v] = Made(meant[v]) /\ meant[v].family = "AF_INET"
          /\ meant[w] \in Meanings /\ obj[w] = Made(meant[w]) /\ meant[w].family = "AF_INET"
      BY <1>2, AsMadeMembers DEF get_ipv4
    <2>2. m \in Words /\ n \in Words /\ {} \in Words
      BY <2>1 DEF Meanings, Words
    <2>3. /\ get_hash(obj[v]) = [low |-> m, high |-> {}]
          /\ get_hash(obj[w]) = [low |-> n, high |-> {}]
      BY <1>2, <2>1 DEF get_hash, get_ipv4, Made, FromAddr4, Empty
    <2>4. /\ Less(obj[v], obj[w]) <=> WordLess(m, n)
          /\ Less(obj[w], obj[v]) <=> WordLess(n, m)
      BY <2>2, <2>3, NotLessThanItself DEF Less
    <2>5. WordLess(m, n) <=> ~WordLess(n, m)
      <3>1. m # n
        BY <1>2
      <3> HIDE DEF m, n
      <3>2. QED
        BY <2>2, <3>1, WordsAreOrdered
    <2>6. QED
      BY <2>4, <2>5
  <1>3. AddressInv => OrderAgreesWithEqual
    BY <1>1, <1>2 DEF OrderAgreesWithEqual
  <1>4. QED
    BY <1>3, AddressesAreKept, PTL

-----------------------------------------------------------------------------
(* SendPacket. *)

(* A function on 1 .. n is a sequence of length n. *)
LEMMA FunctionIsSeq ==
  ASSUME NEW S, NEW n \in Nat, NEW f \in [1 .. n -> S]
  PROVE  f \in Seq(S) /\ Len(f) = n
  OBVIOUS

(* Turning the bytes of a number round twice gives the number: what        *)
(* append_uint16 and append_uint32 leave in memory is network byte order.  *)
LEMMA ReversedTwice ==
  ASSUME NEW v \in Seq(Octets)
  PROVE  InMemory(ntoh(v)) = v
  <1>1. Len(v) \in Nat /\ v \in [1 .. Len(v) -> Octets]
    BY LenProperties
  <1>2. \A i \in 1 .. Len(v) : Len(v) + 1 - i \in 1 .. Len(v)
    BY <1>1
  <1>3. Reversed(v) \in Seq(Octets) /\ Len(Reversed(v)) = Len(v)
    <2>1. Reversed(v) \in [1 .. Len(v) -> Octets]
      BY <1>1, <1>2 DEF Reversed
    <2>2. QED
      BY <2>1, <1>1, FunctionIsSeq
  <1>4. \A i \in 1 .. Len(v) : Reversed(v)[i] = v[Len(v) + 1 - i]
    BY DEF Reversed
  <1>5. Reversed(Reversed(v)) \in Seq(Octets) /\ Len(Reversed(Reversed(v))) = Len(v)
    <2>1. Reversed(Reversed(v)) \in [1 .. Len(v) -> Octets]
      BY <1>1, <1>2, <1>3, <1>4 DEF Reversed
    <2>2. QED
      BY <2>1, <1>1, FunctionIsSeq
  <1>6. \A i \in 1 .. Len(v) : Reversed(Reversed(v))[i] = v[i]
    <2>1. SUFFICES ASSUME NEW i \in 1 .. Len(v)
                   PROVE  Reversed(Reversed(v))[i] = v[i]
      OBVIOUS
    <2>2. Reversed(Reversed(v))[i] = Reversed(v)[Len(v) + 1 - i]
      BY <1>3 DEF Reversed
    <2>3. Reversed(v)[Len(v) + 1 - i] = v[Len(v) + 1 - (Len(v) + 1 - i)]
      BY <1>2, <1>4
    <2>4. Len(v) + 1 - (Len(v) + 1 - i) = i
      BY <1>1
    <2>5. QED
      BY <2>2, <2>3, <2>4
  <1>7. QED
    BY <1>5, <1>6, SeqEqual DEF InMemory, ntoh

(* A structure is appended as bytes. *)
LEMMA ConstructedIsBytes ==
  ASSUME NEW t \in Seq(Octets \cup {PAD})
  PROVE  Constructed(t) \in Seq(Octets)
  <1>1. Len(t) \in Nat /\ t \in [1 .. Len(t) -> Octets \cup {PAD}]
    BY LenProperties
  <1>2. Constructed(t) \in [1 .. Len(t) -> Octets]
    BY <1>1, SendPacketAssumption DEF Constructed
  <1>3. QED
    BY <1>1, <1>2, FunctionIsSeq

-----------------------------------------------------------------------------
(* The invariant.                                                          *)

PacketInv ==
  /\ PacketTypeOK
  /\ item = "ACQUIRED" => gets = 0 /\ m_size = 0 /\ appended = <<>>
  /\ item = "FILLING" => gets >= 1
  /\ item \in {"SUBMITTED", "SENT"} => length = m_size
  /\ PacketHoldsWhatWasAppended
  /\ DoneMeansSent

(* The invariant holds before the first item is acquired.                  *)
LEMMA PacketInitInv == PacketInit => PacketInv
  <1> SUFFICES ASSUME PacketInit
               PROVE  PacketInv
    OBVIOUS
  <1>1. Capacity \in Nat \ {0} /\ MaxGets \in Nat
    BY SendPacketAssumption
  <1>2. QED
    <2>1. <<>> \in Seq(Octets) /\ 0 \in Indexes /\ 0 \in 0 .. MaxGets
      BY <1>1 DEF Indexes
    <2>2. PacketTypeOK /\ item = "NONE"
      BY <2>1 DEF PacketInit, PacketTypeOK, ItemPhases
    <2>3. QED
      BY <2>2 DEF PacketInv, PacketHoldsWhatWasAppended, DoneMeansSent

(* The contents of a packet are a sequence of bytes. *)
LEMMA ContentsTyped ==
  ASSUME PacketTypeOK
  PROVE  /\ m_size \in Nat /\ Capacity \in Nat
         /\ Contents \in Seq(Octets)
         /\ Len(Contents) = m_size
         /\ \A i \in 1 .. m_size : Contents[i] = m_buf[i - 1]
  <1>1. m_size \in Nat /\ m_size < Capacity /\ Capacity \in Nat
    BY SendPacketAssumption DEF PacketTypeOK, Indexes
  <1>2. \A i \in 1 .. m_size : i - 1 \in Indexes
    BY <1>1 DEF Indexes
  <1>3. Contents \in [1 .. m_size -> Octets]
    BY <1>2 DEF Contents, PacketTypeOK
  <1>4. QED
    BY <1>1, <1>3, FunctionIsSeq DEF Contents

(* What append does to the buffer, when the data fits. *)
LEMMA AppendedContents ==
  ASSUME PacketTypeOK, NEW data \in Seq(Octets), Fits(Len(data)),
         m_buf' = Copied(data), m_size' = m_size + Len(data)
  PROVE  /\ m_size' \in Indexes
         /\ m_buf' \in [Indexes -> Octets]
         /\ Contents' = Contents \o data
  <1>0. /\ m_size \in Nat /\ Capacity \in Nat /\ Len(data) \in Nat
        /\ m_size + Len(data) < Capacity
        /\ data \in [1 .. Len(data) -> Octets]
        /\ m_buf \in [Indexes -> Octets]
    BY ContentsTyped, LenProperties DEF Fits, PacketTypeOK
  <1>1. m_size' \in Indexes
    BY <1>0 DEF Indexes
  <1>2. m_buf' \in [Indexes -> Octets]
    <2>1. \A i \in Indexes : m_size <= i /\ i < m_size + Len(data) =>
            i - m_size + 1 \in 1 .. Len(data)
      BY <1>0 DEF Indexes
    <2>2. QED
      BY <1>0, <2>1 DEF Copied
  <1>3. Contents' = [i \in 1 .. m_size + Len(data) |-> m_buf'[i - 1]]
    BY DEF Contents
  <1>4. \A i \in 1 .. m_size + Len(data) : i - 1 \in Indexes
    BY <1>0 DEF Indexes
  <1>5. Contents' \in Seq(Octets) /\ Len(Contents') = m_size + Len(data)
    <2>1. Contents' \in [1 .. m_size + Len(data) -> Octets]
      BY <1>2, <1>3, <1>4
    <2>2. m_size + Len(data) \in Nat
      BY <1>0
    <2>3. QED
      BY <2>1, <2>2, FunctionIsSeq
  <1>6. /\ Contents \o data \in Seq(Octets)
        /\ Len(Contents \o data) = m_size + Len(data)
        /\ \A i \in 1 .. m_size + Len(data) :
             (Contents \o data)[i] = IF i <= m_size THEN Contents[i] ELSE data[i - m_size]
    BY ContentsTyped, ConcatProperties
  <1>7. \A i \in 1 .. m_size + Len(data) : Contents'[i] = (Contents \o data)[i]
    <2>1. SUFFICES ASSUME NEW i \in 1 .. m_size + Len(data)
                   PROVE  Contents'[i] = (Contents \o data)[i]
      OBVIOUS
    <2>2. Contents'[i] = Copied(data)[i - 1]
      BY <1>3
    <2>3. Copied(data)[i - 1] = IF m_size <= i - 1 /\ i - 1 < m_size + Len(data)
                                  THEN data[i - 1 - m_size + 1] ELSE m_buf[i - 1]
      BY <1>4 DEF Copied
    <2>4. CASE i <= m_size
      BY <1>0, <1>6, <2>2, <2>3, <2>4, ContentsTyped
    <2>5. CASE ~(i <= m_size)
      <3>1. m_size <= i - 1 /\ i - 1 < m_size + Len(data) /\ i - 1 - m_size + 1 = i - m_size
        BY <1>0, <2>5
      <3>2. QED
        BY <1>6, <2>2, <2>3, <2>5, <3>1
    <2>6. QED
      BY <2>4, <2>5
  <1>8. QED
    BY <1>1, <1>2, <1>5, <1>6, <1>7, SeqEqual

(* An append keeps the packet equal to what was appended, or ends the run. *)
LEMMA AppendBytesInv ==
  ASSUME PacketInv, NEW data \in Seq(Octets), AppendBytes(data, data)
  PROVE  PacketInv'
  <1>0. PacketTypeOK
    BY DEF PacketInv
  <1>1. CASE Fits(Len(data)) /\ m_buf' = Copied(data) /\ m_size' = m_size + Len(data)
             /\ appended' = appended \o data /\ UNCHANGED item
    <2>1. m_size' \in Indexes /\ m_buf' \in [Indexes -> Octets] /\ Contents' = Contents \o data
      BY <1>0, <1>1, AppendedContents
    <2>2. appended' \in Seq(Octets)
      BY <1>0, <1>1, ConcatProperties DEF PacketTypeOK
    <2>3. PacketTypeOK'
      BY <1>0, <1>1, <2>1, <2>2 DEF PacketTypeOK, AppendBytes, Indexes
    <2>4. item = "FILLING" /\ item' = "FILLING" /\ gets' = gets
      BY <1>1 DEF AppendBytes
    <2>5. gets <= 1 => Contents' = appended'
      BY <1>1, <2>1, <2>4 DEF PacketInv, PacketHoldsWhatWasAppended
    <2>6. QED
      BY <2>3, <2>4, <2>5 DEF PacketInv, PacketHoldsWhatWasAppended, DoneMeansSent
  <1>2. CASE item' = "ABORTED" /\ UNCHANGED <<m_buf, m_size, appended>>
    BY <1>2 DEF PacketInv, PacketTypeOK, AppendBytes, ItemPhases, PacketHoldsWhatWasAppended,
      DoneMeansSent, Indexes
  <1>3. QED
    BY <1>1, <1>2 DEF AppendBytes

(* The first get_send_packet of an item finds it empty; of later ones the  *)
(* invariant says nothing.                                                 *)
LEMMA GetInv ==
  ASSUME PacketInv, get_send_packet
  PROVE  PacketInv'
  <1>0. /\ Capacity \in Nat \ {0} /\ MaxGets \in Nat /\ gets \in Nat
        /\ 0 \in Octets /\ m_buf \in [Indexes -> Octets]
    BY SendPacketAssumption DEF PacketInv, PacketTypeOK
  <1>1. m_buf' \in [Indexes -> Octets] /\ m_size' = 0 /\ m_size' \in Indexes
    BY <1>0 DEF get_send_packet, reset, Indexes
  <1>2. PacketTypeOK'
    BY <1>0, <1>1 DEF PacketInv, PacketTypeOK, get_send_packet, ItemPhases, Indexes
  <1>3. gets' <= 1 => appended' = <<>>
    BY <1>0 DEF PacketInv, get_send_packet
  <1>4. Contents' = <<>>
    <2>1. Contents' \in Seq(Octets) /\ Len(Contents') = 0
      <3>1. Contents' = [i \in 1 .. 0 |-> m_buf'[i - 1]]
        BY <1>1 DEF Contents
      <3>2. Contents' \in [1 .. 0 -> Octets]
        BY <3>1
      <3>3. QED
        BY <3>2, FunctionIsSeq
    <2>2. QED
      BY <2>1, EmptySeq
  <1>5. QED
    BY <1>0, <1>2, <1>3, <1>4 DEF PacketInv, get_send_packet, PacketHoldsWhatWasAppended,
      DoneMeansSent

(* The kernel is given the size of what was appended.                      *)
LEMMA SubmitInv ==
  ASSUME PacketInv, submit
  PROVE  PacketInv'
  <1>1. PacketTypeOK'
    BY DEF PacketInv, PacketTypeOK, submit, ItemPhases, Indexes
  <1>2. Contents' = Contents
    BY DEF submit, Contents
  <1>3. item = "ACQUIRED" => Contents = appended
    <2>1. SUFFICES ASSUME item = "ACQUIRED"
                   PROVE  Contents = <<>>
      BY DEF PacketInv
    <2>2. Len(Contents) = 0 /\ Contents \in Seq(Octets)
      BY <2>1, ContentsTyped DEF PacketInv
    <2>3. QED
      BY <2>2, EmptySeq
  <1>4. QED
    BY <1>1, <1>2, <1>3 DEF PacketInv, submit, PacketHoldsWhatWasAppended, DoneMeansSent

(* What the kernel sends is the packet, or of a stream a first part.       *)
LEMMA KernelSendsInv ==
  ASSUME PacketInv, KernelSends
  PROVE  PacketInv'
  <1>1. PICK n \in IF stream /\ length > 0 THEN 1 .. length ELSE {length} :
          wire' = [i \in 1 .. n |-> m_buf[i - 1]]
    BY DEF KernelSends
  <1>2. /\ item = "SUBMITTED" /\ item' = "SENT" /\ length = m_size
        /\ UNCHANGED <<stream, gets, m_size, m_buf, appended, length>>
        /\ PacketTypeOK
    BY DEF PacketInv, KernelSends
  <1>3. n \in Nat /\ n <= m_size /\ (~stream => n = m_size)
    BY <1>1, <1>2, ContentsTyped
  <1>4. wire' \in Seq(Octets) /\ Len(wire') = n /\ \A i \in 1 .. n : wire'[i] = m_buf[i - 1]
    <2>1. \A i \in 1 .. n : i - 1 \in Indexes
      BY <1>2, <1>3, SendPacketAssumption DEF PacketTypeOK, Indexes
    <2>2. wire' \in [1 .. n -> Octets]
      BY <1>1, <1>2, <2>1 DEF PacketTypeOK
    <2>3. QED
      BY <1>1, <1>3, <2>2, FunctionIsSeq
  <1>5. PacketTypeOK'
    BY <1>2, <1>4 DEF PacketTypeOK, ItemPhases, Indexes
  <1>6. Contents' = Contents
    BY <1>2 DEF Contents
  <1>7. ASSUME gets <= 1
        PROVE  /\ Len(wire') <= Len(appended)
               /\ wire' = SubSeq(appended, 1, Len(wire'))
               /\ ~stream => wire' = appended
    <2>1. appended = Contents
      BY <1>2, <1>7 DEF PacketInv, PacketHoldsWhatWasAppended
    <2>2. /\ Len(appended) = m_size /\ appended \in Seq(Octets) /\ m_size \in Nat
          /\ \A i \in 1 .. m_size : appended[i] = m_buf[i - 1]
      BY <1>2, <2>1, ContentsTyped
    <2>3. \A i \in 1 .. n : appended[i] \in Octets
      BY <1>3, <2>2, ElementOfSeq
    <2>4. /\ SubSeq(appended, 1, n) \in Seq(Octets)
          /\ Len(SubSeq(appended, 1, n)) = n
          /\ \A i \in 1 .. n : SubSeq(appended, 1, n)[i] = appended[i]
      BY <1>3, <2>3
    <2>5. \A i \in 1 .. n : wire'[i] = appended[i]
      BY <1>3, <1>4, <2>2
    <2>6. wire' = SubSeq(appended, 1, n)
      BY <1>4, <2>4, <2>5, SeqEqual
    <2>7. ~stream => wire' = appended
      BY <1>3, <1>4, <2>2, <2>5, SeqEqual
    <2>8. QED
      BY <1>3, <1>4, <2>2, <2>6, <2>7
  <1>8. QED
    BY <1>2, <1>5, <1>6, <1>7 DEF PacketInv, PacketHoldsWhatWasAppended, DoneMeansSent

(* The invariant is inductive.                                             *)
LEMMA PacketStep == PacketInv /\ [PacketNext]_packet_vars => PacketInv'
  <1> SUFFICES ASSUME PacketInv, [PacketNext]_packet_vars
               PROVE  PacketInv'
    OBVIOUS
  <1>0. /\ Capacity \in Nat \ {0} /\ MaxGets \in Nat /\ 0 \in Octets
        /\ m_size \in Indexes
    BY SendPacketAssumption DEF PacketInv, PacketTypeOK
  <1>1. CASE ackuire_send_workitem
    BY <1>0, <1>1, EmptySeq DEF ackuire_send_workitem, PacketInv, PacketTypeOK, ItemPhases,
      Indexes, PacketHoldsWhatWasAppended, DoneMeansSent
  <1>2. CASE get_send_packet
    BY <1>2, GetInv
  <1>3. CASE submit
    BY <1>3, SubmitInv
  <1>4. CASE \E text \in Texts : append(text)
    BY <1>4, AppendBytesInv, SendPacketAssumption DEF append
  <1>5. CASE \E v \in Numbers : append_uint(v)
    <2>1. PICK v \in Numbers : append_uint(v)
      BY <1>5
    <2>2. v \in Seq(Octets)
      BY SendPacketAssumption
    <2>3. AppendBytes(v, v)
      BY <2>1, <2>2, ReversedTwice DEF append_uint
    <2>4. QED
      BY <2>2, <2>3, AppendBytesInv
  <1>6. CASE \E t \in Structs : emplace_back(t)
    <2>1. PICK t \in Structs : emplace_back(t)
      BY <1>6
    <2>2. Constructed(t) \in Seq(Octets)
      BY SendPacketAssumption, ConstructedIsBytes
    <2>3. QED
      BY <2>1, <2>2, AppendBytesInv DEF emplace_back
  <1>7. CASE KernelSends
    BY <1>7, KernelSendsInv
  <1>8. CASE KernelRefuses
    BY <1>8 DEF KernelRefuses, PacketInv, PacketTypeOK, ItemPhases, Indexes,
      PacketHoldsWhatWasAppended, DoneMeansSent
  <1>9. CASE call_send_callback
    <2>1. m_size' \in Indexes /\ m_buf' \in [Indexes -> Octets]
      BY <1>0, <1>9 DEF call_send_callback, reset, PacketInv, PacketTypeOK, Indexes
    <2>2. QED
      BY <1>9, <2>1 DEF call_send_callback, PacketInv, PacketTypeOK, ItemPhases, Indexes,
        PacketHoldsWhatWasAppended, DoneMeansSent
  <1>10. CASE UNCHANGED packet_vars
    BY <1>10 DEF packet_vars, PacketInv, PacketTypeOK, ItemPhases, Indexes,
      PacketHoldsWhatWasAppended, DoneMeansSent, Contents
  <1>11. QED
    BY <1>1, <1>2, <1>3, <1>4, <1>5, <1>6, <1>7, <1>8, <1>9, <1>10 DEF PacketNext

(* append and emplace_back (SendPacket.hpp) never write behind the end of  *)
(* the buffer and leave its last byte unused, for any capacity.            *)
THEOREM PacketsStayInBounds == PacketSpec => []PacketTypeOK
  <1>1. PacketInv => PacketTypeOK
    BY DEF PacketInv
  <1>2. QED
    BY <1>1, PacketInitInv, PacketStep, PTL DEF PacketSpec

(* What was appended to a packet that was asked for once is what is sent:  *)
(* all of it and nothing else, numbers in network byte order, of a stream  *)
(* perhaps a first part only, for data of any size.                        *)
THEOREM SendsWhatWasAppended ==
  PacketSpec => [](PacketHoldsWhatWasAppended /\ DoneMeansSent)
  <1>1. PacketInv => PacketHoldsWhatWasAppended /\ DoneMeansSent
    BY DEF PacketInv
  <1>2. QED
    BY <1>1, PacketInitInv, PacketStep, PTL DEF PacketSpec

-----------------------------------------------------------------------------
(* NetworkAdapter. *)

(* An address that is found is one of the interface at that moment.        *)
LEMMA FoundAddressIsAssigned ==
  ASSUME NEW addresses, NEW before, NEW both,
         ifaddrs \subseteq Interfaces \X both,
         FoundAddress(addresses, before) # before
  PROVE  /\ FoundAddress(addresses, before) \in addresses
         /\ <<m_interface_name, FoundAddress(addresses, before)>> \in ifaddrs
  <1> DEFINE found == {e[2] : e \in Considered} \cap addresses
             a == FoundAddress(addresses, before)
  <1>1. a \in found
    <2>1. found # {} /\ a = CHOOSE x \in found : TRUE
      BY DEF FoundAddress
    <2>2. QED
      BY <2>1
  <1>2. PICK e \in Considered : e[2] = a
    BY <1>1
  <1>3. e \in ifaddrs /\ e[1] = m_interface_name
    BY <1>2 DEF Considered
  <1>4. e = <<e[1], e[2]>>
    BY <1>3
  <1>5. QED
    BY <1>1, <1>2, <1>3, <1>4

(* The address, old or new, is one of the family.                          *)
LEMMA FoundAddressTyped ==
  ASSUME NEW addresses, NEW before \in addresses \cup {NoAddress}
  PROVE  FoundAddress(addresses, before) \in addresses \cup {NoAddress}
  <1> DEFINE found == {e[2] : e \in Considered} \cap addresses
  <1>1. CASE found = {}
    BY <1>1 DEF FoundAddress
  <1>2. CASE found # {}
    <2>1. FoundAddress(addresses, before) = CHOOSE x \in found : TRUE
      BY <1>2 DEF FoundAddress
    <2>2. (CHOOSE x \in found : TRUE) \in found
      BY <1>2
    <2>3. QED
      BY <2>1, <2>2
  <1>3. QED
    BY <1>1, <1>2

(* The adapter starts without an address, looking for one.                 *)
LEMMA AdapterInitTyped == AdapterInit => AdapterTypeOK
  BY DEF AdapterInit, AdapterTypeOK, AdapterPhases

(* Every step of init(), of the host and of get_my_mac_address keeps the   *)
(* types, and none leaves the loop without an address.                     *)
LEMMA AdapterStepTyped ==
  ASSUME AdapterTypeOK, [AdapterNext]_adapter_vars
  PROVE  AdapterTypeOK'
  <1>1. ASSUME NEW i \in Interfaces,
               AddressComes(i, Addresses4) \/ AddressComes(i, Addresses6)
        PROVE  AdapterTypeOK'
    BY <1>1 DEF AddressComes, AdapterTypeOK
  <1>2. ASSUME NEW entry \in ifaddrs, AddressGoes(entry)
        PROVE  AdapterTypeOK'
    BY <1>2 DEF AddressGoes, AdapterTypeOK
  <1>3. CASE retrieve_interface_ip
    <2>1. CASE phase = "LOOKING"
      <3>1. /\ m_interface_ip4' \in Addresses4 \cup {NoAddress}
            /\ m_interface_ip6' \in Addresses6 \cup {NoAddress}
        BY <1>3, <2>1, FoundAddressTyped
           DEF retrieve_interface_ip, try_get_interface_ip, AdapterTypeOK
      <3>2. QED
        BY <1>3, <2>1, <3>1
           DEF retrieve_interface_ip, try_get_interface_ip, AdapterTypeOK, AdapterPhases
    <2>2. CASE phase = "SLEEPING"
      BY <1>3, <2>2 DEF retrieve_interface_ip, HasAddress, AdapterTypeOK, AdapterPhases,
        Commands
    <2>3. QED
      BY <1>3, <2>1, <2>2 DEF retrieve_interface_ip
  <1>4. CASE tune
    <2>1. phase \in Commands => Following[phase] \in Commands \cup {"HOSTNAME"}
      BY DEF Following, Commands
    <2>2. phase' \in Commands \cup {"HOSTNAME", "ABORTED"}
      BY <1>4, <2>1 DEF tune
    <2>3. phase \notin {"LOOKING", "SLEEPING", "ABORTED"}
      BY <1>4 DEF tune, Commands
    <2>4. QED
      BY <1>4, <2>2, <2>3 DEF tune, AdapterTypeOK, AdapterPhases
  <1>5. CASE read_hostname
    BY <1>5 DEF read_hostname, AdapterTypeOK, AdapterPhases
  <1>6. CASE get_my_mac_address
    BY <1>6 DEF get_my_mac_address, AdapterTypeOK, AdapterPhases
  <1>7. CASE UNCHANGED adapter_vars
    BY <1>7 DEF adapter_vars, AdapterTypeOK
  <1>8. QED
    BY <1>1, <1>2, <1>3, <1>4, <1>5, <1>6, <1>7 DEF AdapterNext

(* init() (IOUringInterface.cpp) leaves the loop only once the interface   *)
(* has had an IPv4 address, whatever addresses come and go meanwhile, or   *)
(* when getifaddrs fails.                                                  *)
THEOREM AdapterIsTyped == AdapterSpec => []AdapterTypeOK
  BY AdapterInitTyped, AdapterStepTyped, PTL DEF AdapterSpec

(* The address the adapter reports was one of its own interface, never one *)
(* of another one, and is not read again after init() has returned, even   *)
(* when the interface loses it.                                            *)
THEOREM AddressIsOfTheInterface == AdapterSpec => AddressComesFromInterface
  <1>1. ASSUME AdapterTypeOK, [AdapterNext]_adapter_vars, m_interface_ip4' # m_interface_ip4
        PROVE  ~Ended /\ <<m_interface_name, m_interface_ip4'>> \in ifaddrs
    <2>1. phase = "LOOKING" /\ try_get_interface_ip
      BY <1>1 DEF AdapterNext, adapter_vars, AddressComes, AddressGoes,
        retrieve_interface_ip, tune, read_hostname, get_my_mac_address
    <2>2. QED
      BY <1>1, <2>1, FoundAddressIsAssigned DEF try_get_interface_ip, Ended, AdapterTypeOK
  <1>2. AdapterTypeOK /\ [AdapterNext]_adapter_vars =>
          [m_interface_ip4' # m_interface_ip4 =>
             ~Ended /\ <<m_interface_name, m_interface_ip4'>> \in ifaddrs]_adapter_vars
    BY <1>1
  <1>3. QED
    BY <1>2, AdapterIsTyped, PTL DEF AdapterSpec, AddressComesFromInterface

=============================================================================
