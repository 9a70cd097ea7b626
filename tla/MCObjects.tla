------------------------------ MODULE MCObjects ------------------------------
(***************************************************************************)
(* The classes that the application uses from one thread and that share no *)
(* state, for TLC: addresses, the packet of a send, the network adapter.   *)
(* part names the class that a behaviour is about; the others stay as they *)
(* are, so that the states are those of each class and not of all three.   *)
(***************************************************************************)
EXTENDS AddressObjects, SendPacket, NetworkAdapter

CONSTANTS x, y, octet, eth0, lo, a1, a2, b1

VARIABLE part

all_vars == <<part, address_vars, packet_vars, adapter_vars>>

Init ==
  /\ part \in {"IPAddress", "SendPacket", "NetworkAdapter"}
  /\ AddressInit /\ PacketInit /\ AdapterInit
  /\ part # "SendPacket" => m_buf = [i \in Indexes |-> 0]

Next ==
  /\ UNCHANGED part
  /\ \/ part = "IPAddress" /\ AddressNext /\ UNCHANGED <<packet_vars, adapter_vars>>
     \/ part = "SendPacket" /\ PacketNext /\ UNCHANGED <<address_vars, adapter_vars>>
     \/ part = "NetworkAdapter" /\ AdapterNext /\ UNCHANGED <<address_vars, packet_vars>>

Spec == Init /\ [][Next]_all_vars /\ (part = "NetworkAdapter" => AdapterFairness)

MCWords4 == {<<{}, {}, {}, {}>>, <<{}, {0}, {}, {1}>>, <<{}, {0, 1}, {}, {}>>}
MCOctets == {0, octet}
MCTexts == {<<>>, <<octet>>, <<octet, octet>>}
MCNumbers == {<<0, octet>>, <<octet, 0, octet, octet>>}
MCStructs == {<<octet, PAD>>}
=============================================================================
