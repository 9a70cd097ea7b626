------------------------------ MODULE MCSockets ------------------------------
(* Sockets for TLC: a server, a client and a socket that cannot be made.    *)
EXTENDS Sockets

MCPort(high, low) == <<high, low>>

MCServer == [type |-> "IPV4_TCP", port |-> MCPort(0, 1), kind |-> "SERVER_STREAM_SOCKET"]
MCClient == [type |-> "IPV6_TCP", port |-> MCPort(0, 1), kind |-> "UNICAST_CLIENT_SOCKET"]
MCMulticast6 == [type |-> "IPV6_UDP", port |-> MCPort(0, 1), kind |-> "MULTICAST_PACKET_SOCKET"]
MCCreations == {MCServer, MCClient, MCMulticast6}

MCWords4 == {<<{}, {}, {}, {}>>}
MCClientPorts == {MCPort(0, 1)}
MCGarbage ==
  {[family |-> "AF_INET", port |-> MCPort(1, 1), first |-> {}, rest |-> <<{}, {}, {}, {}>>]}
=============================================================================
