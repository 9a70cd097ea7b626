----------------------------- MODULE MCHostname -----------------------------
(* Host name resolution for TLC: two names that must be looked up, an       *)
(* address, and two places for requests, so that memory is used again.      *)
EXTENDS HostnameResolve
CONSTANTS www, mail, addr, p, q
MCNames == {www, mail, addr}
MCLiterals == {addr}
MCAddresses == {p, q}
=============================================================================
