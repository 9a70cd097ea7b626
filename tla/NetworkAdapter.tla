---------------------------- MODULE NetworkAdapter ----------------------------
(***************************************************************************)
(* The start-up of NetworkAdapter: wait until the interface has an IPv4    *)
(* address, tune the interface, read the name of the host; and the MAC     *)
(* address, which is read once and kept.                                   *)
(*                                                                         *)
(* Addresses come and go while the adapter waits and afterwards.           *)
(***************************************************************************)
CONSTANTS
  NoAddress,
  Interfaces,       (* the names of the interfaces of the host            *)
  Loopback,         (* the one that is called lo                          *)
  m_interface_name,
  Addresses4, Addresses6,
  m_tune            (* run the four ethtool commands?                     *)

ASSUME NetworkAdapterAssumption ==
  /\ Loopback \in Interfaces /\ m_interface_name \in Interfaces
  /\ NoAddress \notin Addresses4 \cup Addresses6
  /\ m_tune \in BOOLEAN

VARIABLES
  ifaddrs,          (* what getifaddrs would tell: <<interface, address>> *)
  phase,            (* where init() is; "READY" once it has returned      *)
  m_interface_ip4, m_interface_ip6,
  mac_opt           (* has the MAC address been read?                     *)

adapter_vars == <<ifaddrs, phase, m_interface_ip4, m_interface_ip6, mac_opt>>

(* The commands of tune() are phases of their own, each with its successor.*)
Commands == {"tx-usecs", "rx-usecs", "rx-frames", "tx-frames"}
Following ==
  [c \in Commands |->
     CASE c = "tx-usecs" -> "rx-usecs"
       [] c = "rx-usecs" -> "rx-frames"
       [] c = "rx-frames" -> "tx-frames"
       [] c = "tx-frames" -> "HOSTNAME"]

AdapterPhases == Commands \cup {"LOOKING", "SLEEPING", "HOSTNAME", "READY", "ABORTED"}

AdapterInit ==
  /\ ifaddrs = {}
  /\ phase = "LOOKING"
  /\ m_interface_ip4 = NoAddress /\ m_interface_ip6 = NoAddress
  /\ mac_opt = FALSE

-----------------------------------------------------------------------------
(* The host: one address of each family per interface, at most.            *)

Assigned(i, addresses) == {a \in addresses : <<i, a>> \in ifaddrs}

AddressComes(i, addresses) ==
  /\ Assigned(i, addresses) = {}
  /\ \E a \in addresses : ifaddrs' = ifaddrs \cup {<<i, a>>}
  /\ UNCHANGED <<phase, m_interface_ip4, m_interface_ip6, mac_opt>>

AddressGoes(entry) ==
  /\ ifaddrs' = ifaddrs \ {entry}
  /\ UNCHANGED <<phase, m_interface_ip4, m_interface_ip6, mac_opt>>

-----------------------------------------------------------------------------
(* init().                                                                 *)

(* The entries that are not skipped: those of the interface, but never lo. *)
Considered == {e \in ifaddrs : e[1] # Loopback /\ e[1] = m_interface_name}

Faulty_FoundAddress(addresses, before) == NoAddress
(* The address that is found, or the one from before.                      *)
FoundAddress(addresses, before) ==
  LET found == {e[2] : e \in Considered} \cap addresses
  IN IF found = {} THEN before ELSE CHOOSE a \in found : TRUE

(* A getifaddrs that fails ends the process.                               *)
try_get_interface_ip ==
  \/ /\ m_interface_ip4' = FoundAddress(Addresses4, m_interface_ip4)
     /\ m_interface_ip6' = FoundAddress(Addresses6, m_interface_ip6)
     /\ phase' = "SLEEPING"
  \/ /\ phase' = "ABORTED"
     /\ UNCHANGED <<m_interface_ip4, m_interface_ip6>>

HasAddress == m_interface_ip4 # NoAddress

(* Only an IPv4 address ends the loop, which sleeps before it tests.       *)
retrieve_interface_ip ==
  \/ /\ phase = "LOOKING"
     /\ try_get_interface_ip
     /\ UNCHANGED <<ifaddrs, mac_opt>>
  \/ /\ phase = "SLEEPING"
     /\ phase' = IF ~HasAddress THEN "LOOKING" ELSE IF m_tune THEN "tx-usecs" ELSE "HOSTNAME"
     /\ UNCHANGED <<ifaddrs, m_interface_ip4, m_interface_ip6, mac_opt>>

(* A command that fails ends the process, except for the first one.        *)
tune ==
  /\ phase \in Commands
  /\ \/ phase' = Following[phase]
     \/ phase # "tx-usecs" /\ phase' = "ABORTED"
  /\ UNCHANGED <<ifaddrs, m_interface_ip4, m_interface_ip6, mac_opt>>

read_hostname ==
  /\ phase = "HOSTNAME"
  /\ phase' \in {"READY", "ABORTED"}
  /\ UNCHANGED <<ifaddrs, m_interface_ip4, m_interface_ip6, mac_opt>>

(* The file of the interface is read once; without it the process ends.    *)
get_my_mac_address ==
  /\ phase = "READY"
  /\ ~mac_opt
  /\ \/ mac_opt' = TRUE /\ UNCHANGED phase
     \/ phase' = "ABORTED" /\ UNCHANGED mac_opt
  /\ UNCHANGED <<ifaddrs, m_interface_ip4, m_interface_ip6>>

AdapterNext ==
  \/ \E i \in Interfaces : AddressComes(i, Addresses4) \/ AddressComes(i, Addresses6)
  \/ \E entry \in ifaddrs : AddressGoes(entry)
  \/ retrieve_interface_ip \/ tune \/ read_hostname \/ get_my_mac_address

(* The thread that runs init() is scheduled; nothing is asked of the host. *)
AdapterFairness ==
  /\ WF_adapter_vars(retrieve_interface_ip)
  /\ WF_adapter_vars(tune)
  /\ WF_adapter_vars(read_hostname)

AdapterSpec == AdapterInit /\ [][AdapterNext]_adapter_vars

-----------------------------------------------------------------------------
(* Properties.                                                             *)

Ended == phase \in {"READY", "ABORTED"}

(* Type invariant; init() has returned only with an IPv4 address.          *)
AdapterTypeOK ==
  /\ ifaddrs \subseteq Interfaces \X (Addresses4 \cup Addresses6)
  /\ phase \in AdapterPhases
  /\ m_interface_ip4 \in Addresses4 \cup {NoAddress}
  /\ m_interface_ip6 \in Addresses6 \cup {NoAddress}
  /\ mac_opt \in BOOLEAN
  /\ phase \notin {"LOOKING", "SLEEPING", "ABORTED"} => m_interface_ip4 # NoAddress

(* An address is taken over only from the selected interface, while it has *)
(* that address, and never changes once init() has returned.               *)
AddressComesFromInterface ==
  [][m_interface_ip4' # m_interface_ip4 =>
       ~Ended /\ <<m_interface_name, m_interface_ip4'>> \in ifaddrs]_adapter_vars

(* An interface that gets an IPv4 address and keeps it ends the wait: init *)
(* returns, or getifaddrs, a command or gethostname fails, which ends the  *)
(* process.                                                                *)
StartUpEnds ==
  <>[](Assigned(m_interface_name, Addresses4) # {}) => <>Ended

=============================================================================
