------------------------------ MODULE SendPacket ------------------------------
(***************************************************************************)
(* The packet of a send request, from the item that is acquired to the     *)
(* callback: SendPacket.hpp, the members of WorkItem that use it, and      *)
(* SocketImpl::send.                                                       *)
(*                                                                         *)
(* A WorkItem is a new object each time, and its buffer is not             *)
(* initialised.  The kernel is given the address of the buffer and the     *)
(* size when the item is submitted, and reads the bytes later.             *)
(*                                                                         *)
(* Numbers are sequences of bytes, the most significant first; the memory  *)
(* of the host is little-endian.                                           *)
(***************************************************************************)
EXTENDS Integers, Sequences

CONSTANTS
  Capacity,     (* m_buf.size(): 4096 in the code                         *)
  Octets,        (* the values of a byte, 0 among them                     *)
  PAD,          (* a byte of a structure that its constructor leaves out  *)
  Texts,        (* what append is called with                             *)
  Numbers,      (* what append_uint16 and append_uint32 are called with   *)
  Structs,      (* what emplace_back constructs                           *)
  MaxGets       (* bound: calls of get_send_packet per item               *)

ASSUME SendPacketAssumption ==
  /\ Capacity \in Nat \ {0}
  /\ 0 \in Octets
  /\ PAD \notin Octets
  /\ Texts \subseteq Seq(Octets)
  /\ Numbers \subseteq Seq(Octets)
  /\ Structs \subseteq Seq(Octets \cup {PAD})
  /\ MaxGets \in Nat

VARIABLES
  item,       (* the phase of the item                                    *)
  stream,     (* is its socket a stream, or one for packets?              *)
  gets,       (* how often get_send_packet was called                     *)
  m_size,
  m_buf,
  appended,   (* what the application appended to the packet of the item  *)
  length,     (* the size the kernel was given                            *)
  wire        (* the bytes the kernel has sent                            *)

packet_vars == <<item, stream, gets, m_size, m_buf, appended, length, wire>>

Indexes == 0 .. Capacity - 1
ItemPhases == {"NONE", "ACQUIRED", "FILLING", "SUBMITTED", "SENT", "REFUSED", "TOLD", "ABORTED"}

PacketInit ==
  /\ item = "NONE"
  /\ stream = FALSE
  /\ gets = 0
  /\ m_size = 0
  /\ m_buf \in [Indexes -> Octets]
  /\ appended = <<>>
  /\ length = 0
  /\ wire = <<>>

-----------------------------------------------------------------------------
(* The packet.                                                             *)

Contents == [i \in 1 .. m_size |-> m_buf[i - 1]]

Faulty_Fits(n) == m_size + n <= Capacity
Fits(n) == m_size + n < Capacity

Reversed(s) == [i \in 1 .. Len(s) |-> s[Len(s) + 1 - i]]

(* ntohs and ntohl, which turn the bytes of a number round, and the bytes  *)
(* of a number in memory, the least significant first.                     *)
Faulty_ntoh(v) == v
ntoh(v) == Reversed(v)
InMemory(v) == Reversed(v)

(* emplace_back clears the memory before it constructs.                    *)
Constructed(t) == [i \in 1 .. Len(t) |-> IF t[i] = PAD THEN 0 ELSE t[i]]

Copied(data) ==
  [i \in Indexes |-> IF m_size <= i /\ i < m_size + Len(data)
                       THEN data[i - m_size + 1] ELSE m_buf[i]]

(* The assertion of append and emplace_back, the copy, the new size.       *)
(* meaning is what the application wants to send.                          *)
AppendBytes(data, meaning) ==
  /\ item = "FILLING"
  /\ \/ /\ Fits(Len(data))
        /\ m_buf' = Copied(data)
        /\ m_size' = m_size + Len(data)
        /\ appended' = appended \o meaning
        /\ UNCHANGED item
     \/ /\ ~Fits(Len(data))
        /\ item' = "ABORTED"
        /\ UNCHANGED <<m_buf, m_size, appended>>
  /\ UNCHANGED <<stream, gets, length, wire>>

append(text) == AppendBytes(text, text)
append_uint(v) == AppendBytes(InMemory(ntoh(v)), v)
emplace_back(t) == AppendBytes(Constructed(t), Constructed(t))

reset ==
  /\ m_buf' = [i \in Indexes |-> IF i < m_size THEN 0 ELSE m_buf[i]]
  /\ m_size' = 0

-----------------------------------------------------------------------------
(* The item.                                                               *)

ackuire_send_workitem ==
  /\ item \in {"NONE", "TOLD"}
  /\ item' = "ACQUIRED"
  /\ stream' \in BOOLEAN
  /\ m_buf' \in [Indexes -> Octets]
  /\ m_size' = 0
  /\ gets' = 0 /\ appended' = <<>> /\ length' = 0 /\ wire' = <<>>

(* Nothing but this call gives the application the packet.                 *)
get_send_packet ==
  /\ item \in {"ACQUIRED", "FILLING"}
  /\ gets < MaxGets
  /\ gets' = gets + 1
  /\ item' = "FILLING"
  /\ reset
  /\ UNCHANGED <<stream, appended, length, wire>>

(* submit_stream_data or submit_packet.  The application leaves the packet *)
(* alone from here on.  A packet without a destination ends the process.   *)
submit ==
  /\ item \in {"ACQUIRED", "FILLING"}
  /\ \/ item' = "SUBMITTED" /\ length' = m_size
     \/ ~stream /\ item' = "ABORTED" /\ UNCHANGED length
  /\ UNCHANGED <<stream, gets, m_size, m_buf, appended, wire>>

(* The kernel reads the buffer and sends, or reports an error.  A packet   *)
(* is sent whole, of a stream perhaps only a first part.                   *)
KernelSends ==
  /\ item = "SUBMITTED"
  /\ \E n \in IF stream /\ length > 0 THEN 1 .. length ELSE {length} :
       wire' = [i \in 1 .. n |-> m_buf[i - 1]]
  /\ item' = "SENT"
  /\ UNCHANGED <<stream, gets, m_size, m_buf, appended, length>>

KernelRefuses ==
  /\ item = "SUBMITTED"
  /\ item' = "REFUSED"
  /\ UNCHANGED <<stream, gets, m_size, m_buf, appended, length, wire>>

(* call_send_callback runs the callback and then resets the packet; on     *)
(* EFAULT and EINVAL it does neither.  The item is freed in all cases.     *)
call_send_callback ==
  /\ \/ item \in {"SENT", "REFUSED"} /\ reset
     \/ item = "REFUSED" /\ UNCHANGED <<m_size, m_buf>>
  /\ item' = "TOLD"
  /\ UNCHANGED <<stream, gets, appended, length, wire>>

PacketNext ==
  \/ ackuire_send_workitem \/ get_send_packet \/ submit
  \/ \E text \in Texts : append(text)
  \/ \E v \in Numbers : append_uint(v)
  \/ \E t \in Structs : emplace_back(t)
  \/ KernelSends \/ KernelRefuses \/ call_send_callback

PacketSpec == PacketInit /\ [][PacketNext]_packet_vars

-----------------------------------------------------------------------------
(* Properties.                                                             *)

(* Type invariant; append leaves at least one byte of the buffer unused.   *)
PacketTypeOK ==
  /\ item \in ItemPhases
  /\ stream \in BOOLEAN
  /\ gets \in 0 .. MaxGets
  /\ m_size \in Indexes
  /\ m_buf \in [Indexes -> Octets]
  /\ appended \in Seq(Octets)
  /\ length \in Indexes
  /\ wire \in Seq(Octets)

(* "Then with that send packet you append your dara"                       *)
(* (IOUringInterface.hpp:63): from the first append to the completion, the *)
(* packet holds all that was appended, in order, numbers in network byte   *)
(* order, and nothing else, if the packet was asked for once.              *)
PacketHoldsWhatWasAppended ==
  gets <= 1 /\ item \in {"FILLING", "SUBMITTED", "SENT"} => Contents = appended

(* "Send the msg to 'io' and call 'cb' once done." (ISocket.hpp:58): when  *)
(* a send is reported as done, the bytes that were appended were sent; of  *)
(* a stream perhaps only the first ones, but those in order.               *)
DoneMeansSent ==
  gets <= 1 /\ item = "SENT" =>
    /\ Len(wire) <= Len(appended)
    /\ wire = SubSeq(appended, 1, Len(wire))
    /\ ~stream => wire = appended

=============================================================================
