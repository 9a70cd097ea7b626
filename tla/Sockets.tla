-------------------------------- MODULE Sockets --------------------------------
(***************************************************************************)
(* Sockets and their descriptors: SocketImpl, the two create_impl, and the *)
(* requests that name a socket (accept, receive, close).                   *)
(*                                                                         *)
(* An ISocket keeps the number of a descriptor for ever.  The kernel turns *)
(* the number into an open file when a request is submitted or submitted   *)
(* again, a close frees the number, and the next file takes the lowest     *)
(* number that is free.                                                    *)
(*                                                                         *)
(* files are the files ever opened, sockets the ISocket objects ever       *)
(* constructed; file is what a socket was made for, which the code does    *)
(* not record.  The pool and the queues are those of module IOUring and    *)
(* left out here.                                                          *)
(*                                                                         *)
(* An application is careful if it accepts on listeners only and leaves a  *)
(* socket alone once it submitted its close.  That does not cover the      *)
(* requests it submitted before, which the library may submit again; a     *)
(* patient application closes a socket with no receive left to that.       *)
(***************************************************************************)
EXTENDS IPAddress, Sequences, FiniteSets

CONSTANTS
  FirstFd,      (* the lowest descriptor that is free at the start        *)
  MaxFd,        (* bound: the highest descriptor                          *)
  MaxFiles,     (* bound: files opened in a behaviour                     *)
  MaxRequests,  (* bound: requests at a time                              *)
  Creations,    (* [type, port, kind] of the sockets that are created     *)
  ClientPorts,  (* the ports of the hosts that connect                    *)
  Garbage       (* what an address buffer holds that nobody wrote         *)

SocketTypes == {"UNKNOWN", "IPV4_UDP", "IPV4_TCP", "IPV6_UDP", "IPV6_TCP"}
(* ERR stands for every other error of a connection or an accept:          *)
(* ETIMEDOUT, EMFILE, ECONNABORTED, ...                                    *)
Results == {"OK", "EBADF", "EINVAL", "ENOTCONN", "ECONNRESET", "ENOBUFS", "ERR"}
SocketKinds == {"MULTICAST_PACKET_SOCKET", "SERVER_STREAM_SOCKET", "UNICAST_CLIENT_SOCKET"}

ASSUME SocketsAssumption ==
  /\ FirstFd \in Nat /\ MaxFd \in Nat /\ MaxFiles \in Nat /\ MaxRequests \in Nat
  /\ Creations \subseteq [type : SocketTypes, port : Ports, kind : SocketKinds]
  /\ ClientPorts \subseteq Ports
  /\ Garbage \subseteq sockaddr_storage
  /\ NULL \notin Nat \cup Results

VARIABLES
  careful,    (* is this application careful? (constant)                  *)
  patient,    (* is it patient, too? (constant)                           *)
  fd_table,   (* the file of each descriptor, NULL when free              *)
  files,      (* [listens, port, fd] of each file: the port it is bound   *)
              (* to, or of the client; the descriptor it was given        *)
  sockets,
  requests,   (* the requests the kernel works on or has completed        *)
  closed,     (* the sockets whose close was submitted                    *)
  destroyed,  (* the sockets that nobody refers to any more               *)
  failed      (* "NO", or the assertion or abort that ended the process   *)

conduct == <<careful, patient>>
vars == <<conduct, fd_table, files, sockets, requests, closed, destroyed, failed>>

Fds == FirstFd .. MaxFd
FreeFds == {fd \in Fds : fd_table[fd] = NULL}
LowestFree == CHOOSE fd \in FreeFds : \A other \in FreeFds : fd <= other

(* A new file, and the descriptor it gets. *)
Open(listens, port) ==
  /\ FreeFds # {} /\ Len(files) < MaxFiles
  /\ files' = Append(files, [listens |-> listens, port |-> port, fd |-> LowestFree])
  /\ fd_table' = [fd_table EXCEPT ![LowestFree] = Len(files')]

(* What a socket was made for.                                             *)
FileOf(s) == sockets[s].file

(* res is NULL while the kernel works on a request, new the file that an   *)
(* accept has opened.  A request is on a file, except for a close, which   *)
(* is on a descriptor.                                                     *)
Request(op, s) ==
  [op |-> op, sock |-> s, fd |-> sockets[s].m_fd, file |-> fd_table[sockets[s].m_fd],
   new |-> NULL, res |-> NULL]

(* The same request submitted again, by the number of the descriptor.      *)
Again(r) == [r EXCEPT !.file = fd_table[r.fd], !.new = NULL, !.res = NULL]

Init ==
  /\ careful \in BOOLEAN /\ patient \in BOOLEAN
  /\ patient => careful
  /\ fd_table = [fd \in Fds |-> NULL]
  /\ files = <<>>
  /\ sockets = <<>>
  /\ requests = {}
  /\ closed = {}
  /\ destroyed = {}
  /\ failed = "NO"

Running == failed = "NO"

Fail(why) == failed' = why /\ UNCHANGED <<fd_table, files, sockets, requests, closed>>

-----------------------------------------------------------------------------
(* Construction.                                                           *)

(* A file that listens lives as long as it has a descriptor or the kernel  *)
(* works on an accept of it.                                               *)
Listening(port) ==
  \E i \in DOMAIN files :
    /\ files[i].listens /\ files[i].port = port
    /\ \/ \E fd \in Fds : fd_table[fd] = i
       \/ \E r \in requests : r.file = i /\ r.res = NULL

(* create_socket asserts or aborts on two types.  The constructor binds to *)
(* an IPv4 address, which an IPv6 socket refuses; a multicast socket sets  *)
(* an option that streams refuse; datagram sockets cannot listen; and a    *)
(* port has one listener.  Each error of these calls ends the process.  So *)
(* does socket() when no descriptor is free.                               *)
Created(c) ==
  /\ c.type \in {"IPV4_UDP", "IPV4_TCP", "IPV6_TCP"}
  /\ c.kind = "MULTICAST_PACKET_SOCKET" => c.type = "IPV4_UDP"
  /\ c.kind = "SERVER_STREAM_SOCKET" => c.type = "IPV4_TCP" /\ ~Listening(c.port)

create_impl(c) ==
  /\ Running
  /\ \/ /\ Created(c)
        /\ Open(c.kind = "SERVER_STREAM_SOCKET", c.port)
        /\ sockets' = Append(sockets,
             [m_type |-> c.type, m_port |-> c.port, m_kind |-> c.kind, m_fd |-> LowestFree,
              file |-> Len(files')])
        /\ UNCHANGED <<requests, closed, failed>>
     \/ (~Created(c) \/ FreeFds = {}) /\ Fail("SocketImpl")

(* get_type and get_port of an AcceptResult; the port is not converted.    *)
get_type(a) ==
  IF get_ipv4(a) # NULL THEN "IPV4_TCP" ELSE IF get_ipv6(a) # NULL THEN "IPV6_TCP" ELSE "UNKNOWN"
get_accepted_port(a) ==
  IF get_ipv4(a) # NULL THEN a.m_in4.sin_port ELSE a.m_in6.sin6_port

-----------------------------------------------------------------------------
(* The application.                                                        *)

MayUse(s) == s \notin closed \/ ~careful

(* One request of each kind per socket.                                    *)
Submit(op, s) ==
  /\ Running
  /\ s \in DOMAIN sockets \ destroyed
  /\ MayUse(s)
  /\ \A r \in requests : ~(r.op = op /\ r.sock = s)
  /\ Cardinality(requests) < MaxRequests
  /\ requests' = requests \cup {Request(op, s)}
  /\ UNCHANGED <<fd_table, files, sockets, failed>>

(* submit_accept asserts the kind of the socket.                           *)
submit_accept(s) ==
  /\ s \in DOMAIN sockets
  /\ files[FileOf(s)].listens \/ ~careful
  /\ \/ /\ sockets[s].m_kind = "SERVER_STREAM_SOCKET"
        /\ Submit("ACCEPT", s) /\ UNCHANGED closed
     \/ /\ sockets[s].m_kind # "SERVER_STREAM_SOCKET"
        /\ Running /\ s \notin destroyed /\ Fail("submit_accept")

submit_recv(s) ==
  /\ s \in DOMAIN sockets
  /\ ~files[FileOf(s)].listens
  /\ Submit("RECV", s) /\ UNCHANGED closed

(* A server socket is never closed: its accept is submitted for ever.  A   *)
(* patient application closes a socket that has no receive outstanding, or *)
(* in the handler of its receive, which got data or the end of the stream. *)
submit_close(s) ==
  /\ s \in DOMAIN sockets
  /\ ~files[FileOf(s)].listens
  /\ patient => \A r \in requests : r.op = "RECV" /\ r.sock = s => r.res = "OK"
  /\ Submit("CLOSE", s)
  /\ closed' = closed \cup {s}

(* The last reference to a socket is dropped.  Requests refer to their     *)
(* socket.  The destructor closes nothing.                                 *)
Destroy(s) ==
  /\ Running
  /\ s \in DOMAIN sockets \ destroyed
  /\ \A r \in requests : r.sock # s
  /\ destroyed' = destroyed \cup {s}
  /\ UNCHANGED <<fd_table, files, sockets, requests, closed, failed>>

-----------------------------------------------------------------------------
(* The kernel.                                                             *)

Replace(r, q) == requests' = (requests \ {r}) \cup {q}
Complete(r, res) == Replace(r, [r EXCEPT !.res = res])

Pending == {r \in requests : r.res = NULL}

(* m_accept_sock_len is zero, so nothing is copied into the buffer for the *)
(* address, and the length of the address is stored.                       *)
KernelAccepts(r, port) ==
  /\ Running
  /\ r \in Pending /\ r.op = "ACCEPT"
  /\ r.file # NULL /\ files[r.file].listens
  /\ Open(FALSE, port)
  /\ Replace(r, [r EXCEPT !.new = Len(files'), !.res = "OK"])
  /\ UNCHANGED <<sockets, closed, failed>>

(* Data, the end of the stream, or an error.  Each ends the request.       *)
KernelReceives(r) ==
  /\ Running
  /\ r \in Pending /\ r.op = "RECV" /\ r.file # NULL
  /\ ~files[r.file].listens
  /\ \E res \in {"OK", "ECONNRESET", "ENOBUFS", "ERR"} : Complete(r, res)
  /\ UNCHANGED <<fd_table, files, sockets, closed, failed>>

KernelCloses(r) ==
  /\ Running
  /\ r \in Pending /\ r.op = "CLOSE" /\ fd_table[r.fd] # NULL
  /\ fd_table' = [fd_table EXCEPT ![r.fd] = NULL]
  /\ Complete(r, "OK")
  /\ UNCHANGED <<files, sockets, closed, failed>>

(* No such descriptor, or a file that does not listen.  An accept may also *)
(* fail for want of a descriptor, or because the connection is gone.       *)
KernelRefuses(r) ==
  /\ Running
  /\ r \in Pending
  /\ \/ r.op = "CLOSE" /\ fd_table[r.fd] = NULL /\ Complete(r, "EBADF")
     \/ r.op # "CLOSE" /\ r.file = NULL /\ Complete(r, "EBADF")
     \/ r.op = "ACCEPT" /\ r.file # NULL /\ ~files[r.file].listens /\ Complete(r, "EINVAL")
     \/ /\ r.op = "ACCEPT" /\ r.file # NULL /\ files[r.file].listens
        /\ \E res \in {"ENOBUFS", "ERR"} : Complete(r, res)
     \/ r.op = "RECV" /\ r.file # NULL /\ files[r.file].listens /\ Complete(r, "ENOTCONN")
  /\ UNCHANGED <<fd_table, files, sockets, closed, failed>>

-----------------------------------------------------------------------------
(* The callbacks, one completion at a time.  One with ENOBUFS is dropped:  *)
(* such a request stays as it is, and its work item in the pool.           *)

(* An AcceptResult made into a socket.  The address is made from the       *)
(* buffer that nobody wrote and the length that was stored.                *)
Faulty_Accepted(r, g) ==
  [m_type |-> "IPV4_TCP", m_port |-> g.port, m_kind |-> "SERVER_STREAM_SOCKET",
   m_fd |-> -1, file |-> r.new]
Faulty2_Accepted(r, g) ==
  [m_type |-> "IPV4_TCP", m_port |-> g.port, m_kind |-> "SERVER_STREAM_SOCKET",
   m_fd |-> r.fd, file |-> r.new]
Accepted(r, g) ==
  LET a == FromStorage(g, SizeOf("AF_INET")) IN
  [m_type |-> get_type(a), m_port |-> get_accepted_port(a), m_kind |-> "SERVER_STREAM_SOCKET",
   m_fd |-> files[r.new].fd, file |-> r.new]

(* The handler makes a socket of the result, as that of the echo server    *)
(* does, or none, and the accept is submitted again.                       *)
AcceptCallback(r) ==
  /\ Running
  /\ r \in requests /\ r.op = "ACCEPT" /\ r.res = "OK"
  /\ \/ /\ files[r.new].fd > 0
        /\ \E g \in Garbage : sockets' = Append(sockets, Accepted(r, g))
        /\ Replace(r, Again(r))
        /\ UNCHANGED <<fd_table, files, closed, failed>>
     \/ /\ Replace(r, Again(r))
        /\ UNCHANGED <<fd_table, files, sockets, closed, failed>>
     \/ files[r.new].fd = 0 /\ Fail("SocketImpl: get_fd() > 0")

(* EINVAL is not told to the application, and the accept submitted again.  *)
(* Any other error ends the process: the address has no valid length.      *)
AcceptError(r) ==
  /\ Running
  /\ r \in requests /\ r.op = "ACCEPT"
  /\ \/ /\ r.res = "EINVAL"
        /\ Replace(r, Again(r))
        /\ UNCHANGED <<fd_table, files, sockets, closed, failed>>
     \/ r.res \in {"EBADF", "ERR"} /\ Fail("IPAddress")

(* The handler returns NONE or RE_SUBMIT.  It is not asked about EAI_INTR, *)
(* which is -104 as ECONNRESET: the receive is submitted again.  Any other *)
(* error ends the process.                                                 *)
RecvCallback(r) ==
  /\ Running
  /\ r \in requests /\ r.op = "RECV"
  /\ \/ /\ r.res = "OK"
        /\ \/ requests' = requests \ {r}
           \/ MayUse(r.sock) /\ Replace(r, Again(r))
        /\ UNCHANGED <<fd_table, files, sockets, closed, failed>>
     \/ /\ r.res = "ECONNRESET"
        /\ Replace(r, Again(r))
        /\ UNCHANGED <<fd_table, files, sockets, closed, failed>>
     \/ r.res \in {"EBADF", "ENOTCONN", "ERR"} /\ Fail("call_recv_callback")

CloseCallback(r) ==
  /\ Running
  /\ r \in requests /\ r.op = "CLOSE" /\ r.res # NULL
  /\ requests' = requests \ {r}
  /\ UNCHANGED <<fd_table, files, sockets, closed, failed>>

Step ==
  \/ \E c \in Creations : create_impl(c)
  \/ \E s \in DOMAIN sockets : submit_accept(s) \/ submit_recv(s) \/ submit_close(s)
  \/ \E r \in requests :
       \/ \E port \in ClientPorts : KernelAccepts(r, port)
       \/ KernelReceives(r) \/ KernelCloses(r) \/ KernelRefuses(r)
       \/ AcceptCallback(r) \/ AcceptError(r) \/ RecvCallback(r) \/ CloseCallback(r)

Next ==
  /\ UNCHANGED conduct
  /\ \/ Step /\ UNCHANGED destroyed
     \/ \E s \in DOMAIN sockets : Destroy(s)

Spec == Init /\ [][Next]_vars

-----------------------------------------------------------------------------
(* Properties.                                                             *)

(* Type invariant. *)
SocketsTypeOK ==
  /\ careful \in BOOLEAN /\ patient \in BOOLEAN
  /\ fd_table \in [Fds -> DOMAIN files \cup {NULL}]
  /\ files \in Seq([listens : BOOLEAN, port : Ports, fd : Fds])
  /\ sockets \in Seq([m_type : SocketTypes, m_port : Ports, m_kind : SocketKinds,
                      m_fd : Fds, file : DOMAIN files])
  /\ requests \subseteq
       [op : {"ACCEPT", "RECV", "CLOSE"}, sock : DOMAIN sockets, fd : Fds,
        file : DOMAIN files \cup {NULL}, new : DOMAIN files \cup {NULL},
        res : Results \cup {NULL}]
  /\ closed \cup destroyed \subseteq DOMAIN sockets

(* A receive of a closed socket that its application did not wait for.     *)
Stray(r) == ~patient /\ r.op = "RECV" /\ r.sock \in closed

(* "attach the encrypted buffers to the ISocket or attach the socket's     *)
(* state" (ISocket.hpp:39): what a receive of a socket delivers to its     *)
(* callback comes from the connection that the socket was made for, though *)
(* descriptors are closed and given to others.  That takes a patient       *)
(* application.  A careful one is exposed in one way: a receive that is    *)
(* outstanding when it closes the socket is submitted again by the library *)
(* after an ECONNRESET (IOUring.cpp:645, 722), on whatever has the number  *)
(* by then.                                                                *)
ReceivesAreFromOwnConnection ==
  careful => \A r \in requests :
    r.op = "RECV" /\ r.file \notin {NULL, FileOf(r.sock)} => Stray(r)

(* No request of a careful application is refused because its descriptor   *)
(* is closed or is that of a wrong file, which would end the process       *)
(* (IOUring.cpp:524, 648), with the same exception.                        *)
NoRequestIsRefused ==
  careful => \A r \in requests :
    r.res \in {"EBADF", "EINVAL", "ENOTCONN"} => Stray(r)

(* No close that was submitted for one connection frees the descriptor of  *)
(* another, whatever number they share.                                    *)
ClosesOnlyOwnConnection ==
  [][careful => \A fd \in Fds : fd_table[fd] # NULL /\ fd_table'[fd] # fd_table[fd] =>
       \E s \in closed : FileOf(s) = fd_table[fd]]_vars

(* An open descriptor out of reach of a close: no socket object and no     *)
(* result of an accept that is still to be delivered holds it.             *)
Lost(fd) ==
  /\ fd_table[fd] # NULL
  /\ \A s \in DOMAIN sockets \ destroyed : ~(sockets[s].m_fd = fd /\ FileOf(s) = fd_table[fd])
  /\ \A r \in requests : r.new # fd_table[fd]

(* Whatever an application does, it loses a descriptor in two ways only:   *)
(* it drops a socket that it never closed, whose destructor does not close *)
(* it either (ISocket.hpp:68), or its handler makes no socket of a         *)
(* connection.  The library loses none, and a socket that was closed may   *)
(* be dropped as soon as its requests are over.                            *)
OnlyApplicationsLoseDescriptors ==
  [][\A fd \in Fds : Running' /\ Lost(fd)' /\ ~Lost(fd) =>
       \/ \E s \in (destroyed' \ destroyed) \ closed : sockets[s].m_fd = fd
       \/ \E r \in requests : /\ r.op = "ACCEPT" /\ r.res = "OK" /\ r.new = fd_table[fd]
                              /\ UNCHANGED sockets]_vars

=============================================================================
