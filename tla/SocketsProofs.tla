---------------------------- MODULE SocketsProofs ----------------------------
(***************************************************************************)
(* That descriptors do not get mixed up: for any number of files, sockets  *)
(* and descriptors, whatever is in the address buffers that nobody wrote.  *)
(*                                                                         *)
(* The argument: a number that is used again is dangerous only while a     *)
(* socket or a request still means the old file by it.  If the application *)
(* leaves a socket alone once it submitted its close, a socket that it may *)
(* use is one whose file is open under its number (StillOpen), so that a   *)
(* request gets that file whenever it is submitted (OnOwnFile), and there  *)
(* is one close for each socket (OneCloseEach).  What is left are receives *)
(* that were outstanding at the close: the library may submit one again    *)
(* (Stray), unless the application waited for it (PatientInv).             *)
(*                                                                         *)
(* A descriptor has the number its file was given (NumbersFit), and once   *)
(* the close of a socket is over its file is open no more (ClosedAreGone): *)
(* that is all it takes to see who loses a descriptor.                     *)
(***************************************************************************)
EXTENDS Sockets, SequenceTheorems, WellFoundedInduction, TLAPS

(* How a request and a socket hang together, whatever the application does. *)
RequestsFit ==
  /\ \A s \in DOMAIN sockets : sockets[s].m_fd = files[FileOf(s)].fd
  /\ \A r \in requests :
       /\ r.fd = sockets[r.sock].m_fd
       /\ r.new # NULL <=> r.op = "ACCEPT" /\ r.res = "OK"
       /\ r.op = "CLOSE" => r.sock \in closed
       /\ r.op # "ACCEPT" => ~files[FileOf(r.sock)].listens
  /\ \A s \in closed : ~files[FileOf(s)].listens

ListenersServe ==
  \A s \in DOMAIN sockets : files[FileOf(s)].listens => sockets[s].m_kind = "SERVER_STREAM_SOCKET"

(* A file is that of one socket, or of one accept whose result is waiting. *)
OneSocketPerFile ==
  /\ \A s, t \in DOMAIN sockets : FileOf(s) = FileOf(t) => s = t
  /\ \A r \in requests : r.new # NULL =>
       /\ \A s \in DOMAIN sockets : FileOf(s) # r.new
       /\ \A q \in requests : q.new = r.new => q = r

OneCloseEach ==
  \A r, q \in requests : r.op = "CLOSE" /\ q.op = "CLOSE" /\ r.sock = q.sock => r = q

NumbersFit == \A fd \in Fds : fd_table[fd] # NULL => files[fd_table[fd]].fd = fd

ClosedAreGone ==
  \A s \in closed : fd_table[sockets[s].m_fd] = FileOf(s) =>
    \E r \in requests : r.op = "CLOSE" /\ r.sock = s /\ r.res = NULL

(* Careful applications only: the files that may still be used or closed   *)
(* are open under the numbers by which they are known.                     *)
StillOpen ==
  /\ \A s \in DOMAIN sockets : s \notin closed => fd_table[sockets[s].m_fd] = FileOf(s)
  /\ \A r \in requests :
       /\ r.op = "CLOSE" /\ r.res = NULL => fd_table[r.fd] = FileOf(r.sock)
       /\ r.new # NULL => fd_table[files[r.new].fd] = r.new

Refusals == {"EBADF", "EINVAL", "ENOTCONN"}

OnOwnFile ==
  \A r \in requests :
    /\ ~Stray(r) => r.res \notin Refusals
    /\ ~Stray(r) /\ r.op # "CLOSE" => r.file = FileOf(r.sock)
    /\ r.op = "ACCEPT" => files[FileOf(r.sock)].listens

CarefulInv == careful => StillOpen /\ OnOwnFile

PatientInv ==
  /\ patient => careful
  /\ patient => \A r \in requests : r.op = "RECV" /\ r.sock \in closed => r.res = "OK"

SocketsInv ==
  /\ SocketsTypeOK
  /\ RequestsFit
  /\ ListenersServe
  /\ OneSocketPerFile
  /\ OneCloseEach
  /\ NumbersFit
  /\ ClosedAreGone
  /\ CarefulInv
  /\ PatientInv

-----------------------------------------------------------------------------
(* Types.                                                                  *)

FileRecords == [listens : BOOLEAN, port : Ports, fd : Fds]
SocketRecords(n) ==
  [m_type : SocketTypes, m_port : Ports, m_kind : SocketKinds, m_fd : Fds, file : 1 .. n]
RequestRecords(m, n) ==
  [op : {"ACCEPT", "RECV", "CLOSE"}, sock : 1 .. m, fd : Fds,
   file : 1 .. n \cup {NULL}, new : 1 .. n \cup {NULL},
   res : Results \cup {NULL}]

(* A sequence and the elements of its domain. *)
LEMMA SeqFacts ==
  ASSUME NEW S, NEW q \in Seq(S)
  PROVE  /\ Len(q) \in Nat /\ DOMAIN q = 1 .. Len(q)
         /\ \A i \in 1 .. Len(q) : q[i] \in S
  OBVIOUS

(* An element more at the end. *)
LEMMA AppendFacts ==
  ASSUME NEW S, NEW q \in Seq(S), NEW T, S \subseteq T, NEW x \in T
  PROVE  /\ Append(q, x) \in Seq(T)
         /\ Len(Append(q, x)) = Len(q) + 1
         /\ DOMAIN Append(q, x) = 1 .. Len(q) + 1
         /\ \A i \in 1 .. Len(q) : Append(q, x)[i] = q[i]
         /\ Append(q, x)[Len(q) + 1] = x
  <1>1. q \in Seq(T)
    OBVIOUS
  <1>2. QED
    BY <1>1, AppendProperties

(* The type invariant, with lengths for domains. *)
LEMMA TypesRestated ==
  SocketsTypeOK <=>
    /\ careful \in BOOLEAN /\ patient \in BOOLEAN
    /\ files \in Seq(FileRecords)
    /\ fd_table \in [Fds -> 1 .. Len(files) \cup {NULL}]
    /\ sockets \in Seq(SocketRecords(Len(files)))
    /\ requests \subseteq RequestRecords(Len(sockets), Len(files))
    /\ closed \subseteq 1 .. Len(sockets) /\ destroyed \subseteq 1 .. Len(sockets)
  <1>1. files \in Seq(FileRecords) => DOMAIN files = 1 .. Len(files)
    BY SeqFacts
  <1>2. sockets \in Seq(SocketRecords(Len(files))) => DOMAIN sockets = 1 .. Len(sockets)
    BY SeqFacts
  <1>3. QED
    BY <1>1, <1>2 DEF SocketsTypeOK, FileRecords, SocketRecords, RequestRecords

(* The same after a step. *)
LEMMA TypesAfterStep ==
  ASSUME careful' \in BOOLEAN, patient' \in BOOLEAN,
         files' \in Seq(FileRecords),
         fd_table' \in [Fds -> 1 .. Len(files') \cup {NULL}],
         sockets' \in Seq(SocketRecords(Len(files'))),
         requests' \subseteq RequestRecords(Len(sockets'), Len(files')),
         closed' \subseteq 1 .. Len(sockets'), destroyed' \subseteq 1 .. Len(sockets')
  PROVE  SocketsTypeOK'
  <1>1. DOMAIN files' = 1 .. Len(files') /\ DOMAIN sockets' = 1 .. Len(sockets')
    BY SeqFacts
  <1>2. QED
    BY <1>1 DEF SocketsTypeOK, FileRecords, SocketRecords, RequestRecords, Fds

(* What the type invariant says of each file, socket and request. *)
LEMMA TypeFacts ==
  ASSUME SocketsTypeOK
  PROVE  /\ Len(files) \in Nat /\ DOMAIN files = 1 .. Len(files)
         /\ Len(sockets) \in Nat /\ DOMAIN sockets = 1 .. Len(sockets)
         /\ \A i \in DOMAIN files : files[i] \in FileRecords
         /\ \A s \in DOMAIN sockets : sockets[s] \in SocketRecords(Len(files))
         /\ \A r \in requests : r \in RequestRecords(Len(sockets), Len(files))
         /\ NULL \notin DOMAIN files
         /\ \A fd \in Fds : fd_table[fd] \in DOMAIN files \cup {NULL}
  BY TypesRestated, SeqFacts, SocketsAssumption

(* More files and sockets. *)
LEMMA RecordsGrow ==
  ASSUME NEW m \in Nat, NEW n \in Nat, NEW i \in Nat, NEW j \in Nat, m <= i, n <= j
  PROVE  /\ SocketRecords(n) \subseteq SocketRecords(j)
         /\ RequestRecords(m, n) \subseteq RequestRecords(i, j)
  BY DEF SocketRecords, RequestRecords

(* The lowest free descriptor is free. *)
LEMMA LowestFreeIsFree ==
  ASSUME FreeFds # {}
  PROVE  LowestFree \in FreeFds
  <1>1. FreeFds \subseteq Nat
    BY SocketsAssumption DEF FreeFds, Fds
  <1>2. IsWellFoundedOn({ss \in Nat \X Nat : ss[1] < ss[2]}, Nat)
    BY NatLessThanWellFounded DEF OpToRel
  <1>3. PICK fd \in FreeFds : \A other \in FreeFds :
          <<other, fd>> \notin {ss \in Nat \X Nat : ss[1] < ss[2]}
    BY <1>1, <1>2, WFMin
  <1>4. ASSUME NEW other \in FreeFds PROVE fd <= other
    <2>1. fd \in Nat /\ other \in Nat
      BY <1>1
    <2>2. <<other, fd>> \in Nat \X Nat /\ <<other, fd>>[1] = other /\ <<other, fd>>[2] = fd
      BY <2>1
    <2>3. ~(other < fd)
      BY <1>3, <2>2
    <2>4. QED
      BY <2>1, <2>3
  <1>5. QED
    BY <1>4 DEF LowestFree

(* What Open does. *)
LEMMA OpenFacts ==
  ASSUME SocketsTypeOK, NEW listens \in BOOLEAN, NEW port \in Ports, Open(listens, port)
  PROVE  /\ LowestFree \in Fds /\ fd_table[LowestFree] = NULL
         /\ files' \in Seq(FileRecords)
         /\ Len(files') = Len(files) + 1
         /\ DOMAIN files' = 1 .. Len(files) + 1
         /\ \A i \in 1 .. Len(files) : files'[i] = files[i]
         /\ files'[Len(files) + 1] = [listens |-> listens, port |-> port, fd |-> LowestFree]
         /\ fd_table' = [fd_table EXCEPT ![LowestFree] = Len(files) + 1]
         /\ fd_table' \in [Fds -> 1 .. Len(files') \cup {NULL}]
  <1>1. LowestFree \in Fds /\ fd_table[LowestFree] = NULL
    BY LowestFreeIsFree DEF Open, FreeFds
  <1>2. [listens |-> listens, port |-> port, fd |-> LowestFree] \in FileRecords
    BY <1>1 DEF FileRecords
  <1>3. files \in Seq(FileRecords) /\ fd_table \in [Fds -> 1 .. Len(files) \cup {NULL}]
    BY TypesRestated
  <1>4. Len(files) \in Nat
    BY <1>3, SeqFacts
  <1>5. /\ files' \in Seq(FileRecords)
        /\ Len(files') = Len(files) + 1
        /\ DOMAIN files' = 1 .. Len(files) + 1
        /\ \A i \in 1 .. Len(files) : files'[i] = files[i]
        /\ files'[Len(files) + 1] = [listens |-> listens, port |-> port, fd |-> LowestFree]
    BY <1>2, <1>3, AppendFacts DEF Open
  <1>6. QED
    BY <1>1, <1>3, <1>4, <1>5 DEF Open

-----------------------------------------------------------------------------
(* The steps.                                                              *)

(* A step that fails changes nothing else. *)
LEMMA FailKeeps ==
  ASSUME SocketsInv, NEW why, Fail(why), UNCHANGED <<careful, patient, destroyed>>
  PROVE  SocketsInv'
  BY DEF Fail, SocketsInv, SocketsTypeOK, RequestsFit, ListenersServe, OneSocketPerFile,
         OneCloseEach, NumbersFit, ClosedAreGone, CarefulInv, StillOpen, OnOwnFile, PatientInv,
         Stray, FileOf, Fds

(* A new file, open under its number, changes nothing of those that are    *)
(* there: requests and sockets that stay keep what is known of them.       *)
LEMMA OpenKeeps ==
  ASSUME SocketsInv, NEW listens \in BOOLEAN, NEW port \in Ports, Open(listens, port)
  PROVE  /\ \A i \in DOMAIN files : files'[i] = files[i] /\ i # Len(files')
         /\ \A fd \in Fds : fd_table[fd] # NULL => fd_table'[fd] = fd_table[fd]
         /\ \A fd \in Fds : fd # LowestFree => fd_table'[fd] = fd_table[fd]
         /\ Len(files') \in DOMAIN files' /\ Len(files') # NULL
         /\ files'[Len(files')].fd = LowestFree /\ files'[Len(files')].listens = listens
         /\ LowestFree \in Fds /\ fd_table'[LowestFree] = Len(files')
  <1>1. SocketsTypeOK
    BY DEF SocketsInv
  <1>2. /\ LowestFree \in Fds /\ fd_table[LowestFree] = NULL
        /\ Len(files') = Len(files) + 1
        /\ DOMAIN files' = 1 .. Len(files) + 1
        /\ \A i \in 1 .. Len(files) : files'[i] = files[i]
        /\ files'[Len(files) + 1] = [listens |-> listens, port |-> port, fd |-> LowestFree]
        /\ fd_table' = [fd_table EXCEPT ![LowestFree] = Len(files) + 1]
    BY <1>1, OpenFacts
  <1>3. Len(files) \in Nat /\ DOMAIN files = 1 .. Len(files)
    BY <1>1, TypeFacts
  <1>4. fd_table \in [Fds -> 1 .. Len(files) \cup {NULL}]
    BY <1>1, TypesRestated
  <1>5. QED
    BY <1>2, <1>3, <1>4, SocketsAssumption

(* Numbers and closed files, when a file is new and closes stay.           *)
LEMMA OpenKeepsNumbers ==
  ASSUME SocketsInv, NEW listens \in BOOLEAN, NEW port \in Ports, Open(listens, port),
         \A s \in closed : sockets'[s] = sockets[s],
         \A r \in requests : r.op = "CLOSE" => r \in requests',
         closed' = closed
  PROVE  NumbersFit' /\ ClosedAreGone'
  <1>1. /\ \A i \in DOMAIN files : files'[i] = files[i] /\ i # Len(files')
        /\ \A fd \in Fds : fd_table[fd] # NULL => fd_table'[fd] = fd_table[fd]
        /\ \A fd \in Fds : fd # LowestFree => fd_table'[fd] = fd_table[fd]
        /\ files'[Len(files')].fd = LowestFree
        /\ LowestFree \in Fds /\ fd_table'[LowestFree] = Len(files')
    BY OpenKeeps
  <1>2. /\ \A fd \in Fds : fd_table[fd] \in DOMAIN files \cup {NULL}
        /\ \A s \in closed : FileOf(s) \in DOMAIN files /\ sockets[s].m_fd \in Fds
    BY TypeFacts, TypesRestated DEF SocketsInv, SocketRecords, FileOf
  <1>3. NumbersFit'
    <2>1. ASSUME NEW fd \in Fds, fd_table'[fd] # NULL PROVE files'[fd_table'[fd]].fd = fd
      BY <1>1, <1>2, <2>1 DEF SocketsInv, NumbersFit
    <2>2. QED
      BY <2>1 DEF NumbersFit, Fds
  <1>4. ASSUME NEW s \in closed, fd_table'[sockets[s].m_fd] = FileOf(s)
        PROVE  \E r \in requests' : r.op = "CLOSE" /\ r.sock = s /\ r.res = NULL
    <2>1. sockets[s].m_fd # LowestFree
      BY <1>1, <1>2, <1>4
    <2>2. fd_table[sockets[s].m_fd] = FileOf(s)
      BY <1>1, <1>2, <1>4, <2>1
    <2>3. QED
      BY <2>2 DEF SocketsInv, ClosedAreGone
  <1>5. QED
    BY <1>3, <1>4 DEF ClosedAreGone, FileOf

(* create_impl for a new descriptor (SocketImpl.cpp). *)
LEMMA CreateKeeps ==
  ASSUME SocketsInv, NEW c \in Creations, create_impl(c), UNCHANGED <<careful, patient, destroyed>>
  PROVE  SocketsInv'
  <1>1. CASE \E why : Fail(why)
    BY <1>1, FailKeeps
  <1>2. CASE Created(c) /\ Open(c.kind = "SERVER_STREAM_SOCKET", c.port)
    <2> DEFINE listens == c.kind = "SERVER_STREAM_SOCKET"
               socket == [m_type |-> c.type, m_port |-> c.port, m_kind |-> c.kind,
                          m_fd |-> LowestFree, file |-> Len(files')]
    <2>1. /\ c \in [type : SocketTypes, port : Ports, kind : SocketKinds]
          /\ listens \in BOOLEAN /\ Open(listens, c.port) /\ c.port \in Ports
      BY <1>2, SocketsAssumption
    <2>2. /\ sockets' = Append(sockets, socket)
          /\ UNCHANGED <<requests, closed, failed, careful, patient, destroyed>>
      BY <1>2 DEF create_impl, Open
    <2>3. SocketsTypeOK
      BY DEF SocketsInv
    <2>4. /\ LowestFree \in Fds
          /\ files' \in Seq(FileRecords) /\ Len(files') = Len(files) + 1
          /\ DOMAIN files' = 1 .. Len(files) + 1
          /\ fd_table' \in [Fds -> 1 .. Len(files') \cup {NULL}]
      BY <2>1, <2>3, OpenFacts
    <2>5. /\ Len(files) \in Nat /\ Len(sockets) \in Nat
          /\ sockets \in Seq(SocketRecords(Len(files)))
      BY <2>3, TypeFacts, TypesRestated
    <2>6. socket \in SocketRecords(Len(files'))
      BY <2>1, <2>4, <2>5 DEF SocketRecords
    <2>7. /\ sockets' \in Seq(SocketRecords(Len(files')))
          /\ Len(sockets') = Len(sockets) + 1 /\ DOMAIN sockets' = 1 .. Len(sockets) + 1
          /\ \A s \in 1 .. Len(sockets) : sockets'[s] = sockets[s]
          /\ sockets'[Len(sockets) + 1] = socket
      <3>1. SocketRecords(Len(files)) \subseteq SocketRecords(Len(files'))
        BY <2>4, <2>5, RecordsGrow
      <3>2. QED
        BY <2>2, <2>5, <2>6, <3>1, AppendFacts
    <2>8. SocketsTypeOK'
      <3>1. requests \subseteq RequestRecords(Len(sockets'), Len(files'))
        BY <2>3, <2>4, <2>5, <2>7, TypesRestated, RecordsGrow
      <3>2. QED
        BY <2>2, <2>3, <2>4, <2>5, <2>7, <3>1, TypesRestated, TypesAfterStep
    <2>9. /\ \A i \in DOMAIN files : files'[i] = files[i] /\ i # Len(files')
          /\ \A fd \in Fds : fd_table[fd] # NULL => fd_table'[fd] = fd_table[fd]
          /\ files'[Len(files')].fd = LowestFree /\ files'[Len(files')].listens = listens
          /\ fd_table'[LowestFree] = Len(files')
      BY <2>1, OpenKeeps
    <2>10. /\ DOMAIN sockets = 1 .. Len(sockets)
           /\ \A s \in DOMAIN sockets : FileOf(s) \in DOMAIN files /\ sockets[s].m_fd \in Fds
           /\ \A r \in requests : /\ r.sock \in DOMAIN sockets /\ r.fd \in Fds
                                  /\ r.new # NULL => r.new \in DOMAIN files
           /\ closed \subseteq DOMAIN sockets
           /\ NULL \notin DOMAIN files
           /\ \A i \in DOMAIN files : files[i].fd \in Fds
      BY <2>3, TypeFacts, TypesRestated DEF SocketRecords, RequestRecords, FileRecords, FileOf
    <2> DEFINE new == Len(sockets) + 1
    <2>11. /\ DOMAIN sockets' = DOMAIN sockets \cup {new} /\ new \notin DOMAIN sockets
           /\ \A s \in DOMAIN sockets : sockets'[s] = sockets[s]
           /\ sockets'[new].m_fd = LowestFree /\ sockets'[new].file = Len(files')
           /\ listens => sockets'[new].m_kind = "SERVER_STREAM_SOCKET"
      <3>1. /\ 1 .. Len(sockets) + 1 = 1 .. Len(sockets) \cup {new}
            /\ new \notin 1 .. Len(sockets)
        BY <2>5
      <3>2. QED
        BY <2>7, <2>10, <3>1
    <2>12. RequestsFit'
      BY <2>2, <2>9, <2>10, <2>11 DEF SocketsInv, RequestsFit, FileOf
    <2>13. ListenersServe'
      <3>1. files'[Len(files')].listens => listens
        BY <2>9, Zenon
      <3>2. ASSUME NEW s \in DOMAIN sockets', files'[sockets'[s].file].listens
            PROVE  sockets'[s].m_kind = "SERVER_STREAM_SOCKET"
        <4>1. CASE s \in DOMAIN sockets
          BY <2>9, <2>10, <2>11, <3>2, <4>1 DEF SocketsInv, ListenersServe, FileOf
        <4>2. CASE s = new
          BY <2>11, <3>1, <3>2, <4>2
        <4>3. QED
          BY <2>11, <3>2, <4>1, <4>2
      <3>3. QED
        BY <3>2 DEF ListenersServe, FileOf
    <2>14. OneSocketPerFile'
      BY <2>2, <2>9, <2>10, <2>11 DEF SocketsInv, OneSocketPerFile, FileOf
    <2>15. OneCloseEach'
      BY <2>2, <2>10, <2>11 DEF SocketsInv, OneCloseEach
    <2>16. CarefulInv'
      <3>1. careful => StillOpen'
        BY <2>2, <2>9, <2>10, <2>11 DEF SocketsInv, CarefulInv, StillOpen, FileOf
      <3>2. careful => OnOwnFile'
        BY <2>2, <2>9, <2>10, <2>11 DEF SocketsInv, CarefulInv, OnOwnFile, Stray, FileOf
      <3>3. QED
        BY <2>2, <3>1, <3>2 DEF CarefulInv
    <2>17. NumbersFit' /\ ClosedAreGone'
      BY <2>1, <2>2, <2>10, <2>11, OpenKeepsNumbers
    <2>18. PatientInv'
      BY <2>2 DEF SocketsInv, PatientInv
    <2>19. QED
      BY <2>8, <2>12, <2>13, <2>14, <2>15, <2>16, <2>17, <2>18 DEF SocketsInv
  <1>3. QED
    BY <1>1, <1>2 DEF create_impl

(* A request put in the place of another one of the same kind and socket,  *)
(* when neither opens nor closes a file.                                   *)
LEMMA ReplaceKeeps ==
  ASSUME SocketsInv, NEW r \in requests, NEW q, Replace(r, q),
         UNCHANGED <<careful, patient, destroyed, fd_table, files, sockets, closed>>,
         q \in RequestRecords(Len(sockets), Len(files)),
         q.op = r.op, q.sock = r.sock, q.fd = r.fd, q.new = NULL,
         ~(q.op = "ACCEPT" /\ q.res = "OK"),
         q.op = "CLOSE" => q.res # NULL,
         q.op = "CLOSE" => fd_table[q.fd] # FileOf(q.sock),
         careful /\ ~Stray(q) => /\ q.op # "CLOSE" => q.file = FileOf(q.sock)
                                 /\ q.res \notin Refusals,
         patient /\ q.op = "RECV" /\ q.sock \in closed => q.res = "OK"
  PROVE  SocketsInv'
  <1>1. SocketsTypeOK
    BY DEF SocketsInv
  <1>2. SocketsTypeOK'
    BY <1>1, TypesRestated, TypesAfterStep DEF Replace
  <1>3. /\ requests' = (requests \ {r}) \cup {q}
        /\ UNCHANGED <<careful, patient, destroyed, fd_table, files, sockets, closed>>
    BY DEF Replace
  <1>4. RequestsFit'
    BY <1>3 DEF SocketsInv, RequestsFit, FileOf
  <1>5. ListenersServe'
    BY <1>3 DEF SocketsInv, ListenersServe, FileOf
  <1>6. OneSocketPerFile'
    BY <1>3 DEF SocketsInv, OneSocketPerFile, FileOf
  <1>7. OneCloseEach'
    BY <1>3 DEF SocketsInv, OneCloseEach
  <1>8. careful => StillOpen'
    BY <1>3 DEF SocketsInv, CarefulInv, StillOpen, FileOf
  <1>9. careful => OnOwnFile'
    BY <1>3 DEF SocketsInv, CarefulInv, OnOwnFile, Stray, FileOf
  <1>10. ClosedAreGone'
    BY <1>3 DEF SocketsInv, ClosedAreGone, RequestsFit, FileOf
  <1>11. NumbersFit' /\ PatientInv'
    BY <1>3 DEF SocketsInv, NumbersFit, PatientInv, Fds
  <1>12. QED
    BY <1>2, <1>3, <1>4, <1>5, <1>6, <1>7, <1>8, <1>9, <1>10, <1>11 DEF SocketsInv, CarefulInv

(* A request that is over. *)
LEMMA RemoveKeeps ==
  ASSUME SocketsInv, NEW r \in requests, requests' = requests \ {r},
         r.op = "CLOSE" => r.res # NULL,
         UNCHANGED <<careful, patient, destroyed, fd_table, files, sockets, closed>>
  PROVE  SocketsInv'
  <1>1. SocketsTypeOK'
    BY TypesRestated, TypesAfterStep DEF SocketsInv
  <1>2. RequestsFit' /\ ListenersServe'
    BY DEF SocketsInv, RequestsFit, ListenersServe, FileOf
  <1>3. OneSocketPerFile' /\ OneCloseEach'
    BY DEF SocketsInv, OneSocketPerFile, OneCloseEach, FileOf
  <1>4. CarefulInv'
    BY DEF SocketsInv, CarefulInv, StillOpen, OnOwnFile, Stray, FileOf
  <1>5. NumbersFit' /\ ClosedAreGone' /\ PatientInv'
    BY DEF SocketsInv, NumbersFit, ClosedAreGone, PatientInv, Fds, FileOf
  <1>6. QED
    BY <1>1, <1>2, <1>3, <1>4, <1>5 DEF SocketsInv

(* A request submitted again, by a socket whose number still means its     *)
(* file, by one that nobody takes care of, or as a stray.                  *)
LEMMA AgainKeeps ==
  ASSUME SocketsInv, NEW r \in requests, Replace(r, Again(r)), r.op # "CLOSE",
         careful => r.sock \notin closed \/ Stray(r),
         UNCHANGED <<careful, patient, destroyed, fd_table, files, sockets, closed>>
  PROVE  SocketsInv'
  <1> DEFINE q == Again(r)
  <1>1. r \in RequestRecords(Len(sockets), Len(files)) /\ r.sock \in DOMAIN sockets
    BY TypeFacts DEF SocketsInv, RequestRecords
  <1>2. fd_table[r.fd] \in 1 .. Len(files) \cup {NULL}
    BY <1>1, TypeFacts DEF SocketsInv, RequestRecords
  <1>3. /\ q \in RequestRecords(Len(sockets), Len(files))
        /\ q.op = r.op /\ q.sock = r.sock /\ q.fd = r.fd /\ q.new = NULL /\ q.res = NULL
        /\ q.file = fd_table[r.fd]
    BY <1>1, <1>2 DEF Again, RequestRecords
  <1>4. careful /\ ~Stray(q) => q.file = FileOf(q.sock)
    <2>1. Stray(q) <=> Stray(r)
      BY <1>3 DEF Stray
    <2> HIDE DEF q
    <2>2. QED
      BY <1>1, <1>3, <2>1 DEF SocketsInv, CarefulInv, StillOpen, RequestsFit
  <1>5. /\ NULL # "OK" /\ NULL \notin Refusals
        /\ ~(patient /\ q.op = "RECV" /\ q.sock \in closed)
    BY <1>3, SocketsAssumption DEF Refusals, Results, Stray, SocketsInv, PatientInv
  <1>6. Replace(r, q)
    OBVIOUS
  <1> HIDE DEF q
  <1>7. QED
    BY <1>3, <1>4, <1>5, <1>6, ReplaceKeeps

(* A completion that neither opens nor closes a file. *)
LEMMA CompleteKeeps ==
  ASSUME SocketsInv, NEW r \in Pending, NEW res \in Results, Complete(r, res),
         ~(r.op = "ACCEPT" /\ res = "OK"),
         r.op = "CLOSE" => fd_table[r.fd] = NULL,
         careful /\ ~Stray(r) => res \notin Refusals,
         UNCHANGED <<careful, patient, destroyed, fd_table, files, sockets, closed>>
  PROVE  SocketsInv'
  <1> DEFINE q == [r EXCEPT !.res = res]
  <1>1. r \in requests /\ r.res = NULL
    BY DEF Pending
  <1>2. r \in RequestRecords(Len(sockets), Len(files)) /\ r.new = NULL
    BY <1>1, TypeFacts, SocketsAssumption DEF SocketsInv, RequestsFit, Results
  <1>3. /\ q \in RequestRecords(Len(sockets), Len(files))
        /\ q.op = r.op /\ q.sock = r.sock /\ q.fd = r.fd /\ q.new = NULL /\ q.res = res
        /\ q.file = r.file
    BY <1>2 DEF RequestRecords
  <1>4. Replace(r, q) /\ res # NULL
    BY SocketsAssumption DEF Complete
  <1> HIDE DEF q
  <1>5. Stray(q) <=> Stray(r)
    BY <1>3 DEF Stray
  <1>6. careful /\ ~Stray(r) /\ r.op # "CLOSE" => r.file = FileOf(r.sock)
    BY <1>1 DEF SocketsInv, CarefulInv, OnOwnFile
  <1>7. FileOf(r.sock) # NULL
    BY <1>2, TypeFacts DEF SocketsInv, SocketRecords, RequestRecords, FileOf
  <1>8. ~(patient /\ r.op = "RECV" /\ r.sock \in closed)
    BY <1>1, SocketsAssumption DEF SocketsInv, PatientInv, Results
  <1>9. QED
    BY <1>1, <1>3, <1>4, <1>5, <1>6, <1>7, <1>8, ReplaceKeeps

(* Data, the end of a stream, or an error of the connection. *)
LEMMA ReceiveKeeps ==
  ASSUME SocketsInv, NEW r, KernelReceives(r), UNCHANGED <<careful, patient, destroyed>>
  PROVE  SocketsInv'
  <1>1. /\ r \in Pending /\ r.op = "RECV"
        /\ UNCHANGED <<fd_table, files, sockets, closed>>
    BY DEF KernelReceives
  <1>2. PICK res \in {"OK", "ECONNRESET", "ENOBUFS", "ERR"} : Complete(r, res)
    BY DEF KernelReceives
  <1>3. res \in Results /\ res \notin Refusals
    BY DEF Results, Refusals
  <1>4. QED
    BY <1>1, <1>2, <1>3, CompleteKeeps

(* Of a careful application the kernel refuses nothing but strays. *)
LEMMA RefuseKeeps ==
  ASSUME SocketsInv, NEW r, KernelRefuses(r), UNCHANGED <<careful, patient, destroyed>>
  PROVE  SocketsInv'
  <1>1. r \in Pending /\ r \in requests /\ r.res = NULL /\ r.sock \in DOMAIN sockets
    BY TypeFacts DEF KernelRefuses, Pending, SocketsInv, RequestRecords
  <1>2. FileOf(r.sock) # NULL
    BY <1>1, TypeFacts DEF SocketsInv, SocketRecords, FileOf
  <1>3. ASSUME careful, ~Stray(r)
        PROVE  /\ r.op = "CLOSE" => fd_table[r.fd] # NULL
               /\ r.op # "CLOSE" => /\ r.file # NULL
                                    /\ r.op = "ACCEPT" => files[r.file].listens
                                    /\ r.op # "ACCEPT" => ~files[r.file].listens
    BY <1>1, <1>2, <1>3 DEF SocketsInv, CarefulInv, StillOpen, OnOwnFile, RequestsFit
  <1>4. PICK res \in Results :
          /\ Complete(r, res)
          /\ ~(r.op = "ACCEPT" /\ res = "OK")
          /\ r.op = "CLOSE" => fd_table[r.fd] = NULL
          /\ careful /\ ~Stray(r) => res \notin Refusals
    <2>1. CASE r.op = "CLOSE" /\ fd_table[r.fd] = NULL /\ Complete(r, "EBADF")
      BY <1>3, <2>1 DEF Results
    <2>2. CASE r.op # "CLOSE" /\ r.file = NULL /\ Complete(r, "EBADF")
      BY <1>3, <2>2 DEF Results
    <2>3. CASE r.op = "ACCEPT" /\ r.file # NULL /\ ~files[r.file].listens /\ Complete(r, "EINVAL")
      BY <1>3, <2>3 DEF Results
    <2>4. CASE r.op = "ACCEPT" /\ \E res \in {"ENOBUFS", "ERR"} : Complete(r, res)
      BY <2>4 DEF Results, Refusals
    <2>5. CASE r.op = "RECV" /\ r.file # NULL /\ files[r.file].listens /\ Complete(r, "ENOTCONN")
      BY <1>3, <2>5 DEF Results
    <2>6. QED
      BY <2>1, <2>2, <2>3, <2>4, <2>5 DEF KernelRefuses
  <1>5. UNCHANGED <<fd_table, files, sockets, closed>>
    BY DEF KernelRefuses
  <1>6. QED
    BY <1>1, <1>4, <1>5, CompleteKeeps

(* An accept is submitted again, by its listener. *)
LEMMA AcceptAgainKeeps ==
  ASSUME SocketsInv, NEW r \in requests, r.op = "ACCEPT", Replace(r, Again(r)),
         UNCHANGED <<careful, patient, destroyed, fd_table, files, sockets, closed>>
  PROVE  SocketsInv'
  <1>1. careful => r.sock \notin closed
    BY DEF SocketsInv, CarefulInv, OnOwnFile, RequestsFit
  <1>2. QED
    BY <1>1, AgainKeeps

(* An accept that failed: it ends the process or is submitted again. *)
LEMMA AcceptErrorKeeps ==
  ASSUME SocketsInv, NEW r, AcceptError(r), UNCHANGED <<careful, patient, destroyed>>
  PROVE  SocketsInv'
  <1>1. CASE \E why : Fail(why)
    BY <1>1, FailKeeps
  <1>2. CASE Replace(r, Again(r)) /\ UNCHANGED <<fd_table, files, sockets, closed, failed>>
    BY <1>2, AcceptAgainKeeps DEF AcceptError
  <1>3. QED
    BY <1>1, <1>2 DEF AcceptError

(* call_recv_callback. *)
LEMMA RecvCallbackKeeps ==
  ASSUME SocketsInv, NEW r, RecvCallback(r), UNCHANGED <<careful, patient, destroyed>>
  PROVE  SocketsInv'
  <1>1. r \in requests /\ r.op = "RECV"
    BY DEF RecvCallback
  <1>2. CASE \E why : Fail(why)
    BY <1>2, FailKeeps
  <1>3. CASE requests' = requests \ {r} /\ UNCHANGED <<fd_table, files, sockets, closed, failed>>
    BY <1>1, <1>3, RemoveKeeps
  <1>4. CASE /\ MayUse(r.sock) /\ Replace(r, Again(r))
             /\ UNCHANGED <<fd_table, files, sockets, closed, failed>>
    BY <1>1, <1>4, AgainKeeps DEF MayUse
  <1>5. CASE /\ r.res = "ECONNRESET" /\ Replace(r, Again(r))
             /\ UNCHANGED <<fd_table, files, sockets, closed, failed>>
    <2>1. r.sock \notin closed \/ Stray(r)
      BY <1>1, <1>5 DEF SocketsInv, PatientInv, Stray
    <2>2. QED
      BY <1>1, <1>5, <2>1, AgainKeeps
  <1>6. QED
    BY <1>2, <1>3, <1>4, <1>5 DEF RecvCallback

(* call_close_callback. *)
LEMMA CloseCallbackKeeps ==
  ASSUME SocketsInv, NEW r, CloseCallback(r), UNCHANGED <<careful, patient, destroyed>>
  PROVE  SocketsInv'
  BY RemoveKeeps DEF CloseCallback

(* A request of the application: on the file of its socket, if that is     *)
(* taken care of.                                                          *)
LEMMA SubmitKeeps ==
  ASSUME SocketsInv, NEW op \in {"ACCEPT", "RECV", "CLOSE"}, NEW s \in DOMAIN sockets,
         Submit(op, s), UNCHANGED <<careful, patient, destroyed>>,
         IF op = "CLOSE" THEN closed' = closed \cup {s} ELSE closed' = closed,
         op # "ACCEPT" => ~files[FileOf(s)].listens,
         careful /\ op = "ACCEPT" => files[FileOf(s)].listens,
         patient /\ op = "CLOSE" => \A r \in requests : r.op = "RECV" /\ r.sock = s => r.res = "OK"
  PROVE  SocketsInv'
  <1> DEFINE q == Request(op, s)
  <1>1. SocketsTypeOK
    BY DEF SocketsInv
  <1>2. /\ requests' = requests \cup {q}
        /\ \A r \in requests : ~(r.op = op /\ r.sock = s)
        /\ UNCHANGED <<careful, patient, destroyed, fd_table, files, sockets>>
        /\ careful => s \notin closed
    BY DEF Submit, MayUse
  <1>3. s \in 1 .. Len(sockets) /\ sockets[s].m_fd \in Fds /\ FileOf(s) \in 1 .. Len(files)
    BY <1>1, TypeFacts DEF SocketRecords, FileOf
  <1>4. /\ q \in RequestRecords(Len(sockets), Len(files))
        /\ q.op = op /\ q.sock = s /\ q.fd = sockets[s].m_fd /\ q.file = fd_table[sockets[s].m_fd]
        /\ q.new = NULL /\ q.res = NULL
    BY <1>1, <1>3, TypeFacts DEF Request, RequestRecords
  <1>5. NULL # "OK" /\ NULL \notin Refusals
    BY SocketsAssumption DEF Results, Refusals
  <1> HIDE DEF q
  <1>6. SocketsTypeOK'
    <2>1. closed' \subseteq 1 .. Len(sockets)
      BY <1>1, <1>3, TypesRestated
    <2>2. QED
      BY <1>1, <1>2, <1>4, <2>1, TypesRestated, TypesAfterStep
  <1>7. RequestsFit'
    BY <1>2, <1>4, <1>5 DEF SocketsInv, RequestsFit, FileOf
  <1>8. ListenersServe'
    BY <1>2 DEF SocketsInv, ListenersServe, FileOf
  <1>9. OneSocketPerFile'
    BY <1>2, <1>4 DEF SocketsInv, OneSocketPerFile, FileOf
  <1>10. OneCloseEach'
    BY <1>2, <1>4 DEF SocketsInv, OneCloseEach
  <1>11. careful => fd_table[sockets[s].m_fd] = FileOf(s)
    BY <1>2 DEF SocketsInv, CarefulInv, StillOpen
  <1>12. careful => StillOpen'
    BY <1>2, <1>4, <1>11 DEF SocketsInv, CarefulInv, StillOpen, FileOf
  <1>13. careful => OnOwnFile'
    BY <1>2, <1>4, <1>5, <1>11 DEF SocketsInv, CarefulInv, OnOwnFile, Stray, FileOf
  <1>14. ClosedAreGone'
    BY <1>2, <1>4 DEF SocketsInv, ClosedAreGone, FileOf
  <1>15. PatientInv'
    BY <1>2, <1>4 DEF SocketsInv, PatientInv
  <1>16. NumbersFit'
    BY <1>2 DEF SocketsInv, NumbersFit, Fds
  <1>17. QED
    BY <1>2, <1>6, <1>7, <1>8, <1>9, <1>10, <1>12, <1>13, <1>14, <1>15, <1>16
    DEF SocketsInv, CarefulInv

(* The submissions (IOUringInterface.hpp). *)
LEMMA ApplicationKeeps ==
  ASSUME SocketsInv, NEW s \in DOMAIN sockets,
         submit_accept(s) \/ submit_recv(s) \/ submit_close(s),
         UNCHANGED <<careful, patient, destroyed>>
  PROVE  SocketsInv'
  <1>1. CASE \E why : Fail(why)
    BY <1>1, FailKeeps
  <1>2. CASE submit_accept(s) /\ Submit("ACCEPT", s) /\ UNCHANGED closed
    BY <1>2, SubmitKeeps DEF submit_accept, FileOf
  <1>3. CASE submit_recv(s)
    BY <1>3, SubmitKeeps DEF submit_recv, FileOf
  <1>4. CASE submit_close(s)
    BY <1>4, SubmitKeeps DEF submit_close, FileOf
  <1>5. QED
    BY <1>1, <1>2, <1>3, <1>4 DEF submit_accept

(* A connection: a new file, that of the result of the accept. *)
LEMMA AcceptKeeps ==
  ASSUME SocketsInv, NEW r \in requests, NEW port \in ClientPorts, KernelAccepts(r, port),
         UNCHANGED <<careful, patient, destroyed>>
  PROVE  SocketsInv'
  <1> DEFINE q == [r EXCEPT !.new = Len(files'), !.res = "OK"]
  <1>1. SocketsTypeOK
    BY DEF SocketsInv
  <1>2. /\ requests' = (requests \ {r}) \cup {q}
        /\ UNCHANGED <<careful, patient, destroyed, sockets, closed>>
        /\ r.op = "ACCEPT" /\ r.res = NULL
        /\ Open(FALSE, port) /\ port \in Ports
    BY SocketsAssumption DEF KernelAccepts, Replace, Pending
  <1>3. /\ files' \in Seq(FileRecords) /\ Len(files') = Len(files) + 1
        /\ DOMAIN files' = 1 .. Len(files) + 1
        /\ fd_table' \in [Fds -> 1 .. Len(files') \cup {NULL}]
    BY <1>1, <1>2, OpenFacts
  <1>4. /\ \A i \in DOMAIN files : files'[i] = files[i] /\ i # Len(files')
        /\ \A fd \in Fds : fd_table[fd] # NULL => fd_table'[fd] = fd_table[fd]
        /\ Len(files') \in DOMAIN files' /\ Len(files') # NULL
        /\ files'[Len(files')].fd = LowestFree
        /\ fd_table'[LowestFree] = Len(files')
    BY <1>2, OpenKeeps
  <1>5. Len(files) \in Nat /\ Len(sockets) \in Nat
    BY <1>1, TypeFacts
  <1>6. r \in RequestRecords(Len(sockets), Len(files'))
    BY <1>1, <1>3, <1>5, TypeFacts, RecordsGrow
  <1>7. /\ q \in RequestRecords(Len(sockets), Len(files'))
        /\ q.op = "ACCEPT" /\ q.sock = r.sock /\ q.fd = r.fd /\ q.file = r.file
        /\ q.new = Len(files') /\ q.res = "OK"
    BY <1>2, <1>3, <1>4, <1>6 DEF RequestRecords, Results
  <1> HIDE DEF q
  <1>8. SocketsTypeOK'
    <2>1. requests' \subseteq RequestRecords(Len(sockets), Len(files'))
      BY <1>1, <1>2, <1>3, <1>5, <1>7, TypesRestated, RecordsGrow
    <2>2. sockets \in Seq(SocketRecords(Len(files')))
      <3>1. SocketRecords(Len(files)) \subseteq SocketRecords(Len(files'))
        BY <1>3, <1>5, RecordsGrow
      <3>2. sockets \in Seq(SocketRecords(Len(files)))
        BY <1>1, TypesRestated
      <3>3. QED
        BY <3>1, <3>2
    <2>3. QED
      BY <1>1, <1>2, <1>3, <2>1, <2>2, TypesRestated, TypesAfterStep
  <1>9. /\ \A s \in DOMAIN sockets : FileOf(s) \in DOMAIN files /\ sockets[s].m_fd \in Fds
        /\ \A p \in requests : /\ p.sock \in DOMAIN sockets /\ p.fd \in Fds
                               /\ p.new # NULL => p.new \in DOMAIN files
        /\ closed \subseteq DOMAIN sockets
        /\ NULL \notin DOMAIN files
        /\ \A i \in DOMAIN files : files[i].fd \in Fds
    BY <1>1, TypeFacts, TypesRestated DEF SocketRecords, RequestRecords, FileRecords, FileOf
  <1>10. RequestsFit'
    BY <1>2, <1>4, <1>7, <1>9 DEF SocketsInv, RequestsFit, FileOf
  <1>11. ListenersServe'
    BY <1>2, <1>4, <1>9 DEF SocketsInv, ListenersServe, FileOf
  <1>12. OneSocketPerFile'
    BY <1>2, <1>4, <1>7, <1>9 DEF SocketsInv, OneSocketPerFile, FileOf
  <1>13. OneCloseEach'
    BY <1>2, <1>7 DEF SocketsInv, OneCloseEach
  <1>14. ASSUME careful PROVE StillOpen'
    <2>1. ASSUME NEW s \in DOMAIN sockets, s \notin closed
          PROVE  fd_table'[sockets[s].m_fd] = FileOf(s)
      BY <1>4, <1>9, <1>14, <2>1 DEF SocketsInv, CarefulInv, StillOpen
    <2>2. ASSUME NEW p \in requests, p.op = "CLOSE", p.res = NULL
          PROVE  fd_table'[p.fd] = FileOf(p.sock)
      BY <1>4, <1>9, <1>14, <2>2 DEF SocketsInv, CarefulInv, StillOpen
    <2>3. ASSUME NEW p \in requests, p.new # NULL
          PROVE  fd_table'[files'[p.new].fd] = p.new
      BY <1>4, <1>9, <1>14, <2>3 DEF SocketsInv, CarefulInv, StillOpen
    <2>4. QED
      BY <1>2, <1>4, <1>7, <2>1, <2>2, <2>3 DEF StillOpen, FileOf
  <1>15. careful => OnOwnFile'
    BY <1>2, <1>4, <1>7, <1>9 DEF SocketsInv, CarefulInv, OnOwnFile, Stray, Refusals, FileOf
  <1>16. NumbersFit' /\ ClosedAreGone'
    BY <1>2, OpenKeepsNumbers
  <1>17. PatientInv'
    BY <1>2, <1>7 DEF SocketsInv, PatientInv
  <1>18. QED
    BY <1>2, <1>8, <1>10, <1>11, <1>12, <1>13, <1>14, <1>15, <1>16, <1>17
    DEF SocketsInv, CarefulInv

(* Which file a close closes, in a careful application. *)
LEMMA ClosesOwnFile ==
  ASSUME SocketsInv, careful, NEW r, KernelCloses(r)
  PROVE  r.sock \in closed /\ fd_table[r.fd] = FileOf(r.sock)
  BY DEF KernelCloses, Pending, SocketsInv, RequestsFit, CarefulInv, StillOpen

(* A close: the number is free. *)
LEMMA CloseKeeps ==
  ASSUME SocketsInv, NEW r, KernelCloses(r), UNCHANGED <<careful, patient, destroyed>>
  PROVE  SocketsInv'
  <1> DEFINE q == [r EXCEPT !.res = "OK"]
  <1>1. SocketsTypeOK
    BY DEF SocketsInv
  <1>2. /\ r \in requests /\ r.op = "CLOSE" /\ r.res = NULL
        /\ requests' = (requests \ {r}) \cup {q}
        /\ fd_table' = [fd_table EXCEPT ![r.fd] = NULL]
        /\ UNCHANGED <<careful, patient, destroyed, files, sockets, closed>>
    BY DEF KernelCloses, Pending, Complete, Replace
  <1>3. r \in RequestRecords(Len(sockets), Len(files)) /\ r.new = NULL
    BY <1>1, <1>2, TypeFacts, SocketsAssumption DEF SocketsInv, RequestsFit, Results
  <1>4. /\ q \in RequestRecords(Len(sockets), Len(files))
        /\ q.op = "CLOSE" /\ q.sock = r.sock /\ q.fd = r.fd /\ q.new = NULL /\ q.res = "OK"
    BY <1>2, <1>3 DEF RequestRecords, Results
  <1>5. NULL # "OK"
    BY SocketsAssumption DEF Results
  <1> HIDE DEF q
  <1>6. fd_table \in [Fds -> 1 .. Len(files) \cup {NULL}]
    BY <1>1, TypesRestated
  <1>7. SocketsTypeOK'
    BY <1>1, <1>2, <1>4, <1>6, TypesRestated, TypesAfterStep
  <1>8. RequestsFit'
    BY <1>2, <1>4 DEF SocketsInv, RequestsFit, FileOf
  <1>9. ListenersServe'
    BY <1>2 DEF SocketsInv, ListenersServe, FileOf
  <1>10. OneSocketPerFile'
    BY <1>2, <1>4 DEF SocketsInv, OneSocketPerFile, FileOf
  <1>11. OneCloseEach'
    BY <1>2, <1>4 DEF SocketsInv, OneCloseEach
  <1>12. \A fd \in Fds : fd # r.fd => fd_table'[fd] = fd_table[fd]
    BY <1>2, <1>6
  <1>13. /\ \A s \in DOMAIN sockets : sockets[s].m_fd \in Fds
         /\ \A p \in requests : /\ p.sock \in DOMAIN sockets /\ p.fd \in Fds
                                /\ p.new # NULL => files[p.new].fd \in Fds
    BY <1>1, TypeFacts DEF SocketRecords, RequestRecords, FileRecords
  <1>14. ASSUME careful PROVE StillOpen'
    <2>1. r.sock \in closed /\ fd_table[r.fd] = FileOf(r.sock) /\ r.sock \in DOMAIN sockets
      BY <1>2, <1>13, <1>14, ClosesOwnFile
    <2>2. ASSUME NEW s \in DOMAIN sockets, s \notin closed
          PROVE  fd_table'[sockets[s].m_fd] = FileOf(s)
      <3>1. fd_table[sockets[s].m_fd] = FileOf(s) /\ FileOf(s) # FileOf(r.sock)
        BY <1>14, <2>1, <2>2 DEF SocketsInv, CarefulInv, StillOpen, OneSocketPerFile
      <3>2. QED
        BY <1>12, <1>13, <2>1, <3>1
    <2>3. ASSUME NEW p \in requests, p.op = "CLOSE", p.res = NULL, p # r
          PROVE  fd_table'[p.fd] = FileOf(p.sock)
      <3>1. fd_table[p.fd] = FileOf(p.sock)
        BY <1>14, <2>3 DEF SocketsInv, CarefulInv, StillOpen
      <3>2. FileOf(p.sock) # FileOf(r.sock)
        BY <1>2, <1>13, <2>1, <2>3 DEF SocketsInv, OneCloseEach, OneSocketPerFile
      <3>3. QED
        BY <1>12, <1>13, <2>1, <2>3, <3>1, <3>2
    <2>4. ASSUME NEW p \in requests, p.new # NULL
          PROVE  fd_table'[files[p.new].fd] = p.new
      <3>1. fd_table[files[p.new].fd] = p.new /\ p.new # FileOf(r.sock)
        BY <1>14, <2>1, <2>4 DEF SocketsInv, CarefulInv, StillOpen, OneSocketPerFile
      <3>2. QED
        BY <1>12, <1>13, <2>1, <2>4, <3>1
    <2>5. QED
      BY <1>2, <1>4, <1>5, <2>2, <2>3, <2>4 DEF StillOpen, FileOf
  <1>15. careful => OnOwnFile'
    BY <1>2, <1>4 DEF SocketsInv, CarefulInv, OnOwnFile, Stray, Refusals, FileOf
  <1>16. ClosedAreGone'
    <2>1. ASSUME NEW s \in closed, fd_table'[sockets[s].m_fd] = FileOf(s)
          PROVE  \E p \in requests' : p.op = "CLOSE" /\ p.sock = s /\ p.res = NULL
      <3>1. s \in DOMAIN sockets /\ FileOf(s) # NULL
        BY <1>1, TypeFacts, TypesRestated DEF SocketRecords, FileOf
      <3>2. sockets[s].m_fd # r.fd
        BY <1>2, <1>3, <1>6, <2>1, <3>1 DEF RequestRecords
      <3>3. PICK p \in requests : p.op = "CLOSE" /\ p.sock = s /\ p.res = NULL
        BY <1>12, <1>13, <2>1, <3>1, <3>2 DEF SocketsInv, ClosedAreGone
      <3>4. p # r
        BY <3>2, <3>3 DEF SocketsInv, RequestsFit
      <3>5. QED
        BY <1>2, <3>3, <3>4
    <2>2. QED
      BY <1>2, <2>1 DEF ClosedAreGone, FileOf
  <1>17. NumbersFit'
    BY <1>2, <1>3, <1>6 DEF SocketsInv, NumbersFit, RequestRecords, Fds
  <1>18. PatientInv'
    BY <1>2, <1>4 DEF SocketsInv, PatientInv
  <1>19. QED
    BY <1>2, <1>7, <1>8, <1>9, <1>10, <1>11, <1>14, <1>15, <1>16, <1>17, <1>18
    DEF SocketsInv, CarefulInv

(* An accepted connection has a type and a port, whatever is in the buffer *)
(* for its address; it is made for the file of the result.                 *)
LEMMA AcceptedTyped ==
  ASSUME SocketsTypeOK, NEW r \in requests, r.new # NULL, NEW g \in Garbage
  PROVE  /\ Accepted(r, g) \in SocketRecords(Len(files))
         /\ Accepted(r, g).m_fd = files[r.new].fd /\ Accepted(r, g).file = r.new
         /\ Accepted(r, g).m_kind = "SERVER_STREAM_SOCKET"
  <1> DEFINE a == FromStorage(g, SizeOf("AF_INET"))
  <1>1. g \in sockaddr_storage
    BY SocketsAssumption
  <1>2. in6(g) \in sockaddr_in6 /\ in6(g).sin6_port \in Ports
    BY <1>1 DEF in6, sockaddr_in6, sockaddr_storage
  <1>3. a.m_in4 = NULL /\ a.m_in6 = in6(g)
    BY DEF FromStorage, SizeOf
  <1>4. get_type(a) = "IPV6_TCP" /\ get_accepted_port(a) \in Ports
    BY <1>2, <1>3, IPAddressAssumption DEF get_type, get_accepted_port, get_ipv4, get_ipv6
  <1>5. r.new \in 1 .. Len(files) /\ files[r.new].fd \in Fds
    BY TypeFacts DEF RequestRecords, FileRecords
  <1> HIDE DEF a
  <1>6. Accepted(r, g) = [m_type |-> get_type(a), m_port |-> get_accepted_port(a),
                          m_kind |-> "SERVER_STREAM_SOCKET", m_fd |-> files[r.new].fd,
                          file |-> r.new]
    BY DEF Accepted, a
  <1>7. QED
    BY <1>4, <1>5, <1>6 DEF SocketRecords, SocketTypes, SocketKinds

(* call_accept_callback: the result of an accept becomes a socket or gets  *)
(* lost, and the accept is submitted again.                                *)
LEMMA AcceptCallbackKeeps ==
  ASSUME SocketsInv, NEW r, AcceptCallback(r), UNCHANGED <<careful, patient, destroyed>>
  PROVE  SocketsInv'
  <1>1. CASE \E why : Fail(why)
    BY <1>1, FailKeeps
  <1>2. CASE /\ \E g \in Garbage : sockets' = Append(sockets, Accepted(r, g))
             /\ Replace(r, Again(r))
             /\ UNCHANGED <<fd_table, files, closed, failed>>
    <2> DEFINE q == Again(r)
               new == Len(sockets) + 1
    <2>1. SocketsTypeOK
      BY DEF SocketsInv
    <2>2. PICK g \in Garbage : sockets' = Append(sockets, Accepted(r, g))
      BY <1>2
    <2>3. /\ r \in requests /\ r.op = "ACCEPT" /\ r.res = "OK"
          /\ requests' = (requests \ {r}) \cup {q}
          /\ UNCHANGED <<careful, patient, destroyed, fd_table, files, closed>>
      BY <1>2 DEF AcceptCallback, Replace
    <2>4. r.new # NULL
      BY <2>3 DEF SocketsInv, RequestsFit
    <2>5. /\ Accepted(r, g) \in SocketRecords(Len(files))
          /\ Accepted(r, g).m_fd = files[r.new].fd /\ Accepted(r, g).file = r.new
          /\ Accepted(r, g).m_kind = "SERVER_STREAM_SOCKET"
      BY <2>1, <2>3, <2>4, AcceptedTyped
    <2>6. /\ Len(files) \in Nat /\ Len(sockets) \in Nat
          /\ DOMAIN sockets = 1 .. Len(sockets)
          /\ sockets \in Seq(SocketRecords(Len(files)))
          /\ r \in RequestRecords(Len(sockets), Len(files))
      BY <2>1, <2>3, TypeFacts, TypesRestated
    <2>7. fd_table[r.fd] \in 1 .. Len(files) \cup {NULL}
      BY <2>1, <2>6, TypeFacts DEF RequestRecords
    <2>8. /\ q \in RequestRecords(Len(sockets), Len(files))
          /\ q.op = r.op /\ q.sock = r.sock /\ q.fd = r.fd /\ q.new = NULL /\ q.res = NULL
          /\ q.file = fd_table[r.fd]
      BY <2>6, <2>7 DEF Again, RequestRecords
    <2> HIDE DEF q
    <2>9. /\ sockets' \in Seq(SocketRecords(Len(files')))
          /\ Len(sockets') = new
          /\ DOMAIN sockets' = DOMAIN sockets \cup {new} /\ new \notin DOMAIN sockets
          /\ \A s \in DOMAIN sockets : sockets'[s] = sockets[s]
          /\ sockets'[new] = Accepted(r, g)
      <3>1. /\ 1 .. Len(sockets) + 1 = 1 .. Len(sockets) \cup {new}
            /\ new \notin 1 .. Len(sockets)
        BY <2>6
      <3>2. QED
        BY <2>2, <2>3, <2>5, <2>6, <3>1, AppendFacts
    <2>10. SocketsTypeOK'
      <3>1. RequestRecords(Len(sockets), Len(files)) \subseteq RequestRecords(Len(sockets'), Len(files'))
        BY <2>3, <2>6, <2>9, RecordsGrow
      <3>2. requests' \subseteq RequestRecords(Len(sockets'), Len(files'))
        BY <2>1, <2>3, <2>8, <3>1, TypesRestated
      <3>3. closed' \subseteq 1 .. Len(sockets')
        BY <2>1, <2>3, <2>6, <2>9, TypesRestated
      <3>4. QED
        BY <2>1, <2>3, <2>9, <3>2, <3>3, TypesRestated, TypesAfterStep
    <2>11. /\ \A p \in requests : p.sock \in DOMAIN sockets
           /\ closed \subseteq DOMAIN sockets
           /\ NULL # "OK" /\ NULL \notin Refusals
      BY <2>1, TypeFacts, TypesRestated, SocketsAssumption DEF RequestRecords, Results, Refusals
    <2>12. /\ sockets'[new].m_fd = files[r.new].fd /\ sockets'[new].file = r.new
           /\ sockets'[new].m_kind = "SERVER_STREAM_SOCKET"
      BY <2>5, <2>9
    <2>13. RequestsFit'
      BY <2>3, <2>4, <2>8, <2>9, <2>11, <2>12 DEF SocketsInv, RequestsFit, FileOf
    <2>14. ListenersServe'
      BY <2>3, <2>9, <2>12 DEF SocketsInv, ListenersServe, FileOf
    <2>15. OneSocketPerFile'
      BY <2>3, <2>4, <2>8, <2>9, <2>12 DEF SocketsInv, OneSocketPerFile, FileOf
    <2>16. OneCloseEach'
      BY <2>3, <2>8 DEF SocketsInv, OneCloseEach
    <2>17. ASSUME careful PROVE q.file = FileOf(q.sock) /\ files[FileOf(q.sock)].listens
      <3>1. files[FileOf(r.sock)].listens /\ r.sock \notin closed
        BY <2>3, <2>17 DEF SocketsInv, CarefulInv, OnOwnFile, RequestsFit
      <3>2. fd_table[r.fd] = FileOf(r.sock)
        BY <2>3, <2>11, <2>17, <3>1 DEF SocketsInv, CarefulInv, StillOpen, RequestsFit
      <3>3. QED
        BY <2>8, <3>1, <3>2
    <2>18. careful => StillOpen'
      BY <2>3, <2>4, <2>8, <2>9, <2>11, <2>12 DEF SocketsInv, CarefulInv, StillOpen, FileOf
    <2>19. careful => OnOwnFile'
      BY <2>3, <2>8, <2>9, <2>11, <2>17 DEF SocketsInv, CarefulInv, OnOwnFile, Stray, FileOf
    <2>20. ClosedAreGone'
      BY <2>3, <2>8, <2>9, <2>11 DEF SocketsInv, ClosedAreGone, FileOf
    <2>21. NumbersFit' /\ PatientInv'
      BY <2>3, <2>8 DEF SocketsInv, NumbersFit, PatientInv, Fds
    <2>22. QED
      BY <2>3, <2>10, <2>13, <2>14, <2>15, <2>16, <2>18, <2>19, <2>20, <2>21
      DEF SocketsInv, CarefulInv
  <1>3. CASE Replace(r, Again(r)) /\ UNCHANGED <<fd_table, files, sockets, closed, failed>>
    BY <1>3, AcceptAgainKeeps DEF AcceptCallback
  <1>4. QED
    BY <1>1, <1>2, <1>3 DEF AcceptCallback

(* A socket that is dropped: nothing else changes. *)
LEMMA DestroyKeeps ==
  ASSUME SocketsInv, NEW s \in DOMAIN sockets, Destroy(s), UNCHANGED <<careful, patient>>
  PROVE  SocketsInv'
  <1>1. UNCHANGED <<careful, patient, fd_table, files, sockets, requests, closed>>
    BY DEF Destroy
  <1>2. SocketsTypeOK'
    BY <1>1, TypeFacts, TypesRestated, TypesAfterStep DEF SocketsInv, Destroy
  <1>3. QED
    BY <1>1, <1>2 DEF SocketsInv, RequestsFit, ListenersServe, OneSocketPerFile, OneCloseEach,
                      NumbersFit, ClosedAreGone, CarefulInv, StillOpen, OnOwnFile, PatientInv,
                      Stray, FileOf, Fds

-----------------------------------------------------------------------------
(* The results.                                                            *)

(* The invariant holds before the first socket is made. *)
LEMMA SocketsInitInv == Init => SocketsInv
  <1> SUFFICES ASSUME Init PROVE SocketsInv
    OBVIOUS
  <1>1. /\ files = <<>> /\ sockets = <<>> /\ requests = {} /\ closed = {}
        /\ Len(files) = 0 /\ Len(sockets) = 0 /\ DOMAIN sockets = {}
    BY DEF Init
  <1>2. SocketsTypeOK
    BY <1>1, TypesRestated DEF Init
  <1>3. QED
    BY <1>1, <1>2 DEF Init, SocketsInv, RequestsFit, ListenersServe, OneSocketPerFile,
                      OneCloseEach, NumbersFit, ClosedAreGone, CarefulInv, StillOpen, OnOwnFile,
                      PatientInv

(* Every step keeps it. *)
LEMMA SocketsStepInv == SocketsInv /\ [Next]_vars => SocketsInv'
  <1> SUFFICES ASSUME SocketsInv, [Next]_vars PROVE SocketsInv'
    OBVIOUS
  <1>1. CASE UNCHANGED vars
    BY <1>1 DEF vars, conduct, SocketsInv, SocketsTypeOK, RequestsFit, ListenersServe,
                OneSocketPerFile, OneCloseEach, NumbersFit, ClosedAreGone, CarefulInv, StillOpen,
                OnOwnFile, PatientInv, Stray, FileOf, Fds
  <1>2. CASE UNCHANGED <<careful, patient, destroyed>> /\ \E c \in Creations : create_impl(c)
    BY <1>2, CreateKeeps
  <1>3. CASE UNCHANGED <<careful, patient, destroyed>> /\ \E s \in DOMAIN sockets :
               submit_accept(s) \/ submit_recv(s) \/ submit_close(s)
    BY <1>3, ApplicationKeeps
  <1>4. CASE UNCHANGED <<careful, patient, destroyed>> /\ \E r \in requests :
               (\E port \in ClientPorts : KernelAccepts(r, port)) \/ KernelReceives(r)
               \/ KernelCloses(r) \/ KernelRefuses(r)
    BY <1>4, AcceptKeeps, ReceiveKeeps, CloseKeeps, RefuseKeeps
  <1>5. CASE UNCHANGED <<careful, patient, destroyed>> /\ \E r \in requests :
               AcceptCallback(r) \/ AcceptError(r) \/ RecvCallback(r) \/ CloseCallback(r)
    BY <1>5, AcceptCallbackKeeps, AcceptErrorKeeps, RecvCallbackKeeps, CloseCallbackKeeps
  <1>6. CASE UNCHANGED <<careful, patient>> /\ \E s \in DOMAIN sockets : Destroy(s)
    BY <1>6, DestroyKeeps
  <1>7. QED
    BY <1>1, <1>2, <1>3, <1>4, <1>5, <1>6 DEF Next, Step, conduct

(* The invariant holds in every reachable state. *)
LEMMA SocketsAreKept == Spec => []SocketsInv
  BY SocketsInitInv, SocketsStepInv, PTL DEF Spec

(* The types of the table of descriptors, the sockets and the requests,    *)
(* among them those that call_accept_callback makes of a buffer that       *)
(* nobody wrote (WorkItem.cpp).                                            *)
THEOREM SocketsAreTyped == Spec => []SocketsTypeOK
  <1>1. SocketsInv => SocketsTypeOK
    BY DEF SocketsInv
  <1>2. QED
    BY <1>1, SocketsAreKept, PTL

(* A patient application receives from the connection that the socket was  *)
(* made for, however often the number of its descriptor was used before    *)
(* and however often the receive is submitted again (ISocket.hpp); so does *)
(* a careful one, but for the receives it did not wait for.                *)
THEOREM ReceivesFromOwnConnection == Spec => []ReceivesAreFromOwnConnection
  <1>1. SocketsInv => ReceivesAreFromOwnConnection
    BY DEF SocketsInv, CarefulInv, OnOwnFile, ReceivesAreFromOwnConnection
  <1>2. QED
    BY <1>1, SocketsAreKept, PTL

(* And the kernel refuses it no request for what its descriptor means by   *)
(* then, with the same exception (IOUring.cpp:524, 648).                   *)
THEOREM CarefulAreNotRefused == Spec => []NoRequestIsRefused
  <1>1. SocketsInv => NoRequestIsRefused
    BY DEF SocketsInv, CarefulInv, OnOwnFile, Refusals, NoRequestIsRefused
  <1>2. QED
    BY <1>1, SocketsAreKept, PTL

(* A close that a careful application submitted frees the descriptor of    *)
(* its own connection (submit_close, IOUring.cpp).                         *)
THEOREM ClosesOwnConnection == Spec => ClosesOnlyOwnConnection
  <1> DEFINE Owned == careful => \A fd \in Fds :
                        fd_table[fd] # NULL /\ fd_table'[fd] # fd_table[fd] =>
                          \E s \in closed : FileOf(s) = fd_table[fd]
  <1>1. ASSUME SocketsInv, [Next]_vars PROVE [Owned]_vars
    <2> SUFFICES ASSUME careful, NEW fd \in Fds,
                        fd_table[fd] # NULL, fd_table'[fd] # fd_table[fd]
                 PROVE  \E s \in closed : FileOf(s) = fd_table[fd]
      OBVIOUS
    <2>1. CASE UNCHANGED fd_table
      BY <2>1
    <2>2. CASE \E listens \in BOOLEAN, port \in Ports : Open(listens, port)
      BY <1>1, <2>2, OpenKeeps
    <2>3. CASE \E r \in requests : KernelCloses(r)
      <3>1. PICK r \in requests : KernelCloses(r)
        BY <2>3
      <3>2. r.sock \in closed /\ fd_table[r.fd] = FileOf(r.sock)
        BY <1>1, <3>1, ClosesOwnFile
      <3>3. fd_table \in [Fds -> 1 .. Len(files) \cup {NULL}]
        BY <1>1, TypesRestated DEF SocketsInv
      <3>4. fd = r.fd
        BY <3>1, <3>3 DEF KernelCloses
      <3>5. QED
        BY <3>2, <3>4
    <2>4. ASSUME NEW c \in Creations, create_impl(c)
          PROVE  UNCHANGED fd_table \/ \E listens \in BOOLEAN, port \in Ports : Open(listens, port)
      <3>1. c.port \in Ports /\ (c.kind = "SERVER_STREAM_SOCKET") \in BOOLEAN
        BY SocketsAssumption
      <3>2. QED
        BY <2>4, <3>1 DEF create_impl, Fail
    <2>5. ASSUME NEW s \in DOMAIN sockets, submit_accept(s) \/ submit_recv(s) \/ submit_close(s)
          PROVE  UNCHANGED fd_table
      BY <2>5 DEF submit_accept, submit_recv, submit_close, Submit, Fail
    <2>6. ASSUME NEW r \in requests, NEW port \in ClientPorts, KernelAccepts(r, port)
          PROVE  \E listens \in BOOLEAN, p \in Ports : Open(listens, p)
      BY <2>6, SocketsAssumption DEF KernelAccepts
    <2>7. ASSUME NEW r \in requests,
                 \/ KernelReceives(r) \/ KernelRefuses(r) \/ AcceptCallback(r)
                 \/ AcceptError(r) \/ RecvCallback(r) \/ CloseCallback(r)
          PROVE  UNCHANGED fd_table
      BY <2>7 DEF KernelReceives, KernelRefuses, AcceptCallback, AcceptError, RecvCallback,
                  CloseCallback, Fail
    <2>8. ASSUME NEW s \in DOMAIN sockets, Destroy(s) PROVE UNCHANGED fd_table
      BY <2>8 DEF Destroy
    <2>9. QED
      BY <1>1, <2>1, <2>2, <2>3, <2>4, <2>5, <2>6, <2>7, <2>8 DEF Next, Step, vars
  <1>2. QED
    BY <1>1, SocketsAreKept, PTL DEF Spec, ClosesOnlyOwnConnection

(* Who holds a descriptor: a socket that somebody refers to, or a result.  *)
SocketHolds(fd) ==
  \E s \in DOMAIN sockets \ destroyed : sockets[s].m_fd = fd /\ sockets[s].file = fd_table[fd]
ResultHolds(fd) == \E r \in requests : r.new = fd_table[fd]

(* What a step does to the sockets that nobody refers to any more. *)
LEMMA OnlyDestroyDestroys ==
  ASSUME [Next]_vars
  PROVE  \/ UNCHANGED destroyed
         \/ \E s \in DOMAIN sockets : Destroy(s)
  BY DEF Next, vars

(* Requests come and go, but a result stays until its handler was called.  *)
LEMMA ResultsStay ==
  ASSUME SocketsInv, Running, Running', [Next]_vars
  PROVE  \A r \in requests : r.new # NULL =>
           \/ \E q \in requests' : q.new = r.new
           \/ \E s \in DOMAIN sockets' \ destroyed' :
                sockets'[s].m_fd = files[r.new].fd /\ sockets'[s].file = r.new
           \/ UNCHANGED sockets
  <1> SUFFICES ASSUME NEW r \in requests, r.new # NULL
               PROVE  \/ \E q \in requests' : q.new = r.new
                      \/ \E s \in DOMAIN sockets' \ destroyed' :
                           sockets'[s].m_fd = files[r.new].fd /\ sockets'[s].file = r.new
                      \/ UNCHANGED sockets
    OBVIOUS
  <1>1. r.op = "ACCEPT" /\ r.res = "OK" /\ r.res # NULL
    BY SocketsAssumption DEF SocketsInv, RequestsFit, Results
  <1>2. CASE r \in requests'
    BY <1>2
  <1>3. CASE Step /\ UNCHANGED destroyed /\ AcceptCallback(r) /\ ~UNCHANGED sockets
    <2>1. PICK g \in Garbage : sockets' = Append(sockets, Accepted(r, g))
      BY <1>3 DEF AcceptCallback, Fail, Running
    <2>2. /\ Accepted(r, g) \in SocketRecords(Len(files))
          /\ Accepted(r, g).m_fd = files[r.new].fd /\ Accepted(r, g).file = r.new
      BY AcceptedTyped DEF SocketsInv
    <2>3. sockets \in Seq(SocketRecords(Len(files))) /\ Len(sockets) \in Nat
      BY TypesRestated, TypeFacts DEF SocketsInv
    <2>4. /\ Len(sockets) + 1 \in DOMAIN sockets'
          /\ sockets'[Len(sockets) + 1] = Accepted(r, g)
      BY <2>1, <2>2, <2>3, AppendFacts
    <2>5. Len(sockets) + 1 \notin destroyed'
      BY <1>3, <2>3, TypesRestated DEF SocketsInv
    <2>6. QED
      BY <2>2, <2>4, <2>5
  <1>4. ASSUME Step, ~AcceptCallback(r) PROVE r \in requests'
    <2>1. CASE \E c \in Creations : create_impl(c)
      BY <2>1 DEF create_impl, Fail
    <2>2. CASE \E s \in DOMAIN sockets : submit_accept(s) \/ submit_recv(s) \/ submit_close(s)
      BY <2>2 DEF submit_accept, submit_recv, submit_close, Submit, Fail
    <2>3. ASSUME NEW q \in requests,
                 \/ \E port \in ClientPorts : KernelAccepts(q, port)
                 \/ KernelReceives(q) \/ KernelCloses(q) \/ KernelRefuses(q)
          PROVE  r \in requests'
      <3>1. q # r
        BY <1>1, <2>3 DEF KernelAccepts, KernelReceives, KernelCloses, KernelRefuses, Pending
      <3>2. QED
        BY <2>3, <3>1 DEF KernelAccepts, KernelReceives, KernelCloses, KernelRefuses, Complete,
                          Replace
    <2>4. ASSUME NEW q \in requests,
                 AcceptCallback(q) \/ AcceptError(q) \/ RecvCallback(q) \/ CloseCallback(q)
          PROVE  r \in requests'
      <3>1. CASE Fail("IPAddress") \/ Fail("call_recv_callback") \/ Fail("SocketImpl: get_fd() > 0")
        BY <3>1 DEF Fail
      <3>2. CASE q # r
        BY <2>4, <3>1, <3>2 DEF AcceptCallback, AcceptError, RecvCallback, CloseCallback, Replace
      <3>3. CASE q = r /\ ~Fail("IPAddress")
        BY <1>1, <1>4, <2>4, <3>3 DEF AcceptError, RecvCallback, CloseCallback
      <3>4. QED
        BY <3>1, <3>2, <3>3
    <2>5. QED
      BY <1>4, <2>1, <2>2, <2>3, <2>4 DEF Step
  <1>5. ASSUME NEW s \in DOMAIN sockets, Destroy(s) PROVE r \in requests'
    BY <1>5 DEF Destroy
  <1>6. QED
    BY <1>2, <1>3, <1>4, <1>5 DEF Next, vars

(* How files and sockets become more. *)
LEMMA WhatIsAdded ==
  ASSUME SocketsInv, [Next]_vars
  PROVE  /\ \/ UNCHANGED files
            \/ \E listens \in BOOLEAN, port \in Ports : Open(listens, port)
         /\ \/ UNCHANGED sockets
            \/ \E x : sockets' = Append(sockets, x)
         /\ Running' => Running
  <1>1. CASE \E c \in Creations : create_impl(c)
    <2>1. PICK c \in Creations : create_impl(c)
      BY <1>1
    <2>2. c.port \in Ports /\ (c.kind = "SERVER_STREAM_SOCKET") \in BOOLEAN
      BY SocketsAssumption
    <2>3. QED
      BY <2>1, <2>2 DEF create_impl, Fail
  <1>2. CASE \E s \in DOMAIN sockets : submit_accept(s) \/ submit_recv(s) \/ submit_close(s)
    BY <1>2 DEF submit_accept, submit_recv, submit_close, Submit, Fail
  <1>3. CASE \E r \in requests, port \in ClientPorts : KernelAccepts(r, port)
    BY <1>3, SocketsAssumption DEF KernelAccepts
  <1>4. CASE \E r \in requests : KernelReceives(r) \/ KernelRefuses(r)
    BY <1>4 DEF KernelReceives, KernelRefuses
  <1>5. CASE \E r \in requests : KernelCloses(r)
    BY <1>5 DEF KernelCloses
  <1>6. CASE \E r \in requests :
               AcceptCallback(r) \/ AcceptError(r) \/ RecvCallback(r) \/ CloseCallback(r)
    BY <1>6 DEF AcceptCallback, AcceptError, RecvCallback, CloseCallback, Fail
  <1>7. CASE UNCHANGED vars
    BY <1>7 DEF vars, Running
  <1>8. CASE \E s \in DOMAIN sockets : Destroy(s)
    BY <1>8 DEF Destroy
  <1>9. QED
    BY <1>1, <1>2, <1>3, <1>4, <1>5, <1>6, <1>7, <1>8 DEF Next, Step

(* Sockets and files stay as they were made. *)
LEMMA ObjectsStay ==
  ASSUME SocketsInv, [Next]_vars
  PROVE  /\ \A s \in DOMAIN sockets : s \in DOMAIN sockets' /\ sockets'[s] = sockets[s]
         /\ \A i \in DOMAIN files : files'[i] = files[i]
  <1>1. \A s \in DOMAIN sockets : s \in DOMAIN sockets' /\ sockets'[s] = sockets[s]
    <2>1. CASE UNCHANGED sockets
      BY <2>1
    <2>2. ASSUME NEW x, sockets' = Append(sockets, x)
          PROVE  \A s \in DOMAIN sockets : s \in DOMAIN sockets' /\ sockets'[s] = sockets[s]
      <3> DEFINE S == SocketRecords(Len(files))
                 T == S \cup {x}
      <3>1. sockets \in Seq(S) /\ Len(sockets) \in Nat /\ DOMAIN sockets = 1 .. Len(sockets)
        BY TypesRestated, TypeFacts DEF SocketsInv
      <3>2. S \subseteq T /\ x \in T
        OBVIOUS
      <3> HIDE DEF S, T
      <3>3. QED
        BY <2>2, <3>1, <3>2, AppendFacts
    <2>3. QED
      BY <2>1, <2>2, WhatIsAdded
  <1>2. \A i \in DOMAIN files : files'[i] = files[i]
    BY WhatIsAdded, OpenKeeps
  <1>3. QED
    BY <1>1, <1>2

(* A descriptor that was opened is that of a new socket or a new result.   *)
LEMMA NewDescriptorIsHeld ==
  ASSUME SocketsInv, [Next]_vars, NEW fd \in Fds, fd_table'[fd] # fd_table[fd],
         fd_table'[fd] # NULL
  PROVE  \/ \E s \in DOMAIN sockets' \ destroyed' :
              sockets'[s].m_fd = fd /\ sockets'[s].file = fd_table'[fd]
         \/ \E r \in requests' : r.new = fd_table'[fd]
  <1>1. fd_table \in [Fds -> 1 .. Len(files) \cup {NULL}]
    BY TypesRestated DEF SocketsInv
  <1>2. ASSUME NEW listens \in BOOLEAN, NEW port \in Ports, Open(listens, port)
        PROVE  fd = LowestFree /\ fd_table'[fd] = Len(files')
    <2>1. fd_table' = [fd_table EXCEPT ![LowestFree] = Len(files')]
      BY <1>2 DEF Open
    <2>2. fd = LowestFree
      BY <1>1, <2>1
    <2>3. QED
      BY <1>2, <2>2, OpenKeeps
  <1>3. CASE UNCHANGED destroyed /\ \E c \in Creations : create_impl(c)
    <2>1. PICK c \in Creations : create_impl(c)
      BY <1>3
    <2>2. c.port \in Ports /\ (c.kind = "SERVER_STREAM_SOCKET") \in BOOLEAN
      BY SocketsAssumption
    <2> DEFINE x == [m_type |-> c.type, m_port |-> c.port, m_kind |-> c.kind,
                     m_fd |-> LowestFree, file |-> Len(files')]
               S == SocketRecords(Len(files))
               T == S \cup {x}
    <2>3. Open(c.kind = "SERVER_STREAM_SOCKET", c.port) /\ sockets' = Append(sockets, x)
      BY <2>1 DEF create_impl, Fail
    <2>4. fd = LowestFree /\ fd_table'[fd] = Len(files')
      BY <1>2, <2>2, <2>3
    <2>5. x.m_fd = LowestFree /\ x.file = Len(files')
      OBVIOUS
    <2>6. sockets \in Seq(S) /\ Len(sockets) \in Nat
      BY TypesRestated, TypeFacts DEF SocketsInv
    <2>7. S \subseteq T /\ x \in T
      OBVIOUS
    <2> HIDE DEF S, T, x
    <2>8. Len(sockets) + 1 \in DOMAIN sockets' /\ sockets'[Len(sockets) + 1] = x
      BY <2>3, <2>6, <2>7, AppendFacts
    <2>9. Len(sockets) + 1 \notin destroyed'
      BY <1>3, <2>6, TypesRestated DEF SocketsInv
    <2>10. QED
      BY <2>4, <2>5, <2>8, <2>9
  <1>4. CASE \E r \in requests, port \in ClientPorts : KernelAccepts(r, port)
    <2>1. PICK r \in requests, port \in ClientPorts : KernelAccepts(r, port)
      BY <1>4
    <2> DEFINE q == [r EXCEPT !.new = Len(files'), !.res = "OK"]
    <2>2. Open(FALSE, port) /\ port \in Ports /\ q \in requests'
      BY <2>1, SocketsAssumption DEF KernelAccepts, Replace
    <2>3. r \in RequestRecords(Len(sockets), Len(files))
      BY <2>1, TypeFacts DEF SocketsInv
    <2>4. q.new = Len(files')
      BY <2>3 DEF RequestRecords
    <2>5. fd_table'[fd] = Len(files')
      BY <1>2, <2>2
    <2> HIDE DEF q
    <2>6. QED
      BY <2>2, <2>4, <2>5
  <1>5. CASE \E r \in requests : KernelCloses(r)
    BY <1>1, <1>5 DEF KernelCloses
  <1>6. CASE UNCHANGED fd_table
    BY <1>6
  <1>7. ASSUME NEW s \in DOMAIN sockets, submit_accept(s) \/ submit_recv(s) \/ submit_close(s)
        PROVE  UNCHANGED fd_table
    BY <1>7 DEF submit_accept, submit_recv, submit_close, Submit, Fail
  <1>8. ASSUME NEW r \in requests,
               \/ KernelReceives(r) \/ KernelRefuses(r) \/ AcceptCallback(r)
               \/ AcceptError(r) \/ RecvCallback(r) \/ CloseCallback(r)
        PROVE  UNCHANGED fd_table
    BY <1>8 DEF KernelReceives, KernelRefuses, AcceptCallback, AcceptError, RecvCallback,
                CloseCallback, Fail
  <1>9. ASSUME NEW s \in DOMAIN sockets, Destroy(s) PROVE UNCHANGED fd_table
    BY <1>9 DEF Destroy
  <1>10. QED
    BY <1>3, <1>4, <1>5, <1>6, <1>7, <1>8, <1>9 DEF Next, Step, vars

(* A socket that held a descriptor and does so no more was dropped, and it *)
(* was never closed: a close of it would be under way, and refer to it.    *)
LEMMA DroppedSockets ==
  ASSUME SocketsInv, [Next]_vars, NEW s \in DOMAIN sockets \ destroyed, s \in destroyed',
         fd_table[sockets[s].m_fd] = FileOf(s)
  PROVE  s \in (destroyed' \ destroyed) \ closed
  <1>1. PICK d \in DOMAIN sockets : Destroy(d)
    BY OnlyDestroyDestroys
  <1>2. d = s
    BY <1>1 DEF Destroy
  <1>3. \A r \in requests : r.sock # s
    BY <1>1, <1>2 DEF Destroy
  <1>4. QED
    BY <1>3 DEF SocketsInv, ClosedAreGone

(* The library loses no descriptor: one gets out of reach when the         *)
(* application drops a socket that it did not close, or when its handler   *)
(* makes no socket of a connection (call_accept_callback, ISocket.hpp:68). *)
THEOREM DescriptorsAreLostByApplications == Spec => OnlyApplicationsLoseDescriptors
  <1> DEFINE Explained ==
        \A fd \in Fds : Running' /\ Lost(fd)' /\ ~Lost(fd) =>
          \/ \E s \in (destroyed' \ destroyed) \ closed : sockets[s].m_fd = fd
          \/ \E r \in requests : /\ r.op = "ACCEPT" /\ r.res = "OK" /\ r.new = fd_table[fd]
                                 /\ UNCHANGED sockets
  <1>1. ASSUME SocketsInv, [Next]_vars PROVE [Explained]_vars
    <2> SUFFICES ASSUME NEW fd \in Fds, Running', Lost(fd)', ~Lost(fd)
                 PROVE  \/ \E s \in (destroyed' \ destroyed) \ closed : sockets[s].m_fd = fd
                        \/ \E r \in requests :
                             /\ r.op = "ACCEPT" /\ r.res = "OK" /\ r.new = fd_table[fd]
                             /\ UNCHANGED sockets
      OBVIOUS
    <2>1. /\ fd_table'[fd] # NULL
          /\ \A s \in DOMAIN sockets' \ destroyed' :
               ~(sockets'[s].m_fd = fd /\ sockets'[s].file = fd_table'[fd])
          /\ \A r \in requests' : r.new # fd_table'[fd]
      BY DEF Lost, FileOf
    <2>2. fd_table'[fd] = fd_table[fd]
      BY <1>1, <2>1, NewDescriptorIsHeld
    <2>3. SocketHolds(fd) \/ ResultHolds(fd)
      BY <2>1, <2>2 DEF Lost, SocketHolds, ResultHolds, FileOf
    <2>4. CASE SocketHolds(fd)
      <3>1. PICK s \in DOMAIN sockets \ destroyed :
              sockets[s].m_fd = fd /\ sockets[s].file = fd_table[fd]
        BY <2>4 DEF SocketHolds
      <3>2. s \in DOMAIN sockets' /\ sockets'[s] = sockets[s]
        BY <1>1, ObjectsStay
      <3>3. s \in destroyed'
        BY <2>1, <2>2, <3>1, <3>2
      <3>4. s \in (destroyed' \ destroyed) \ closed
        BY <1>1, <3>1, <3>3, DroppedSockets DEF FileOf
      <3>5. QED
        BY <3>1, <3>4
    <2>5. CASE ResultHolds(fd)
      <3>1. PICK r \in requests : r.new = fd_table[fd]
        BY <2>5 DEF ResultHolds
      <3>2. r.new # NULL /\ files[r.new].fd = fd
        BY <1>1, <2>1, <2>2, <3>1 DEF SocketsInv, NumbersFit
      <3>3. r.op = "ACCEPT" /\ r.res = "OK"
        BY <1>1, <3>2 DEF SocketsInv, RequestsFit
      <3>4. Running
        BY <1>1, WhatIsAdded
      <3>5. UNCHANGED sockets
        BY <1>1, <2>1, <2>2, <3>1, <3>2, <3>4, ResultsStay
      <3>6. QED
        BY <3>1, <3>3, <3>5
    <2>6. QED
      BY <2>3, <2>4, <2>5
  <1>2. QED
    BY <1>1, SocketsAreKept, PTL DEF Spec, OnlyApplicationsLoseDescriptors

=============================================================================
