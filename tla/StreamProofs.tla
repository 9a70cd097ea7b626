----------------------------- MODULE StreamProofs -----------------------------
(***************************************************************************)
(* More about the requests: what the engine still knows of them, beyond    *)
(* that they are for items in use (ServiceInv).                            *)
(*                                                                         *)
(* BooksInv says that nothing gets lost: a buffer is in the ring or with a *)
(* completion, and an address length comes from a completion that is still *)
(* to be handled.  Both parts need to know which completions may carry a   *)
(* buffer (CompletionsFit), and, from ServiceInv, that the head of the     *)
(* queue is the only completion of its item, unless that is a multishot    *)
(* receive, which is not freed.                                            *)
(*                                                                         *)
(* OwnersInv adds that no buffer is in two places, which is true as long   *)
(* as no stream ends.                                                      *)
(*                                                                         *)
(* Then three facts about steps: which of them leave an item with no       *)
(* request, which of them free an item, and that each is one of            *)
(* RequestLifecycle (or a stutter).                                        *)
(***************************************************************************)
EXTENDS IOUringProofs

(* Only receives take buffers, and not when they fail.                     *)
CompletionsFit ==
  \A i \in 1 .. Len(cq) :
    cq[i].buffer # NULL => /\ heap[cq[i].obj].m_work_type = "RECV"
                           /\ cq[i].res \in {"OK", "BADMSG"}

HasCompletion(x) == \E i \in 1 .. Len(cq) : cq[i].obj = x

LengthsAreFresh ==
  \A x \in Objects : heap[x].m_state = "IN_USE" /\ heap[x].m_accept_sock_len # 0 =>
    \E i \in 1 .. Len(cq) : cq[i].obj = x /\ cq[i].res = "OK"

BuffersAreKept ==
  init_result = "OK" => \A b \in 0 .. Published - 1 :
    \/ \E i \in 1 .. Len(buf_ring) : buf_ring[i] = b
    \/ \E i \in 1 .. Len(cq) : cq[i].buffer = b

BooksInv ==
  ServiceInv /\ CompletionsFit /\ LengthsAreFresh /\ BuffersAreKept

(* What BooksInv knows of the types of the queues.                         *)
LEMMA BooksTypes ==
  ASSUME BooksInv
  PROVE  /\ EngineInv /\ RequestsInv /\ PoolIInv
         /\ Len(cq) \in Nat /\ Len(buf_ring) \in Nat
         /\ Objects \subseteq 1 .. MaxItems
         /\ cq \in Seq(CQE) /\ buf_ring \in Seq(0 .. Published - 1)
         /\ sq \in Seq(1 .. MaxItems) /\ armed \in [1 .. MaxItems -> Nat]
         /\ Exclusive(Alone, sq, armed) /\ Alone \subseteq 1 .. MaxItems
         /\ \A i \in 1 .. Len(cq) : cq[i].obj \in Objects /\ Live(cq[i].obj)
  <1>1. EngineInv /\ RequestsInv /\ TypeOK
    BY DEF BooksInv, ServiceInv, EngineInv
  <1>2. PoolIInv
    BY <1>1 DEF EngineInv, TypeOK, PoolIInv
  <1>3. Len(buf_ring) \in Nat /\ buf_ring \in Seq(0 .. Published - 1) /\ cq \in Seq(CQE)
    BY <1>1, LenProperties DEF TypeOK
  <1>4. Exclusive(Alone, sq, armed) /\ \A i \in 1 .. Len(cq) : Live(cq[i].obj)
    BY <1>1 DEF RequestsInv, RequestsAreLive
  <1>5. QED
    BY <1>1, <1>2, <1>3, <1>4, ItemTypes, AloneItems

(* The lengths of addresses that are written into items.                   *)
LEMMA LengthIsWritten ==
  ASSUME EngineInv, NEW o \in Objects, NEW len,
         heap' = [heap EXCEPT ![o].m_accept_sock_len = len]
  PROVE  heap'[o].m_accept_sock_len = len
  <1>1. heap \in Seq(WorkItem) /\ o \in 1 .. Len(heap)
    BY DEF EngineInv, TypeOK, PoolTypeOK, Objects
  <1>2. heap[o] \in WorkItem /\ DOMAIN heap = 1 .. Len(heap)
    BY <1>1, ElementOfSeq, LenProperties
  <1> DEFINE new == [heap[o] EXCEPT !.m_accept_sock_len = len]
  <1>3. new.m_accept_sock_len = len
    BY <1>2 DEF WorkItem
  <1>4. heap' = [heap EXCEPT ![o] = new]
    OBVIOUS
  <1> HIDE DEF new
  <1>5. heap'[o] = new
    BY <1>1, <1>2, <1>4
  <1>6. QED
    BY <1>3, <1>5

-----------------------------------------------------------------------------
(* The application.                                                        *)

(* The first request of an item, new or acquired before.                   *)
LEMMA IssueKeepsBooks ==
  ASSUME BooksInv, ServiceInv', NEW o \in 1 .. MaxItems,
         UNCHANGED <<cq, buf_ring, init_result>>,
         o \in Objects => heap[o].m_work_type = "UNKNOWN",
         Objects' = Objects \cup {o},
         \A x \in Objects \ {o} : heap'[x] = heap[x],
         \/ heap'[o].m_accept_sock_len = 0
         \/ /\ o \in Objects
            /\ heap'[o].m_accept_sock_len = heap[o].m_accept_sock_len
            /\ heap'[o].m_state = heap[o].m_state
  PROVE  BooksInv'
  <1>1. \A i \in 1 .. Len(cq) : cq[i].obj \in Objects \ {o}
    BY BooksTypes DEF Live
  <1>2. CompletionsFit'
    <2>1. \A i \in 1 .. Len(cq) : heap'[cq[i].obj] = heap[cq[i].obj]
      BY <1>1
    <2>2. QED
      BY <2>1 DEF BooksInv, CompletionsFit
  <1>3. LengthsAreFresh'
    <2> SUFFICES ASSUME NEW x \in Objects',
                        heap'[x].m_state = "IN_USE", heap'[x].m_accept_sock_len # 0
                 PROVE  \E i \in 1 .. Len(cq) : cq[i].obj = x /\ cq[i].res = "OK"
      BY DEF LengthsAreFresh
    <2>1. x \in Objects /\ heap[x].m_state = "IN_USE" /\ heap[x].m_accept_sock_len # 0
      OBVIOUS
    <2>2. QED
      BY <2>1 DEF BooksInv, LengthsAreFresh
  <1>4. BuffersAreKept'
    BY DEF BooksInv, BuffersAreKept
  <1>5. QED
    BY <1>2, <1>3, <1>4 DEF BooksInv

(* A step that may end the process, and leaves items and queues alone.     *)
LEMMA QuietStepKeepsBooks ==
  ASSUME BooksInv, ServiceInv', UNCHANGED <<pool_vars, cq, buf_ring, init_result>>
  PROVE  BooksInv'
  <1>1. heap' = heap /\ Objects' = Objects
    BY DEF pool_vars, Objects
  <1>2. CompletionsFit' /\ LengthsAreFresh' /\ BuffersAreKept'
    BY <1>1 DEF BooksInv, CompletionsFit, LengthsAreFresh, BuffersAreKept
  <1>3. QED
    BY <1>2 DEF BooksInv

(* A send item is acquired; nothing is on its way for it.                  *)
LEMMA AcquireKeepsBooks ==
  ASSUME BooksInv, ServiceInv', NEW s \in Sockets, ackuire_send_workitem(s)
  PROVE  BooksInv'
  <1>0. /\ PoolIInv
        /\ \A i \in 1 .. Len(cq) : cq[i].obj \in Objects
    BY BooksTypes
  <1>1. /\ internal_alloc_work_item(s, "UNKNOWN") /\ "UNKNOWN" \in Types
        /\ UNCHANGED <<sq, armed, cq, buf_ring, init_result, failed>>
    BY DEF ackuire_send_workitem, ring_vars, Types
  <1>2. /\ Objects' = Objects \cup {NewObject} /\ NewObject \notin Objects
        /\ \A x \in Objects : heap'[x] = heap[x]
        /\ heap'[NewObject].m_work_type = "UNKNOWN"
        /\ heap'[NewObject].m_accept_sock_len = 0
    BY <1>0, <1>1, AllocEffect
  <1>3. CompletionsFit'
    BY <1>0, <1>1, <1>2 DEF BooksInv, CompletionsFit
  <1>4. LengthsAreFresh'
    BY <1>1, <1>2 DEF BooksInv, LengthsAreFresh
  <1>5. BuffersAreKept'
    BY <1>1 DEF BooksInv, BuffersAreKept
  <1>6. QED
    BY <1>3, <1>4, <1>5 DEF BooksInv

(* The calls of the application.                                           *)
LEMMA ApplicationKeepsBooks ==
  ASSUME BooksInv, ServiceInv', Application
  PROVE  BooksInv'
  <1>0. /\ EngineInv /\ PoolIInv
        /\ Objects \subseteq 1 .. MaxItems
    BY BooksTypes
  <1>1. ASSUME NEW s \in Sockets, NEW t \in Types \ {"UNKNOWN"}, AllocAndSubmit(s, t)
        PROVE  BooksInv'
    <2>1. /\ internal_alloc_work_item(s, t)
          /\ UNCHANGED <<cq, buf_ring, init_result>>
      BY <1>1 DEF AllocAndSubmit
    <2>2. /\ Objects' = Objects \cup {NewObject} /\ NewObject \notin Objects
          /\ \A x \in Objects : heap'[x] = heap[x]
          /\ heap'[NewObject].m_accept_sock_len = 0
          /\ Len(heap') = Len(heap) + 1 /\ Len(heap') <= MaxItems
      BY <1>0, <2>1, AllocEffect
    <2>3. NewObject \in 1 .. MaxItems
      <3>1. Len(heap) \in Nat
        BY LenProperties DEF PoolIInv, PoolTypeOK, BooksInv, ServiceInv, EngineInv, TypeOK
      <3>2. QED
        BY <2>2, <3>1, PoolAssumption DEF NewObject
    <2>4. QED
      BY <2>1, <2>2, <2>3, IssueKeepsBooks
  <1>2. ASSUME NEW s \in Sockets, submit_accept(s) \/ submit_recv(s) \/ submit_close(s)
        PROVE  BooksInv'
    BY <1>1, <1>2 DEF submit_accept, submit_recv, submit_close, Types
  <1>3. ASSUME NEW s \in Sockets, NEW family \in ConnectTargets, submit_connect(s, family)
        PROVE  BooksInv'
    <2>1. CASE AllocAndSubmit(s, "CONNECT")
      BY <1>1, <2>1 DEF Types
    <2>2. CASE Fail("submit: m_connect_sock_len")
      BY <2>2, QuietStepKeepsBooks DEF Fail
    <2>3. QED
      BY <1>3, <2>1, <2>2 DEF submit_connect
  <1>4. ASSUME NEW o \in Objects, submit_send(o)
        PROVE  BooksInv'
    <2>1. /\ heap[o].m_work_type = "UNKNOWN"
          /\ heap' = [heap EXCEPT ![o].m_work_type = SendType(o)]
          /\ SendType(o) \in Types
          /\ UNCHANGED <<m_work_items, m_free_ids, cq, buf_ring, init_result>>
      BY <1>4 DEF submit_send, SendType, Types, SendTypes
    <2>2. /\ Objects' = Objects
          /\ heap'[o].m_state = heap[o].m_state
          /\ \A x \in Objects \ {o} : heap'[x] = heap[x]
      BY <1>0, <2>1, WriteItemTyped
    <2>3. heap'[o].m_accept_sock_len = heap[o].m_accept_sock_len
      <3>1. heap \in Seq(WorkItem) /\ o \in 1 .. Len(heap)
        BY <1>0 DEF EngineInv, TypeOK, PoolTypeOK, Objects
      <3>2. heap[o] \in WorkItem /\ DOMAIN heap = 1 .. Len(heap)
        BY <3>1, ElementOfSeq, LenProperties
      <3>3. QED
        BY <2>1, <3>1, <3>2 DEF WorkItem
    <2>4. o \in 1 .. MaxItems
      BY <1>0
    <2>5. Objects' = Objects \cup {o}
      BY <2>2
    <2>6. QED
      BY <2>1, <2>2, <2>3, <2>4, <2>5, IssueKeepsBooks
  <1>5. QED
    BY <1>2, <1>3, <1>4, AcquireKeepsBooks DEF Application

-----------------------------------------------------------------------------
(* The kernel.                                                             *)

(* A completion is posted.  If it carries a buffer, that was the oldest    *)
(* one in the ring.                                                        *)
LEMMA PostKeepsBooks ==
  ASSUME BooksInv, ServiceInv', NEW o \in Objects, NEW res,
         NEW buffer \in 0 .. Published - 1 \cup {NULL},
         NEW more \in BOOLEAN, Post(o, res, more, buffer),
         \/ heap' = heap
         \/ heap' = [heap EXCEPT ![o].m_accept_sock_len = SockaddrLen] /\ res = "OK",
         buffer # NULL => heap[o].m_work_type = "RECV" /\ res \in {"OK", "BADMSG"},
         \/ UNCHANGED buf_ring
         \/ buf_ring # <<>> /\ buffer = Head(buf_ring) /\ buf_ring' = Tail(buf_ring)
  PROVE  BooksInv'
  <1>0. /\ EngineInv /\ RequestsInv
        /\ Len(cq) \in Nat
        /\ buf_ring \in Seq(0 .. Published - 1) /\ Len(buf_ring) \in Nat
        /\ Objects \subseteq 1 .. MaxItems
        /\ armed \in [1 .. MaxItems -> Nat]
        /\ \A i \in 1 .. Len(cq) : cq[i].obj \in Objects
    BY BooksTypes
  <1> DEFINE c == [obj |-> o, res |-> res, more |-> more, buffer |-> buffer]
  <1>1. /\ cq' = Append(cq, c)
        /\ c \in CQE
        /\ UNCHANGED <<m_work_items, m_free_ids, init_result, sq, failed>>
    <2>1. /\ cq' = Append(cq, c)
          /\ UNCHANGED <<m_work_items, m_free_ids, init_result, sq, failed>>
      BY <1>0, PostTyped
    <2>2. res \in Results
      BY IOUringAssumption DEF Post
    <2>3. QED
      BY <2>1, <2>2 DEF CQE
  <1>2. c.obj = o /\ c.res = res /\ c.buffer = buffer
    OBVIOUS
  <1> HIDE DEF c
  <1>3. /\ Len(cq') = Len(cq) + 1
        /\ \A i \in 1 .. Len(cq) : cq'[i] = cq[i] /\ i \in 1 .. Len(cq')
        /\ cq'[Len(cq) + 1] = c /\ Len(cq) + 1 \in 1 .. Len(cq')
        /\ \A i \in 1 .. Len(cq') : i \in 1 .. Len(cq) \/ i = Len(cq) + 1
    <2>1. /\ Len(cq') = Len(cq) + 1
          /\ \A i \in 1 .. Len(cq) : cq'[i] = cq[i]
          /\ cq'[Len(cq) + 1] = c
      BY <1>1, AppendProperties, BooksTypes
    <2>2. QED
      BY <1>0, <2>1
  <1>4. /\ Objects' = Objects
        /\ \A x \in Objects : /\ heap'[x].m_state = heap[x].m_state
                              /\ heap'[x].m_work_type = heap[x].m_work_type
        /\ \A x \in Objects \ {o} : heap'[x] = heap[x]
    BY <1>0, <1>1, WriteItemTyped, LengthKeepsType
  <1>5. CompletionsFit'
    BY <1>0, <1>2, <1>3, <1>4 DEF BooksInv, CompletionsFit
  <1>6. LengthsAreFresh'
    <2> SUFFICES ASSUME NEW x \in Objects,
                        heap'[x].m_state = "IN_USE", heap'[x].m_accept_sock_len # 0
                 PROVE  \E i \in 1 .. Len(cq') : cq'[i].obj = x /\ cq'[i].res = "OK"
      BY <1>4 DEF LengthsAreFresh
    <2>1. CASE heap'[x] = heap[x]
      <3>1. PICK i \in 1 .. Len(cq) : cq[i].obj = x /\ cq[i].res = "OK"
        BY <2>1 DEF BooksInv, LengthsAreFresh
      <3>2. QED
        BY <1>3, <3>1
    <2>2. CASE heap'[x] # heap[x]
      <3>1. x = o /\ res = "OK"
        BY <1>4, <2>2
      <3>2. QED
        BY <1>2, <1>3, <3>1
    <2>3. QED
      BY <2>1, <2>2
  <1>7. BuffersAreKept'
    <2> SUFFICES ASSUME init_result = "OK", NEW b \in 0 .. Published - 1
                 PROVE  \/ \E i \in 1 .. Len(buf_ring') : buf_ring'[i] = b
                        \/ \E i \in 1 .. Len(cq') : cq'[i].buffer = b
      BY <1>1 DEF BuffersAreKept, Published
    <2>1. CASE \E i \in 1 .. Len(cq) : cq[i].buffer = b
      BY <1>3, <2>1
    <2>2. CASE \E i \in 1 .. Len(buf_ring) : buf_ring[i] = b
      <3>1. PICK i \in 1 .. Len(buf_ring) : buf_ring[i] = b
        BY <2>2
      <3>2. CASE UNCHANGED buf_ring
        BY <3>1, <3>2
      <3>3. CASE buf_ring # <<>> /\ buffer = Head(buf_ring) /\ buf_ring' = Tail(buf_ring)
        <4>1. /\ Len(buf_ring') = Len(buf_ring) - 1
              /\ \A j \in 1 .. Len(buf_ring') : buf_ring'[j] = buf_ring[j + 1]
              /\ buffer = buf_ring[1]
          BY <1>0, <3>3, HeadTailProperties
        <4>2. CASE i = 1
          BY <1>2, <1>3, <3>1, <4>1, <4>2
        <4>3. CASE i # 1
          <5>1. i - 1 \in 1 .. Len(buf_ring') /\ i - 1 + 1 = i
            BY <1>0, <3>1, <4>1, <4>3
          <5>2. buf_ring'[i - 1] = b
            BY <3>1, <4>1, <5>1
          <5>3. QED
            BY <5>1, <5>2
        <4>4. QED
          BY <4>2, <4>3
      <3>4. QED
        BY <3>2, <3>3
    <2>3. QED
      BY <2>1, <2>2 DEF BooksInv, BuffersAreKept
  <1>8. QED
    BY <1>5, <1>6, <1>7 DEF BooksInv

(* What the kernel reports.                                                *)
LEMMA KernelKeepsBooks ==
  ASSUME BooksInv, ServiceInv', Kernel
  PROVE  BooksInv'
  <1>1. PICK o \in Objects : CompleteRequest(o) \/ ReceiveData(o) \/ ReceiveEOF(o) \/ ReceiveError(o)
    BY DEF Kernel
  <1>2. NULL \in 0 .. Published - 1 \cup {NULL}
    OBVIOUS
  <1>3. CASE CompleteRequest(o)
    BY <1>2, <1>3, PostKeepsBooks DEF CompleteRequest
  <1>4. CASE ReceiveData(o)
    <2>1. PICK res \in {"OK", "BADMSG"}, more \in BOOLEAN : Post(o, res, more, Head(buf_ring))
      BY <1>4 DEF ReceiveData
    <2>2. Head(buf_ring) \in 0 .. Published - 1 \cup {NULL}
      BY <1>4, BooksTypes, HeadTailProperties DEF ReceiveData
    <2>3. /\ heap' = heap
          /\ heap[o].m_work_type = "RECV"
          /\ buf_ring # <<>> /\ buf_ring' = Tail(buf_ring)
      BY <1>4 DEF ReceiveData
    <2>4. QED
      BY <2>1, <2>2, <2>3, PostKeepsBooks
  <1>5. CASE ReceiveEOF(o)
    BY <1>2, <1>5, PostKeepsBooks DEF ReceiveEOF
  <1>6. CASE ReceiveError(o)
    BY <1>2, <1>6, PostKeepsBooks DEF ReceiveError
  <1>7. QED
    BY <1>1, <1>3, <1>4, <1>5, <1>6

-----------------------------------------------------------------------------
(* The thread that polls.                                                  *)

(* Taking the head off the queue keeps every other completion.             *)
LEMMA AdvanceKeeps ==
  ASSUME ServiceInv, cq # <<>>, cq' = Advanced
  PROVE  /\ Completion = cq[1] /\ 1 \in 1 .. Len(cq)
         /\ \A i \in 1 .. Len(cq') : /\ i + 1 \in 1 .. Len(cq)
                                     /\ cq'[i] = cq[i + 1]
                                     /\ Found \in Alone => cq'[i].obj # Found
         /\ \A i \in 1 .. Len(cq) : \/ i = 1
                                    \/ i - 1 \in 1 .. Len(cq') /\ cq'[i - 1] = cq[i]
  <1>1. cq \in Seq(CQE) /\ Len(cq) \in Nat \ {0}
    BY EmptySeq DEF ServiceInv, EngineInv, TypeOK
  <1>2. Completion = cq[1] /\ 1 \in 1 .. Len(cq)
    BY <1>1 DEF Completion
  <1>3. /\ Len(cq') = Len(cq) - 1
        /\ \A i \in 1 .. Len(cq') : cq'[i] = cq[i + 1] /\ (Found \in Alone => cq'[i].obj # Found)
    BY HeadOwner
  <1>4. \A i \in 1 .. Len(cq') : i + 1 \in 1 .. Len(cq)
    BY <1>1, <1>3
  <1>5. ASSUME NEW i \in 1 .. Len(cq), i # 1
        PROVE  i - 1 \in 1 .. Len(cq') /\ cq'[i - 1] = cq[i]
    <2>1. i - 1 \in 1 .. Len(cq') /\ i - 1 + 1 = i
      BY <1>1, <1>3, <1>5
    <2>2. QED
      BY <1>3, <2>1
  <1>6. QED
    BY <1>2, <1>3, <1>4, <1>5

(* Dropping a completion loses no buffer: it carried none.                 *)
LEMMA PollDropKeepsBooks ==
  ASSUME BooksInv, ServiceInv', PollDrop
  PROVE  BooksInv'
  <1>0. /\ ServiceInv /\ cq # <<>> /\ cq' = Advanced
        /\ UNCHANGED <<pool_vars, init_result, buf_ring, sq, armed, failed>>
    BY DEF BooksInv, PollDrop, CanPoll
  <1>1. heap' = heap /\ Objects' = Objects
    BY <1>0 DEF pool_vars, Objects
  <1>2. /\ Completion = cq[1] /\ 1 \in 1 .. Len(cq)
        /\ \A i \in 1 .. Len(cq') : /\ i + 1 \in 1 .. Len(cq)
                                    /\ cq'[i] = cq[i + 1]
        /\ \A i \in 1 .. Len(cq) : \/ i = 1
                                   \/ i - 1 \in 1 .. Len(cq') /\ cq'[i - 1] = cq[i]
    BY <1>0, AdvanceKeeps
  <1>3. Found = Completion.obj /\ Found \in Objects
    BY <1>0, HeadOwner
  <1>4. Completion.res = "ENOBUFS"
    <2>1. Found # NULL
      BY <1>3, BooksTypes, PoolAssumption
    <2>2. QED
      BY <2>1 DEF PollDrop, NoBuffers
  <1>5. cq[1].buffer = NULL /\ cq[1].res # "OK"
    BY <1>2, <1>4 DEF BooksInv, CompletionsFit
  <1>6. CompletionsFit'
    BY <1>1, <1>2 DEF BooksInv, CompletionsFit
  <1>7. LengthsAreFresh'
    <2> SUFFICES ASSUME NEW x \in Objects, heap[x].m_state = "IN_USE",
                        heap[x].m_accept_sock_len # 0
                 PROVE  \E i \in 1 .. Len(cq') : cq'[i].obj = x /\ cq'[i].res = "OK"
      BY <1>1 DEF LengthsAreFresh
    <2>1. PICK i \in 1 .. Len(cq) : cq[i].obj = x /\ cq[i].res = "OK"
      BY DEF BooksInv, LengthsAreFresh
    <2>2. i # 1
      BY <1>5, <2>1
    <2>3. QED
      BY <1>2, <2>1, <2>2
  <1>8. BuffersAreKept'
    <2> SUFFICES ASSUME init_result = "OK", NEW b \in 0 .. Published - 1
                 PROVE  \/ \E i \in 1 .. Len(buf_ring) : buf_ring[i] = b
                        \/ \E i \in 1 .. Len(cq') : cq'[i].buffer = b
      BY <1>0 DEF BuffersAreKept, Published
    <2>1. CASE \E i \in 1 .. Len(buf_ring) : buf_ring[i] = b
      BY <2>1
    <2>2. CASE \E i \in 1 .. Len(cq) : cq[i].buffer = b
      <3>1. PICK i \in 1 .. Len(cq) : cq[i].buffer = b
        BY <2>2
      <3>2. b # NULL
        BY PublishedType, PoolAssumption
      <3>3. i # 1
        BY <1>5, <3>1, <3>2
      <3>4. QED
        BY <1>2, <3>1, <3>3
    <2>3. QED
      BY <2>1, <2>2 DEF BooksInv, BuffersAreKept
  <1>9. QED
    BY <1>6, <1>7, <1>8 DEF BooksInv

(* After a callback the item is freed, or submitted again as it was.       *)
LEMMA FinishEffect ==
  ASSUME ServiceInv, cq # <<>>, NEW action, Finish(Found, action)
  PROVE  /\ Objects' = Objects
         /\ \A x \in Objects \ {Found} : heap'[x] = heap[x]
         /\ heap'[Found].m_work_type = heap[Found].m_work_type
         /\ \/ heap'[Found].m_state = "FREE" /\ UNCHANGED <<sq, armed, failed>>
            \/ /\ submit(Found)
               /\ heap'[Found].m_state = heap[Found].m_state
               /\ heap'[Found].m_accept_sock_len = 0
  <1>0. EngineInv /\ PoolIInv /\ Found \in Objects
    BY HeadOwner DEF ServiceInv, EngineInv, TypeOK, PoolIInv
  <1>1. CASE Rearms(Found, action)
    <2>1. /\ heap' = [heap EXCEPT ![Found].m_accept_sock_len = 0]
          /\ submit(Found) /\ UNCHANGED <<m_work_items, m_free_ids>>
      BY <1>1 DEF Finish, ForSubmission
    <2>2. /\ Objects' = Objects /\ \A x \in Objects \ {Found} : heap'[x] = heap[x]
          /\ heap'[Found].m_state = heap[Found].m_state
      BY <1>0, <2>1, WriteItemTyped
    <2>3. /\ heap'[Found].m_accept_sock_len = 0
          /\ heap'[Found].m_work_type = heap[Found].m_work_type
      BY <1>0, <2>1, LengthIsWritten, LengthKeepsType
    <2>4. QED
      BY <2>1, <2>2, <2>3
  <1>2. CASE ~Rearms(Found, action)
    <2>1. free_work_item(user_data(Completion)) /\ UNCHANGED <<sq, armed, failed>>
      BY <1>2 DEF Finish
    <2>2. user_data(Completion) \in Ids /\ Slot(user_data(Completion)) = Found
      BY <1>0, CompletionTyped DEF Found, get_work_item
    <2>3. /\ Objects' = Objects
          /\ \A x \in Objects \ {Found} : heap'[x] = heap[x]
          /\ heap'[Found].m_work_type = heap[Found].m_work_type
          /\ heap'[Found].m_state = "FREE"
      BY <1>0, <2>1, <2>2, FreeEffect
    <2>4. QED
      BY <2>1, <2>3
  <1>3. QED
    BY <1>1, <1>2

(* After a callback the buffer goes back, and the item is freed or its     *)
(* request is queued again.                                                *)
LEMMA FinishKeepsBooks ==
  ASSUME BooksInv, ServiceInv', cq # <<>>, NEW action, Finish(Found, action)
  PROVE  BooksInv'
  <1>0. /\ ServiceInv /\ cq' = Advanced /\ UNCHANGED init_result
        /\ buf_ring' = IF Is(Found, {"RECV"}) /\ ~Interrupted(Found, Completion)
                         THEN Recycled(Completion) ELSE buf_ring
    BY DEF BooksInv, Finish
  <1>1. /\ EngineInv /\ PoolIInv
        /\ buf_ring \in Seq(0 .. Published - 1) /\ Len(buf_ring) \in Nat
        /\ Objects \subseteq 1 .. MaxItems
        /\ sq \in Seq(1 .. MaxItems) /\ armed \in [1 .. MaxItems -> Nat]
        /\ Exclusive(Alone, sq, armed) /\ Alone \subseteq 1 .. MaxItems
        /\ \A i \in 1 .. Len(cq) : cq[i].obj \in Objects
    BY BooksTypes
  <1>2. /\ Completion = cq[1] /\ 1 \in 1 .. Len(cq)
        /\ \A i \in 1 .. Len(cq') : /\ i + 1 \in 1 .. Len(cq)
                                    /\ cq'[i] = cq[i + 1]
        /\ \A i \in 1 .. Len(cq) : \/ i = 1
                                   \/ i - 1 \in 1 .. Len(cq') /\ cq'[i - 1] = cq[i]
    BY <1>0, AdvanceKeeps
  <1>3. /\ Found = Completion.obj /\ Found \in Objects /\ Live(Found)
        /\ Found \in Alone => ~OnItsWay(sq, armed, Found)
    BY <1>0, HeadOwner
  <1>4. /\ Objects' = Objects
        /\ \A x \in Objects \ {Found} : heap'[x] = heap[x]
        /\ heap'[Found].m_work_type = heap[Found].m_work_type
        /\ heap'[Found].m_accept_sock_len = 0 \/ heap'[Found].m_state = "FREE"
        /\ \/ heap'[Found].m_state = "FREE" /\ UNCHANGED <<sq, armed, failed>>
           \/ submit(Found)
    BY <1>0, FinishEffect
  <1>5. CompletionsFit'
    <2>1. \A i \in 1 .. Len(cq') : /\ i + 1 \in 1 .. Len(cq) /\ cq'[i] = cq[i + 1]
                                   /\ heap'[cq'[i].obj].m_work_type = heap[cq'[i].obj].m_work_type
      BY <1>1, <1>2, <1>4
    <2>2. QED
      BY <2>1 DEF BooksInv, CompletionsFit
  <1>6. LengthsAreFresh'
    <2> SUFFICES ASSUME NEW x \in Objects, heap'[x].m_state = "IN_USE",
                        heap'[x].m_accept_sock_len # 0
                 PROVE  \E i \in 1 .. Len(cq') : cq'[i].obj = x /\ cq'[i].res = "OK"
      BY <1>4 DEF LengthsAreFresh
    <2>1. x # Found /\ heap'[x] = heap[x]
      BY <1>4
    <2>2. PICK i \in 1 .. Len(cq) : cq[i].obj = x /\ cq[i].res = "OK"
      BY <2>1 DEF BooksInv, LengthsAreFresh
    <2>3. i # 1
      BY <1>2, <1>3, <2>1, <2>2
    <2>4. QED
      BY <1>2, <2>2, <2>3
  <1>7. BuffersAreKept'
    <2> SUFFICES ASSUME init_result = "OK", NEW b \in 0 .. Published - 1
                 PROVE  \/ \E i \in 1 .. Len(buf_ring') : buf_ring'[i] = b
                        \/ \E i \in 1 .. Len(cq') : cq'[i].buffer = b
      BY <1>0 DEF BuffersAreKept, Published
    <2>1. /\ BufferIndex(Completion) \in 0 .. Published - 1
          /\ b # NULL
      BY <1>1, CompletionTyped, PublishedType, PoolAssumption
    <2>2. CASE \E i \in 1 .. Len(buf_ring) : buf_ring[i] = b
      <3>1. PICK i \in 1 .. Len(buf_ring) : buf_ring[i] = b
        BY <2>2
      <3>2. i \in 1 .. Len(buf_ring') /\ buf_ring'[i] = b
        <4>1. CASE buf_ring' = buf_ring
          BY <3>1, <4>1
        <4>2. CASE buf_ring' = Append(buf_ring, BufferIndex(Completion))
          BY <1>1, <2>1, <3>1, <4>2, AppendProperties
        <4>3. QED
          BY <1>0, <4>1, <4>2 DEF Recycled
      <3>3. QED
        BY <3>2
    <2>3. CASE \E i \in 1 .. Len(cq) : cq[i].buffer = b
      <3>1. PICK i \in 1 .. Len(cq) : cq[i].buffer = b
        BY <2>3
      <3>2. CASE i # 1
        BY <1>2, <3>1, <3>2
      <3>3. CASE i = 1
        <4>1. Completion.buffer = b
          BY <1>2, <3>1, <3>3
        <4>2. heap[Found].m_work_type = "RECV" /\ Completion.res \in {"OK", "BADMSG"}
          BY <1>2, <1>3, <2>1, <4>1 DEF BooksInv, CompletionsFit
        <4>3. buf_ring' = Append(buf_ring, b)
          BY <1>0, <2>1, <4>1, <4>2 DEF Is, Interrupted, Recycled, BufferIndex
        <4>4. Len(buf_ring) + 1 \in 1 .. Len(buf_ring') /\ buf_ring'[Len(buf_ring) + 1] = b
          BY <1>1, <4>3, AppendProperties
        <4>5. QED
          BY <4>4
      <3>4. QED
        BY <3>2, <3>3
    <2>4. QED
      BY <2>2, <2>3 DEF BooksInv, BuffersAreKept
  <1>8. QED
    BY <1>5, <1>6, <1>7 DEF BooksInv

-----------------------------------------------------------------------------
(* All steps.                                                              *)

(* At first there are no items and no buffers.                             *)
LEMMA BooksInitInv == Init => BooksInv
  <1> SUFFICES ASSUME Init
               PROVE  BooksInv
    OBVIOUS
  <1>1. Len(cq) = 0 /\ Len(heap) = 0 /\ init_result = "NONE"
    BY EmptySeq DEF Init, PoolInit
  <1>2. ServiceInv
    BY ServiceInitInv
  <1>3. QED
    BY <1>1, <1>2 DEF BooksInv, CompletionsFit, LengthsAreFresh, BuffersAreKept, Objects

(* init() publishes every buffer, if it succeeds.                          *)
LEMMA SetupKeepsBooks ==
  ASSUME BooksInv, ServiceInv', NEW result \in InitResults, init(result)
  PROVE  BooksInv'
  <1>1. /\ UNCHANGED <<pool_vars, sq, armed, cq, failed>>
        /\ init_result' = result /\ setup_buffer_pool(result)
    BY DEF init
  <1>2. heap' = heap /\ Objects' = Objects
    BY <1>1 DEF pool_vars, Objects
  <1>3. CompletionsFit' /\ LengthsAreFresh'
    BY <1>1, <1>2 DEF BooksInv, CompletionsFit, LengthsAreFresh
  <1>4. BuffersAreKept'
    <2> SUFFICES ASSUME result = "OK", NEW b \in 0 .. Published - 1
                 PROVE  \E i \in 1 .. Len(buf_ring') : buf_ring'[i] = b
      BY <1>1 DEF BuffersAreKept, Published
    <2>1. buf_ring' = [i \in 1 .. Published |-> i - 1]
      BY <1>1 DEF setup_buffer_pool
    <2>2. Published \in Nat
      BY PublishedType
    <2>3. buf_ring' \in Seq(Int) /\ Len(buf_ring') = Published
      BY <2>1, <2>2
    <2>4. b + 1 \in 1 .. Published /\ b + 1 - 1 = b
      BY <2>2
    <2>5. buf_ring'[b + 1] = b
      BY <2>1, <2>4
    <2>6. QED
      BY <2>3, <2>4, <2>5
  <1>5. QED
    BY <1>3, <1>4 DEF BooksInv

(* Every step keeps the books, if handlers of datagrams go on receiving.   *)
LEMMA BooksStep ==
  ASSUME DatagramsGoOn
  PROVE  BooksInv /\ [Next]_vars => BooksInv'
  <1> SUFFICES ASSUME BooksInv, [Next]_vars
               PROVE  BooksInv'
    OBVIOUS
  <1>0. ServiceInv /\ ServiceInv'
    BY ServiceStep DEF BooksInv
  <1>1. CASE \E result \in InitResults : init(result)
    BY <1>0, <1>1, SetupKeepsBooks
  <1>2. CASE Application
    BY <1>0, <1>2, ApplicationKeepsBooks
  <1>3. CASE Kernel
    BY <1>0, <1>3, KernelKeepsBooks
  <1>4. CASE PollDrop
    BY <1>0, <1>4, PollDropKeepsBooks
  <1>5. CASE PollFail
    BY <1>0, <1>5, QuietStepKeepsBooks DEF PollFail, Fail
  <1>6. CASE PollSilently
    BY <1>0, <1>6, FinishKeepsBooks DEF PollSilently, Dispatches, CanPoll
  <1>7. CASE PollCall
    BY <1>0, <1>7, QuietStepKeepsBooks DEF PollCall
  <1>8. CASE CallbackReturn
    <2>1. /\ cq # <<>> /\ calling = Found
          /\ \E action : Finish(calling, action)
      BY <1>0, <1>8, HeadOwner DEF CallbackReturn, EngineInv, CompletionIsKept,
                                    ServiceInv, CallbackIsForTheHead
    <2>2. QED
      BY <1>0, <2>1, FinishKeepsBooks
  <1>9. CASE UNCHANGED vars
    BY <1>0, <1>9, QuietStepKeepsBooks DEF vars, ring_vars
  <1>10. QED
    BY <1>1, <1>2, <1>3, <1>4, <1>5, <1>6, <1>7, <1>8, <1>9 DEF Next, poll_completion_queues

(* BooksInv says what the runs check.                                      *)
LEMMA BooksInvImplies ==
  ASSUME BooksInv
  PROVE  NoBufferIsLost /\ AcceptLengthIsFresh
  <1>0. /\ DOMAIN sq = 1 .. Len(sq) /\ DOMAIN cq = 1 .. Len(cq)
        /\ DOMAIN buf_ring = 1 .. Len(buf_ring)
    BY BooksTypes, LenProperties
  <1>1. NoBufferIsLost
    BY <1>0 DEF BooksInv, BuffersAreKept, NoBufferIsLost, InRing, InFlight
  <1>2. AcceptLengthIsFresh
    BY <1>0 DEF BooksInv, LengthsAreFresh, AcceptLengthIsFresh, Live
  <1>3. QED
    BY <1>1, <1>2

(* For any number of buffers, items and sockets, if handlers of datagrams  *)
(* go on receiving: a buffer that init() published is in the ring or with  *)
(* a completion that puts it back (re_add_buffer), also when receives      *)
(* fail, find no buffer, are interrupted or get a malformed datagram.      *)
THEOREM NoBufferLost ==
  ASSUME DatagramsGoOn
  PROVE  Spec => []NoBufferIsLost
  <1>1. BooksInv => NoBufferIsLost
    BY BooksInvImplies
  <1>2. BooksInv /\ [Next]_vars => BooksInv'
    BY BooksStep
  <1>3. QED
    BY <1>1, <1>2, BooksInitInv, PTL DEF Spec

(* If handlers of datagrams go on receiving, an item holds an address      *)
(* length only while the completion of its accept is queued                *)
(* (call_accept_callback, and submit, which clears it for the next         *)
(* connection).                                                            *)
THEOREM AcceptsSeeTheirOwnAddress ==
  ASSUME DatagramsGoOn
  PROVE  Spec => []AcceptLengthIsFresh
  <1>1. BooksInv => AcceptLengthIsFresh
    BY BooksInvImplies
  <1>2. BooksInv /\ [Next]_vars => BooksInv'
    BY BooksStep
  <1>3. QED
    BY <1>1, <1>2, BooksInitInv, PTL DEF Spec

-----------------------------------------------------------------------------
(* Which steps leave an item with no request.                              *)

(* Stalled, in the terms of the invariants.                                *)
Waitless(x) ==
  x \in Objects /\ Live(x) /\ ~OnItsWay(sq, armed, x) /\ ~HasCompletion(x)

StallStep ==
  failed' = "NO" => \A x \in 1 .. MaxItems :
    /\ Waitless(x)' /\ ~Waitless(x) =>
         cq # <<>> /\ Completion.obj = x /\ Completion.res = "ENOBUFS"
    /\ Waitless(x) => Waitless(x)'

(* Stalled and Waitless are the same.                                      *)
LEMMA StalledIsWaitless == ServiceInv => \A x \in 1 .. MaxItems : Stalled(x) <=> Waitless(x)
  <1> SUFFICES ASSUME ServiceInv, NEW x \in 1 .. MaxItems
               PROVE  Stalled(x) <=> Waitless(x)
    OBVIOUS
  <1>1. DOMAIN sq = 1 .. Len(sq) /\ DOMAIN cq = 1 .. Len(cq)
    BY LenProperties DEF ServiceInv, EngineInv, TypeOK
  <1>2. Outstanding(x) <=> OnItsWay(sq, armed, x) \/ HasCompletion(x)
    BY <1>1 DEF Outstanding, Queued, Completed, HasCompletion, OnItsWay, InQueue
  <1>3. QED
    BY <1>2 DEF Stalled, Waitless

(* An item about which nothing changes.                                    *)
LEMMA WaitlessTheSame ==
  ASSUME NEW x \in 1 .. MaxItems,
         x \in Objects' <=> x \in Objects,
         x \in Objects => /\ heap'[x].m_state = heap[x].m_state
                          /\ heap'[x].m_work_type = heap[x].m_work_type,
         HasCompletion(x)' <=> HasCompletion(x),
         OnItsWay(sq', armed', x) <=> OnItsWay(sq, armed, x)
  PROVE  Waitless(x)' <=> Waitless(x)
  BY DEF Waitless, Live

(* A step that changes one item only.  That one waited for something, and  *)
(* still does, or is free, unless its ENOBUFS is dropped.                  *)
LEMMA OneItemStalls ==
  ASSUME NEW o \in 1 .. MaxItems, ~Waitless(o),
         \A x \in 1 .. MaxItems \ {o} : Waitless(x)' <=> Waitless(x),
         \/ failed' # "NO"
         \/ ~Waitless(o)'
         \/ cq # <<>> /\ Completion.obj = o /\ Completion.res = "ENOBUFS"
  PROVE  StallStep
  BY DEF StallStep

(* The first request of an item.                                           *)
LEMMA IssueStalls ==
  ASSUME ServiceInv, NEW o \in 1 .. MaxItems,
         ~OnItsWay(sq, armed, o), submit(o), UNCHANGED cq,
         o \in Objects => heap[o].m_work_type = "UNKNOWN",
         Objects' = Objects \cup {o},
         \A x \in Objects \ {o} : heap'[x] = heap[x]
  PROVE  StallStep
  <1>0. /\ sq \in Seq(1 .. MaxItems) /\ armed \in [1 .. MaxItems -> Nat]
        /\ Exclusive(Alone, sq, armed) /\ Alone \subseteq 1 .. MaxItems
    BY ItemTypes, AloneItems DEF ServiceInv, RequestsInv
  <1>1. /\ \A x \in 1 .. MaxItems :
             x # o => (OnItsWay(sq', armed', x) <=> OnItsWay(sq, armed, x))
        /\ OnItsWay(sq', armed', o) \/ NoEntry
    BY <1>0, SubmitExclusive
  <1>2. \A x : HasCompletion(x)' <=> HasCompletion(x)
    BY DEF HasCompletion
  <1>3. \A x \in 1 .. MaxItems \ {o} : Waitless(x)' <=> Waitless(x)
    <2> SUFFICES ASSUME NEW x \in 1 .. MaxItems \ {o}
                 PROVE  Waitless(x)' <=> Waitless(x)
      OBVIOUS
    <2>1. /\ x \in Objects' <=> x \in Objects
          /\ x \in Objects => /\ heap'[x].m_state = heap[x].m_state
                              /\ heap'[x].m_work_type = heap[x].m_work_type
          /\ OnItsWay(sq', armed', x) <=> OnItsWay(sq, armed, x)
      BY <1>1
    <2>2. QED
      BY <1>2, <2>1, WaitlessTheSame
  <1>4. ~Waitless(o) /\ (failed' # "NO" \/ ~Waitless(o)')
    BY <1>1 DEF Waitless, Live, NoEntry
  <1>5. QED
    BY <1>3, <1>4, OneItemStalls

(* The calls of the application.                                           *)
LEMMA ApplicationStalls ==
  ASSUME ServiceInv, Application
  PROVE  StallStep
  <1>0. /\ EngineInv /\ PoolIInv
        /\ Objects \subseteq 1 .. MaxItems
        /\ \A x \in 1 .. MaxItems : OnItsWay(sq, armed, x) => x \in Objects /\ Live(x)
    BY ItemTypes DEF ServiceInv, EngineInv, TypeOK, PoolIInv, RequestsInv, RequestsAreLive
  <1>1. NewObject \notin Objects /\ (Len(heap) + 1 <= MaxItems => NewObject \in 1 .. MaxItems)
    BY ItemTypes, <1>0, PoolAssumption DEF NewObject, Objects
  <1>2. ASSUME NEW s \in Sockets, NEW t \in Types, AllocAndSubmit(s, t)
        PROVE  StallStep
    <2>1. internal_alloc_work_item(s, t) /\ submit(NewObject) /\ UNCHANGED cq
      BY <1>2 DEF AllocAndSubmit
    <2>2. /\ Objects' = Objects \cup {NewObject}
          /\ \A x \in Objects : heap'[x] = heap[x]
          /\ NewObject \in 1 .. MaxItems
      BY <1>0, <1>1, <2>1, AllocEffect
    <2>3. ~OnItsWay(sq, armed, NewObject)
      BY <1>0, <1>1, <2>2
    <2>4. QED
      BY <1>1, <2>1, <2>2, <2>3, IssueStalls
  <1>3. ASSUME NEW s \in Sockets, submit_accept(s) \/ submit_recv(s) \/ submit_close(s)
        PROVE  StallStep
    BY <1>2, <1>3 DEF submit_accept, submit_recv, submit_close, Types
  <1>4. ASSUME NEW s \in Sockets, ackuire_send_workitem(s)
        PROVE  StallStep
    <2>1. /\ internal_alloc_work_item(s, "UNKNOWN") /\ "UNKNOWN" \in Types
          /\ UNCHANGED <<sq, armed, cq>>
      BY <1>4 DEF ackuire_send_workitem, ring_vars, Types
    <2>2. /\ Objects' = Objects \cup {NewObject}
          /\ \A x \in Objects : heap'[x] = heap[x]
          /\ heap'[NewObject].m_work_type = "UNKNOWN"
          /\ NewObject \in 1 .. MaxItems
      BY <1>0, <1>1, <2>1, AllocEffect
    <2>3. \A x : HasCompletion(x)' <=> HasCompletion(x)
      BY <2>1 DEF HasCompletion
    <2>4. PICK o \in 1 .. MaxItems : o = NewObject
      BY <2>2
    <2>5. \A x \in 1 .. MaxItems \ {o} : Waitless(x)' <=> Waitless(x)
      <3> SUFFICES ASSUME NEW x \in 1 .. MaxItems \ {o}
                   PROVE  Waitless(x)' <=> Waitless(x)
        OBVIOUS
      <3>1. /\ x \in Objects' <=> x \in Objects
            /\ x \in Objects => heap'[x] = heap[x]
        BY <2>2, <2>4
      <3>2. QED
        BY <2>1, <2>3, <3>1, WaitlessTheSame
    <2>6. ~Waitless(o)
      BY <1>1, <2>4 DEF Waitless
    <2>7. ~Waitless(o)'
      <3>1. heap'[o].m_work_type = "UNKNOWN"
        BY <2>2, <2>4
      <3>2. QED
        BY <3>1 DEF Waitless, Live
    <2>8. QED
      BY <2>5, <2>6, <2>7, OneItemStalls
  <1>5. ASSUME NEW s \in Sockets, NEW family \in ConnectTargets, submit_connect(s, family)
        PROVE  StallStep
    <2>1. CASE AllocAndSubmit(s, "CONNECT")
      BY <1>2, <2>1 DEF Types
    <2>2. CASE Fail("submit: m_connect_sock_len")
      BY <2>2 DEF Fail, StallStep
    <2>3. QED
      BY <1>5, <2>1, <2>2 DEF submit_connect
  <1>6. ASSUME NEW o \in Objects, submit_send(o)
        PROVE  StallStep
    <2>1. /\ heap[o].m_work_type = "UNKNOWN"
          /\ heap' = [heap EXCEPT ![o].m_work_type = SendType(o)]
          /\ SendType(o) \in Types
          /\ submit(o) /\ UNCHANGED <<m_work_items, m_free_ids>> /\ UNCHANGED cq
      BY <1>6 DEF submit_send, SendType, Types, SendTypes
    <2>2. Objects' = Objects /\ \A x \in Objects \ {o} : heap'[x] = heap[x]
      BY <1>0, <2>1, WriteItemTyped
    <2>3. ~OnItsWay(sq, armed, o) /\ o \in 1 .. MaxItems /\ Objects' = Objects \cup {o}
      BY <1>0, <2>1, <2>2 DEF Live
    <2>4. QED
      BY <2>1, <2>2, <2>3, IssueStalls
  <1>7. QED
    BY <1>3, <1>4, <1>5, <1>6 DEF Application

(* A completion is posted for an item that the kernel worked on.           *)
LEMMA PostStalls ==
  ASSUME ServiceInv, NEW o \in Objects, NEW res,
         NEW buffer \in 0 .. Published - 1 \cup {NULL},
         NEW more \in BOOLEAN, Post(o, res, more, buffer),
         \/ heap' = heap
         \/ heap' = [heap EXCEPT ![o].m_accept_sock_len = SockaddrLen]
  PROVE  StallStep
  <1>0. /\ EngineInv
        /\ Len(cq) \in Nat /\ cq \in Seq(CQE)
        /\ armed \in [1 .. MaxItems -> Nat]
        /\ Objects \subseteq 1 .. MaxItems
    BY ItemTypes DEF ServiceInv, EngineInv, TypeOK
  <1> DEFINE c == [obj |-> o, res |-> res, more |-> more, buffer |-> buffer]
  <1>1. /\ cq' = Append(cq, c) /\ c \in CQE
        /\ UNCHANGED <<m_work_items, m_free_ids, sq>>
        /\ armed[o] > 0 /\ armed' \in {armed, Disarmed(o)}
    <2>1. cq' = Append(cq, c) /\ UNCHANGED <<m_work_items, m_free_ids, sq>>
      BY <1>0, PostTyped
    <2>2. res \in Results /\ armed[o] > 0 /\ armed' \in {armed, Disarmed(o)}
      BY IOUringAssumption DEF Post
    <2>3. QED
      BY <2>1, <2>2 DEF CQE
  <1>2. c.obj = o
    OBVIOUS
  <1> HIDE DEF c
  <1>3. /\ \A i \in 1 .. Len(cq) : cq'[i] = cq[i] /\ i \in 1 .. Len(cq')
        /\ cq'[Len(cq) + 1] = c /\ Len(cq) + 1 \in 1 .. Len(cq')
        /\ \A i \in 1 .. Len(cq') : i \in 1 .. Len(cq) \/ i = Len(cq) + 1
    <2>1. /\ Len(cq') = Len(cq) + 1
          /\ \A i \in 1 .. Len(cq) : cq'[i] = cq[i]
          /\ cq'[Len(cq) + 1] = c
      BY <1>0, <1>1, AppendProperties
    <2>2. QED
      BY <1>0, <2>1
  <1>4. HasCompletion(o)' /\ \A x : x # o => (HasCompletion(x)' <=> HasCompletion(x))
    BY <1>2, <1>3 DEF HasCompletion
  <1>5. /\ Objects' = Objects
        /\ \A x \in Objects : /\ heap'[x].m_state = heap[x].m_state
                              /\ heap'[x].m_work_type = heap[x].m_work_type
    BY <1>0, <1>1, WriteItemTyped, LengthKeepsType
  <1>6. \A x \in 1 .. MaxItems \ {o} : Waitless(x)' <=> Waitless(x)
    <2> SUFFICES ASSUME NEW x \in 1 .. MaxItems \ {o}
                 PROVE  Waitless(x)' <=> Waitless(x)
      OBVIOUS
    <2>1. armed'[x] = armed[x]
      BY <1>0, <1>1 DEF Disarmed
    <2>2. OnItsWay(sq', armed', x) <=> OnItsWay(sq, armed, x)
      BY <1>1, <2>1 DEF OnItsWay
    <2>3. QED
      BY <1>4, <1>5, <2>2, WaitlessTheSame
  <1>7. ~Waitless(o) /\ ~Waitless(o)'
    BY <1>1, <1>4 DEF Waitless, OnItsWay
  <1>8. QED
    BY <1>0, <1>6, <1>7, OneItemStalls

(* What the kernel reports.                                                *)
LEMMA KernelStalls ==
  ASSUME ServiceInv, Kernel
  PROVE  StallStep
  <1>1. PICK o \in Objects : CompleteRequest(o) \/ ReceiveData(o) \/ ReceiveEOF(o) \/ ReceiveError(o)
    BY DEF Kernel
  <1>2. NULL \in 0 .. Published - 1 \cup {NULL}
    OBVIOUS
  <1>3. CASE CompleteRequest(o)
    BY <1>2, <1>3, PostStalls DEF CompleteRequest
  <1>4. CASE ReceiveData(o)
    <2>1. PICK res \in {"OK", "BADMSG"}, more \in BOOLEAN : Post(o, res, more, Head(buf_ring))
      BY <1>4 DEF ReceiveData
    <2>2. Head(buf_ring) \in 0 .. Published - 1 \cup {NULL}
      BY <1>4, HeadTailProperties DEF ReceiveData, ServiceInv, EngineInv, TypeOK
    <2>3. heap' = heap
      BY <1>4 DEF ReceiveData
    <2>4. QED
      BY <2>1, <2>2, <2>3, PostStalls
  <1>5. CASE ReceiveEOF(o)
    BY <1>2, <1>5, PostStalls DEF ReceiveEOF
  <1>6. CASE ReceiveError(o)
    BY <1>2, <1>6, PostStalls DEF ReceiveError
  <1>7. QED
    BY <1>1, <1>3, <1>4, <1>5, <1>6

(* Taking the head off the queue concerns its item only.                   *)
LEMMA AdvanceConcernsHead ==
  ASSUME ServiceInv, cq # <<>>, cq' = Advanced, NEW o, o = Found
  PROVE  HasCompletion(o) /\ \A x : x # o => (HasCompletion(x)' <=> HasCompletion(x))
  <1>1. /\ Completion = cq[1] /\ 1 \in 1 .. Len(cq)
        /\ \A i \in 1 .. Len(cq') : i + 1 \in 1 .. Len(cq) /\ cq'[i] = cq[i + 1]
        /\ \A i \in 1 .. Len(cq) : \/ i = 1
                                   \/ i - 1 \in 1 .. Len(cq') /\ cq'[i - 1] = cq[i]
    BY AdvanceKeeps
  <1>2. cq[1].obj = o
    BY <1>1, HeadOwner
  <1>3. QED
    BY <1>1, <1>2 DEF HasCompletion

(* Only an ENOBUFS is dropped, and its item has no other request unless it *)
(* is a multishot receive.                                                 *)
LEMMA PollDropStalls ==
  ASSUME ServiceInv, PollDrop
  PROVE  StallStep
  <1>1. /\ cq # <<>> /\ cq' = Advanced
        /\ UNCHANGED <<pool_vars, sq, armed>>
    BY DEF PollDrop, CanPoll
  <1>2. heap' = heap /\ Objects' = Objects
    BY <1>1 DEF pool_vars, Objects
  <1>3. PICK o \in 1 .. MaxItems : o = Found
    BY <1>1, HeadOwner, ItemTypes DEF ServiceInv
  <1>4. Completion.obj = o /\ Completion.res = "ENOBUFS"
    <2>1. Found # NULL
      BY <1>3, PoolAssumption
    <2>2. QED
      BY <1>1, <1>3, <2>1, HeadOwner DEF PollDrop, NoBuffers
  <1>5. HasCompletion(o) /\ \A x : x # o => (HasCompletion(x)' <=> HasCompletion(x))
    BY <1>1, <1>3, AdvanceConcernsHead
  <1>6. \A x \in 1 .. MaxItems \ {o} : Waitless(x)' <=> Waitless(x)
    BY <1>1, <1>2, <1>5, WaitlessTheSame
  <1>7. ~Waitless(o)
    BY <1>5 DEF Waitless
  <1>8. QED
    BY <1>1, <1>4, <1>6, <1>7, OneItemStalls

(* What is handled is freed or submitted again.                            *)
LEMMA FinishStalls ==
  ASSUME ServiceInv, cq # <<>>, NEW action, Finish(Found, action)
  PROVE  StallStep
  <1>0. /\ sq \in Seq(1 .. MaxItems) /\ armed \in [1 .. MaxItems -> Nat]
        /\ Exclusive(Alone, sq, armed) /\ Alone \subseteq 1 .. MaxItems
        /\ cq' = Advanced
    BY ItemTypes, AloneItems DEF ServiceInv, RequestsInv, Finish
  <1>1. PICK o \in 1 .. MaxItems : o = Found
    BY HeadOwner, ItemTypes DEF ServiceInv
  <1>2. HasCompletion(o) /\ \A x : x # o => (HasCompletion(x)' <=> HasCompletion(x))
    BY <1>0, <1>1, AdvanceConcernsHead
  <1>3. /\ Objects' = Objects
        /\ \A x \in Objects \ {o} : heap'[x] = heap[x]
        /\ \/ heap'[o].m_state = "FREE" /\ UNCHANGED <<sq, armed>>
           \/ submit(o)
    BY <1>1, FinishEffect
  <1>4. /\ \A x \in 1 .. MaxItems :
             x # o => (OnItsWay(sq', armed', x) <=> OnItsWay(sq, armed, x))
        /\ submit(o) => OnItsWay(sq', armed', o) \/ NoEntry
    <2>1. CASE submit(o)
      <3>1. o \in Alone => ~OnItsWay(sq, armed, o)
        BY <1>1, HeadOwner
      <3>2. QED
        BY <1>0, <2>1, <3>1, SubmitExclusive
    <2>2. CASE ~submit(o)
      BY <1>3, <2>2
    <2>3. QED
      BY <2>1, <2>2
  <1>5. \A x \in 1 .. MaxItems \ {o} : Waitless(x)' <=> Waitless(x)
    BY <1>2, <1>3, <1>4, WaitlessTheSame
  <1>6. ~Waitless(o) /\ (failed' # "NO" \/ ~Waitless(o)')
    BY <1>2, <1>3, <1>4 DEF Waitless, Live, NoEntry
  <1>7. QED
    BY <1>5, <1>6, OneItemStalls

(* If handlers of datagrams go on receiving, and however often             *)
(* io_uring_submit fails or stops early: while the process lives, an item  *)
(* is left in the pool with no request only by its own ENOBUFS, which      *)
(* call_callback_and_free_work_item_id drops before it looks at the type;  *)
(* and then nothing ever frees it or submits it again.                     *)
THEOREM RequestsStallOnlyByENOBUFS ==
  ASSUME DatagramsGoOn
  PROVE  Spec => StallsOnlyByENOBUFS
  <1>1. ServiceInv /\ [Next]_vars => StallStep
    <2> SUFFICES ASSUME ServiceInv, [Next]_vars
                 PROVE  StallStep
      OBVIOUS
    <2>1. ASSUME UNCHANGED <<heap, sq, armed, cq>>
          PROVE  StallStep
      <3>1. Objects' = Objects /\ \A x : HasCompletion(x)' <=> HasCompletion(x)
        BY <2>1 DEF Objects, HasCompletion
      <3>2. \A x \in 1 .. MaxItems : Waitless(x)' <=> Waitless(x)
        BY <2>1, <3>1, WaitlessTheSame
      <3>3. QED
        BY <3>2 DEF StallStep
    <2>2. CASE \E result \in InitResults : init(result)
      BY <2>1, <2>2 DEF init, pool_vars
    <2>3. CASE Application
      BY <2>3, ApplicationStalls
    <2>4. CASE Kernel
      BY <2>4, KernelStalls
    <2>5. CASE PollDrop
      BY <2>5, PollDropStalls
    <2>6. CASE PollFail
      BY <2>1, <2>6 DEF PollFail, Fail, pool_vars
    <2>7. CASE PollSilently
      BY <2>7, FinishStalls DEF PollSilently, Dispatches, CanPoll
    <2>8. CASE PollCall
      BY <2>1, <2>8 DEF PollCall, pool_vars
    <2>9. CASE CallbackReturn
      <3>1. cq # <<>> /\ calling = Found /\ \E action : Finish(calling, action)
        BY <2>9, HeadOwner DEF CallbackReturn, EngineInv, CompletionIsKept,
                               ServiceInv, CallbackIsForTheHead
      <3>2. QED
        BY <3>1, FinishStalls
    <2>10. CASE UNCHANGED vars
      BY <2>1, <2>10 DEF vars, ring_vars, pool_vars
    <2>11. QED
      BY <2>2, <2>3, <2>4, <2>5, <2>6, <2>7, <2>8, <2>9, <2>10 DEF Next, poll_completion_queues
  <1>2. ServiceInv /\ ServiceInv' /\ StallStep =>
          \A o \in 1 .. MaxItems : failed' = "NO" =>
            /\ Stalled(o)' /\ ~Stalled(o) =>
                 cq # <<>> /\ Completion.obj = o /\ Completion.res = "ENOBUFS"
            /\ Stalled(o) => Stalled(o)'
    <2> SUFFICES ASSUME ServiceInv, ServiceInv', StallStep, NEW o \in 1 .. MaxItems
                 PROVE  (Stalled(o) <=> Waitless(o)) /\ (Stalled(o)' <=> Waitless(o)')
      BY DEF StallStep
    <2>1. (ServiceInv => \A x \in 1 .. MaxItems : Stalled(x) <=> Waitless(x))'
      BY StalledIsWaitless, PTL
    <2>2. QED
      BY <2>1, StalledIsWaitless
  <1>3. ServiceInv /\ [Next]_vars => ServiceInv'
    BY ServiceStep
  <1>4. QED
    BY <1>1, <1>2, <1>3, ServiceInitInv, PTL DEF Spec, StallsOnlyByENOBUFS

-----------------------------------------------------------------------------
(* Buffers have one owner, if no stream ends.                              *)

BuffersDiffer ==
  /\ \A i, j \in 1 .. Len(buf_ring) : buf_ring[i] = buf_ring[j] => i = j
  /\ \A i, j \in 1 .. Len(cq) : cq[i].buffer = cq[j].buffer /\ cq[i].buffer # NULL => i = j
  /\ \A i \in 1 .. Len(buf_ring), j \in 1 .. Len(cq) : buf_ring[i] # cq[j].buffer

Errors == {"EINVAL", "ECONNRESET", "ERR", "ENOBUFS"}

(* A receive that did not fail has taken a buffer.                         *)
DataHasBuffer ==
  \A i \in 1 .. Len(cq) :
    heap[cq[i].obj].m_work_type = "RECV" /\ cq[i].buffer = NULL => cq[i].res \in Errors

(* A receive handler is called for data only.                              *)
CallbackHasData ==
  calling # NULL => heap[calling].m_work_type # "RECV" \/ Completion.res \notin Errors

NothingBeforeInit ==
  init_result = "NONE" => Len(buf_ring) = 0 /\ \A i \in 1 .. Len(cq) : cq[i].buffer = NULL

OwnersInv ==
  BooksInv /\ BuffersDiffer /\ DataHasBuffer /\ CallbackHasData /\ NothingBeforeInit

(* A step that leaves buffers and completions alone.                       *)
LEMMA QuietStepKeepsOwners ==
  ASSUME OwnersInv, BooksInv', UNCHANGED <<cq, buf_ring, calling, init_result>>,
         \A x \in Objects : Live(x) => heap'[x].m_work_type = heap[x].m_work_type
  PROVE  OwnersInv'
  <1>0. /\ \A i \in 1 .. Len(cq) : cq[i].obj \in Objects /\ Live(cq[i].obj)
        /\ ServiceInv
    BY BooksTypes DEF OwnersInv, BooksInv
  <1>1. BuffersDiffer' /\ NothingBeforeInit'
    BY DEF OwnersInv, BuffersDiffer, NothingBeforeInit
  <1>2. DataHasBuffer'
    BY <1>0 DEF OwnersInv, DataHasBuffer
  <1>3. CallbackHasData'
    <2> SUFFICES ASSUME calling # NULL
                 PROVE  heap'[calling].m_work_type = heap[calling].m_work_type
      BY DEF OwnersInv, CallbackHasData, Completion
    <2>1. calling = Found /\ Found \in Objects /\ Live(Found)
      BY <1>0, HeadOwner DEF ServiceInv, CallbackIsForTheHead, EngineInv, CompletionIsKept
    <2>2. QED
      BY <2>1
  <1>4. QED
    BY <1>1, <1>2, <1>3 DEF OwnersInv

(* The application leaves the types of submitted items alone.              *)
LEMMA ApplicationKeepsOwners ==
  ASSUME OwnersInv, BooksInv', Application
  PROVE  OwnersInv'
  <1>0. EngineInv /\ PoolIInv
    BY BooksTypes DEF OwnersInv
  <1>1. ASSUME NEW s \in Sockets, NEW t \in Types, internal_alloc_work_item(s, t)
        PROVE  \A x \in Objects : heap'[x].m_work_type = heap[x].m_work_type
    BY <1>0, <1>1, AllocEffect
  <1>2. ASSUME NEW s \in Sockets, NEW t \in Types, AllocAndSubmit(s, t)
        PROVE  OwnersInv'
    BY <1>1, <1>2, QuietStepKeepsOwners DEF AllocAndSubmit
  <1>3. ASSUME NEW s \in Sockets, submit_accept(s) \/ submit_recv(s) \/ submit_close(s)
        PROVE  OwnersInv'
    BY <1>2, <1>3 DEF submit_accept, submit_recv, submit_close, Types
  <1>4. ASSUME NEW s \in Sockets, ackuire_send_workitem(s)
        PROVE  OwnersInv'
    <2>1. internal_alloc_work_item(s, "UNKNOWN") /\ "UNKNOWN" \in Types
      BY <1>4 DEF ackuire_send_workitem, Types
    <2>2. UNCHANGED <<cq, buf_ring, calling, init_result>>
      BY <1>4 DEF ackuire_send_workitem, ring_vars
    <2>3. QED
      BY <1>1, <2>1, <2>2, QuietStepKeepsOwners
  <1>5. ASSUME NEW s \in Sockets, NEW family \in ConnectTargets, submit_connect(s, family)
        PROVE  OwnersInv'
    <2>1. CASE AllocAndSubmit(s, "CONNECT")
      BY <1>2, <2>1 DEF Types
    <2>2. CASE Fail("submit: m_connect_sock_len")
      BY <2>2, QuietStepKeepsOwners DEF Fail, pool_vars
    <2>3. QED
      BY <1>5, <2>1, <2>2 DEF submit_connect
  <1>6. ASSUME NEW o \in Objects, submit_send(o)
        PROVE  OwnersInv'
    <2>1. /\ heap[o].m_work_type = "UNKNOWN"
          /\ heap' = [heap EXCEPT ![o].m_work_type = SendType(o)]
          /\ SendType(o) \in Types
          /\ UNCHANGED <<m_work_items, m_free_ids>>
          /\ UNCHANGED <<cq, buf_ring, calling, init_result>>
      BY <1>6 DEF submit_send, SendType, Types, SendTypes
    <2>2. \A x \in Objects \ {o} : heap'[x] = heap[x]
      BY <1>0, <2>1, WriteItemTyped
    <2>3. \A x \in Objects : Live(x) => heap'[x].m_work_type = heap[x].m_work_type
      BY <2>1, <2>2 DEF Live
    <2>4. QED
      BY <2>1, <2>3, QuietStepKeepsOwners
  <1>7. QED
    BY <1>3, <1>4, <1>5, <1>6 DEF Application

(* The buffer of a new completion was in the ring, and leaves it.          *)
LEMMA PostKeepsOwners ==
  ASSUME OwnersInv, BooksInv', NEW o \in Objects, NEW res,
         NEW buffer \in 0 .. Published - 1 \cup {NULL},
         NEW more \in BOOLEAN, Post(o, res, more, buffer),
         \/ heap' = heap
         \/ heap' = [heap EXCEPT ![o].m_accept_sock_len = SockaddrLen],
         heap[o].m_work_type = "RECV" /\ buffer = NULL => res \in Errors,
         \/ UNCHANGED buf_ring /\ buffer = NULL
         \/ buf_ring # <<>> /\ buffer = Head(buf_ring) /\ buf_ring' = Tail(buf_ring)
  PROVE  OwnersInv'
  <1>0. /\ EngineInv /\ ServiceInv
        /\ Len(cq) \in Nat /\ cq \in Seq(CQE)
        /\ buf_ring \in Seq(0 .. Published - 1) /\ Len(buf_ring) \in Nat
        /\ \A i \in 1 .. Len(cq) : cq[i].obj \in Objects
    BY BooksTypes DEF OwnersInv, BooksInv
  <1> DEFINE c == [obj |-> o, res |-> res, more |-> more, buffer |-> buffer]
  <1>1. /\ cq' = Append(cq, c)
        /\ c \in CQE
        /\ UNCHANGED <<m_work_items, m_free_ids, init_result, calling>>
    <2>1. /\ cq' = Append(cq, c)
          /\ UNCHANGED <<m_work_items, m_free_ids, init_result, calling>>
      BY <1>0, PostTyped
    <2>2. res \in Results
      BY IOUringAssumption DEF Post
    <2>3. QED
      BY <2>1, <2>2 DEF CQE
  <1>2. c.obj = o /\ c.res = res /\ c.buffer = buffer
    OBVIOUS
  <1> HIDE DEF c
  <1>3. /\ \A i \in 1 .. Len(cq) : cq'[i] = cq[i]
        /\ cq'[Len(cq) + 1] = c
        /\ \A i \in 1 .. Len(cq') : i \in 1 .. Len(cq) \/ i = Len(cq) + 1
    <2>1. /\ Len(cq') = Len(cq) + 1
          /\ \A i \in 1 .. Len(cq) : cq'[i] = cq[i]
          /\ cq'[Len(cq) + 1] = c
      BY <1>0, <1>1, AppendProperties
    <2>2. QED
      BY <1>0, <2>1
  <1>4. \A x \in Objects : heap'[x].m_work_type = heap[x].m_work_type
    BY <1>0, <1>1, WriteItemTyped, LengthKeepsType
  <1>5. \/ /\ buffer = NULL /\ Len(buf_ring') = Len(buf_ring)
           /\ \A i \in 1 .. Len(buf_ring') : buf_ring'[i] = buf_ring[i]
        \/ /\ buffer = buf_ring[1] /\ 1 \in 1 .. Len(buf_ring)
           /\ \A i \in 1 .. Len(buf_ring') : /\ buf_ring'[i] = buf_ring[i + 1]
                                             /\ i + 1 \in 1 .. Len(buf_ring)
                                             /\ i + 1 # 1
    <2>1. CASE UNCHANGED buf_ring /\ buffer = NULL
      BY <2>1
    <2>2. CASE buf_ring # <<>> /\ buffer = Head(buf_ring) /\ buf_ring' = Tail(buf_ring)
      <3>1. /\ Len(buf_ring') = Len(buf_ring) - 1
            /\ \A j \in 1 .. Len(buf_ring') : buf_ring'[j] = buf_ring[j + 1]
            /\ buffer = buf_ring[1]
        BY <1>0, <2>2, HeadTailProperties
      <3>2. Len(buf_ring) # 0
        BY <1>0, <2>2, EmptySeq
      <3>3. 1 \in 1 .. Len(buf_ring)
        BY <1>0, <3>2
      <3>4. \A j \in 1 .. Len(buf_ring') : j + 1 \in 1 .. Len(buf_ring) /\ j + 1 # 1
        BY <1>0, <3>1
      <3>5. QED
        BY <3>1, <3>3, <3>4
    <2>3. QED
      BY <2>1, <2>2
  <1>6. BuffersDiffer'
    <2>1. \A i, j \in 1 .. Len(buf_ring') : buf_ring'[i] = buf_ring'[j] => i = j
      <3>1. CASE \A i \in 1 .. Len(buf_ring') : buf_ring'[i] = buf_ring[i]
                 /\ Len(buf_ring') = Len(buf_ring)
        BY <3>1 DEF OwnersInv, BuffersDiffer
      <3>2. CASE \A i \in 1 .. Len(buf_ring') : /\ buf_ring'[i] = buf_ring[i + 1]
                                                /\ i + 1 \in 1 .. Len(buf_ring)
        <4> SUFFICES ASSUME NEW i \in 1 .. Len(buf_ring'), NEW j \in 1 .. Len(buf_ring'),
                            buf_ring'[i] = buf_ring'[j]
                     PROVE  i = j
          OBVIOUS
        <4>1. \A k, l \in 1 .. Len(buf_ring) : buf_ring[k] = buf_ring[l] => k = l
          BY DEF OwnersInv, BuffersDiffer
        <4>2. /\ i + 1 \in 1 .. Len(buf_ring) /\ j + 1 \in 1 .. Len(buf_ring)
              /\ buf_ring[i + 1] = buf_ring[j + 1]
          BY <3>2
        <4>3. i + 1 = j + 1
          BY <4>1, <4>2
        <4>4. QED
          BY <4>3
      <3>3. QED
        BY <1>5, <3>1, <3>2
    <2>2. /\ buffer # NULL => \A j \in 1 .. Len(cq) : cq[j].buffer # buffer
          /\ \A i \in 1 .. Len(buf_ring') : buf_ring'[i] # buffer
      <3>1. \A i \in 1 .. Len(buf_ring) : buf_ring[i] # NULL
        BY <1>0, ElementOfSeq, PublishedType, PoolAssumption
      <3>2. QED
        BY <1>5, <3>1 DEF OwnersInv, BuffersDiffer
    <2>3. \A i, j \in 1 .. Len(cq') :
            cq'[i].buffer = cq'[j].buffer /\ cq'[i].buffer # NULL => i = j
      <3>1. \A i, j \in 1 .. Len(cq) :
              cq[i].buffer = cq[j].buffer /\ cq[i].buffer # NULL => i = j
        BY DEF OwnersInv, BuffersDiffer
      <3>2. QED
        BY <1>2, <1>3, <2>2, <3>1
    <2>4. \A i \in 1 .. Len(buf_ring'), j \in 1 .. Len(cq') : buf_ring'[i] # cq'[j].buffer
      <3>1. \A i \in 1 .. Len(buf_ring'), j \in 1 .. Len(cq) : buf_ring'[i] # cq[j].buffer
        BY <1>5 DEF OwnersInv, BuffersDiffer
      <3>2. QED
        BY <1>2, <1>3, <2>2, <3>1
    <2>5. QED
      BY <2>1, <2>3, <2>4 DEF BuffersDiffer
  <1>7. DataHasBuffer'
    BY <1>0, <1>2, <1>3, <1>4 DEF OwnersInv, DataHasBuffer
  <1>8. CallbackHasData'
    <2> SUFFICES ASSUME calling # NULL
                 PROVE  /\ heap'[calling].m_work_type = heap[calling].m_work_type
                        /\ Head(cq') = Head(cq)
      BY <1>1 DEF OwnersInv, CallbackHasData, Completion
    <2>1. cq # <<>> /\ calling \in Objects
      BY <1>0, HeadOwner DEF ServiceInv, CallbackIsForTheHead, EngineInv, CompletionIsKept
    <2>2. QED
      BY <1>0, <1>1, <1>4, <2>1, HeadTailAppend
  <1>9. NothingBeforeInit'
    <2> SUFFICES ASSUME init_result = "NONE"
                 PROVE  Len(buf_ring') = 0 /\ \A i \in 1 .. Len(cq') : cq'[i].buffer = NULL
      BY <1>1 DEF NothingBeforeInit
    <2>1. Len(buf_ring) = 0 /\ \A i \in 1 .. Len(cq) : cq[i].buffer = NULL
      BY DEF OwnersInv, NothingBeforeInit
    <2>2. 1 \notin 1 .. Len(buf_ring)
      BY <2>1
    <2>3. buffer = NULL /\ Len(buf_ring') = Len(buf_ring)
      BY <1>5, <2>2
    <2>4. QED
      BY <1>2, <1>3, <2>1, <2>3
  <1>10. QED
    BY <1>6, <1>7, <1>8, <1>9 DEF OwnersInv

(* What the kernel reports if no stream ends.                              *)
LEMMA KernelKeepsOwners ==
  ASSUME "EOF" \notin Outcomes, OwnersInv, BooksInv', Kernel
  PROVE  OwnersInv'
  <1>1. PICK o \in Objects : CompleteRequest(o) \/ ReceiveData(o) \/ ReceiveEOF(o) \/ ReceiveError(o)
    BY DEF Kernel
  <1>2. NULL \in 0 .. Published - 1 \cup {NULL}
    OBVIOUS
  <1>3. CASE CompleteRequest(o)
    BY <1>2, <1>3, PostKeepsOwners DEF CompleteRequest
  <1>4. CASE ReceiveData(o)
    <2>1. PICK res \in {"OK", "BADMSG"}, more \in BOOLEAN : Post(o, res, more, Head(buf_ring))
      BY <1>4 DEF ReceiveData
    <2>2. Head(buf_ring) \in 0 .. Published - 1
      BY <1>4, BooksTypes, HeadTailProperties DEF ReceiveData, OwnersInv
    <2>3. Head(buf_ring) # NULL
      BY <2>2, PublishedType, PoolAssumption
    <2>4. /\ heap' = heap
          /\ buf_ring # <<>> /\ buf_ring' = Tail(buf_ring)
      BY <1>4 DEF ReceiveData
    <2>5. QED
      BY <2>1, <2>2, <2>3, <2>4, PostKeepsOwners
  <1>5. CASE ReceiveEOF(o)
    BY <1>5 DEF ReceiveEOF, Post
  <1>6. CASE ReceiveError(o)
    BY <1>2, <1>6, PostKeepsOwners DEF ReceiveError, Errors
  <1>7. QED
    BY <1>1, <1>3, <1>4, <1>5, <1>6

(* The head of the queue goes, and its buffer is dropped with it or put    *)
(* back at the end of the ring.                                            *)
LEMMA AdvanceKeepsOwners ==
  ASSUME OwnersInv, BooksInv', cq # <<>>, cq' = Advanced, calling' = NULL,
         UNCHANGED init_result,
         \A x \in Objects : heap'[x].m_work_type = heap[x].m_work_type,
         \/ UNCHANGED buf_ring
         \/ Completion.buffer # NULL /\ buf_ring' = Append(buf_ring, Completion.buffer)
  PROVE  OwnersInv'
  <1>0. /\ ServiceInv
        /\ buf_ring \in Seq(0 .. Published - 1) /\ Len(buf_ring) \in Nat
        /\ cq \in Seq(CQE)
        /\ \A i \in 1 .. Len(cq) : cq[i].obj \in Objects
    BY BooksTypes DEF OwnersInv, BooksInv
  <1>1. /\ Completion = cq[1] /\ 1 \in 1 .. Len(cq)
        /\ \A i \in 1 .. Len(cq') : i + 1 \in 1 .. Len(cq) /\ cq'[i] = cq[i + 1]
    BY <1>0, AdvanceKeeps
  <1>2. \A i \in 1 .. Len(cq') : i + 1 # 1
    OBVIOUS
  <1>3. \A i \in 1 .. Len(buf_ring') :
          \/ i \in 1 .. Len(buf_ring) /\ buf_ring'[i] = buf_ring[i]
          \/ i = Len(buf_ring) + 1 /\ buf_ring'[i] = cq[1].buffer /\ cq[1].buffer # NULL
    <2>1. CASE UNCHANGED buf_ring
      BY <2>1
    <2>2. CASE Completion.buffer # NULL /\ buf_ring' = Append(buf_ring, Completion.buffer)
      <3>1. Completion.buffer \in 0 .. Published - 1
        <4>1. cq[1] \in CQE
          BY <1>0, <1>1, ElementOfSeq
        <4>2. QED
          BY <1>1, <2>2, <4>1 DEF CQE
      <3>2. /\ Len(buf_ring') = Len(buf_ring) + 1
            /\ \A i \in 1 .. Len(buf_ring) : buf_ring'[i] = buf_ring[i]
            /\ buf_ring'[Len(buf_ring) + 1] = Completion.buffer
        BY <1>0, <2>2, <3>1, AppendProperties
      <3>3. \A i \in 1 .. Len(buf_ring') : i \in 1 .. Len(buf_ring) \/ i = Len(buf_ring) + 1
        BY <1>0, <3>2
      <3>4. QED
        BY <1>1, <2>2, <3>2, <3>3
    <2>3. QED
      BY <2>1, <2>2
  <1>4. BuffersDiffer'
    <2>1. \A i, j \in 1 .. Len(buf_ring') : buf_ring'[i] = buf_ring'[j] => i = j
      <3>1. /\ \A i, j \in 1 .. Len(buf_ring) : buf_ring[i] = buf_ring[j] => i = j
            /\ \A i \in 1 .. Len(buf_ring) : buf_ring[i] # cq[1].buffer
        BY <1>1 DEF OwnersInv, BuffersDiffer
      <3>2. QED
        BY <1>3, <3>1
    <2>2. \A i, j \in 1 .. Len(cq') :
            cq'[i].buffer = cq'[j].buffer /\ cq'[i].buffer # NULL => i = j
      <3> SUFFICES ASSUME NEW i \in 1 .. Len(cq'), NEW j \in 1 .. Len(cq'),
                          cq'[i].buffer = cq'[j].buffer, cq'[i].buffer # NULL
                   PROVE  i = j
        OBVIOUS
      <3>1. i + 1 = j + 1
        BY <1>1 DEF OwnersInv, BuffersDiffer
      <3>2. QED
        BY <3>1
    <2>3. \A i \in 1 .. Len(buf_ring'), j \in 1 .. Len(cq') : buf_ring'[i] # cq'[j].buffer
      <3> SUFFICES ASSUME NEW i \in 1 .. Len(buf_ring'), NEW j \in 1 .. Len(cq')
                   PROVE  buf_ring'[i] # cq'[j].buffer
        OBVIOUS
      <3>1. j + 1 \in 1 .. Len(cq) /\ cq'[j] = cq[j + 1] /\ j + 1 # 1
        BY <1>1, <1>2
      <3>2. CASE i \in 1 .. Len(buf_ring) /\ buf_ring'[i] = buf_ring[i]
        BY <3>1, <3>2 DEF OwnersInv, BuffersDiffer
      <3>3. CASE buf_ring'[i] = cq[1].buffer /\ cq[1].buffer # NULL
        BY <1>1, <3>1, <3>3 DEF OwnersInv, BuffersDiffer
      <3>4. QED
        BY <1>3, <3>2, <3>3
    <2>4. QED
      BY <2>1, <2>2, <2>3 DEF BuffersDiffer
  <1>5. DataHasBuffer'
    <2>1. \A i \in 1 .. Len(cq') : /\ i + 1 \in 1 .. Len(cq) /\ cq'[i] = cq[i + 1]
                                   /\ heap'[cq'[i].obj].m_work_type = heap[cq'[i].obj].m_work_type
      BY <1>0, <1>1
    <2>2. QED
      BY <2>1 DEF OwnersInv, DataHasBuffer
  <1>6. CallbackHasData'
    BY DEF CallbackHasData
  <1>7. NothingBeforeInit'
    <2> SUFFICES ASSUME init_result = "NONE"
                 PROVE  Len(buf_ring') = 0 /\ \A i \in 1 .. Len(cq') : cq'[i].buffer = NULL
      BY DEF NothingBeforeInit
    <2>1. Len(buf_ring) = 0 /\ \A i \in 1 .. Len(cq) : cq[i].buffer = NULL
      BY DEF OwnersInv, NothingBeforeInit
    <2>2. UNCHANGED buf_ring
      BY <1>1, <2>1
    <2>3. QED
      BY <1>1, <2>1, <2>2
  <1>8. QED
    BY <1>4, <1>5, <1>6, <1>7 DEF OwnersInv

(* After a completion was handled its buffer, if any, is in the ring.      *)
LEMMA FinishKeepsOwners ==
  ASSUME OwnersInv, BooksInv', cq # <<>>, NEW action, Finish(Found, action),
         heap[Found].m_work_type = "RECV" =>
           Completion.res \notin Errors \/ Completion.res = "ECONNRESET"
  PROVE  OwnersInv'
  <1>0. ServiceInv /\ EngineInv /\ PoolIInv
    BY BooksTypes DEF OwnersInv, BooksInv
  <1>1. Found = Completion.obj /\ Found \in Objects /\ Completion = cq[1] /\ 1 \in 1 .. Len(cq)
    BY <1>0, HeadOwner, AdvanceKeeps DEF Finish
  <1>2. \/ UNCHANGED buf_ring
        \/ Completion.buffer # NULL /\ buf_ring' = Append(buf_ring, Completion.buffer)
    <2>1. CASE Is(Found, {"RECV"}) /\ ~Interrupted(Found, Completion)
      <3>1. heap[Found].m_work_type = "RECV" /\ Completion.res \notin Errors
        BY <2>1 DEF Is, Interrupted
      <3>2. Completion.buffer # NULL
        BY <1>1, <3>1 DEF OwnersInv, DataHasBuffer
      <3>3. QED
        BY <2>1, <3>2 DEF Finish, Recycled, BufferIndex
    <2>2. CASE ~(Is(Found, {"RECV"}) /\ ~Interrupted(Found, Completion))
      BY <2>2 DEF Finish
    <2>3. QED
      BY <2>1, <2>2
  <1>3. \A x \in Objects : heap'[x].m_work_type = heap[x].m_work_type
    BY <1>0, FinishEffect
  <1>4. QED
    BY <1>2, <1>3, AdvanceKeepsOwners DEF Finish

(* The ring is filled once, with buffers that differ.                      *)
LEMMA SetupKeepsOwners ==
  ASSUME OwnersInv, BooksInv', NEW result \in InitResults, init(result)
  PROVE  OwnersInv'
  <1>1. /\ UNCHANGED <<pool_vars, cq, calling>>
        /\ init_result' = result /\ setup_buffer_pool(result)
        /\ result # "NONE"
        /\ \A i \in 1 .. Len(cq) : cq[i].buffer = NULL
    BY IOUringAssumption DEF init, m_initialized, OwnersInv, NothingBeforeInit
  <1>2. heap' = heap
    BY <1>1 DEF pool_vars
  <1>3. DataHasBuffer' /\ CallbackHasData' /\ NothingBeforeInit'
    BY <1>1, <1>2 DEF OwnersInv, DataHasBuffer, CallbackHasData, NothingBeforeInit, Completion
  <1>4. \A i \in 1 .. Len(buf_ring') : i \in Int /\ buf_ring'[i] = i - 1 /\ buf_ring'[i] # NULL
    <2>1. CASE result = "OK"
      <3>1. buf_ring' = [i \in 1 .. Published |-> i - 1] /\ Published \in Nat
        BY <1>1, <2>1, PublishedType DEF setup_buffer_pool
      <3>2. Len(buf_ring') = Published
        BY <3>1
      <3>3. \A i \in 1 .. Published : i - 1 \in Nat
        BY <3>1
      <3>4. QED
        BY <3>1, <3>2, <3>3, PoolAssumption
    <2>2. CASE result # "OK"
      BY <1>1, <2>2, EmptySeq DEF setup_buffer_pool
    <2>3. QED
      BY <2>1, <2>2
  <1>5. \A i, j \in 1 .. Len(buf_ring') : buf_ring'[i] = buf_ring'[j] => i = j
    <2>1. \A i, j \in Int : i - 1 = j - 1 => i = j
      OBVIOUS
    <2>2. QED
      BY <1>4, <2>1
  <1>6. BuffersDiffer'
    BY <1>1, <1>4, <1>5 DEF BuffersDiffer
  <1>7. QED
    BY <1>3, <1>6 DEF OwnersInv

(* If no stream ends, and handlers of datagrams go on receiving, every     *)
(* step keeps buffers apart.                                               *)
LEMMA OwnersStep ==
  ASSUME DatagramsGoOn, "EOF" \notin Outcomes
  PROVE  OwnersInv /\ [Next]_vars => OwnersInv'
  <1> SUFFICES ASSUME OwnersInv, [Next]_vars
               PROVE  OwnersInv'
    OBVIOUS
  <1>0. ServiceInv /\ BooksInv'
    BY BooksStep DEF OwnersInv, BooksInv
  <1>1. CASE \E result \in InitResults : init(result)
    BY <1>0, <1>1, SetupKeepsOwners
  <1>2. CASE Application
    BY <1>0, <1>2, ApplicationKeepsOwners
  <1>3. CASE Kernel
    BY <1>0, <1>3, KernelKeepsOwners
  <1>4. CASE PollDrop
    BY <1>0, <1>4, AdvanceKeepsOwners DEF PollDrop, CanPoll, pool_vars
  <1>5. CASE PollFail
    BY <1>0, <1>5, QuietStepKeepsOwners DEF PollFail, Fail, pool_vars
  <1>6. CASE PollSilently
    <2>1. /\ cq # <<>> /\ Finish(Found, "RE_SUBMIT")
          /\ Found \in Objects
          /\ ~ReceiveAborts(Found, Completion) /\ ~NoBuffers(Completion)
      BY <1>0, <1>6, HeadOwner DEF PollSilently, Dispatches, CanPoll, Fatal
    <2>2. heap[Found].m_work_type = "RECV" =>
            Completion.res \notin Errors \/ Completion.res = "ECONNRESET"
      BY <2>1 DEF ReceiveAborts, NoBuffers, Is, Errors
    <2>3. QED
      BY <1>0, <2>1, <2>2, FinishKeepsOwners
  <1>7. CASE PollCall
    <2>1. /\ UNCHANGED <<pool_vars, init_result, buf_ring, cq>> /\ calling' = Found
          /\ ~ReceiveAborts(Found, Completion) /\ ~NoBuffers(Completion)
          /\ ~Interrupted(Found, Completion)
      BY <1>7 DEF PollCall, Dispatches, CanPoll, Fatal, Silent
    <2>2. heap' = heap
      BY <2>1 DEF pool_vars
    <2>3. BuffersDiffer' /\ DataHasBuffer' /\ NothingBeforeInit'
      BY <2>1, <2>2 DEF OwnersInv, BuffersDiffer, DataHasBuffer, NothingBeforeInit
    <2>4. heap[Found].m_work_type # "RECV" \/ Completion.res \notin Errors
      BY <2>1 DEF ReceiveAborts, NoBuffers, Interrupted, Is, Errors
    <2>5. CallbackHasData'
      BY <2>1, <2>2, <2>4 DEF CallbackHasData, Completion
    <2>6. QED
      BY <1>0, <2>3, <2>5 DEF OwnersInv
  <1>8. CASE CallbackReturn
    <2>1. /\ cq # <<>> /\ calling = Found /\ calling # NULL
          /\ \E action : Finish(calling, action)
      BY <1>0, <1>8, HeadOwner DEF CallbackReturn, EngineInv, CompletionIsKept,
                                    ServiceInv, CallbackIsForTheHead
    <2>2. heap[Found].m_work_type = "RECV" => Completion.res \notin Errors
      BY <2>1 DEF OwnersInv, CallbackHasData
    <2>3. QED
      BY <1>0, <2>1, <2>2, FinishKeepsOwners
  <1>9. CASE UNCHANGED vars
    BY <1>0, <1>9, QuietStepKeepsOwners DEF vars, ring_vars, pool_vars
  <1>10. QED
    BY <1>1, <1>2, <1>3, <1>4, <1>5, <1>6, <1>7, <1>8, <1>9 DEF Next, poll_completion_queues

(* If no peer closes its connection, and handlers of datagrams go on       *)
(* receiving, no buffer is offered to the kernel twice or while a callback *)
(* reads it (re_add_buffer).  The end of a stream does break this: the run *)
(* EofBuffer shows it.                                                     *)
THEOREM BuffersStayApart ==
  ASSUME DatagramsGoOn, "EOF" \notin Outcomes
  PROVE  Spec => []BufferHasOneOwner
  <1>1. Init => OwnersInv
    <2> SUFFICES ASSUME Init
                 PROVE  OwnersInv
      OBVIOUS
    <2>1. Len(cq) = 0 /\ Len(buf_ring) = 0 /\ calling = NULL
      BY EmptySeq DEF Init
    <2>2. QED
      BY <2>1, BooksInitInv DEF OwnersInv, BuffersDiffer, DataHasBuffer, CallbackHasData,
                                NothingBeforeInit
  <1>2. OwnersInv /\ [Next]_vars => OwnersInv'
    BY OwnersStep
  <1>3. OwnersInv => BufferHasOneOwner
    <2> SUFFICES ASSUME OwnersInv
                 PROVE  BufferHasOneOwner
      OBVIOUS
    <2>1. DOMAIN cq = 1 .. Len(cq) /\ DOMAIN buf_ring = 1 .. Len(buf_ring)
      BY BooksTypes, LenProperties DEF OwnersInv
    <2>2. QED
      BY <2>1 DEF OwnersInv, BuffersDiffer, BufferHasOneOwner, InRing, InFlight
  <1>4. QED
    BY <1>1, <1>2, <1>3, PTL DEF Spec

-----------------------------------------------------------------------------
(* How items are freed.                                                    *)

(* Only the end of the handling of a completion frees an item, and it      *)
(* frees the one that the completion is for.                               *)
LEMMA OnlyHandledItemsAreFreed ==
  ASSUME ServiceInv, [Next]_vars, NEW o \in Objects,
         heap[o].m_state = "IN_USE", heap'[o].m_state = "FREE"
  PROVE  /\ cq # <<>> /\ o = Found
         /\ PollSilently \/ CallbackReturn
  <1>0. EngineInv /\ EngineInv' /\ PoolIInv
    BY EngineStep DEF ServiceInv, EngineInv, TypeOK, PoolIInv
  <1>1. ~UNCHANGED m_work_items
    <2> SUFFICES ASSUME UNCHANGED m_work_items
                 PROVE  FALSE
      OBVIOUS
    <2>1. Slot(heap[o].m_id) = o /\ heap[o].m_id \in Ids /\ o # NULL
      <3>1. Slot(heap[o].m_id) = o
        BY <1>0 DEF EngineInv, PoolInv, InUseItemsOwnTheirSlot
      <3>2. heap[o].m_id \in Ids
        BY <1>0 DEF EngineInv, TypeOK, PoolTypeOK
      <3>3. o # NULL
        BY <1>0, ItemTypes, PoolAssumption
      <3>4. QED
        BY <3>1, <3>2, <3>3
    <2>2. heap'[o].m_state = "IN_USE"
      BY <1>0, <2>1 DEF EngineInv, PoolInv, InUseItemsOwnTheirSlot, Slot, Ids
    <2>3. QED
      BY <2>2
  <1>2. ~\E s \in Sockets, t \in Types : internal_alloc_work_item(s, t)
    BY <1>0, AllocEffect
  <1>3. ASSUME cq # <<>>, NEW action, Finish(Found, action)
        PROVE  o = Found
    BY <1>3, FinishEffect
  <1>4. CASE Application
    BY <1>1, <1>2, <1>4 DEF Application, submit_accept, submit_recv, submit_close, submit_connect,
                ackuire_send_workitem, submit_send, AllocAndSubmit, Fail, Types, pool_vars
  <1>5. CASE Kernel
    BY <1>1, <1>5 DEF Kernel, CompleteRequest, ReceiveData, ReceiveEOF, ReceiveError, Post
  <1>6. CASE PollDrop \/ PollFail \/ PollCall
    BY <1>1, <1>6 DEF PollDrop, PollFail, PollCall, Fail, pool_vars
  <1>7. CASE PollSilently
    BY <1>3, <1>7 DEF PollSilently, Dispatches, CanPoll
  <1>8. CASE CallbackReturn
    <2>1. cq # <<>> /\ calling = Found /\ \E action : Finish(calling, action)
      BY <1>8, HeadOwner DEF CallbackReturn, EngineInv, CompletionIsKept,
                             ServiceInv, CallbackIsForTheHead
    <2>2. QED
      BY <1>3, <1>8, <2>1
  <1>9. CASE (\E result \in InitResults : init(result)) \/ UNCHANGED vars
    BY <1>1, <1>9 DEF init, vars, pool_vars
  <1>10. QED
    BY <1>4, <1>5, <1>6, <1>7, <1>8, <1>9 DEF Next, poll_completion_queues

(* If handlers of datagrams go on receiving, whatever completions and      *)
(* submissions come in between: a send, on a stream or of a datagram, is   *)
(* freed by the return of its own callback, or by its own completion with  *)
(* EFAULT or EINVAL (call_send_callback).                                  *)
THEOREM SendsAreAnswered ==
  ASSUME DatagramsGoOn
  PROVE  Spec => SendsAreCalledBack
  <1> DEFINE ToldOrRejected ==
        \A o \in Objects :
          heap[o].m_work_type \in SendTypes /\ heap[o].m_state = "IN_USE"
          /\ heap'[o].m_state = "FREE" =>
            \/ calling = o
            \/ Completion.obj = o /\ Completion.res = "EINVAL"
  <1>1. ServiceInv /\ [Next]_vars => ToldOrRejected
    <2> SUFFICES ASSUME ServiceInv, [Next]_vars, NEW o \in Objects,
                        heap[o].m_work_type \in SendTypes, heap[o].m_state = "IN_USE",
                        heap'[o].m_state = "FREE"
                 PROVE  \/ calling = o
                        \/ Completion.obj = o /\ Completion.res = "EINVAL"
      OBVIOUS
    <2>1. /\ cq # <<>> /\ o = Found
          /\ PollSilently \/ CallbackReturn
      BY OnlyHandledItemsAreFreed
    <2>2. Found = Completion.obj
      BY <2>1, HeadOwner
    <2>3. CASE PollSilently
      BY <2>1, <2>2, <2>3 DEF PollSilently, Silent, Rejected, Interrupted, BadDatagram,
                              Multishot, Is, SendTypes
    <2>4. CASE CallbackReturn
      BY <2>1, <2>2, <2>4 DEF CallbackReturn, ServiceInv, CallbackIsForTheHead
    <2>5. QED
      BY <2>1, <2>3, <2>4
  <1>2. ServiceInv /\ [Next]_vars => ServiceInv'
    BY ServiceStep
  <1>3. QED
    BY <1>1, <1>2, ServiceInitInv, PTL DEF Spec, SendsAreCalledBack

-----------------------------------------------------------------------------
(* The engine implements RequestLifecycle.                                 *)

(* Status, in the terms of the invariants.                                 *)
Shows(x) ==
  IF x \notin Objects THEN "absent"
  ELSE IF heap[x].m_state = "FREE" THEN "done"
  ELSE IF heap[x].m_work_type = "UNKNOWN" THEN "held"
  ELSE IF calling = x THEN "calling"
  ELSE IF HasCompletion(x) THEN "completed"
  ELSE IF OnItsWay(sq, armed, x) THEN "pending"
  ELSE "lost"

LEMMA StatusIsShown == ServiceInv => \A x \in 1 .. MaxItems : Status(x) = Shows(x)
  <1> SUFFICES ASSUME ServiceInv, NEW x \in 1 .. MaxItems
               PROVE  Status(x) = Shows(x)
    OBVIOUS
  <1>1. DOMAIN sq = 1 .. Len(sq) /\ DOMAIN cq = 1 .. Len(cq)
    BY LenProperties DEF ServiceInv, EngineInv, TypeOK
  <1>2. Completed(x) <=> HasCompletion(x)
    BY <1>1 DEF Completed, HasCompletion
  <1>3. Outstanding(x) <=> OnItsWay(sq, armed, x) \/ HasCompletion(x)
    BY <1>1, <1>2 DEF Outstanding, Queued, OnItsWay, InQueue
  <1>4. x \in Objects => heap[x].m_state \in {"IN_USE", "FREE"}
    <2>1. x \in Objects => heap[x] \in WorkItem
      BY ElementOfSeq DEF ServiceInv, EngineInv, TypeOK, PoolTypeOK, Objects
    <2>2. QED
      BY <2>1 DEF WorkItem
  <1>5. CASE x \notin Objects
    BY <1>5 DEF Status, Shows
  <1>6. CASE x \in Objects /\ heap[x].m_state = "FREE"
    BY <1>6 DEF Status, Shows
  <1>7. CASE x \in Objects /\ heap[x].m_state = "IN_USE"
    BY <1>2, <1>3, <1>7 DEF Status, Shows
  <1>8. QED
    BY <1>4, <1>5, <1>6, <1>7

(* An item shows the same status while nothing about it changes.           *)
LEMMA ShowsTheSame ==
  ASSUME NEW x \in 1 .. MaxItems,
         x \in Objects' <=> x \in Objects,
         x \in Objects => /\ heap'[x].m_state = heap[x].m_state
                          /\ heap'[x].m_work_type = heap[x].m_work_type,
         calling' = x <=> calling = x,
         HasCompletion(x)' <=> HasCompletion(x),
         OnItsWay(sq', armed', x) <=> OnItsWay(sq, armed, x)
  PROVE  Shows(x)' = Shows(x)
  BY DEF Shows

Issues(o) ==
  \/ Shows(o)' = "pending" /\ failed' = "NO"
  \/ Shows(o)' = "lost" /\ failed' # "NO"

IsSettled(o) ==
  Shows(o) = "calling" \/ (Shows(o) = "completed" /\ calling = NULL)

(* The steps of RequestLifecycle, in terms of what items show.             *)
LifecycleStep(o) ==
  \/ Shows(o) = "absent" /\ Shows(o)' = "held" /\ UNCHANGED failed
  \/ Shows(o) \in {"absent", "held"} /\ Issues(o)
  \/ Shows(o) = "pending" /\ Shows(o)' = "completed" /\ UNCHANGED failed
  \/ /\ Shows(o) = "completed" /\ calling = NULL
     /\ Shows(o)' \in {"calling", "lost"}
     /\ UNCHANGED failed
  \/ IsSettled(o) /\ Shows(o)' = "done" /\ UNCHANGED failed
  \/ IsSettled(o) /\ Issues(o)

(* A step in which one item changes what it shows, and all others do not,  *)
(* is one of RequestLifecycle.                                             *)
LEMMA OneItemSteps ==
  ASSUME ServiceInv, ServiceInv', failed = "NO", NEW o \in 1 .. MaxItems,
         \A x \in 1 .. MaxItems \ {o} : Shows(x)' = Shows(x),
         LifecycleStep(o)
  PROVE  Lifecycle!Next
  <1> DEFINE now  == [x \in 1 .. MaxItems |-> Status(x)]
             next == [x \in 1 .. MaxItems |-> Status(x)']
  <1>1. \A x \in 1 .. MaxItems : Status(x) = Shows(x)
    BY StatusIsShown
  <1>2. \A x \in 1 .. MaxItems : Status(x)' = Shows(x)'
    <2>1. (ServiceInv => \A x \in 1 .. MaxItems : Status(x) = Shows(x))'
      BY StatusIsShown, PTL
    <2>2. QED
      BY <2>1
  <1>3. now[o] = Shows(o) /\ next = [now EXCEPT ![o] = Shows(o)']
    BY <1>1, <1>2
  <1>4. calling = NULL => \A x \in 1 .. MaxItems : now[x] # "calling"
    <2>1. \A x \in 1 .. MaxItems : x # NULL
      BY PoolAssumption
    <2>2. QED
      BY <1>1, <2>1 DEF Shows
  <1> HIDE DEF now, next
  <1>5. Lifecycle!Become(o, Shows(o)')
    BY <1>3 DEF now, next, Lifecycle!Become
  <1>6. calling = NULL => Lifecycle!Quiet
    BY <1>4 DEF now, Lifecycle!Quiet
  <1>7. CASE Shows(o) = "absent" /\ Shows(o)' = "held" /\ UNCHANGED failed
    <2>1. Lifecycle!Hold(o)
      BY <1>3, <1>5, <1>7 DEF now, Lifecycle!Hold
    <2>2. QED
      BY <2>1 DEF Lifecycle!Next
  <1>8. Issues(o) => Lifecycle!Issued(o)
    BY <1>5 DEF Issues, Lifecycle!Issued
  <1>9. CASE Shows(o) \in {"absent", "held"} /\ Issues(o)
    <2>1. Lifecycle!Issue(o)
      BY <1>3, <1>8, <1>9 DEF now, Lifecycle!Issue
    <2>2. QED
      BY <2>1 DEF Lifecycle!Next
  <1>10. CASE Shows(o) = "pending" /\ Shows(o)' = "completed" /\ UNCHANGED failed
    <2>1. Lifecycle!Complete(o)
      BY <1>3, <1>5, <1>10 DEF now, Lifecycle!Complete
    <2>2. QED
      BY <2>1 DEF Lifecycle!Next
  <1>11. CASE /\ Shows(o) = "completed" /\ calling = NULL
              /\ Shows(o)' \in {"calling", "lost"}
              /\ UNCHANGED failed
    <2>1. Lifecycle!Call(o) \/ Lifecycle!Lose(o)
      BY <1>3, <1>5, <1>6, <1>11 DEF now, Lifecycle!Call, Lifecycle!Lose
    <2>2. QED
      BY <2>1 DEF Lifecycle!Next
  <1>12. IsSettled(o) => Lifecycle!Settled(o)
    BY <1>3, <1>6 DEF now, IsSettled, Lifecycle!Settled
  <1>13. CASE IsSettled(o) /\ Shows(o)' = "done" /\ UNCHANGED failed
    <2>1. Lifecycle!End(o)
      BY <1>5, <1>12, <1>13 DEF Lifecycle!End
    <2>2. QED
      BY <2>1 DEF Lifecycle!Next
  <1>14. CASE IsSettled(o) /\ Issues(o)
    <2>1. Lifecycle!Reissue(o)
      BY <1>8, <1>12, <1>14 DEF Lifecycle!Reissue
    <2>2. QED
      BY <2>1 DEF Lifecycle!Next
  <1>15. QED
    BY <1>7, <1>9, <1>10, <1>11, <1>13, <1>14 DEF LifecycleStep

(* A step in which no item changes what it shows.                          *)
LEMMA NoItemSteps ==
  ASSUME ServiceInv, ServiceInv', \A x \in 1 .. MaxItems : Shows(x)' = Shows(x),
         UNCHANGED failed \/ (failed = "NO" /\ failed' # "NO")
  PROVE  [Lifecycle!Next]_(Lifecycle!vars)
  <1>1. \A x \in 1 .. MaxItems : Status(x) = Shows(x)
    BY StatusIsShown
  <1>2. \A x \in 1 .. MaxItems : Status(x)' = Shows(x)'
    <2>1. (ServiceInv => \A x \in 1 .. MaxItems : Status(x) = Shows(x))'
      BY StatusIsShown, PTL
    <2>2. QED
      BY <2>1
  <1>3. [x \in 1 .. MaxItems |-> Status(x)'] = [x \in 1 .. MaxItems |-> Status(x)]
    BY <1>1, <1>2
  <1>4. CASE UNCHANGED failed
    BY <1>3, <1>4 DEF Lifecycle!vars
  <1>5. CASE failed = "NO" /\ failed' # "NO"
    <2>1. Lifecycle!Die
      BY <1>3, <1>5 DEF Lifecycle!Die
    <2>2. QED
      BY <1>5, <2>1 DEF Lifecycle!Next
  <1>6. QED
    BY <1>4, <1>5

(* The first request of an item.                                           *)
LEMMA IssueSteps ==
  ASSUME ServiceInv, ServiceInv', failed = "NO", NEW o \in 1 .. MaxItems,
         ~OnItsWay(sq, armed, o), submit(o), UNCHANGED <<cq, calling>>,
         o \in Objects => heap[o].m_work_type = "UNKNOWN",
         Objects' = Objects \cup {o},
         \A x \in Objects \ {o} : heap'[x] = heap[x],
         heap'[o].m_work_type # "UNKNOWN", heap'[o].m_state = "IN_USE"
  PROVE  Lifecycle!Next
  <1>0. /\ EngineInv /\ RequestsInv
        /\ sq \in Seq(1 .. MaxItems) /\ armed \in [1 .. MaxItems -> Nat]
        /\ Exclusive(Alone, sq, armed) /\ Alone \subseteq 1 .. MaxItems
        /\ \A i \in 1 .. Len(cq) : cq[i].obj \in Objects /\ Live(cq[i].obj)
    BY ItemTypes, AloneItems DEF ServiceInv, RequestsInv, RequestsAreLive
  <1>1. /\ \A x \in 1 .. MaxItems :
             x # o => (OnItsWay(sq', armed', x) <=> OnItsWay(sq, armed, x))
        /\ \/ OnItsWay(sq', armed', o) /\ UNCHANGED failed
           \/ ~OnItsWay(sq', armed', o) /\ NoEntry
    BY <1>0, SubmitExclusive
  <1>2. ~HasCompletion(o) /\ \A x : HasCompletion(x)' <=> HasCompletion(x)
    BY <1>0 DEF HasCompletion, Live
  <1>3. calling # o
    <2> SUFFICES ASSUME calling = o
                 PROVE  FALSE
      OBVIOUS
    <2>1. calling # NULL
      BY PoolAssumption
    <2>2. o \in Objects /\ Live(o)
      BY <2>1, HeadOwner DEF ServiceInv, CallbackIsForTheHead, EngineInv, CompletionIsKept
    <2>3. QED
      BY <2>2 DEF Live
  <1>4. \A x \in 1 .. MaxItems \ {o} : Shows(x)' = Shows(x)
    <2> SUFFICES ASSUME NEW x \in 1 .. MaxItems \ {o}
                 PROVE  Shows(x)' = Shows(x)
      OBVIOUS
    <2>1. /\ x \in Objects' <=> x \in Objects
          /\ x \in Objects => /\ heap'[x].m_state = heap[x].m_state
                              /\ heap'[x].m_work_type = heap[x].m_work_type
          /\ OnItsWay(sq', armed', x) <=> OnItsWay(sq, armed, x)
      BY <1>1
    <2>2. QED
      BY <1>2, <2>1, ShowsTheSame
  <1>5. Shows(o) \in {"absent", "held"}
    <2>1. o \in Objects => heap[o].m_state = "IN_USE"
      BY <1>0 DEF RequestsInv, HeldItemsAreInUse
    <2>2. QED
      BY <2>1 DEF Shows
  <1>6. Issues(o)
    <2>1. o \in Objects' /\ ~HasCompletion(o)' /\ calling' # o
      BY <1>2, <1>3
    <2>2. QED
      BY <1>1, <2>1 DEF Shows, Issues, NoEntry
  <1>7. QED
    BY <1>4, <1>5, <1>6, OneItemSteps DEF LifecycleStep

(* The calls of the application.                                           *)
LEMMA ApplicationSteps ==
  ASSUME ServiceInv, ServiceInv', Application
  PROVE  [Lifecycle!Next]_(Lifecycle!vars)
  <1>0. /\ EngineInv /\ RequestsInv /\ PoolIInv
        /\ Objects \subseteq 1 .. MaxItems
        /\ \A x \in 1 .. MaxItems : OnItsWay(sq, armed, x) => x \in Objects /\ Live(x)
        /\ \A i \in 1 .. Len(cq) : cq[i].obj \in Objects
    BY ItemTypes DEF ServiceInv, EngineInv, TypeOK, PoolIInv, RequestsInv, RequestsAreLive
  <1>1. NewObject \notin Objects /\ (Len(heap) + 1 <= MaxItems => NewObject \in 1 .. MaxItems)
    BY ItemTypes, <1>0, PoolAssumption DEF NewObject, Objects
  <1>2. ASSUME NEW s \in Sockets, NEW t \in Types \ {"UNKNOWN"}, AllocAndSubmit(s, t)
        PROVE  Lifecycle!Next
    <2>1. /\ internal_alloc_work_item(s, t)
          /\ submit(NewObject) /\ failed = "NO"
          /\ UNCHANGED <<cq, calling>>
      BY <1>2 DEF AllocAndSubmit, Running
    <2>2. /\ Objects' = Objects \cup {NewObject}
          /\ \A x \in Objects : heap'[x] = heap[x]
          /\ heap'[NewObject].m_work_type # "UNKNOWN"
          /\ heap'[NewObject].m_state = "IN_USE"
          /\ NewObject \in 1 .. MaxItems
      BY <1>0, <1>1, <2>1, AllocEffect
    <2>3. ~OnItsWay(sq, armed, NewObject)
      BY <1>0, <1>1, <2>2
    <2>4. QED
      BY <1>1, <2>1, <2>2, <2>3, IssueSteps
  <1>3. ASSUME NEW s \in Sockets, submit_accept(s) \/ submit_recv(s) \/ submit_close(s)
        PROVE  Lifecycle!Next
    BY <1>2, <1>3 DEF submit_accept, submit_recv, submit_close, Types
  <1>4. ASSUME NEW s \in Sockets, ackuire_send_workitem(s)
        PROVE  Lifecycle!Next
    <2>1. /\ internal_alloc_work_item(s, "UNKNOWN") /\ "UNKNOWN" \in Types
          /\ failed = "NO"
          /\ UNCHANGED <<sq, armed, cq, calling, failed>>
      BY <1>4 DEF ackuire_send_workitem, Running, ring_vars, Types
    <2>2. /\ Objects' = Objects \cup {NewObject}
          /\ \A x \in Objects : heap'[x] = heap[x]
          /\ heap'[NewObject].m_work_type = "UNKNOWN"
          /\ heap'[NewObject].m_state = "IN_USE"
          /\ NewObject \in 1 .. MaxItems
      BY <1>0, <1>1, <2>1, AllocEffect
    <2>3. \A x : HasCompletion(x)' <=> HasCompletion(x)
      BY <2>1 DEF HasCompletion
    <2>4. PICK o \in 1 .. MaxItems : o = NewObject
      BY <2>2
    <2>5. \A x \in 1 .. MaxItems \ {o} : Shows(x)' = Shows(x)
      <3> SUFFICES ASSUME NEW x \in 1 .. MaxItems \ {o}
                   PROVE  Shows(x)' = Shows(x)
        OBVIOUS
      <3>1. /\ x \in Objects' <=> x \in Objects
            /\ x \in Objects => heap'[x] = heap[x]
        BY <2>2, <2>4
      <3>2. QED
        BY <2>1, <2>3, <3>1, ShowsTheSame
    <2>6. Shows(o) = "absent"
      BY <1>1, <2>4 DEF Shows
    <2>7. Shows(o)' = "held"
      <3>1. o \in Objects' /\ heap'[o].m_work_type = "UNKNOWN" /\ heap'[o].m_state = "IN_USE"
        BY <2>2, <2>4
      <3>2. QED
        BY <3>1 DEF Shows
    <2>8. QED
      BY <2>1, <2>5, <2>6, <2>7, OneItemSteps DEF LifecycleStep
  <1>5. ASSUME NEW s \in Sockets, NEW family \in ConnectTargets, submit_connect(s, family)
        PROVE  [Lifecycle!Next]_(Lifecycle!vars)
    <2>1. CASE AllocAndSubmit(s, "CONNECT")
      BY <1>2, <2>1 DEF Types
    <2>2. CASE Running /\ Fail("submit: m_connect_sock_len")
      <3>1. UNCHANGED <<heap, sq, armed, cq, calling>> /\ failed = "NO" /\ failed' # "NO"
        BY <2>2 DEF Running, Fail, pool_vars
      <3>2. Objects' = Objects /\ \A x : HasCompletion(x)' <=> HasCompletion(x)
        BY <3>1 DEF Objects, HasCompletion
      <3>3. \A x \in 1 .. MaxItems : Shows(x)' = Shows(x)
        BY <3>1, <3>2, ShowsTheSame
      <3>4. QED
        BY <3>1, <3>3, NoItemSteps
    <2>3. QED
      BY <1>5, <2>1, <2>2 DEF submit_connect
  <1>6. ASSUME NEW o \in Objects, submit_send(o)
        PROVE  Lifecycle!Next
    <2>1. /\ heap[o].m_work_type = "UNKNOWN" /\ failed = "NO"
          /\ heap' = [heap EXCEPT ![o].m_work_type = SendType(o)]
          /\ SendType(o) \in Types \ {"UNKNOWN"}
          /\ submit(o)
          /\ UNCHANGED <<m_work_items, m_free_ids>>
          /\ UNCHANGED <<cq, calling>>
      BY <1>6 DEF submit_send, Running, SendType, Types, SendTypes
    <2>2. /\ Objects' = Objects
          /\ heap'[o].m_state = heap[o].m_state
          /\ \A x \in Objects \ {o} : heap'[x] = heap[x]
      BY <1>0, <2>1, WriteItemTyped
    <2>3. heap'[o].m_work_type = SendType(o)
      <3>1. heap \in Seq(WorkItem) /\ o \in 1 .. Len(heap)
        BY <1>0 DEF EngineInv, TypeOK, PoolTypeOK, Objects
      <3>2. heap[o] \in WorkItem /\ DOMAIN heap = 1 .. Len(heap)
        BY <3>1, ElementOfSeq, LenProperties
      <3>3. QED
        BY <2>1, <3>1, <3>2 DEF WorkItem
    <2>4. heap'[o].m_state = "IN_USE" /\ heap'[o].m_work_type # "UNKNOWN"
      BY <1>0, <2>1, <2>2, <2>3 DEF RequestsInv, HeldItemsAreInUse
    <2>5. ~OnItsWay(sq, armed, o) /\ o \in 1 .. MaxItems /\ Objects' = Objects \cup {o}
      BY <1>0, <2>1, <2>2 DEF Live
    <2>6. QED
      BY <2>1, <2>2, <2>4, <2>5, IssueSteps
  <1>7. QED
    BY <1>3, <1>4, <1>5, <1>6 DEF Application

(* A completion is posted: its item was pending.                           *)
LEMMA PostSteps ==
  ASSUME DatagramSockets = {}, ServiceInv, ServiceInv', NEW o \in Objects, NEW res,
         NEW buffer \in 0 .. Published - 1 \cup {NULL},
         Post(o, res, FALSE, buffer),
         \/ heap' = heap
         \/ heap' = [heap EXCEPT ![o].m_accept_sock_len = SockaddrLen]
  PROVE  Lifecycle!Next
  <1>0. /\ EngineInv /\ RequestsInv
        /\ Len(cq) \in Nat /\ cq \in Seq(CQE)
        /\ armed \in [1 .. MaxItems -> Nat]
        /\ Objects \subseteq 1 .. MaxItems
    BY ItemTypes DEF ServiceInv, EngineInv, TypeOK
  <1> DEFINE c == [obj |-> o, res |-> res, more |-> FALSE, buffer |-> buffer]
  <1>1. /\ cq' = Append(cq, c) /\ c \in CQE
        /\ UNCHANGED <<m_work_items, m_free_ids, init_result, sq, calling, failed>>
        /\ failed = "NO" /\ armed[o] > 0 /\ armed' = Disarmed(o)
    <2>1. /\ cq' = Append(cq, c)
          /\ UNCHANGED <<m_work_items, m_free_ids, init_result, sq, calling, failed>>
      BY <1>0, PostTyped
    <2>2. res \in Results /\ failed = "NO" /\ armed[o] > 0 /\ armed' = Disarmed(o)
      BY IOUringAssumption DEF Post
    <2>3. QED
      BY <2>1, <2>2 DEF CQE
  <1>2. c.obj = o
    OBVIOUS
  <1> HIDE DEF c
  <1>3. /\ \A i \in 1 .. Len(cq) : cq'[i] = cq[i] /\ i \in 1 .. Len(cq')
        /\ cq'[Len(cq) + 1] = c /\ Len(cq) + 1 \in 1 .. Len(cq')
        /\ \A i \in 1 .. Len(cq') : i \in 1 .. Len(cq) \/ i = Len(cq) + 1
    <2>1. /\ Len(cq') = Len(cq) + 1
          /\ \A i \in 1 .. Len(cq) : cq'[i] = cq[i]
          /\ cq'[Len(cq) + 1] = c
      BY <1>0, <1>1, AppendProperties
    <2>2. QED
      BY <1>0, <2>1
  <1>4. HasCompletion(o)' /\ \A x : x # o => (HasCompletion(x)' <=> HasCompletion(x))
    BY <1>2, <1>3 DEF HasCompletion
  <1>5. /\ Objects' = Objects
        /\ \A x \in Objects : /\ heap'[x].m_state = heap[x].m_state
                              /\ heap'[x].m_work_type = heap[x].m_work_type
    BY <1>0, <1>1, WriteItemTyped, LengthKeepsType
  <1>6. OnItsWay(sq, armed, o) /\ Live(o) /\ ~HasCompletion(o)
    <2>1. OnItsWay(sq, armed, o)
      BY <1>1 DEF OnItsWay
    <2>2. o \in Alone
      BY <1>0, OnlyDatagramsRepeat
    <2>3. QED
      BY <1>0, <2>1, <2>2 DEF RequestsInv, RequestsAreLive, OneCompletion, HasCompletion
  <1>7. calling # o
    <2> SUFFICES ASSUME calling = o
                 PROVE  FALSE
      OBVIOUS
    <2>1. calling # NULL
      BY <1>0, PoolAssumption
    <2>2. cq # <<>> /\ calling = Completion.obj
      BY <1>0, <2>1 DEF ServiceInv, CallbackIsForTheHead, EngineInv, CompletionIsKept
    <2>3. Completion = cq[1] /\ 1 \in 1 .. Len(cq)
      <3>1. Len(cq) # 0
        BY <1>0, <2>2, EmptySeq
      <3>2. QED
        BY <1>0, <3>1 DEF Completion
    <2>4. QED
      BY <1>6, <2>2, <2>3 DEF HasCompletion
  <1>8. \A x \in 1 .. MaxItems \ {o} : Shows(x)' = Shows(x)
    <2> SUFFICES ASSUME NEW x \in 1 .. MaxItems \ {o}
                 PROVE  Shows(x)' = Shows(x)
      OBVIOUS
    <2>1. armed'[x] = armed[x]
      BY <1>0, <1>1 DEF Disarmed
    <2>2. OnItsWay(sq', armed', x) <=> OnItsWay(sq, armed, x)
      BY <1>1, <2>1 DEF OnItsWay
    <2>3. QED
      BY <1>1, <1>4, <1>5, <2>2, ShowsTheSame
  <1>9. Shows(o) = "pending"
    BY <1>6, <1>7 DEF Shows, Live
  <1>10. Shows(o)' = "completed"
    <2>1. /\ o \in Objects' /\ calling' # o
          /\ heap'[o].m_state = "IN_USE" /\ heap'[o].m_work_type # "UNKNOWN"
      BY <1>1, <1>5, <1>6, <1>7 DEF Live
    <2>2. QED
      BY <1>4, <2>1 DEF Shows
  <1>11. QED
    BY <1>0, <1>1, <1>8, <1>9, <1>10, OneItemSteps DEF LifecycleStep

(* What the kernel reports to streams.                                     *)
LEMMA KernelSteps ==
  ASSUME DatagramSockets = {}, ServiceInv, ServiceInv', Kernel
  PROVE  Lifecycle!Next
  <1>1. PICK o \in Objects : CompleteRequest(o) \/ ReceiveData(o) \/ ReceiveEOF(o) \/ ReceiveError(o)
    BY DEF Kernel
  <1>2. NULL \in 0 .. Published - 1 \cup {NULL}
    OBVIOUS
  <1>3. CASE CompleteRequest(o)
    BY <1>2, <1>3, PostSteps DEF CompleteRequest
  <1>4. CASE ReceiveData(o)
    <2>1. is_stream(o)
      BY DEF is_stream
    <2>2. Head(buf_ring) \in 0 .. Published - 1 \cup {NULL}
      BY <1>4, HeadTailProperties DEF ReceiveData, ServiceInv, EngineInv, TypeOK
    <2>3. Post(o, "OK", FALSE, Head(buf_ring)) /\ heap' = heap
      BY <1>4, <2>1 DEF ReceiveData
    <2>4. QED
      BY <2>2, <2>3, PostSteps
  <1>5. CASE ReceiveEOF(o)
    BY <1>2, <1>5, PostSteps DEF ReceiveEOF
  <1>6. CASE ReceiveError(o)
    BY <1>2, <1>6, PostSteps DEF ReceiveError
  <1>7. QED
    BY <1>1, <1>3, <1>4, <1>5, <1>6

(* The item whose completion is at the head of the queue is being called,  *)
(* or waits for that; no other item is called.                             *)
LEMMA HeadShows ==
  ASSUME ServiceInv, cq # <<>>
  PROVE  /\ Found \in 1 .. MaxItems /\ Found # NULL
         /\ calling \in {NULL, Found}
         /\ Shows(Found) = IF calling = Found THEN "calling" ELSE "completed"
  <1>1. Found \in 1 .. MaxItems /\ Found # NULL
    BY HeadOwner, ItemTypes, PoolAssumption DEF ServiceInv
  <1>2. calling \in {NULL, Found}
    BY HeadOwner DEF ServiceInv, CallbackIsForTheHead
  <1>3. HasCompletion(Found)
    <2>1. cq \in Seq(CQE) /\ Len(cq) \in Nat \ {0}
      BY EmptySeq DEF ServiceInv, EngineInv, TypeOK
    <2>2. Completion = cq[1] /\ 1 \in 1 .. Len(cq)
      BY <2>1 DEF Completion
    <2>3. QED
      BY <2>2, HeadOwner DEF HasCompletion
  <1>4. QED
    BY <1>1, <1>2, <1>3, HeadOwner DEF Shows, Live

(* When the queue is advanced, only its head has no completion any more.   *)
LEMMA AdvanceForgetsHead ==
  ASSUME DatagramSockets = {}, ServiceInv, cq # <<>>, cq' = Advanced, NEW o, o = Found
  PROVE  /\ ~HasCompletion(o)'
         /\ \A x : x # o => (HasCompletion(x)' <=> HasCompletion(x))
  <1>1. /\ Completion = cq[1]
        /\ \A i \in 1 .. Len(cq') : /\ i + 1 \in 1 .. Len(cq)
                                    /\ cq'[i] = cq[i + 1]
                                    /\ cq'[i].obj # o
        /\ \A i \in 1 .. Len(cq) : \/ i = 1
                                   \/ i - 1 \in 1 .. Len(cq') /\ cq'[i - 1] = cq[i]
    <2>1. Found \in Alone
      BY HeadOwner, ItemTypes, OnlyDatagramsRepeat DEF ServiceInv
    <2>2. QED
      BY <2>1, AdvanceKeeps
  <1>2. cq[1].obj = o
    BY <1>1, HeadOwner
  <1>3. QED
    BY <1>1, <1>2 DEF HasCompletion

(* The end of a request, or its next round.                                *)
LEMMA FinishSteps ==
  ASSUME DatagramSockets = {}, ServiceInv, ServiceInv', failed = "NO", cq # <<>>,
         NEW action, Finish(Found, action)
  PROVE  Lifecycle!Next
  <1>0. /\ EngineInv
        /\ sq \in Seq(1 .. MaxItems) /\ armed \in [1 .. MaxItems -> Nat]
        /\ Exclusive(Alone, sq, armed) /\ Alone \subseteq 1 .. MaxItems
        /\ cq' = Advanced /\ calling' = NULL
    BY ItemTypes, AloneItems DEF ServiceInv, RequestsInv, Finish
  <1>1. PICK o \in 1 .. MaxItems : o = Found
    BY HeadShows
  <1>2. /\ o \in Objects /\ Live(o) /\ ~OnItsWay(sq, armed, o) /\ o # NULL
        /\ calling \in {NULL, o}
        /\ IsSettled(o)
    BY <1>1, HeadOwner, HeadShows, OnlyDatagramsRepeat DEF IsSettled
  <1>3. /\ ~HasCompletion(o)'
        /\ \A x : x # o => (HasCompletion(x)' <=> HasCompletion(x))
    BY <1>0, <1>1, AdvanceForgetsHead
  <1>4. /\ Objects' = Objects
        /\ \A x \in Objects \ {o} : heap'[x] = heap[x]
        /\ heap'[o].m_work_type = heap[o].m_work_type
        /\ \/ heap'[o].m_state = "FREE" /\ UNCHANGED <<sq, armed, failed>>
           \/ submit(o) /\ heap'[o].m_state = heap[o].m_state
    BY <1>1, FinishEffect
  <1>5. /\ \A x \in 1 .. MaxItems :
             x # o => (OnItsWay(sq', armed', x) <=> OnItsWay(sq, armed, x))
        /\ submit(o) => \/ OnItsWay(sq', armed', o) /\ UNCHANGED failed
                        \/ ~OnItsWay(sq', armed', o) /\ NoEntry
    <2>1. CASE submit(o)
      BY <1>0, <1>2, <2>1, SubmitExclusive
    <2>2. CASE ~submit(o)
      BY <1>4, <2>2
    <2>3. QED
      BY <2>1, <2>2
  <1>6. \A x \in 1 .. MaxItems \ {o} : Shows(x)' = Shows(x)
    <2> SUFFICES ASSUME NEW x \in 1 .. MaxItems \ {o}
                 PROVE  Shows(x)' = Shows(x)
      OBVIOUS
    <2>1. calling' # x /\ calling # x
      BY <1>0, <1>2, PoolAssumption
    <2>2. QED
      BY <1>3, <1>4, <1>5, <2>1, ShowsTheSame
  <1>7. CASE heap'[o].m_state = "FREE" /\ UNCHANGED <<sq, armed, failed>>
    <2>1. Shows(o)' = "done"
      BY <1>2, <1>4, <1>7 DEF Shows
    <2>2. QED
      BY <1>2, <1>6, <1>7, <2>1, OneItemSteps DEF LifecycleStep
  <1>8. CASE submit(o) /\ heap'[o].m_state = heap[o].m_state
    <2>1. /\ o \in Objects' /\ calling' # o
          /\ heap'[o].m_state = "IN_USE" /\ heap'[o].m_work_type # "UNKNOWN"
      BY <1>0, <1>2, <1>4, <1>8 DEF Live
    <2>2. Issues(o)
      BY <1>3, <1>5, <1>8, <2>1 DEF Shows, Issues, NoEntry
    <2>3. QED
      BY <1>2, <1>6, <2>2, OneItemSteps DEF LifecycleStep
  <1>9. QED
    BY <1>4, <1>7, <1>8

(* Without datagram sockets, and whatever fails: what the engine does to   *)
(* an item, from its allocation over its submissions, completions and      *)
(* callbacks to its end, is what RequestLifecycle allows.                  *)
THEOREM StreamsImplementRequestLifecycle ==
  ASSUME DatagramSockets = {}
  PROVE  Spec => ImplementsRequestLifecycle
  <1>1. Init => Lifecycle!Init
    <2> SUFFICES ASSUME Init
                 PROVE  Lifecycle!Init
      OBVIOUS
    <2>1. Len(heap) = 0 /\ failed = "NO"
      BY EmptySeq DEF Init, PoolInit
    <2>2. \A x \in 1 .. MaxItems : Status(x) = "absent"
      <3>1. \A x \in 1 .. MaxItems : x \notin Objects
        BY <2>1 DEF Objects
      <3>2. ServiceInv
        BY ServiceInitInv
      <3>3. QED
        BY <3>1, <3>2, StatusIsShown DEF Shows
    <2>3. QED
      BY <2>1, <2>2 DEF Lifecycle!Init
  <1>2. ServiceInv /\ [Next]_vars => [Lifecycle!Next]_(Lifecycle!vars)
    <2> SUFFICES ASSUME ServiceInv, [Next]_vars
                 PROVE  [Lifecycle!Next]_(Lifecycle!vars)
      OBVIOUS
    <2>0. ServiceInv'
      BY ServiceStep DEF DatagramsGoOn
    <2>1. ASSUME UNCHANGED <<heap, sq, armed, cq, calling>>,
                 UNCHANGED failed \/ (failed = "NO" /\ failed' # "NO")
          PROVE  [Lifecycle!Next]_(Lifecycle!vars)
      <3>1. Objects' = Objects /\ \A x : HasCompletion(x)' <=> HasCompletion(x)
        BY <2>1 DEF Objects, HasCompletion
      <3>2. \A x \in 1 .. MaxItems : Shows(x)' = Shows(x)
        BY <2>1, <3>1, ShowsTheSame
      <3>3. QED
        BY <2>0, <2>1, <3>2, NoItemSteps
    <2>2. CASE \E result \in InitResults : init(result)
      BY <2>1, <2>2 DEF init, pool_vars
    <2>3. CASE Application
      BY <2>0, <2>3, ApplicationSteps
    <2>4. CASE Kernel
      BY <2>0, <2>4, KernelSteps
    <2>5. CASE PollDrop \/ PollCall
      <3>1. /\ cq # <<>> /\ calling = NULL /\ failed = "NO"
            /\ UNCHANGED <<heap, sq, armed, failed>>
        BY <2>5 DEF PollDrop, PollCall, Dispatches, CanPoll, Running, pool_vars
      <3>2. PICK o \in 1 .. MaxItems : o = Found
        BY <3>1, HeadShows
      <3>3. /\ Shows(o) = "completed" /\ o \in Objects /\ Live(o) /\ o # NULL
            /\ ~OnItsWay(sq, armed, o)
            /\ Objects' = Objects
        BY <3>1, <3>2, HeadShows, HeadOwner, OnlyDatagramsRepeat DEF Objects
      <3>4. CASE PollDrop
        <4>1. cq' = Advanced /\ calling' = NULL
          BY <3>1, <3>4 DEF PollDrop
        <4>2. /\ ~HasCompletion(o)'
              /\ \A x : x # o => (HasCompletion(x)' <=> HasCompletion(x))
          BY <3>1, <3>2, <4>1, AdvanceForgetsHead
        <4>3. \A x \in 1 .. MaxItems \ {o} : Shows(x)' = Shows(x)
          BY <3>1, <3>3, <4>1, <4>2, ShowsTheSame
        <4>4. Shows(o)' = "lost"
          BY <3>1, <3>3, <4>1, <4>2 DEF Shows, Live
        <4>5. QED
          BY <2>0, <3>1, <3>3, <4>3, <4>4, OneItemSteps DEF LifecycleStep
      <3>5. CASE PollCall
        <4>1. UNCHANGED cq /\ calling' = o
          BY <3>2, <3>5 DEF PollCall
        <4>2. \A x : HasCompletion(x)' <=> HasCompletion(x)
          BY <4>1 DEF HasCompletion
        <4>3. \A x \in 1 .. MaxItems \ {o} : Shows(x)' = Shows(x)
          <5>1. \A x \in 1 .. MaxItems \ {o} : calling # x /\ calling' # x
            BY <3>1, <4>1, PoolAssumption
          <5>2. QED
            BY <3>1, <3>3, <4>2, <5>1, ShowsTheSame
        <4>4. Shows(o)' = "calling"
          BY <3>1, <3>3, <4>1 DEF Shows, Live
        <4>5. QED
          BY <2>0, <3>1, <3>3, <4>3, <4>4, OneItemSteps DEF LifecycleStep
      <3>6. QED
        BY <2>5, <3>4, <3>5
    <2>6. CASE PollFail
      <3>1. /\ UNCHANGED <<heap, sq, armed, cq, calling>>
            /\ cq # <<>> /\ failed = "NO" /\ failed' = heap[Found].m_work_type
        BY <2>6 DEF PollFail, Fail, Dispatches, CanPoll, Running, pool_vars
      <3>2. failed' # "NO"
        <4>1. heap[Found] \in WorkItem
          BY <3>1, HeadOwner, ElementOfSeq DEF ServiceInv, EngineInv, TypeOK, PoolTypeOK, Objects
        <4>2. QED
          BY <3>1, <4>1 DEF WorkItem, Types, SendTypes
      <3>3. QED
        BY <2>1, <3>1, <3>2
    <2>7. CASE PollSilently
      BY <2>0, <2>7, FinishSteps DEF PollSilently, Dispatches, CanPoll, Running
    <2>8. CASE CallbackReturn
      <3>1. /\ cq # <<>> /\ calling = Found /\ failed = "NO"
            /\ \E action : Finish(calling, action)
        BY <2>8, HeadOwner DEF CallbackReturn, Running, EngineInv, CompletionIsKept,
                               ServiceInv, CallbackIsForTheHead
      <3>2. QED
        BY <2>0, <3>1, FinishSteps
    <2>9. CASE UNCHANGED vars
      BY <2>1, <2>9 DEF vars, ring_vars, pool_vars
    <2>10. QED
      BY <2>2, <2>3, <2>4, <2>5, <2>6, <2>7, <2>8, <2>9 DEF Next, poll_completion_queues
  <1>3. ServiceInv /\ [Next]_vars => ServiceInv'
    BY ServiceStep DEF DatagramsGoOn
  <1>4. QED
    BY <1>1, <1>2, <1>3, ServiceInitInv, PTL DEF Spec, ImplementsRequestLifecycle, Lifecycle!Spec

=============================================================================
