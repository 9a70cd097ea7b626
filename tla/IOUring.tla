------------------------------- MODULE IOUring -------------------------------
(***************************************************************************)
(* The completion engine (IOUring.cpp) on top of its pool of work items.   *)
(*                                                                         *)
(* Three parties take steps.  The application submits requests, inside a   *)
(* callback or outside of one.  The kernel takes entries from the          *)
(* submission queue and posts completions in any order.  The thread that   *)
(* polls takes one completion per call, runs the callback of the item that *)
(* the completion's user data names, and frees or resubmits that item.     *)
(* All calls into the library are made by one thread, as in every program  *)
(* of the repository; the kernel runs beside it.                           *)
(*                                                                         *)
(* A callback is a period, not an instant: calling holds the item between  *)
(* its start (PollCall) and its return (CallbackReturn), and application   *)
(* and kernel take steps in between.  Callbacks do not poll themselves.    *)
(*                                                                         *)
(* A failed assertion or an abort() ends the process: failed names it, and *)
(* the rest of the state, which nobody can observe any more, is left as it *)
(* was when the call began.                                                *)
(***************************************************************************)
EXTENDS WorkPool, FiniteSets

CONSTANTS
  ServerSockets,    (* sockets of kind SERVER_STREAM_SOCKET               *)
  DatagramSockets,  (* sockets that are not is_stream(); the rest of      *)
                    (* Sockets are connected or connectable streams       *)
  QueueSize,        (* m_queue_size: entries of the submission queue      *)
  BUFFERS,          (* entries of the buffer ring; half are published     *)
  SubmitFaults,     (* may io_uring_submit take fewer entries than given? *)
  InitResults,      (* what setup_buffer_pool may return                  *)
  Outcomes,         (* the results the kernel is allowed to report        *)
  ConnectTargets,   (* address families passed to submit_connect          *)
  DatagramReturns,  (* what receive handlers of datagram sockets return   *)
  MaxRing,          (* bound: entries in the buffer ring beyond which no  *)
                    (* peer closes its connection (see ReceiveEOF)        *)
  MaxMore           (* bound: completions queued, and receives armed per  *)
                    (* item, beyond which a multishot receive must end    *)

(* cqe->res, as far as the code tells results apart.  OK: zero or more;    *)
(* EOF: zero from recv; BADMSG: a datagram recvmsg_validate rejects, or    *)
(* truncated; EINVAL: -EFAULT or -EINVAL; ECONNRESET: -104, which is also  *)
(* EAI_INTR; ERR: any other error.                                         *)
Results == {"OK", "EOF", "BADMSG", "ENOBUFS", "EINVAL", "ECONNRESET", "ERR"}
Actions == {"NONE", "RE_SUBMIT"}   (* ReceivePostAction *)

ASSUME IOUringAssumption ==
  /\ ServerSockets \subseteq Sockets
  /\ DatagramSockets \subseteq Sockets \ ServerSockets
  /\ QueueSize \in Nat \ {0}
  /\ BUFFERS \in Nat \ {0, 1}
  /\ SubmitFaults \in BOOLEAN
  /\ InitResults \subseteq {"OK", "FAILED"}
  /\ Outcomes \subseteq Results
  /\ ConnectTargets \subseteq {"IPV4", "IPV6"}
  /\ DatagramReturns \subseteq Actions
  /\ MaxRing \in 0 .. BUFFERS
  /\ MaxMore \in Nat

VARIABLES
  init_result,  (* "NONE" until init() ran, then what it returned         *)
  buf_ring,     (* the published buffers, oldest first                    *)
  sq,           (* the submission queue: items whose request is queued    *)
  armed,        (* how many requests of each item the kernel works on     *)
  cq,           (* the completion queue                                   *)
  calling,      (* the item whose callback runs, or NULL; its completion  *)
                (* is the head of cq, which is advanced afterwards        *)
  failed        (* "NO", or the assertion or abort that ended the process *)

ring_vars == <<init_result, buf_ring, sq, armed, cq, calling, failed>>
vars == <<pool_vars, ring_vars>>

Published == BUFFERS \div 2   (* how many buffers setup_buffer_pool publishes *)

(* A completion.  obj is the item the request was made for: the code does  *)
(* not see it, only its id (user_data).  more: IORING_CQE_F_MORE; buffer:  *)
(* the buffer the kernel took, NULL without IORING_CQE_F_BUFFER.           *)
CQE == [obj : Objects, res : Results, more : BOOLEAN,
        buffer : 0 .. Published - 1 \cup {NULL}]

is_stream(o) == heap[o].m_socket \notin DatagramSockets
Multishot(o) == heap[o].m_work_type = "RECV" /\ ~is_stream(o)

m_initialized == init_result # "NONE"
Running == m_initialized /\ failed = "NO"

-----------------------------------------------------------------------------
(* Set-up.                                                                 *)

Init ==
  /\ PoolInit
  /\ init_result = "NONE"
  /\ buf_ring = <<>>
  /\ sq = <<>>
  /\ armed = [o \in 1 .. MaxItems |-> 0]
  /\ cq = <<>>
  /\ calling = NULL
  /\ failed = "NO"

setup_buffer_pool(result) ==
  buf_ring' = IF result = "OK" THEN [i \in 1 .. Published |-> i - 1] ELSE <<>>

(* m_initialized is set whatever setup_buffer_pool returned.               *)
init(result) ==
  /\ ~m_initialized
  /\ setup_buffer_pool(result)
  /\ init_result' = result
  /\ UNCHANGED <<pool_vars, sq, armed, cq, calling, failed>>

-----------------------------------------------------------------------------
(* Submission.                                                             *)

(* What is left of the queue once the kernel took k entries.               *)
Left(q, k) == SubSeq(q, k + 1, Len(q))

(* io_uring_submit on a queue q: the kernel takes all entries, or when the *)
(* call fails or stops early the first k of them.  The error is logged and *)
(* the entries stay queued until the next io_uring_submit.                 *)
submit_all_requests(q, a) ==
  {[sq    |-> Left(q, k),
    armed |-> [o \in DOMAIN a |-> a[o] + Cardinality({i \in 1 .. k : q[i] = o})]] :
     k \in IF SubmitFaults THEN 0 .. Len(q) ELSE {Len(q)}}

(* A full queue is flushed once before an entry is asked for again.        *)
get_sqe ==
  IF Len(sq) < QueueSize
    THEN {[sq |-> sq, armed |-> armed]}
    ELSE submit_all_requests(sq, armed)

(* Without a free entry after the flush: abort().                          *)
NoEntry == failed' = "get_sqe: submission queue full"

(* Queue a request for item o and flush.                                   *)
submit(o) ==
  \E room \in get_sqe :
    \/ /\ Len(room.sq) < QueueSize
       /\ \E after \in submit_all_requests(Append(room.sq, o), room.armed) :
            sq' = after.sq /\ armed' = after.armed
       /\ UNCHANGED failed
    \/ /\ Len(room.sq) = QueueSize
       /\ sq' = room.sq /\ armed' = room.armed
       /\ NoEntry

Faulty_ForSubmission(o) == heap
(* What submit writes into the item: an accept starts with no address.     *)
ForSubmission(o) == [heap EXCEPT ![o].m_accept_sock_len = 0]

-----------------------------------------------------------------------------
(* The application.                                                        *)

AllocAndSubmit(s, t) ==
  /\ Running
  /\ internal_alloc_work_item(s, t)
  /\ submit(NewObject)
  /\ UNCHANGED <<init_result, buf_ring, cq, calling>>

submit_accept(s) == s \in ServerSockets /\ AllocAndSubmit(s, "ACCEPT")

submit_recv(s) == s \notin ServerSockets /\ AllocAndSubmit(s, "RECV")

submit_close(s) == AllocAndSubmit(s, "CLOSE")

Fail(why) ==
  /\ failed' = why
  /\ UNCHANGED <<pool_vars, init_result, buf_ring, sq, armed, cq, calling>>

(* submit asserts that the address has the size of a sockaddr_in.          *)
submit_connect(s, family) ==
  /\ s \notin ServerSockets \cup DatagramSockets
  /\ \/ family = "IPV4" /\ AllocAndSubmit(s, "CONNECT")
     \/ family = "IPV6" /\ Running /\ Fail("submit: m_connect_sock_len")

(* A send takes two calls: an item is acquired, filled in, then submitted. *)
ackuire_send_workitem(s) ==
  /\ Running
  /\ s \notin ServerSockets
  /\ internal_alloc_work_item(s, "UNKNOWN")
  /\ UNCHANGED ring_vars

SendType(o) == IF is_stream(o) THEN "SEND_STREAM_DATA" ELSE "SEND_WORKPACKET"

(* submit_stream_data and submit_packet, once per acquired item.           *)
submit_send(o) ==
  /\ Running
  /\ heap[o].m_work_type = "UNKNOWN"
  /\ heap' = [heap EXCEPT ![o].m_work_type = SendType(o)]
  /\ submit(o)
  /\ UNCHANGED <<m_work_items, m_free_ids, init_result, buf_ring, cq, calling>>

-----------------------------------------------------------------------------
(* The kernel.                                                             *)

Disarmed(o) == [armed EXCEPT ![o] = @ - 1]

Post(o, res, more, buffer) ==
  /\ failed = "NO"
  /\ armed[o] > 0
  /\ res \in Outcomes
  /\ more => Len(cq) < MaxMore /\ armed[o] < MaxMore
  /\ cq' = Append(cq, [obj |-> o, res |-> res, more |-> more, buffer |-> buffer])
  /\ armed' = IF more THEN armed ELSE Disarmed(o)
  /\ UNCHANGED <<m_work_items, m_free_ids, init_result, sq, calling, failed>>

(* Accept, connect, send and close end with one completion, which may be   *)
(* any error, ENOBUFS too.  An accepted connection stores the length of    *)
(* its address in the item.                                                *)
CompleteRequest(o) ==
  /\ heap[o].m_work_type # "RECV"
  /\ \E res \in {"OK", "EINVAL", "ERR", "ENOBUFS"} :
       /\ Post(o, res, FALSE, NULL)
       /\ heap' = IF heap[o].m_work_type = "ACCEPT" /\ res = "OK"
                    THEN [heap EXCEPT ![o].m_accept_sock_len = SockaddrLen]
                    ELSE heap
  /\ UNCHANGED buf_ring

(* Data arrives: the kernel takes the oldest published buffer.  A datagram *)
(* receive is multishot and usually stays armed.                           *)
ReceiveData(o) ==
  /\ heap[o].m_work_type = "RECV"
  /\ buf_ring # <<>>
  /\ \/ is_stream(o) /\ Post(o, "OK", FALSE, Head(buf_ring))
     \/ ~is_stream(o) /\ \E res \in {"OK", "BADMSG"}, more \in BOOLEAN :
          Post(o, res, more, Head(buf_ring))
  /\ buf_ring' = Tail(buf_ring)
  /\ UNCHANGED heap

(* The peer closed a stream: a result of zero, and no buffer is taken.     *)
(* Bound: no further EOF once the ring would hold MaxRing entries, because *)
(* each one adds an entry to it (see BufferIndex).                         *)
ReceiveEOF(o) ==
  /\ heap[o].m_work_type = "RECV" /\ is_stream(o)
  /\ buf_ring # <<>>
  /\ Len(buf_ring) + Cardinality({i \in DOMAIN cq : cq[i].res = "EOF"}) < MaxRing
  /\ Post(o, "EOF", FALSE, NULL)
  /\ UNCHANGED <<heap, buf_ring>>

(* A receive fails; without a published buffer, with ENOBUFS.              *)
ReceiveError(o) ==
  /\ heap[o].m_work_type = "RECV"
  /\ \E res \in {"EINVAL", "ECONNRESET", "ERR"} \cup (IF buf_ring = <<>> THEN {"ENOBUFS"} ELSE {}) :
       Post(o, res, FALSE, NULL)
  /\ UNCHANGED <<heap, buf_ring>>

-----------------------------------------------------------------------------
(* poll_completion_queues: one completion per call.                        *)

user_data(c) == heap[c.obj].m_id

CanPoll == Running /\ calling = NULL /\ cq # <<>>
Completion == Head(cq)
Found == get_work_item(user_data(Completion))

Faulty_Advanced == cq
(* io_uring_cq_advance by one. *)
Advanced == Tail(cq)

Faulty_NoBuffers(c) == c.res \in {"ENOBUFS", "EINVAL"}
NoBuffers(c) == c.res = "ENOBUFS"

(* call_callback_and_free_work_item_id returns early, and the completion   *)
(* is dropped: the id names no item, or the result is ENOBUFS, which is    *)
(* tested before the type of the item is looked at.  In the second case    *)
(* the item, of any type, stays in the pool with no request outstanding.   *)
PollDrop ==
  /\ CanPoll
  /\ Found = NULL \/ NoBuffers(Completion)
  /\ cq' = Advanced
  /\ UNCHANGED <<pool_vars, init_result, buf_ring, sq, armed, calling, failed>>

Dispatches == CanPoll /\ Found # NULL /\ ~NoBuffers(Completion)

Is(o, types) == heap[o].m_work_type \in types

(* call_accept_callback: only EFAULT and EINVAL return before the address  *)
(* is constructed, whose length the kernel stores on success alone.        *)
AcceptAsserts(o, c) ==
  /\ Is(o, {"ACCEPT"})
  /\ c.res # "EINVAL"
  /\ heap[o].m_accept_sock_len # SockaddrLen

(* call_recv_callback aborts on every error but EAI_INTR.                  *)
ReceiveAborts(o, c) == Is(o, {"RECV"}) /\ c.res \in {"EINVAL", "ERR"}

(* call_recv_handler_datagram aborts on a completion without a buffer.     *)
DatagramAborts(o, c) == Multishot(o) /\ c.res # "ECONNRESET" /\ c.buffer = NULL

Fatal(o, c) ==
  \/ Is(o, {"UNKNOWN"})
  \/ AcceptAsserts(o, c)
  \/ ReceiveAborts(o, c)
  \/ DatagramAborts(o, c)

PollFail ==
  /\ Dispatches
  /\ Fatal(Found, Completion)
  /\ Fail(heap[Found].m_work_type)

(* The completions that are handled without telling the application:       *)
(* call_send_, call_connect_ and call_accept_callback return on EFAULT and *)
(* EINVAL; a receive is repeated on EAI_INTR (-104, as ECONNRESET); so is  *)
(* one whose datagram is malformed or truncated.                           *)
Faulty_Rejected(o, c) == Is(o, {"ACCEPT", "CONNECT"} \cup SendTypes) /\ c.res \in {"EINVAL", "ERR"}
Rejected(o, c) == Is(o, {"ACCEPT", "CONNECT"} \cup SendTypes) /\ c.res = "EINVAL"
Interrupted(o, c) == Is(o, {"RECV"}) /\ c.res = "ECONNRESET"
BadDatagram(o, c) == Multishot(o) /\ c.res = "BADMSG"

Silent(o, c) == Rejected(o, c) \/ Interrupted(o, c) \/ BadDatagram(o, c)

Faulty_BufferIndex(c) == IF c.buffer = NULL THEN 0 ELSE 2 * c.buffer
Faulty2_BufferIndex(c) == 0
(* cqe->flags >> 16, which is zero when the completion carries no buffer.  *)
BufferIndex(c) == IF c.buffer = NULL THEN 0 ELSE c.buffer

Faulty_Recycled(c) == IF c.res = "BADMSG" THEN buf_ring ELSE Append(buf_ring, BufferIndex(c))
Recycled(c) == Append(buf_ring, BufferIndex(c))

Faulty_Rearms(o, action) == Is(o, {"RECV"}) /\ action = "RE_SUBMIT"
Faulty2_Rearms(o, action) == Is(o, {"ACCEPT"})
(* An accept is always submitted again, a receive if its handler says so.  *)
Rearms(o, action) ==
  \/ Is(o, {"ACCEPT"})
  \/ Is(o, {"RECV"}) /\ action = "RE_SUBMIT"

(* What follows the callback, if there was one: the buffer goes back, the  *)
(* item is submitted again or freed by the id of the completion, and the   *)
(* queue is advanced.                                                      *)
Finish(o, action) ==
  /\ buf_ring' = IF Is(o, {"RECV"}) /\ ~Interrupted(o, Completion)
                   THEN Recycled(Completion) ELSE buf_ring
  /\ IF Rearms(o, action)
       THEN /\ heap' = ForSubmission(o)
            /\ submit(o)
            /\ UNCHANGED <<m_work_items, m_free_ids>>
       ELSE /\ free_work_item(user_data(Completion))
            /\ UNCHANGED <<sq, armed, failed>>
  /\ cq' = Advanced
  /\ calling' = NULL
  /\ UNCHANGED init_result

PollSilently ==
  /\ Dispatches
  /\ ~Fatal(Found, Completion)
  /\ Silent(Found, Completion)
  /\ Finish(Found, "RE_SUBMIT")

PollCall ==
  /\ Dispatches
  /\ ~Fatal(Found, Completion)
  /\ ~Silent(Found, Completion)
  /\ calling' = Found
  /\ UNCHANGED <<pool_vars, init_result, buf_ring, sq, armed, cq, failed>>

HandlerReturns(o) == IF Multishot(o) THEN DatagramReturns ELSE Actions

CallbackReturn ==
  /\ Running
  /\ calling # NULL
  /\ \E action \in HandlerReturns(calling) : Finish(calling, action)

-----------------------------------------------------------------------------
Application ==
  \/ \E s \in Sockets : \/ submit_accept(s)
                        \/ submit_recv(s)
                        \/ submit_close(s)
                        \/ ackuire_send_workitem(s)
  \/ \E s \in Sockets, family \in ConnectTargets : submit_connect(s, family)
  \/ \E o \in Objects : submit_send(o)

Kernel == \E o \in Objects : \/ CompleteRequest(o)
                             \/ ReceiveData(o)
                             \/ ReceiveEOF(o)
                             \/ ReceiveError(o)

poll_completion_queues == PollDrop \/ PollFail \/ PollSilently \/ PollCall

Next ==
  \/ \E result \in InitResults : init(result)
  \/ Application
  \/ Kernel
  \/ poll_completion_queues
  \/ CallbackReturn

Spec == Init /\ [][Next]_vars

-----------------------------------------------------------------------------
(* Properties.                                                             *)

(* What can end the process: get_sqe, submit, or the dispatch of an item.  *)
Failures ==
  {"get_sqe: submission queue full", "submit: m_connect_sock_len"} \cup Types

(* Type invariant; the submission queue never holds more than its entries, *)
(* and every buffer index is one that setup_buffer_pool made.              *)
TypeOK ==
  /\ PoolTypeOK
  /\ Len(heap) <= MaxItems
  /\ init_result \in {"NONE", "OK", "FAILED"}
  /\ buf_ring \in Seq(0 .. Published - 1)
  /\ sq \in Seq(Objects) /\ Len(sq) <= QueueSize
  /\ armed \in [1 .. MaxItems -> Nat]
  /\ cq \in Seq(CQE)
  /\ calling \in Objects \cup {NULL}
  /\ failed \in Failures \cup {"NO"}

Live(o) == heap[o].m_state = "IN_USE" /\ heap[o].m_work_type # "UNKNOWN"

Queued(o) == \E i \in DOMAIN sq : sq[i] = o
Completed(o) == \E i \in DOMAIN cq : cq[i].obj = o
Outstanding(o) == Queued(o) \/ armed[o] > 0 \/ Completed(o)

(* Every request on its way, in the submission queue, in the kernel or     *)
(* back from it, belongs to an item that is still in the pool and was      *)
(* submitted: the kernel never reads or writes the fields of a freed item, *)
(* and the user data of no completion can name another item.  It fails if  *)
(* an item is freed while one of its requests is still on its way.         *)
OutstandingItemIsLive == \A o \in Objects : Outstanding(o) => Live(o)

(* An item has at most one request on its way: its msghdr, its address     *)
(* buffer and its callback are never shared by two requests.               *)
OneRequestPerItem ==
  /\ \A i, j \in DOMAIN sq : sq[i] = sq[j] => i = j
  /\ \A i, j \in DOMAIN cq : cq[i].obj = cq[j].obj => i = j
  /\ \A o \in Objects : /\ armed[o] <= 1
                        /\ armed[o] = 1 => ~Queued(o) /\ ~Completed(o)
                        /\ ~(Queued(o) /\ Completed(o))

(* A submitted item that is still in the pool with no request on its way:  *)
(* it waits for nothing, and no callback will be called for it.            *)
Stalled(o) == o \in Objects /\ Live(o) /\ ~Outstanding(o)

(* While the process lives an item stalls in one way only, whatever fails: *)
(* ENOBUFS is the result of its own request, and is dropped before anyone  *)
(* looks at its type (IOUring.cpp:685), be it a receive, an accept or a    *)
(* send.  And it is for ever: nothing frees the item or submits it again.  *)
StallsOnlyByENOBUFS ==
  [][\A o \in 1 .. MaxItems : failed' = "NO" =>
       /\ Stalled(o)' /\ ~Stalled(o) =>
            cq # <<>> /\ Completion.obj = o /\ Completion.res = "ENOBUFS"
       /\ Stalled(o) => Stalled(o)']_vars

(* A callback is told the result of its own item's request, although       *)
(* between its start and return ids are handed out and completions arrive: *)
(* the item looked up at the start and the one whose id is freed after the *)
(* callback are the item the head of the completion queue was made for.    *)
CallbackGetsItsOwnResult ==
  calling # NULL => /\ cq # <<>>
                    /\ calling = Completion.obj
                    /\ Found = calling

(* The address length that the assertion in IPAddress's constructor tests  *)
(* is that of the accept being reported, never that of an earlier one.     *)
AcceptLengthIsFresh ==
  \A o \in Objects : Live(o) /\ heap[o].m_accept_sock_len # 0 =>
    \E i \in DOMAIN cq : cq[i].obj = o /\ cq[i].res = "OK"

InFlight(b) == \E i \in DOMAIN cq : cq[i].buffer = b
InRing(b) == \E i \in DOMAIN buf_ring : buf_ring[i] = b

(* No buffer that setup_buffer_pool published is ever lost: it is in the   *)
(* ring, or with a completion that will put it back.                       *)
NoBufferIsLost ==
  init_result = "OK" => \A b \in 0 .. Published - 1 : InRing(b) \/ InFlight(b)

(* A buffer has one owner: it is offered to the kernel once, or it holds   *)
(* the data of one completion.  Otherwise the kernel writes into data that *)
(* a callback is reading.                                                  *)
BufferHasOneOwner ==
  /\ \A i, j \in DOMAIN buf_ring : buf_ring[i] = buf_ring[j] => i = j
  /\ \A i, j \in DOMAIN cq : cq[i].buffer = cq[j].buffer /\ cq[i].buffer # NULL => i = j
  /\ \A b \in 0 .. Published - 1 : ~(InRing(b) /\ InFlight(b))

(* After an item was freed, its id gives nullptr: a completion that comes  *)
(* back late finds nothing (test_workpool.cpp:66).                         *)
LateCompletionFindsNothing ==
  \A i \in DOMAIN cq : heap[cq[i].obj].m_state = "FREE" =>
    get_work_item(user_data(cq[i])) = NULL

(* "Send the msg to 'io' and call 'cb' once done" (ISocket.hpp:58): a send *)
(* is freed by the return of its own callback.  The only other way is its  *)
(* own completion with EFAULT or EINVAL, which call_send_callback logs and *)
(* drops (IOUring.cpp:457): no other result, and no other item's           *)
(* completion, frees a send that its application was not told about.  (One *)
(* that ends with ENOBUFS is not freed at all: StallsOnlyByENOBUFS.)       *)
SendsAreCalledBack ==
  [][\A o \in Objects :
       heap[o].m_work_type \in SendTypes /\ heap[o].m_state = "IN_USE"
       /\ heap'[o].m_state = "FREE" =>
         \/ calling = o
         \/ Completion.obj = o /\ Completion.res = "EINVAL"]_vars

(* What an item shows of the life of its request.                          *)
Status(o) ==
  CASE o \notin Objects -> "absent"
    [] o \in Objects /\ heap[o].m_state = "FREE" -> "done"
    [] o \in Objects /\ heap[o].m_state = "IN_USE" ->
         CASE heap[o].m_work_type = "UNKNOWN" -> "held"
           [] heap[o].m_work_type # "UNKNOWN" ->
                IF calling = o THEN "calling"
                ELSE IF Completed(o) THEN "completed"
                ELSE IF Outstanding(o) THEN "pending"
                ELSE "lost"

Lifecycle == INSTANCE RequestLifecycle
  WITH Requests <- 1 .. MaxItems,
       status <- [o \in 1 .. MaxItems |-> Status(o)],
       alive <- failed = "NO"

(* Every item's request lives as RequestLifecycle says.                    *)
ImplementsRequestLifecycle == Lifecycle!Spec

-----------------------------------------------------------------------------
(* Liveness.  The application keeps polling and its callbacks return; the  *)
(* kernel ends every send, connect and close.  Nothing is assumed of       *)
(* receives and accepts: a peer may stay silent.                           *)

Ends(o) ==
  /\ o \in Objects
  /\ heap[o].m_work_type \in {"CONNECT", "CLOSE"} \cup SendTypes
  /\ CompleteRequest(o)

Fairness ==
  /\ WF_vars(poll_completion_queues)
  /\ WF_vars(CallbackReturn)
  /\ \A o \in 1 .. MaxItems : WF_vars(Ends(o))

FairSpec == Spec /\ Fairness

IsLive(o, types) == o \in Objects /\ Live(o) /\ heap[o].m_work_type \in types

(* Every send, connect and close that the kernel has taken is answered and *)
(* its item freed, whatever other completions come before it, unless the   *)
(* process ends or the answer is ENOBUFS: then it is stalled.              *)
RequestsEnd ==
  \A o \in 1 .. MaxItems :
    IsLive(o, {"CONNECT", "CLOSE"} \cup SendTypes) /\ (armed[o] > 0 \/ Completed(o)) ~>
      (failed # "NO" \/ ~IsLive(o, Types) \/ Stalled(o))

(* A server keeps accepting: after every connection or failure the accept  *)
(* is submitted again (IOUring.cpp:706), so that it is armed in the kernel *)
(* or queued behind a submission that failed, unless the process ends.     *)
(* The exception is ENOBUFS, after which it is stalled.                    *)
ServerKeepsAccepting ==
  \A o \in 1 .. MaxItems :
    IsLive(o, {"ACCEPT"}) /\ Completed(o) ~>
      (failed # "NO" \/ armed[o] > 0 \/ (SubmitFaults /\ Queued(o)) \/ Stalled(o))

=============================================================================
