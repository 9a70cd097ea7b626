---------------------------- MODULE IOUringProofs ----------------------------
(***************************************************************************)
(* Proofs about IOUring.                                                   *)
(*                                                                         *)
(* EngineInv, the types, the consistency of the pool, and that a callback  *)
(* runs only while its completion is queued, holds for all constants: the  *)
(* engine uses the pool as PoolSpec allows.                                *)
(*                                                                         *)
(* ServiceInv needs that the handlers of datagrams always go on receiving  *)
(* (DatagramsGoOn).  A request on its way is then for an item in use.  Its *)
(* parts depend on each other: an item that is freed has nothing on its    *)
(* way because the completion being handled was its only request, and it   *)
(* was, because it was not a multishot receive, and requests of the other  *)
(* kinds (Alone) are issued only for items that have none, or whose        *)
(* completion is the one being handled.  A multishot receive, which may    *)
(* have any number of requests and completions, is never freed.            *)
(***************************************************************************)
EXTENDS IOUring, WorkPoolProofs, FiniteSetTheorems

(* During a callback its completion is still in the queue.                 *)
CompletionIsKept == calling # NULL => cq # <<>>

EngineInv == TypeOK /\ PoolInv /\ CompletionIsKept

(* after is what is left of queue q and armed requests a, once the kernel  *)
(* took the first k entries.                                               *)
Took(k, q, a, after) ==
  /\ Len(after.sq) = Len(q) - k
  /\ \A i \in 1 .. Len(q) - k : after.sq[i] = q[i + k]
  /\ \A o \in 1 .. MaxItems :
       after.armed[o] = a[o] + Cardinality({i \in 1 .. k : q[i] = o})

(* io_uring_submit takes a prefix of the queue, and keeps the types.       *)
LEMMA SubmitAllEffect ==
  ASSUME NEW T, NEW q \in Seq(T), NEW a \in [1 .. MaxItems -> Nat],
         NEW after \in submit_all_requests(q, a)
  PROVE  /\ after.sq \in Seq(T)
         /\ after.armed \in [1 .. MaxItems -> Nat]
         /\ \E k \in 0 .. Len(q) : Took(k, q, a, after)
  <1> DEFINE Taken(k, o) == {i \in 1 .. k : q[i] = o}
             Armed(k) == [o \in DOMAIN a |-> a[o] + Cardinality(Taken(k, o))]
  <1>1. Len(q) \in Nat
    BY LenProperties
  <1>2. PICK k \in 0 .. Len(q) : after = [sq |-> Left(q, k), armed |-> Armed(k)]
    <2>1. after \in {[sq |-> Left(q, k), armed |-> Armed(k)] :
                       k \in IF SubmitFaults THEN 0 .. Len(q) ELSE {Len(q)}}
      BY Zenon DEF submit_all_requests
    <2>2. Len(q) \in 0 .. Len(q)
      BY <1>1
    <2> HIDE DEF Armed
    <2>3. PICK k \in IF SubmitFaults THEN 0 .. Len(q) ELSE {Len(q)} :
            after = [sq |-> Left(q, k), armed |-> Armed(k)]
      BY <2>1, Zenon
    <2>4. k \in 0 .. Len(q)
      BY <2>2, <2>3
    <2>5. QED
      BY <2>3, <2>4
  <1>3. /\ Left(q, k) \in Seq(T)
        /\ Len(Left(q, k)) = Len(q) - k
        /\ \A i \in 1 .. Len(q) - k : Left(q, k)[i] = q[i + k]
    <2>1. k \in Nat /\ k <= Len(q)
      BY <1>1
    <2>2. \A i \in k + 1 .. Len(q) : q[i] \in T
      BY <1>1, <2>1, ElementOfSeq
    <2>3. /\ SubSeq(q, k + 1, Len(q)) \in Seq(T)
          /\ Len(SubSeq(q, k + 1, Len(q))) =
               IF k + 1 <= Len(q) THEN Len(q) - (k + 1) + 1 ELSE 0
          /\ \A i \in 1 .. Len(q) - (k + 1) + 1 :
               SubSeq(q, k + 1, Len(q))[i] = q[k + 1 + i - 1]
      <3>1. k + 1 \in Int /\ Len(q) \in Int
        BY <1>1, <2>1
      <3>2. QED
        BY <2>2, <3>1, SubSeqProperties
    <2>4. \A m, n \in Nat : m <= n =>
            /\ (IF m + 1 <= n THEN n - (m + 1) + 1 ELSE 0) = n - m
            /\ n - (m + 1) + 1 = n - m
            /\ \A i \in 1 .. n - m : m + 1 + i - 1 = i + m
      OBVIOUS
    <2>5. QED
      BY <1>1, <2>1, <2>3, <2>4 DEF Left
  <1>4. \A o \in 1 .. MaxItems : Cardinality(Taken(k, o)) \in Nat
    <2>1. IsFiniteSet(1 .. k)
      BY <1>1, FS_Interval
    <2>2. \A o : Taken(k, o) \in SUBSET (1 .. k)
      OBVIOUS
    <2>3. QED
      BY <2>1, <2>2, FS_Subset, FS_CardinalityType
  <1>5. Armed(k) \in [1 .. MaxItems -> Nat]
    <2> HIDE DEF Taken
    <2>1. QED
      BY <1>4
  <1>6. Took(k, q, a, after)
    BY <1>2, <1>3 DEF Took
  <1>7. QED
    BY <1>2, <1>3, <1>5, <1>6

(* submit keeps to the entries of the submission queue: it appends only    *)
(* where get_sqe found a free entry.                                       *)
LEMMA SubmitTyped ==
  ASSUME NEW T, Objects \subseteq T, NEW o \in T,
         sq \in Seq(Objects), Len(sq) <= QueueSize,
         armed \in [1 .. MaxItems -> Nat], failed \in Failures \cup {"NO"},
         submit(o)
  PROVE  /\ sq' \in Seq(T) /\ Len(sq') <= QueueSize
         /\ armed' \in [1 .. MaxItems -> Nat]
         /\ failed' \in Failures \cup {"NO"}
  <1>0. sq \in Seq(T) /\ Len(sq) \in Nat /\ QueueSize \in Nat
    BY SeqMonotonic, LenProperties, IOUringAssumption
  <1>1. \A q \in Seq(T), a \in [1 .. MaxItems -> Nat] :
          \A after \in submit_all_requests(q, a) :
            /\ after.sq \in Seq(T)
            /\ Len(after.sq) <= Len(q)
            /\ after.armed \in [1 .. MaxItems -> Nat]
    <2> SUFFICES ASSUME NEW q \in Seq(T), NEW a \in [1 .. MaxItems -> Nat],
                        NEW after \in submit_all_requests(q, a)
                 PROVE  /\ after.sq \in Seq(T)
                        /\ Len(after.sq) <= Len(q)
                        /\ after.armed \in [1 .. MaxItems -> Nat]
      OBVIOUS
    <2>1. Len(q) \in Nat
      BY LenProperties
    <2>2. \E k \in 0 .. Len(q) : Len(after.sq) = Len(q) - k
      BY SubmitAllEffect DEF Took
    <2>3. QED
      BY <2>1, <2>2, SubmitAllEffect
  <1>2. PICK room \in get_sqe :
          \/ /\ Len(room.sq) < QueueSize
             /\ \E after \in submit_all_requests(Append(room.sq, o), room.armed) :
                  sq' = after.sq /\ armed' = after.armed
             /\ UNCHANGED failed
          \/ /\ Len(room.sq) = QueueSize
             /\ sq' = room.sq /\ armed' = room.armed
             /\ NoEntry
    BY DEF submit
  <1>3. room.sq \in Seq(T) /\ Len(room.sq) <= Len(sq) /\ room.armed \in [1 .. MaxItems -> Nat]
    <2>1. CASE Len(sq) < QueueSize
      BY <1>0, <2>1 DEF get_sqe
    <2>2. CASE ~(Len(sq) < QueueSize)
      BY <1>0, <1>1, <2>2 DEF get_sqe
    <2>3. QED
      BY <2>1, <2>2
  <1>4. CASE /\ Len(room.sq) < QueueSize
             /\ \E after \in submit_all_requests(Append(room.sq, o), room.armed) :
                  sq' = after.sq /\ armed' = after.armed
             /\ UNCHANGED failed
    <2>1. Append(room.sq, o) \in Seq(T) /\ Len(Append(room.sq, o)) = Len(room.sq) + 1
      BY <1>3, AppendProperties
    <2>2. sq' \in Seq(T) /\ Len(sq') <= Len(room.sq) + 1 /\ armed' \in [1 .. MaxItems -> Nat]
      BY <1>1, <1>3, <1>4, <2>1
    <2>3. Len(sq') \in Nat /\ Len(room.sq) \in Nat
      BY <1>3, <2>2, LenProperties
    <2>4. QED
      BY <1>0, <1>4, <2>2, <2>3
  <1>5. CASE Len(room.sq) = QueueSize /\ sq' = room.sq /\ armed' = room.armed /\ NoEntry
    <2>1. failed' \in Failures \cup {"NO"}
      BY <1>5 DEF NoEntry, Failures
    <2>2. Len(sq') <= QueueSize
      BY <1>0, <1>5
    <2>3. QED
      BY <1>3, <1>5, <2>1, <2>2
  <1>6. QED
    BY <1>2, <1>4, <1>5

(* Half of the buffers, and at least one, are published.                   *)
LEMMA PublishedType == Published \in Nat \ {0}
  <1>1. \A n \in Nat \ {0, 1} : n \div 2 \in Nat \ {0}
    OBVIOUS
  <1>2. QED
    BY <1>1, IOUringAssumption DEF Published

(* The head of the completion queue names an item, and its id an index:    *)
(* get_work_item never reads m_work_items out of range.                    *)
LEMMA CompletionTyped ==
  ASSUME EngineInv, cq # <<>>
  PROVE  /\ Completion \in CQE
         /\ Completion.obj \in Objects
         /\ user_data(Completion) \in Ids
         /\ Found \in Objects \cup {NULL}
         /\ Advanced \in Seq(CQE)
         /\ BufferIndex(Completion) \in 0 .. Published - 1
  <1>1. Completion \in CQE /\ Advanced \in Seq(CQE)
    BY HeadTailProperties DEF EngineInv, TypeOK, Completion, Advanced
  <1>2. /\ Completion.obj \in Objects
        /\ Completion.buffer \in 0 .. Published - 1 \cup {NULL}
    BY <1>1 DEF CQE
  <1>3. user_data(Completion) \in Ids
    BY <1>2 DEF EngineInv, TypeOK, PoolTypeOK, user_data
  <1>4. Found \in Objects \cup {NULL}
    <2>1. m_work_items \in Seq(Objects \cup {NULL}) /\ Len(m_work_items) \in Nat
      BY LenProperties DEF EngineInv, TypeOK, PoolTypeOK
    <2>2. user_data(Completion) + 1 \in 1 .. Len(m_work_items)
      BY <1>3, <2>1 DEF Ids
    <2>3. QED
      BY <2>1, <2>2, ElementOfSeq DEF Found, get_work_item, Slot
  <1>5. BufferIndex(Completion) \in 0 .. Published - 1
    BY <1>2, PublishedType DEF BufferIndex
  <1>6. QED
    BY <1>1, <1>2, <1>3, <1>4, <1>5

(* A new request: an item from the pool and an entry in the queue.         *)
LEMMA AllocAndSubmitTyped ==
  ASSUME EngineInv, NEW s \in Sockets, NEW t \in Types, AllocAndSubmit(s, t)
  PROVE  EngineInv'
  <1>1. PoolIInv /\ internal_alloc_work_item(s, t)
    BY DEF EngineInv, TypeOK, PoolIInv, AllocAndSubmit, CompletionIsKept
  <1>2. PoolIInv'
    BY <1>1, AllocPreservesPool
  <1>3. Len(heap') <= MaxItems /\ Objects' = Objects \cup {NewObject}
    BY <1>1, AllocEffect
  <1>4. /\ sq' \in Seq(Objects') /\ Len(sq') <= QueueSize
        /\ armed' \in [1 .. MaxItems -> Nat]
        /\ failed' \in Failures \cup {"NO"}
    <2>1. submit(NewObject)
      BY DEF AllocAndSubmit
    <2>2. /\ sq \in Seq(Objects) /\ Len(sq) <= QueueSize
          /\ armed \in [1 .. MaxItems -> Nat]
          /\ failed \in Failures \cup {"NO"}
      BY DEF EngineInv, TypeOK
    <2>3. Objects \subseteq Objects' /\ NewObject \in Objects'
      BY <1>3
    <2>4. QED
      BY <2>1, <2>2, <2>3, SubmitTyped
  <1>5. CQE \subseteq CQE'
    BY <1>3 DEF CQE
  <1>6. cq' \in Seq(CQE') /\ calling' \in Objects' \cup {NULL}
    <2>1. cq' = cq /\ calling' = calling
      BY DEF AllocAndSubmit
    <2>2. cq \in Seq(CQE')
      BY <1>5, SeqMonotonic DEF EngineInv, TypeOK
    <2>3. calling \in Objects' \cup {NULL}
      BY <1>3 DEF EngineInv, TypeOK
    <2>4. QED
      BY <2>1, <2>2, <2>3
  <1>7. QED
    BY <1>2, <1>3, <1>4, <1>6 DEF EngineInv, TypeOK, PoolIInv, AllocAndSubmit, CompletionIsKept

(* A step that changes only ring variables, or writes only fields of items *)
(* that the pool does not look at, keeps the pool and its types.           *)
LEMMA WriteItemTyped ==
  ASSUME EngineInv, NEW o \in Objects,
         \/ heap' = heap
         \/ heap' = [heap EXCEPT ![o].m_accept_sock_len = 0]
         \/ heap' = [heap EXCEPT ![o].m_accept_sock_len = SockaddrLen]
         \/ \E t \in Types : heap' = [heap EXCEPT ![o].m_work_type = t],
         UNCHANGED <<m_work_items, m_free_ids>>
  PROVE  /\ PoolIInv' /\ Objects' = Objects /\ Len(heap') = Len(heap)
         /\ \A x \in Objects : /\ heap'[x].m_state = heap[x].m_state
                               /\ heap'[x].m_socket = heap[x].m_socket
         /\ \A x \in Objects \ {o} : heap'[x] = heap[x]
  <1>1. heap \in Seq(WorkItem) /\ Len(heap) \in Nat /\ o \in 1 .. Len(heap)
    BY LenProperties DEF EngineInv, TypeOK, PoolTypeOK, Objects
  <1>2. heap[o] \in WorkItem /\ \A x \in 1 .. Len(heap) : heap[x] \in WorkItem
    BY <1>1, ElementOfSeq
  <1>3. PICK new \in WorkItem :
          /\ heap' = [heap EXCEPT ![o] = new]
          /\ new.m_id = heap[o].m_id
          /\ new.m_state = heap[o].m_state
          /\ new.m_socket = heap[o].m_socket
    <2>1. CASE heap' = heap
      <3>1. DOMAIN heap = 1 .. Len(heap) /\ heap \in [1 .. Len(heap) -> WorkItem]
        BY <1>1, LenProperties
      <3>2. heap' = [heap EXCEPT ![o] = heap[o]]
        BY <1>1, <2>1, <3>1
      <3>3. QED
        BY <1>2, <3>2
    <2>2. ASSUME NEW len \in {0, SockaddrLen},
                 heap' = [heap EXCEPT ![o].m_accept_sock_len = len]
          PROVE  \E new \in WorkItem : /\ heap' = [heap EXCEPT ![o] = new]
                                        /\ new.m_id = heap[o].m_id
                                        /\ new.m_state = heap[o].m_state
                                        /\ new.m_socket = heap[o].m_socket
      <3> DEFINE new == [heap[o] EXCEPT !.m_accept_sock_len = len]
      <3>1. /\ new \in WorkItem
            /\ new.m_id = heap[o].m_id
            /\ new.m_state = heap[o].m_state
            /\ new.m_socket = heap[o].m_socket
        BY <1>2 DEF WorkItem
      <3>2. heap' = [heap EXCEPT ![o] = new]
        BY <2>2
      <3>3. QED
        BY <3>1, <3>2
    <2>3. ASSUME NEW t \in Types, heap' = [heap EXCEPT ![o].m_work_type = t]
          PROVE  \E new \in WorkItem : /\ heap' = [heap EXCEPT ![o] = new]
                                        /\ new.m_id = heap[o].m_id
                                        /\ new.m_state = heap[o].m_state
                                        /\ new.m_socket = heap[o].m_socket
      <3> DEFINE new == [heap[o] EXCEPT !.m_work_type = t]
      <3>1. /\ new \in WorkItem
            /\ new.m_id = heap[o].m_id
            /\ new.m_state = heap[o].m_state
            /\ new.m_socket = heap[o].m_socket
        BY <1>2 DEF WorkItem
      <3>2. heap' = [heap EXCEPT ![o] = new]
        BY <2>3
      <3>3. QED
        BY <3>1, <3>2
    <2>4. QED
      BY <2>1, <2>2, <2>3
  <1>4. /\ heap' \in Seq(WorkItem)
        /\ Len(heap') = Len(heap)
        /\ \A x \in 1 .. Len(heap) : heap'[x] = IF x = o THEN new ELSE heap[x]
    BY <1>1, <1>3, ExceptSeq
  <1>5. \A x \in Objects : /\ heap'[x].m_id = heap[x].m_id /\ heap'[x].m_state = heap[x].m_state
                           /\ heap'[x].m_socket = heap[x].m_socket
    BY <1>3, <1>4 DEF Objects
  <1>6. PoolIInv' /\ Objects' = Objects
    BY <1>4, <1>5, RelabelPreservesPool DEF EngineInv, TypeOK, PoolIInv
  <1>7. QED
    BY <1>4, <1>5, <1>6 DEF Objects

(* A completion is well-formed, and takes a request that the kernel has.   *)
LEMMA PostTyped ==
  ASSUME EngineInv, NEW o \in Objects, NEW res, NEW more \in BOOLEAN,
         NEW buffer \in 0 .. Published - 1 \cup {NULL},
         Post(o, res, more, buffer)
  PROVE  /\ cq' = Append(cq, [obj |-> o, res |-> res, more |-> more, buffer |-> buffer])
         /\ cq' \in Seq(CQE) /\ cq' # <<>>
         /\ armed' \in [1 .. MaxItems -> Nat]
         /\ UNCHANGED <<m_work_items, m_free_ids, init_result, sq, calling, failed>>
  <1>1. cq' = Append(cq, [obj |-> o, res |-> res, more |-> more, buffer |-> buffer])
    BY DEF Post
  <1>2. [obj |-> o, res |-> res, more |-> more, buffer |-> buffer] \in CQE
    <2>1. res \in Results
      BY IOUringAssumption DEF Post
    <2>2. QED
      BY <2>1 DEF CQE
  <1>3. cq' \in Seq(CQE) /\ cq' # <<>>
    <2> DEFINE c == [obj |-> o, res |-> res, more |-> more, buffer |-> buffer]
    <2> HIDE DEF c
    <2>1. c \in CQE /\ cq' = Append(cq, c) /\ cq \in Seq(CQE)
      BY <1>1, <1>2 DEF c, EngineInv, TypeOK
    <2>2. QED
      BY <2>1, AppendProperties
  <1>4. armed' \in [1 .. MaxItems -> Nat]
    <2>1. o \in 1 .. MaxItems
      <3>1. Len(heap) \in Nat /\ Len(heap) <= MaxItems
        BY LenProperties DEF EngineInv, TypeOK, PoolTypeOK
      <3>2. QED
        BY <3>1, PoolAssumption DEF Objects
    <2>2. armed \in [1 .. MaxItems -> Nat] /\ armed[o] \in Nat \ {0}
      <3>1. armed \in [1 .. MaxItems -> Nat]
        BY DEF EngineInv, TypeOK
      <3>2. armed[o] > 0
        BY DEF Post
      <3>3. armed[o] \in Nat
        BY <2>1, <3>1
      <3>4. \A k \in Nat : k > 0 => k \in Nat \ {0}
        OBVIOUS
      <3>5. QED
        BY <3>1, <3>2, <3>3, <3>4
    <2>3. armed' = armed \/ armed' = [armed EXCEPT ![o] = armed[o] - 1]
      BY DEF Post, Disarmed
    <2>4. QED
      BY <2>1, <2>2, <2>3
  <1>5. QED
    BY <1>1, <1>3, <1>4 DEF Post

(* The kernel keeps the types and never touches the pool.                  *)
LEMMA KernelTyped ==
  ASSUME EngineInv, Kernel
  PROVE  EngineInv'
  <1>1. PICK o \in Objects : CompleteRequest(o) \/ ReceiveData(o) \/ ReceiveEOF(o) \/ ReceiveError(o)
    BY DEF Kernel
  <1>2. ASSUME NEW res, NEW more \in BOOLEAN, NEW buffer \in 0 .. Published - 1 \cup {NULL},
               Post(o, res, more, buffer),
               \/ heap' = heap
               \/ heap' = [heap EXCEPT ![o].m_accept_sock_len = SockaddrLen],
               buf_ring' \in Seq(0 .. Published - 1)
        PROVE  EngineInv'
    <2>1. /\ cq' \in Seq(CQE) /\ cq' # <<>>
          /\ armed' \in [1 .. MaxItems -> Nat]
          /\ UNCHANGED <<m_work_items, m_free_ids, init_result, sq, calling, failed>>
      BY <1>2, PostTyped
    <2>2. PoolIInv' /\ Objects' = Objects /\ Len(heap') = Len(heap)
      BY <1>2, <2>1, WriteItemTyped
    <2>3. CQE' = CQE
      BY <2>2 DEF CQE
    <2>4. QED
      BY <1>2, <2>1, <2>2, <2>3 DEF EngineInv, TypeOK, PoolIInv, CompletionIsKept
  <1>3. buf_ring \in Seq(0 .. Published - 1)
    BY DEF EngineInv, TypeOK
  <1>4. NULL \in 0 .. Published - 1 \cup {NULL}
    OBVIOUS
  <1>5. CASE CompleteRequest(o)
    BY <1>2, <1>3, <1>4, <1>5 DEF CompleteRequest
  <1>6. CASE ReceiveData(o)
    <2>1. /\ Head(buf_ring) \in 0 .. Published - 1 \cup {NULL}
          /\ Tail(buf_ring) \in Seq(0 .. Published - 1)
      BY <1>3, <1>6, HeadTailProperties DEF ReceiveData
    <2>2. QED
      BY <1>2, <1>6, <2>1 DEF ReceiveData
  <1>7. CASE ReceiveEOF(o)
    BY <1>2, <1>3, <1>4, <1>7 DEF ReceiveEOF
  <1>8. CASE ReceiveError(o)
    BY <1>2, <1>3, <1>4, <1>8 DEF ReceiveError
  <1>9. QED
    BY <1>1, <1>5, <1>6, <1>7, <1>8

(* What follows a callback: the item is submitted again or given back.     *)
LEMMA FinishTyped ==
  ASSUME EngineInv, cq # <<>>, NEW o \in Objects, NEW action, Finish(o, action)
  PROVE  EngineInv'
  <1>0. PoolIInv
    BY DEF EngineInv, TypeOK, PoolIInv
  <1>1. /\ buf_ring' \in Seq(0 .. Published - 1)
        /\ cq' \in Seq(CQE)
        /\ calling' = NULL
        /\ init_result' = init_result
    <2>1. Append(buf_ring, BufferIndex(Completion)) \in Seq(0 .. Published - 1)
      BY CompletionTyped, AppendProperties DEF EngineInv, TypeOK
    <2>2. buf_ring \in Seq(0 .. Published - 1)
      BY DEF EngineInv, TypeOK
    <2>3. buf_ring' \in {buf_ring, Recycled(Completion)}
      BY DEF Finish
    <2>4. QED
      BY <2>1, <2>2, <2>3, CompletionTyped DEF Finish, Recycled
  <1>2. CASE Rearms(o, action)
    <2>1. /\ heap' = [heap EXCEPT ![o].m_accept_sock_len = 0]
          /\ submit(o)
          /\ UNCHANGED <<m_work_items, m_free_ids>>
      BY <1>2 DEF Finish, ForSubmission
    <2>2. PoolIInv' /\ Objects' = Objects /\ Len(heap') = Len(heap)
      BY <2>1, WriteItemTyped
    <2>3. /\ sq \in Seq(Objects) /\ Len(sq) <= QueueSize
          /\ armed \in [1 .. MaxItems -> Nat]
          /\ failed \in Failures \cup {"NO"}
      BY DEF EngineInv, TypeOK
    <2>4. /\ sq' \in Seq(Objects) /\ Len(sq') <= QueueSize
          /\ armed' \in [1 .. MaxItems -> Nat]
          /\ failed' \in Failures \cup {"NO"}
      BY <2>1, <2>3, SubmitTyped
    <2>5. CQE' = CQE
      BY <2>2 DEF CQE
    <2>6. QED
      BY <1>1, <2>2, <2>4, <2>5 DEF EngineInv, TypeOK, PoolIInv, CompletionIsKept
  <1>3. CASE ~Rearms(o, action)
    <2>1. free_work_item(user_data(Completion)) /\ UNCHANGED <<sq, armed, failed>>
      BY <1>3 DEF Finish
    <2>2. PoolIInv' /\ Objects' = Objects /\ Len(heap') = Len(heap)
      BY <1>0, <2>1, CompletionTyped, FreePreservesPool, FreeEffect
    <2>3. CQE' = CQE
      BY <2>2 DEF CQE
    <2>4. QED
      BY <1>1, <2>1, <2>2, <2>3 DEF EngineInv, TypeOK, PoolIInv, CompletionIsKept
  <1>4. QED
    BY <1>2, <1>3

(* The engine starts with an empty pool and empty queues.                  *)
LEMMA EngineInitInv == Init => EngineInv
  <1> SUFFICES ASSUME Init
               PROVE  EngineInv
    OBVIOUS
  <1>1. PoolTypeOK /\ PoolInv /\ Len(heap) <= MaxItems
    <2>1. PoolTypeOK /\ PoolInv
      BY PoolInitInv DEF Init, PoolIInv
    <2>2. heap = <<>> /\ MaxItems \in Nat
      BY PoolAssumption DEF Init, PoolInit
    <2>3. Len(heap) = 0
      BY <2>2, EmptySeq
    <2>4. QED
      BY <2>1, <2>2, <2>3
  <1>2. /\ buf_ring \in Seq(0 .. Published - 1) /\ cq \in Seq(CQE)
        /\ sq \in Seq(Objects) /\ Len(sq) <= QueueSize
    <2>1. buf_ring = <<>> /\ cq = <<>> /\ sq = <<>> /\ QueueSize \in Nat
      BY IOUringAssumption DEF Init
    <2>2. QED
      BY <2>1, EmptySeq
  <1>3. /\ armed \in [1 .. MaxItems -> Nat]
        /\ init_result \in {"NONE", "OK", "FAILED"}
        /\ calling \in Objects \cup {NULL}
        /\ failed \in Failures \cup {"NO"}
    BY DEF Init
  <1>4. QED
    BY <1>1, <1>2, <1>3 DEF EngineInv, TypeOK, CompletionIsKept, Init

(* A step that leaves the items and the queues alone keeps the invariant.  *)
LEMMA RingStepTyped ==
  ASSUME EngineInv, UNCHANGED <<pool_vars, sq, armed>>,
         init_result' \in {"NONE", "OK", "FAILED"},
         buf_ring' \in Seq(0 .. Published - 1),
         cq' \in Seq(CQE),
         calling' \in Objects \cup {NULL},
         failed' \in Failures \cup {"NO"},
         CompletionIsKept'
  PROVE  EngineInv'
  <1>1. heap' = heap /\ m_work_items' = m_work_items /\ m_free_ids' = m_free_ids
    BY DEF pool_vars
  <1>2. Objects' = Objects /\ CQE' = CQE /\ Len(heap') = Len(heap)
    BY <1>1 DEF Objects, CQE
  <1>3. PoolTypeOK' /\ PoolInv'
    BY <1>1, <1>2 DEF EngineInv, TypeOK, PoolTypeOK, PoolInv, FreeIdsAreTheEmptySlots,
                      InUseItemsOwnTheirSlot, Ids, Slot
  <1>4. QED
    BY <1>2, <1>3 DEF EngineInv, TypeOK

(* The application's calls, of any kind and at any time, keep the          *)
(* invariant.                                                              *)
LEMMA ApplicationTyped ==
  ASSUME EngineInv, Application
  PROVE  EngineInv'
  <1>1. ASSUME NEW s \in Sockets, submit_accept(s) \/ submit_recv(s) \/ submit_close(s)
        PROVE  EngineInv'
    BY <1>1, AllocAndSubmitTyped DEF submit_accept, submit_recv, submit_close, Types
  <1>2. ASSUME NEW s \in Sockets, ackuire_send_workitem(s)
        PROVE  EngineInv'
    <2>1. PoolIInv /\ internal_alloc_work_item(s, "UNKNOWN") /\ "UNKNOWN" \in Types
      BY <1>2 DEF EngineInv, TypeOK, PoolIInv, ackuire_send_workitem, Types
    <2>2. PoolIInv' /\ Len(heap') <= MaxItems /\ Objects' = Objects \cup {NewObject}
      BY <2>1, AllocPreservesPool, AllocEffect
    <2>3. Objects \subseteq Objects' /\ CQE \subseteq CQE'
      BY <2>2 DEF CQE
    <2>4. sq \in Seq(Objects') /\ cq \in Seq(CQE')
      BY <2>3, SeqMonotonic DEF EngineInv, TypeOK
    <2>5. UNCHANGED ring_vars
      BY <1>2 DEF ackuire_send_workitem
    <2>6. QED
      BY <2>2, <2>3, <2>4, <2>5 DEF EngineInv, TypeOK, PoolIInv, ring_vars, CompletionIsKept
  <1>3. ASSUME NEW s \in Sockets, NEW family \in ConnectTargets, submit_connect(s, family)
        PROVE  EngineInv'
    <2>1. CASE AllocAndSubmit(s, "CONNECT")
      BY <2>1, AllocAndSubmitTyped DEF Types
    <2>2. CASE Fail("submit: m_connect_sock_len")
      <3>1. /\ failed' \in Failures
            /\ UNCHANGED <<pool_vars, init_result, buf_ring, sq, armed, cq, calling>>
        BY <2>2 DEF Fail, Failures
      <3>2. QED
        BY <3>1, RingStepTyped DEF EngineInv, TypeOK, CompletionIsKept
    <2>3. QED
      BY <1>3, <2>1, <2>2 DEF submit_connect
  <1>4. ASSUME NEW o \in Objects, submit_send(o)
        PROVE  EngineInv'
    <2>1. /\ heap' = [heap EXCEPT ![o].m_work_type = SendType(o)]
          /\ SendType(o) \in Types
          /\ submit(o)
          /\ UNCHANGED <<m_work_items, m_free_ids, init_result, buf_ring, cq, calling>>
      BY <1>4 DEF submit_send, SendType, Types, SendTypes
    <2>2. PoolIInv' /\ Objects' = Objects /\ Len(heap') = Len(heap)
      BY <2>1, WriteItemTyped
    <2>3. /\ sq \in Seq(Objects) /\ Len(sq) <= QueueSize
          /\ armed \in [1 .. MaxItems -> Nat]
          /\ failed \in Failures \cup {"NO"}
      BY DEF EngineInv, TypeOK
    <2>4. /\ sq' \in Seq(Objects) /\ Len(sq') <= QueueSize
          /\ armed' \in [1 .. MaxItems -> Nat]
          /\ failed' \in Failures \cup {"NO"}
      BY <2>1, <2>3, SubmitTyped
    <2>5. CQE' = CQE
      BY <2>2 DEF CQE
    <2>6. QED
      BY <2>1, <2>2, <2>4, <2>5 DEF EngineInv, TypeOK, PoolIInv, CompletionIsKept
  <1>5. QED
    BY <1>1, <1>2, <1>3, <1>4 DEF Application

(* Polling keeps the invariant, also where it ends the process.            *)
LEMMA PollTyped ==
  ASSUME EngineInv, poll_completion_queues
  PROVE  EngineInv'
  <1>1. /\ cq # <<>>
        /\ Found \in Objects \cup {NULL}
        /\ Advanced \in Seq(CQE)
    BY CompletionTyped DEF poll_completion_queues, PollDrop, PollFail, PollSilently, PollCall,
                           Dispatches, CanPoll
  <1>2. CASE PollDrop
    BY <1>1, <1>2, RingStepTyped DEF PollDrop, CanPoll, EngineInv, TypeOK, CompletionIsKept
  <1>3. CASE PollFail
    <2>1. Found \in Objects /\ Fail(heap[Found].m_work_type)
      BY <1>1, <1>3 DEF PollFail, Dispatches
    <2>2. heap[Found].m_work_type \in Types
      <3>1. heap \in Seq(WorkItem) /\ Found \in 1 .. Len(heap)
        BY <2>1 DEF EngineInv, TypeOK, PoolTypeOK, Objects
      <3>2. heap[Found] \in WorkItem
        BY <3>1, ElementOfSeq
      <3>3. QED
        BY <3>2 DEF WorkItem
    <2>3. /\ failed' \in Failures
          /\ UNCHANGED <<pool_vars, init_result, buf_ring, sq, armed, cq, calling>>
      BY <2>1, <2>2 DEF Fail, Failures
    <2>4. QED
      BY <2>3, RingStepTyped DEF EngineInv, TypeOK, CompletionIsKept
  <1>4. CASE PollSilently
    BY <1>1, <1>4, FinishTyped DEF PollSilently, Dispatches
  <1>5. CASE PollCall
    BY <1>1, <1>5, RingStepTyped DEF PollCall, Dispatches, EngineInv, TypeOK, CompletionIsKept
  <1>6. QED
    BY <1>2, <1>3, <1>4, <1>5 DEF poll_completion_queues

(* Every step keeps the types, the pool and the completion of a callback.  *)
LEMMA EngineStep == EngineInv /\ [Next]_vars => EngineInv'
  <1> SUFFICES ASSUME EngineInv, [Next]_vars
               PROVE  EngineInv'
    OBVIOUS
  <1>1. ASSUME NEW result \in InitResults, init(result)
        PROVE  EngineInv'
    <2>1. /\ result \in {"OK", "FAILED"}
          /\ init_result' = result
          /\ UNCHANGED <<pool_vars, sq, armed, cq, calling, failed>>
      BY <1>1, IOUringAssumption DEF init
    <2>2. buf_ring' \in Seq(0 .. Published - 1)
      <3>1. \A i \in 1 .. Published : i - 1 \in 0 .. Published - 1
        BY PublishedType
      <3>2. [i \in 1 .. Published |-> i - 1] \in Seq(0 .. Published - 1)
        BY <3>1, PublishedType, IsASeq
      <3>3. QED
        BY <1>1, <3>2, EmptySeq DEF init, setup_buffer_pool
    <2>3. QED
      BY <2>1, <2>2, RingStepTyped DEF EngineInv, TypeOK, CompletionIsKept
  <1>2. CASE Application
    BY <1>2, ApplicationTyped
  <1>3. CASE Kernel
    BY <1>3, KernelTyped
  <1>4. CASE poll_completion_queues
    BY <1>4, PollTyped
  <1>5. CASE CallbackReturn
    <2>1. /\ calling \in Objects /\ cq # <<>>
          /\ \E action : Finish(calling, action)
      BY <1>5 DEF CallbackReturn, EngineInv, TypeOK, CompletionIsKept
    <2>2. QED
      BY <2>1, FinishTyped
  <1>6. CASE UNCHANGED vars
    BY <1>6, RingStepTyped DEF vars, ring_vars, EngineInv, TypeOK, CompletionIsKept
  <1>7. QED
    BY <1>1, <1>2, <1>3, <1>4, <1>5, <1>6 DEF Next

(* With any sockets, queue sizes, results and faults, every id, buffer     *)
(* index and item that the engine (IOUring.cpp) uses exists.               *)
THEOREM EngineTypeOK == Spec => []TypeOK
  <1>1. EngineInv => TypeOK
    BY DEF EngineInv
  <1>2. QED
    BY <1>1, EngineInitInv, EngineStep, PTL DEF Spec

(* The engine keeps the pool (WorkPool.cpp) consistent, whatever results   *)
(* and callbacks it meets: it frees an id only while an item owns it, and  *)
(* no id is on the free stack twice.                                       *)
THEOREM EngineKeepsPoolConsistent ==
  Spec => [](FreeIdsAreTheEmptySlots /\ InUseItemsOwnTheirSlot)
  <1>1. EngineInv => FreeIdsAreTheEmptySlots /\ InUseItemsOwnTheirSlot
    BY DEF EngineInv, PoolInv
  <1>2. QED
    BY <1>1, EngineInitInv, EngineStep, PTL DEF Spec

-----------------------------------------------------------------------------
(* Requests.                                                               *)

(* What datagram programs must do: their receive handlers ask for the next *)
(* datagram.  One that returns NONE frees an item whose request may still  *)
(* be in the kernel (the run LateDatagram).                                *)
DatagramsGoOn == DatagramSockets = {} \/ DatagramReturns \subseteq {"RE_SUBMIT"}

(* A multishot receive may have any number of requests on its way; every   *)
(* other item is alone.                                                    *)
Repeats(x) == x \in Objects /\ Multishot(x)
Alone == {x \in 1 .. MaxItems : ~Repeats(x)}

InQueue(q, x) == \E i \in 1 .. Len(q) : q[i] = x
OnItsWay(q, a, x) == InQueue(q, x) \/ a[x] > 0

(* No two requests of one item of S in a queue and the kernel together.    *)
Exclusive(S, q, a) ==
  /\ \A i, j \in 1 .. Len(q) : q[i] \in S /\ q[i] = q[j] => i = j
  /\ \A x \in S : a[x] <= 1 /\ (a[x] = 1 => ~InQueue(q, x))

(* Neither a send item that was acquired and not submitted yet nor a       *)
(* multishot receive is ever free.                                         *)
HeldItemsAreInUse ==
  \A o \in Objects : heap[o].m_work_type = "UNKNOWN" \/ Multishot(o) => heap[o].m_state = "IN_USE"

(* An item has one completion at most, and then no other request.          *)
OneCompletion ==
  /\ \A i, j \in 1 .. Len(cq) : cq[i].obj \in Alone /\ cq[i].obj = cq[j].obj => i = j
  /\ \A i \in 1 .. Len(cq) : cq[i].obj \in Alone => ~OnItsWay(sq, armed, cq[i].obj)

RequestsAreLive ==
  /\ \A x \in 1 .. MaxItems : OnItsWay(sq, armed, x) => x \in Objects /\ Live(x)
  /\ \A i \in 1 .. Len(cq) : Live(cq[i].obj)

RequestsInv ==
  Exclusive(Alone, sq, armed) /\ OneCompletion /\ RequestsAreLive /\ HeldItemsAreInUse

CallbackIsForTheHead == calling # NULL => calling = Completion.obj

ServiceInv == EngineInv /\ RequestsInv /\ CallbackIsForTheHead

(* io_uring_submit moves requests from the queue into the kernel, some or  *)
(* all of them, and neither loses nor repeats one.                         *)
LEMMA SubmitAllExclusive ==
  ASSUME NEW S, S \subseteq 1 .. MaxItems,
         NEW q \in Seq(1 .. MaxItems), NEW a \in [1 .. MaxItems -> Nat], Exclusive(S, q, a),
         NEW after \in submit_all_requests(q, a)
  PROVE  /\ Exclusive(S, after.sq, after.armed)
         /\ \A x \in 1 .. MaxItems :
              OnItsWay(after.sq, after.armed, x) <=> OnItsWay(q, a, x)
  <1>1. Len(q) \in Nat
    BY LenProperties
  <1>2. PICK k \in 0 .. Len(q) : Took(k, q, a, after)
    BY SubmitAllEffect
  <1>3. k \in Nat /\ k <= Len(q)
    BY <1>1
  <1>4. \A i, j \in 1 .. Len(after.sq) : after.sq[i] \in S /\ after.sq[i] = after.sq[j] => i = j
    <2>1. \A i \in 1 .. Len(q) - k : i \in Int /\ i + k \in 1 .. Len(q)
      BY <1>1, <1>3
    <2>2. Len(after.sq) = Len(q) - k /\ \A i \in 1 .. Len(q) - k : after.sq[i] = q[i + k]
      BY <1>2 DEF Took
    <2>3. \A i, j \in 1 .. Len(q) : q[i] \in S /\ q[i] = q[j] => i = j
      BY DEF Exclusive
    <2>4. \A i, j \in 1 .. Len(q) - k : i + k = j + k => i = j
      BY <1>3, <2>1
    <2>5. QED
      BY <2>1, <2>2, <2>3, <2>4
  <1>5. ASSUME NEW x \in 1 .. MaxItems
        PROVE  /\ x \in S => /\ after.armed[x] <= 1
                             /\ after.armed[x] = 1 => ~InQueue(after.sq, x)
               /\ OnItsWay(after.sq, after.armed, x) <=> OnItsWay(q, a, x)
    <2> DEFINE taken == {i \in 1 .. k : q[i] = x}
    <2>0. /\ after.armed[x] = a[x] + Cardinality(taken)
          /\ a[x] \in Nat
          /\ x \in S => a[x] <= 1 /\ (a[x] = 1 => ~InQueue(q, x))
      BY <1>2 DEF Exclusive, Took
    <2>1. CASE \E i \in 1 .. k : q[i] = x
      <3>1. PICK i \in 1 .. k : q[i] = x
        BY <2>1
      <3>2. i \in 1 .. Len(q) /\ \A j \in 1 .. k : j \in 1 .. Len(q)
        BY <1>1, <1>3
      <3>3. InQueue(q, x)
        BY <3>1, <3>2 DEF InQueue
      <3>4. after.armed[x] > 0
        <4>1. IsFiniteSet(taken)
          <5>1. IsFiniteSet(1 .. k)
            BY <1>3, FS_Interval
          <5>2. QED
            BY <5>1, FS_Subset
        <4>2. taken # {}
          BY <3>1
        <4> HIDE DEF taken
        <4>3. Cardinality(taken) \in Nat /\ Cardinality(taken) # 0
          BY <4>1, <4>2, FS_CardinalityType, FS_EmptySet
        <4>4. QED
          BY <2>0, <4>3
      <3>5. ASSUME x \in S
            PROVE  /\ after.armed[x] <= 1
                   /\ after.armed[x] = 1 => ~InQueue(after.sq, x)
        <4>1. taken = {i}
          BY <3>1, <3>2, <3>5 DEF Exclusive
        <4>2. Cardinality(taken) = 1
          BY <4>1, FS_Singleton
        <4>3. a[x] = 0
          BY <2>0, <3>3, <3>5
        <4>4. ~InQueue(after.sq, x)
          <5>1. \A j \in 1 .. Len(q) - k : j + k \in 1 .. Len(q) /\ j + k # i
            BY <1>1, <1>3, <3>1
          <5>2. \A j \in 1 .. Len(q) - k : after.sq[j] = q[j + k]
            BY <1>2 DEF Took
          <5>3. \A j \in 1 .. Len(q) - k : q[j + k] # q[i]
            BY <3>1, <3>2, <3>5, <5>1 DEF Exclusive
          <5>4. Len(after.sq) = Len(q) - k
            BY <1>2 DEF Took
          <5>5. QED
            BY <3>1, <5>2, <5>3, <5>4 DEF InQueue
        <4>5. after.armed[x] = 1
          BY <2>0, <4>2, <4>3
        <4>6. QED
          BY <4>4, <4>5
      <3>6. QED
        BY <3>3, <3>4, <3>5 DEF OnItsWay
    <2>2. CASE ~ \E i \in 1 .. k : q[i] = x
      <3>1. taken = {}
        BY <2>2
      <3>2. after.armed[x] = a[x]
        <4> HIDE DEF taken
        <4>1. Cardinality(taken) = 0
          BY <3>1, FS_EmptySet
        <4>2. QED
          BY <2>0, <4>1
      <3>3. InQueue(after.sq, x) <=> InQueue(q, x)
        <4>1. \A i \in 1 .. Len(q) - k : i + k \in 1 .. Len(q)
          BY <1>1, <1>3
        <4>2. \A i \in 1 .. Len(q) : i \in 1 .. k \/ (i - k \in 1 .. Len(q) - k /\ i - k + k = i)
          BY <1>1, <1>3
        <4>3. ASSUME InQueue(q, x)
              PROVE  InQueue(after.sq, x)
          <5>1. PICK i \in 1 .. Len(q) : q[i] = x
            BY <4>3 DEF InQueue
          <5>2. i - k \in 1 .. Len(q) - k /\ i - k + k = i
            BY <2>2, <4>2, <5>1
          <5>3. after.sq[i - k] = x
            BY <1>2, <5>1, <5>2 DEF Took
          <5>4. QED
            BY <1>2, <5>2, <5>3 DEF InQueue, Took
        <4>4. QED
          BY <1>2, <4>1, <4>3 DEF InQueue, Took
      <3>4. QED
        BY <2>0, <3>2, <3>3 DEF OnItsWay
    <2>3. QED
      BY <2>1, <2>2
  <1>6. QED
    BY <1>4, <1>5 DEF Exclusive

(* A request for an item that has none stays the only one, and a request   *)
(* takes nothing from the others, whether or not the flush takes all       *)
(* entries, and also if get_sqe aborts.                                    *)
LEMMA SubmitExclusive ==
  ASSUME sq \in Seq(1 .. MaxItems), armed \in [1 .. MaxItems -> Nat],
         NEW S, S \subseteq 1 .. MaxItems, Exclusive(S, sq, armed),
         NEW o \in 1 .. MaxItems, o \in S => ~OnItsWay(sq, armed, o),
         submit(o)
  PROVE  /\ Exclusive(S, sq', armed')
         /\ \A x \in 1 .. MaxItems :
              x # o => (OnItsWay(sq', armed', x) <=> OnItsWay(sq, armed, x))
         /\ \/ OnItsWay(sq', armed', o) /\ UNCHANGED failed
            \/ (OnItsWay(sq', armed', o) <=> OnItsWay(sq, armed, o)) /\ NoEntry
  <1>1. PICK room \in get_sqe :
          \/ /\ Len(room.sq) < QueueSize
             /\ \E after \in submit_all_requests(Append(room.sq, o), room.armed) :
                  sq' = after.sq /\ armed' = after.armed
             /\ UNCHANGED failed
          \/ /\ Len(room.sq) = QueueSize
             /\ sq' = room.sq /\ armed' = room.armed
             /\ NoEntry
    BY DEF submit
  <1>2. /\ room.sq \in Seq(1 .. MaxItems) /\ room.armed \in [1 .. MaxItems -> Nat]
        /\ Exclusive(S, room.sq, room.armed)
        /\ \A x \in 1 .. MaxItems : OnItsWay(room.sq, room.armed, x) <=> OnItsWay(sq, armed, x)
    <2>1. CASE room = [sq |-> sq, armed |-> armed]
      BY <2>1
    <2>2. CASE room \in submit_all_requests(sq, armed)
      BY <2>2, SubmitAllEffect, SubmitAllExclusive
    <2>3. QED
      BY <2>1, <2>2 DEF get_sqe
  <1>3. ASSUME \E after \in submit_all_requests(Append(room.sq, o), room.armed) :
                 sq' = after.sq /\ armed' = after.armed
        PROVE  /\ Exclusive(S, sq', armed')
               /\ \A x \in 1 .. MaxItems :
                    OnItsWay(sq', armed', x) <=> x = o \/ OnItsWay(sq, armed, x)
    <2> DEFINE q == Append(room.sq, o)
    <2>1. /\ q \in Seq(1 .. MaxItems)
          /\ Len(room.sq) \in Nat
          /\ Len(q) = Len(room.sq) + 1
          /\ \A i \in 1 .. Len(room.sq) : q[i] = room.sq[i]
          /\ q[Len(room.sq) + 1] = o
      BY <1>2, AppendProperties, LenProperties
    <2> HIDE DEF q
    <2>2. \A x \in 1 .. MaxItems : InQueue(q, x) <=> x = o \/ InQueue(room.sq, x)
      <3>1. 1 .. Len(q) = (1 .. Len(room.sq)) \cup {Len(room.sq) + 1}
        BY <2>1
      <3>2. QED
        BY <2>1, <3>1 DEF InQueue
    <2>3. o \in S => ~InQueue(room.sq, o) /\ ~(room.armed[o] > 0) /\ room.armed[o] \in Nat
      BY <1>2 DEF OnItsWay
    <2>4. Exclusive(S, q, room.armed)
      <3>1. \A i, j \in 1 .. Len(q) : q[i] \in S /\ q[i] = q[j] => i = j
        <4>1. SUFFICES ASSUME NEW i \in 1 .. Len(q), NEW j \in 1 .. Len(q), q[i] \in S, q[i] = q[j]
                       PROVE  i = j
          OBVIOUS
        <4>2. \A k \in 1 .. Len(q) : k \in 1 .. Len(room.sq) \/ k = Len(room.sq) + 1
          BY <2>1
        <4>3. \A k \in 1 .. Len(room.sq) : q[k] = room.sq[k] /\ (room.sq[k] \in S => room.sq[k] # o)
          BY <2>1, <2>3 DEF InQueue
        <4>4. \A k, l \in 1 .. Len(room.sq) : room.sq[k] \in S /\ room.sq[k] = room.sq[l] => k = l
          BY <1>2 DEF Exclusive
        <4>5. CASE i \in 1 .. Len(room.sq) /\ j \in 1 .. Len(room.sq)
          BY <4>1, <4>3, <4>4, <4>5
        <4>6. CASE i = Len(room.sq) + 1 \/ j = Len(room.sq) + 1
          BY <2>1, <4>1, <4>2, <4>3, <4>6
        <4>7. QED
          BY <4>2, <4>5, <4>6
      <3>2. QED
        BY <1>2, <2>2, <2>3, <3>1 DEF Exclusive
    <2>5. /\ Exclusive(S, sq', armed')
          /\ \A x \in 1 .. MaxItems : OnItsWay(sq', armed', x) <=> OnItsWay(q, room.armed, x)
      <3>1. PICK after \in submit_all_requests(q, room.armed) :
              sq' = after.sq /\ armed' = after.armed
        BY <1>3 DEF q
      <3>2. QED
        BY <1>2, <2>1, <2>4, <3>1, SubmitAllExclusive
    <2>6. \A x \in 1 .. MaxItems : OnItsWay(sq', armed', x) <=> x = o \/ OnItsWay(sq, armed, x)
      BY <1>2, <2>2, <2>5 DEF OnItsWay
    <2>7. QED
      BY <2>5, <2>6
  <1>4. ASSUME sq' = room.sq, armed' = room.armed
        PROVE  /\ Exclusive(S, sq', armed')
               /\ \A x \in 1 .. MaxItems : OnItsWay(sq', armed', x) <=> OnItsWay(sq, armed, x)
    BY <1>2, <1>4
  <1>5. QED
    BY <1>1, <1>3, <1>4

(* The step takes the first d completions off the queue, if any.           *)
Drops(d) ==
  /\ Len(cq') = Len(cq) - d
  /\ \A i \in 1 .. Len(cq') : cq'[i] = cq[i + d]

(* Every request and completion names an item that was constructed.        *)
LEMMA ItemTypes ==
  ASSUME EngineInv
  PROVE  /\ Len(heap) \in Nat /\ Len(cq) \in Nat
         /\ Objects \subseteq 1 .. MaxItems
         /\ sq \in Seq(1 .. MaxItems)
         /\ armed \in [1 .. MaxItems -> Nat]
         /\ \A i \in 1 .. Len(cq) : cq[i] \in CQE /\ cq[i].obj \in Objects
  <1>1. Len(heap) \in Nat /\ Len(heap) <= MaxItems /\ Len(cq) \in Nat
    BY LenProperties DEF EngineInv, TypeOK, PoolTypeOK
  <1>2. Objects \subseteq 1 .. MaxItems
    BY <1>1, PoolAssumption DEF Objects
  <1>3. sq \in Seq(1 .. MaxItems) /\ armed \in [1 .. MaxItems -> Nat]
    BY <1>2, SeqMonotonic DEF EngineInv, TypeOK
  <1>4. \A i \in 1 .. Len(cq) : cq[i] \in CQE
    BY ElementOfSeq DEF EngineInv, TypeOK
  <1>5. \A i \in 1 .. Len(cq) : cq[i].obj \in Objects
    BY <1>4 DEF CQE
  <1>6. QED
    BY <1>1, <1>2, <1>3, <1>4, <1>5

(* Items that are alone are constructed or not; a completion's item is.    *)
LEMMA AloneItems ==
  ASSUME EngineInv
  PROVE  /\ Alone \subseteq 1 .. MaxItems
         /\ \A x \in Objects : x \in Alone <=> ~Multishot(x)
         /\ \A x \in 1 .. MaxItems : x \notin Objects => x \in Alone
  BY ItemTypes DEF Alone, Repeats

(* The completion at the head of the queue is for the item that its id     *)
(* names (get_work_item), which is in use.  It is the only request of that *)
(* item, if the item is alone.                                             *)
LEMMA HeadOwner ==
  ASSUME ServiceInv, cq # <<>>
  PROVE  /\ Found = Completion.obj
         /\ Found \in Objects
         /\ Live(Found)
         /\ Found \in Alone => ~OnItsWay(sq, armed, Found)
         /\ \A q : q = Advanced =>
              /\ Len(q) = Len(cq) - 1
              /\ \A i \in 1 .. Len(q) : /\ q[i] = cq[i + 1]
                                        /\ Found \in Alone => q[i].obj # Found
  <1>1. cq \in Seq(CQE) /\ Len(cq) \in Nat \ {0}
    BY EmptySeq DEF ServiceInv, EngineInv, TypeOK
  <1>2. Completion = cq[1] /\ 1 \in 1 .. Len(cq)
    BY <1>1 DEF Completion
  <1>3. /\ Completion.obj \in Objects
        /\ Live(Completion.obj)
        /\ Completion.obj \in Alone => ~OnItsWay(sq, armed, Completion.obj)
    BY <1>2, ItemTypes DEF ServiceInv, RequestsInv, OneCompletion, RequestsAreLive
  <1>4. Found = Completion.obj
    BY <1>3 DEF ServiceInv, EngineInv, PoolInv, InUseItemsOwnTheirSlot, Live, Found,
                get_work_item, user_data
  <1>5. /\ Len(Advanced) = Len(cq) - 1
        /\ \A i \in 1 .. Len(cq) - 1 : Advanced[i] = cq[i + 1]
    BY <1>1, EmptySeq, HeadTailProperties DEF Advanced
  <1>6. \A i \in 1 .. Len(cq) - 1 : i + 1 \in 1 .. Len(cq) /\ i + 1 # 1
    BY <1>1
  <1>7. \A i \in 1 .. Len(cq) - 1 : Completion.obj \in Alone => cq[i + 1].obj # Completion.obj
    BY <1>2, <1>6 DEF ServiceInv, RequestsInv, OneCompletion
  <1>8. QED
    BY <1>3, <1>4, <1>5, <1>7

(* Issuing a request for an item with nothing on its way, or for a         *)
(* multishot receive.                                                      *)
LEMMA IssueKeepsRequests ==
  ASSUME EngineInv, RequestsInv, EngineInv',
         NEW o \in 1 .. MaxItems, NEW d \in {0, 1},
         o \in Alone => ~OnItsWay(sq, armed, o), submit(o),
         Drops(d), o \in Alone => \A i \in 1 .. Len(cq') : cq'[i].obj # o,
         Objects' = Objects \cup {o},
         \A x \in Objects : Multishot(x)' <=> Multishot(x),
         heap'[o].m_state = "IN_USE", heap'[o].m_work_type # "UNKNOWN",
         \A x \in Objects \ {o} : heap'[x] = heap[x]
  PROVE  RequestsInv'
  <1>1. /\ Len(cq) \in Nat /\ Len(cq') \in Nat
        /\ sq \in Seq(1 .. MaxItems) /\ armed \in [1 .. MaxItems -> Nat]
        /\ \A i \in 1 .. Len(cq) : cq[i].obj \in Objects
        /\ Objects \subseteq 1 .. MaxItems /\ Alone \subseteq 1 .. MaxItems
    <2>1. Len(cq') \in Nat
      BY LenProperties DEF EngineInv, TypeOK
    <2>2. QED
      BY <2>1, ItemTypes, AloneItems
  <1>2. /\ Exclusive(Alone, sq', armed')
        /\ \A x \in 1 .. MaxItems : OnItsWay(sq', armed', x) => x = o \/ OnItsWay(sq, armed, x)
    BY <1>1, SubmitExclusive DEF RequestsInv
  <1>10. Alone' \subseteq Alone
    BY DEF Alone, Repeats
  <1>3. \A i \in 1 .. Len(cq') : i + d \in 1 .. Len(cq) /\ cq'[i] = cq[i + d]
    BY <1>1 DEF Drops
  <1>4. \A i, j \in 1 .. Len(cq') : cq'[i].obj \in Alone' /\ cq'[i].obj = cq'[j].obj => i = j
    <2>1. \A i, j \in 1 .. Len(cq') : i + d = j + d => i = j
      BY <1>1
    <2>2. \A m, n \in 1 .. Len(cq) : cq[m].obj \in Alone /\ cq[m].obj = cq[n].obj => m = n
      BY DEF RequestsInv, OneCompletion
    <2>3. ASSUME NEW i \in 1 .. Len(cq'), NEW j \in 1 .. Len(cq'),
                 cq'[i].obj \in Alone', cq'[i].obj = cq'[j].obj
          PROVE  i = j
      <3>1. /\ i + d \in 1 .. Len(cq) /\ cq'[i] = cq[i + d]
            /\ j + d \in 1 .. Len(cq) /\ cq'[j] = cq[j + d]
        BY <1>3
      <3>2. cq[i + d].obj \in Alone /\ cq[i + d].obj = cq[j + d].obj
        BY <1>10, <2>3, <3>1
      <3>3. i + d = j + d
        BY ONLY <2>2, <3>1, <3>2
      <3>4. QED
        BY <2>1, <3>3
    <2>4. QED
      BY <2>3
  <1>5. \A i \in 1 .. Len(cq') : cq'[i].obj \in Alone' => ~OnItsWay(sq', armed', cq'[i].obj)
    <2>1. \A i \in 1 .. Len(cq') : cq'[i].obj \in Alone' =>
            /\ ~OnItsWay(sq, armed, cq'[i].obj)
            /\ cq'[i].obj \in 1 .. MaxItems
            /\ cq'[i].obj # o
      BY <1>1, <1>3, <1>10 DEF RequestsInv, OneCompletion
    <2>2. QED
      BY <1>2, <2>1
  <1>6. \A x \in 1 .. MaxItems : OnItsWay(sq', armed', x) =>
          x \in Objects' /\ heap'[x].m_state = "IN_USE" /\ heap'[x].m_work_type # "UNKNOWN"
    BY <1>2 DEF RequestsInv, RequestsAreLive, Live
  <1>7. \A i \in 1 .. Len(cq') :
          heap'[cq'[i].obj].m_state = "IN_USE" /\ heap'[cq'[i].obj].m_work_type # "UNKNOWN"
    <2>1. ASSUME NEW i \in 1 .. Len(cq')
          PROVE  /\ heap'[cq'[i].obj].m_state = "IN_USE"
                 /\ heap'[cq'[i].obj].m_work_type # "UNKNOWN"
      <3>1. cq'[i].obj \in Objects /\ Live(cq'[i].obj)
        BY <1>1, <1>3 DEF RequestsInv, RequestsAreLive
      <3>2. QED
        BY <3>1 DEF Live
    <2>2. QED
      BY <2>1
  <1>8. HeldItemsAreInUse'
    <2>1. \A x \in Objects' \ {o} : /\ heap'[x] = heap[x] /\ x \in Objects
                                   /\ Multishot(x)' <=> Multishot(x)
      OBVIOUS
    <2>2. \A x \in Objects' \ {o} :
            heap'[x].m_work_type = "UNKNOWN" \/ Multishot(x)' => heap'[x].m_state = "IN_USE"
      BY <2>1 DEF RequestsInv, HeldItemsAreInUse
    <2>3. QED
      BY <2>2 DEF HeldItemsAreInUse
  <1>9. Exclusive(Alone', sq', armed')
    BY <1>2, <1>10 DEF Exclusive
  <1>11. OneCompletion'
    BY <1>4, <1>5 DEF OneCompletion
  <1>12. RequestsAreLive'
    BY <1>6, <1>7 DEF RequestsAreLive, Live
  <1>13. QED
    BY <1>8, <1>9, <1>11, <1>12 DEF RequestsInv

(* A step that issues nothing, and frees or adds items without a request.  *)
LEMMA QuietStepKeepsRequests ==
  ASSUME EngineInv, RequestsInv, EngineInv', NEW d \in {0, 1}, Drops(d),
         UNCHANGED <<sq, armed>>,
         Objects \subseteq Objects',
         \A x \in Objects : \/ heap'[x] = heap[x]
                            \/ /\ ~OnItsWay(sq, armed, x)
                               /\ \A i \in 1 .. Len(cq') : cq'[i].obj # x
                               /\ heap'[x].m_work_type # "UNKNOWN"
                               /\ ~Multishot(x),
         \A x \in Objects : Multishot(x)' <=> Multishot(x),
         \A x \in Objects' \ Objects : heap'[x].m_state = "IN_USE"
  PROVE  RequestsInv'
  <1>1. /\ Len(cq) \in Nat /\ Len(cq') \in Nat
        /\ \A i \in 1 .. Len(cq) : cq[i].obj \in Objects
    <2>1. Len(cq') \in Nat
      BY LenProperties DEF EngineInv, TypeOK
    <2>2. QED
      BY <2>1, ItemTypes
  <1>2. \A i \in 1 .. Len(cq') : i + d \in 1 .. Len(cq) /\ cq'[i] = cq[i + d]
    BY <1>1 DEF Drops
  <1>10. Alone' \subseteq Alone
    BY DEF Alone, Repeats
  <1>3. \A i, j \in 1 .. Len(cq') : cq'[i].obj \in Alone' /\ cq'[i].obj = cq'[j].obj => i = j
    <2>1. \A i, j \in 1 .. Len(cq') : i + d = j + d => i = j
      BY <1>1
    <2>2. \A m, n \in 1 .. Len(cq) : cq[m].obj \in Alone /\ cq[m].obj = cq[n].obj => m = n
      BY DEF RequestsInv, OneCompletion
    <2>3. QED
      BY <1>2, <1>10, <2>1, <2>2
  <1>4. \A i \in 1 .. Len(cq') : cq'[i].obj \in Alone' => ~OnItsWay(sq, armed, cq'[i].obj)
    BY <1>2, <1>10 DEF RequestsInv, OneCompletion
  <1>5. \A x \in 1 .. MaxItems : OnItsWay(sq, armed, x) =>
          x \in Objects' /\ heap'[x].m_state = "IN_USE" /\ heap'[x].m_work_type # "UNKNOWN"
    BY DEF RequestsInv, RequestsAreLive, Live
  <1>6. \A i \in 1 .. Len(cq') :
          heap'[cq'[i].obj].m_state = "IN_USE" /\ heap'[cq'[i].obj].m_work_type # "UNKNOWN"
    <2>1. ASSUME NEW i \in 1 .. Len(cq')
          PROVE  /\ heap'[cq'[i].obj].m_state = "IN_USE"
                 /\ heap'[cq'[i].obj].m_work_type # "UNKNOWN"
      <3>1. cq'[i].obj \in Objects /\ Live(cq'[i].obj)
        BY <1>1, <1>2 DEF RequestsInv, RequestsAreLive
      <3>2. heap'[cq'[i].obj] = heap[cq'[i].obj]
        BY <3>1
      <3>3. QED
        BY <3>1, <3>2 DEF Live
    <2>2. QED
      BY <2>1
  <1>7. HeldItemsAreInUse'
    <2>1. \A x \in Objects :
            heap'[x].m_work_type = "UNKNOWN" \/ Multishot(x)' => heap'[x].m_state = "IN_USE"
      BY DEF RequestsInv, HeldItemsAreInUse
    <2>2. QED
      BY <2>1 DEF HeldItemsAreInUse
  <1>8. sq' = sq /\ armed' = armed
    OBVIOUS
  <1>9. Exclusive(Alone', sq', armed')
    BY <1>8, <1>10 DEF RequestsInv, Exclusive
  <1>11. OneCompletion'
    BY <1>3, <1>4, <1>8 DEF OneCompletion
  <1>12. RequestsAreLive'
    BY <1>5, <1>6, <1>8 DEF RequestsAreLive, Live
  <1>13. QED
    BY <1>7, <1>9, <1>11, <1>12 DEF RequestsInv

(* The code never changes the type of an item while it stores an address   *)
(* length in it.                                                           *)
LEMMA LengthKeepsType ==
  ASSUME EngineInv, NEW o \in Objects, NEW len,
         heap' = heap \/ heap' = [heap EXCEPT ![o].m_accept_sock_len = len]
  PROVE  /\ heap'[o].m_work_type = heap[o].m_work_type
         /\ heap'[o].m_socket = heap[o].m_socket
  <1>1. heap \in Seq(WorkItem) /\ o \in 1 .. Len(heap)
    BY DEF EngineInv, TypeOK, PoolTypeOK, Objects
  <1>2. heap[o] \in WorkItem /\ DOMAIN heap = 1 .. Len(heap)
    BY <1>1, ElementOfSeq, LenProperties
  <1>3. /\ [heap[o] EXCEPT !.m_accept_sock_len = len].m_work_type = heap[o].m_work_type
        /\ [heap[o] EXCEPT !.m_accept_sock_len = len].m_socket = heap[o].m_socket
    BY <1>2 DEF WorkItem
  <1>4. CASE heap' = [heap EXCEPT ![o].m_accept_sock_len = len]
    <2>1. heap' = [heap EXCEPT ![o] = [heap[o] EXCEPT !.m_accept_sock_len = len]]
      BY <1>4
    <2>2. heap'[o] = [heap[o] EXCEPT !.m_accept_sock_len = len]
      <3> DEFINE new == [heap[o] EXCEPT !.m_accept_sock_len = len]
      <3> HIDE DEF new
      <3>1. heap' = [heap EXCEPT ![o] = new]
        BY <2>1 DEF new
      <3>2. heap'[o] = new
        BY <1>1, <1>2, <3>1
      <3>3. QED
        BY <3>2 DEF new
    <2>3. QED
      BY <1>3, <2>2
  <1>5. QED
    BY <1>4

(* What decides whether a receive is multishot does not change.            *)
LEMMA KindIsKept ==
  ASSUME NEW x, heap'[x].m_work_type = heap[x].m_work_type,
         heap'[x].m_socket = heap[x].m_socket
  PROVE  Multishot(x)' <=> Multishot(x)
  BY DEF Multishot, is_stream

(* A completion without IORING_CQE_F_MORE replaces its request; one with   *)
(* it is for a multishot receive.                                          *)
LEMMA PostKeepsRequests ==
  ASSUME ServiceInv, EngineInv', NEW o \in Objects, NEW res,
         NEW buffer \in 0 .. Published - 1 \cup {NULL},
         NEW more \in BOOLEAN, more => Multishot(o),
         Post(o, res, more, buffer),
         \/ heap' = heap
         \/ heap' = [heap EXCEPT ![o].m_accept_sock_len = SockaddrLen]
  PROVE  ServiceInv'
  <1>0. /\ EngineInv /\ RequestsInv
        /\ Len(cq) \in Nat
        /\ cq \in Seq(CQE)
        /\ sq \in Seq(1 .. MaxItems) /\ armed \in [1 .. MaxItems -> Nat]
        /\ \A i \in 1 .. Len(cq) : cq[i].obj \in Objects
        /\ Objects \subseteq 1 .. MaxItems /\ Alone \subseteq 1 .. MaxItems
    BY ItemTypes, AloneItems DEF ServiceInv, EngineInv, TypeOK
  <1> DEFINE c == [obj |-> o, res |-> res, more |-> more, buffer |-> buffer]
  <1>1. /\ cq' = Append(cq, c)
        /\ UNCHANGED <<m_work_items, m_free_ids, init_result, sq, calling, failed>>
        /\ c \in CQE
    <2>1. /\ cq' = Append(cq, c)
          /\ UNCHANGED <<m_work_items, m_free_ids, init_result, sq, calling, failed>>
      BY <1>0, PostTyped
    <2>2. res \in Results
      BY IOUringAssumption DEF Post
    <2>3. QED
      BY <2>1, <2>2 DEF CQE
  <1>2. c.obj = o
    OBVIOUS
  <1> HIDE DEF c
  <1>3. /\ Len(cq') = Len(cq) + 1
        /\ \A i \in 1 .. Len(cq) : cq'[i] = cq[i]
        /\ cq'[Len(cq) + 1] = c
    BY <1>0, <1>1, AppendProperties
  <1>4. armed[o] > 0 /\ armed[o] \in Nat /\ armed' = IF more THEN armed ELSE [armed EXCEPT ![o] = armed[o] - 1]
    BY <1>0 DEF Post, Disarmed
  <1>5. \A x \in 1 .. MaxItems :
          /\ armed'[x] <= armed[x] /\ armed'[x] \in Nat /\ armed[x] \in Nat
          /\ OnItsWay(sq, armed', x) => OnItsWay(sq, armed, x)
    BY <1>0, <1>4 DEF OnItsWay
  <1>6. ASSUME o \in Alone
        PROVE  /\ \A i \in 1 .. Len(cq) : cq[i].obj # o
               /\ ~OnItsWay(sq, armed', o)
    <2>1. ~more
      BY <1>6 DEF Alone, Repeats
    <2>2. armed[o] <= 1 /\ (armed[o] = 1 => ~InQueue(sq, o))
      BY <1>0, <1>6 DEF RequestsInv, Exclusive
    <2>3. armed[o] = 1
      BY <1>4, <2>2
    <2>4. armed'[o] = 0
      BY <1>0, <1>4, <2>1, <2>3
    <2>5. OnItsWay(sq, armed, o)
      BY <2>3 DEF OnItsWay
    <2>6. \A i \in 1 .. Len(cq) : cq[i].obj # o
      BY <1>0, <1>6, <2>5 DEF RequestsInv, OneCompletion
    <2>7. QED
      BY <2>2, <2>3, <2>4, <2>6 DEF OnItsWay
  <1>7. \A x \in Objects : /\ heap'[x].m_state = heap[x].m_state
                           /\ heap'[x].m_work_type = heap[x].m_work_type
                           /\ heap'[x].m_socket = heap[x].m_socket
    BY <1>0, <1>1, WriteItemTyped, LengthKeepsType
  <1>8. Objects' = Objects /\ Alone' = Alone
    <2>1. Objects' = Objects
      BY <1>0, <1>1, WriteItemTyped
    <2>2. \A x \in Objects : Multishot(x)' <=> Multishot(x)
      BY <1>7, KindIsKept
    <2>3. QED
      BY <2>1, <2>2 DEF Alone, Repeats
  <1>9. Exclusive(Alone, sq', armed')
    <2>1. \A x \in Alone : x \in 1 .. MaxItems /\ armed[x] <= 1
      BY <1>0 DEF RequestsInv, Exclusive
    <2>2. \A x \in Alone : armed'[x] <= 1 /\ (armed'[x] = 1 => armed[x] = 1)
      BY <1>5, <2>1
    <2>3. QED
      BY <1>0, <1>1, <2>2 DEF RequestsInv, Exclusive
  <1>10. OneCompletion'
    <2>1. 1 .. Len(cq') = (1 .. Len(cq)) \cup {Len(cq) + 1}
      BY <1>0, <1>3
    <2>2. \A i \in 1 .. Len(cq') : cq'[i].obj = IF i = Len(cq) + 1 THEN o ELSE cq[i].obj
      BY <1>2, <1>3, <2>1
    <2>3. \A i, j \in 1 .. Len(cq') : cq'[i].obj \in Alone /\ cq'[i].obj = cq'[j].obj => i = j
      <3>1. \A i, j \in 1 .. Len(cq) : cq[i].obj \in Alone /\ cq[i].obj = cq[j].obj => i = j
        BY <1>0 DEF RequestsInv, OneCompletion
      <3>2. QED
        BY <1>0, <1>6, <2>1, <2>2, <3>1
    <2>4. \A i \in 1 .. Len(cq') : cq'[i].obj \in Alone => ~OnItsWay(sq, armed', cq'[i].obj)
      <3>1. \A i \in 1 .. Len(cq) : cq[i].obj \in Alone => ~OnItsWay(sq, armed, cq[i].obj)
        BY <1>0 DEF RequestsInv, OneCompletion
      <3>2. QED
        BY <1>0, <1>5, <1>6, <2>1, <2>2, <3>1
    <2>5. QED
      BY <1>1, <1>8, <2>3, <2>4 DEF OneCompletion
  <1>11. RequestsAreLive'
    <2>1. \A x \in 1 .. MaxItems : OnItsWay(sq, armed, x) => x \in Objects /\ Live(x)
      BY <1>0 DEF RequestsInv, RequestsAreLive
    <2>2. Live(o)
      BY <1>0, <1>4, <2>1 DEF OnItsWay
    <2>3. \A i \in 1 .. Len(cq') : cq'[i].obj \in Objects /\ Live(cq'[i].obj)
      <3>1. \A i \in 1 .. Len(cq) : Live(cq[i].obj)
        BY <1>0 DEF RequestsInv, RequestsAreLive
      <3>2. 1 .. Len(cq') = (1 .. Len(cq)) \cup {Len(cq) + 1}
        BY <1>0, <1>3
      <3>3. QED
        BY <1>0, <1>2, <1>3, <2>2, <3>1, <3>2
    <2>4. \A i \in 1 .. Len(cq') : /\ heap'[cq'[i].obj].m_state = "IN_USE"
                                   /\ heap'[cq'[i].obj].m_work_type # "UNKNOWN"
      BY <1>7, <2>3 DEF Live
    <2>5. \A x \in 1 .. MaxItems : OnItsWay(sq, armed', x) =>
            x \in Objects /\ heap'[x].m_state = "IN_USE" /\ heap'[x].m_work_type # "UNKNOWN"
      BY <1>5, <1>7, <2>1 DEF Live
    <2>6. QED
      BY <1>1, <1>8, <2>4, <2>5 DEF RequestsAreLive, Live
  <1>12. HeldItemsAreInUse'
    <2>1. \A x \in Objects : Multishot(x)' <=> Multishot(x)
      BY <1>7, KindIsKept
    <2>2. QED
      BY <1>0, <1>7, <1>8, <2>1 DEF RequestsInv, HeldItemsAreInUse
  <1>13. CallbackIsForTheHead'
    <2>1. CASE cq = <<>>
      BY <1>0, <1>1, <2>1 DEF EngineInv, CompletionIsKept, CallbackIsForTheHead
    <2>2. CASE cq # <<>>
      <3>1. Head(cq') = Head(cq)
        BY <1>0, <1>1, <2>2, HeadTailAppend
      <3>2. QED
        BY <1>1, <3>1 DEF ServiceInv, CallbackIsForTheHead, Completion
    <2>3. QED
      BY <2>1, <2>2
  <1>14. QED
    BY <1>8, <1>9, <1>10, <1>11, <1>12, <1>13 DEF ServiceInv, RequestsInv

(* The kernel keeps a request that it completed only if it is multishot.   *)
LEMMA KernelKeepsRequests ==
  ASSUME ServiceInv, EngineInv', Kernel
  PROVE  ServiceInv'
  <1>1. PICK o \in Objects : CompleteRequest(o) \/ ReceiveData(o) \/ ReceiveEOF(o) \/ ReceiveError(o)
    BY DEF Kernel
  <1>2. NULL \in 0 .. Published - 1 \cup {NULL}
    OBVIOUS
  <1>3. CASE CompleteRequest(o)
    BY <1>2, <1>3, PostKeepsRequests DEF CompleteRequest
  <1>4. CASE ReceiveData(o)
    <2>1. PICK res \in Results, more \in BOOLEAN :
            /\ Post(o, res, more, Head(buf_ring))
            /\ more => Multishot(o)
      BY <1>4 DEF ReceiveData, Multishot, Results
    <2>2. Head(buf_ring) \in 0 .. Published - 1 \cup {NULL}
      BY <1>4, HeadTailProperties DEF ReceiveData, ServiceInv, EngineInv, TypeOK
    <2>3. heap' = heap
      BY <1>4 DEF ReceiveData
    <2>4. QED
      BY <2>1, <2>2, <2>3, PostKeepsRequests
  <1>5. CASE ReceiveEOF(o)
    BY <1>2, <1>5, PostKeepsRequests DEF ReceiveEOF
  <1>6. CASE ReceiveError(o)
    BY <1>2, <1>6, PostKeepsRequests DEF ReceiveError
  <1>7. QED
    BY <1>1, <1>3, <1>4, <1>5, <1>6

(* What follows a callback frees an item whose only request is the         *)
(* completion being handled, or resubmits it.  A multishot receive is      *)
(* always resubmitted.                                                     *)
LEMMA FinishKeepsRequests ==
  ASSUME ServiceInv, EngineInv', cq # <<>>, NEW action, Finish(Found, action),
         Multishot(Found) => action = "RE_SUBMIT"
  PROVE  ServiceInv'
  <1>0. /\ EngineInv /\ RequestsInv /\ PoolIInv
        /\ Objects \subseteq 1 .. MaxItems
    BY ItemTypes DEF ServiceInv, EngineInv, TypeOK, PoolIInv
  <1>1. /\ Found \in Objects /\ Live(Found)
        /\ Found \in Alone => ~OnItsWay(sq, armed, Found)
        /\ cq' = Advanced /\ calling' = NULL
    BY HeadOwner DEF Finish
  <1>2. /\ Len(cq') = Len(cq) - 1
        /\ \A i \in 1 .. Len(cq') : cq'[i] = cq[i + 1] /\ (Found \in Alone => cq'[i].obj # Found)
    BY <1>1, HeadOwner
  <1>3. Drops(1) /\ 1 \in {0, 1}
    BY <1>2 DEF Drops
  <1>4. CASE Rearms(Found, action)
    <2>1. /\ heap' = [heap EXCEPT ![Found].m_accept_sock_len = 0]
          /\ submit(Found)
          /\ UNCHANGED <<m_work_items, m_free_ids>>
      BY <1>4 DEF Finish, ForSubmission
    <2>2. /\ Objects' = Objects
          /\ heap'[Found].m_state = heap[Found].m_state
          /\ \A x \in Objects \ {Found} : heap'[x] = heap[x]
      BY <1>0, <1>1, <2>1, WriteItemTyped
    <2>3. /\ heap'[Found].m_work_type = heap[Found].m_work_type
          /\ heap'[Found].m_socket = heap[Found].m_socket
      BY <1>0, <1>1, <2>1, LengthKeepsType
    <2>9. \A x \in Objects : Multishot(x)' <=> Multishot(x)
      BY <2>2, <2>3, KindIsKept
    <2>4. heap'[Found].m_state = "IN_USE" /\ heap'[Found].m_work_type # "UNKNOWN"
      BY <1>1, <2>2, <2>3 DEF Live
    <2>5. Objects' = Objects \cup {Found} /\ Found \in 1 .. MaxItems
      BY <1>0, <1>1, <2>2
    <2>6. Found \in Alone => \A i \in 1 .. Len(cq') : cq'[i].obj # Found
      BY <1>2
    <2>7. RequestsInv'
      BY <1>0, <1>1, <1>3, <2>1, <2>2, <2>4, <2>5, <2>6, <2>9, IssueKeepsRequests
    <2>8. QED
      BY <1>1, <2>7 DEF ServiceInv, CallbackIsForTheHead
  <1>5. CASE ~Rearms(Found, action)
    <2>1. free_work_item(user_data(Completion)) /\ UNCHANGED <<sq, armed, failed>>
      BY <1>5 DEF Finish
    <2>2. user_data(Completion) \in Ids /\ Slot(user_data(Completion)) = Found
      BY <1>0, CompletionTyped DEF Found, get_work_item
    <2>3. /\ Objects' = Objects
          /\ \A x \in Objects : /\ heap'[x].m_work_type = heap[x].m_work_type
                                /\ heap'[x].m_socket = heap[x].m_socket
          /\ \A x \in Objects \ {Found} : heap'[x] = heap[x]
      BY <1>0, <2>1, <2>2, FreeEffect
    <2>8. ~Multishot(Found) /\ Found \in Alone
      <3>1. ~Multishot(Found)
        BY <1>5 DEF Rearms, Is, Multishot
      <3>2. QED
        BY <1>0, <1>1, <3>1, AloneItems
    <2>9. \A x \in Objects : Multishot(x)' <=> Multishot(x)
      BY <2>3, KindIsKept
    <2>4. \A x \in Objects : \/ heap'[x] = heap[x]
                             \/ /\ ~OnItsWay(sq, armed, x)
                                /\ \A i \in 1 .. Len(cq') : cq'[i].obj # x
                                /\ heap'[x].m_work_type # "UNKNOWN"
                                /\ ~Multishot(x)
      BY <1>1, <1>2, <2>3, <2>8 DEF Live
    <2>5. Objects \subseteq Objects' /\ Objects' \ Objects = {}
      BY <2>3
    <2>6. RequestsInv'
      BY <1>0, <1>3, <2>1, <2>4, <2>5, <2>9, QuietStepKeepsRequests
    <2>7. QED
      BY <1>1, <2>6 DEF ServiceInv, CallbackIsForTheHead
  <1>6. QED
    BY <1>4, <1>5

(* A step that leaves items and requests alone, except that it may drop    *)
(* the completion at the head of the queue.                                *)
LEMMA RingStepKeepsRequests ==
  ASSUME ServiceInv, EngineInv', NEW d \in {0, 1}, Drops(d),
         UNCHANGED <<pool_vars, sq, armed>>
  PROVE  RequestsInv'
  <1>1. heap' = heap
    BY DEF pool_vars
  <1>2. Objects' = Objects
    BY <1>1 DEF Objects
  <1>3. \A x \in Objects : Multishot(x)' <=> Multishot(x)
    BY <1>1, KindIsKept
  <1>4. QED
    BY <1>1, <1>2, <1>3, QuietStepKeepsRequests DEF ServiceInv

(* A step that leaves the completion queue alone takes nothing off it.     *)
LEMMA DropsNothing ==
  ASSUME EngineInv, cq' = cq
  PROVE  Drops(0) /\ 0 \in {0, 1}
  <1>1. Len(cq) \in Nat /\ \A i \in 1 .. Len(cq) : i + 0 = i
    BY ItemTypes
  <1>2. QED
    BY <1>1 DEF Drops

(* A request of a new item, or the first one of an acquired send item.     *)
LEMMA ApplicationKeepsRequests ==
  ASSUME ServiceInv, EngineInv', Application
  PROVE  ServiceInv'
  <1>0. /\ EngineInv /\ RequestsInv /\ PoolIInv
        /\ Objects \subseteq 1 .. MaxItems
        /\ \A i \in 1 .. Len(cq) : cq[i].obj \in Objects
        /\ \A x \in 1 .. MaxItems : OnItsWay(sq, armed, x) => x \in Objects /\ Live(x)
        /\ \A i \in 1 .. Len(cq) : Live(cq[i].obj)
    BY ItemTypes DEF ServiceInv, EngineInv, TypeOK, PoolIInv, RequestsInv, RequestsAreLive
  <1>1. ASSUME NEW s \in Sockets, NEW t \in Types \ {"UNKNOWN"}, AllocAndSubmit(s, t)
        PROVE  ServiceInv'
    <2>1. /\ internal_alloc_work_item(s, t)
          /\ submit(NewObject)
          /\ cq' = cq /\ calling' = calling
      BY <1>1 DEF AllocAndSubmit
    <2>2. /\ Objects' = Objects \cup {NewObject}
          /\ NewObject \notin Objects
          /\ \A x \in Objects : heap'[x] = heap[x]
          /\ heap'[NewObject].m_work_type # "UNKNOWN"
          /\ heap'[NewObject].m_state = "IN_USE"
      BY <1>0, <2>1, AllocEffect
    <2>3. NewObject \in 1 .. MaxItems
      <3>1. Objects' \subseteq 1 .. MaxItems
        <4>1. Len(heap') \in Nat /\ Len(heap') <= MaxItems
          BY LenProperties DEF EngineInv, TypeOK, PoolTypeOK
        <4>2. QED
          BY <4>1, PoolAssumption DEF Objects
      <3>2. QED
        BY <2>2, <3>1
    <2>4. ~OnItsWay(sq, armed, NewObject) /\ \A i \in 1 .. Len(cq') : cq'[i].obj # NewObject
      BY <1>0, <2>1, <2>2, <2>3
    <2>5. Drops(0) /\ 0 \in {0, 1}
      BY <1>0, <2>1, DropsNothing
    <2>6. \A x \in Objects : Multishot(x)' <=> Multishot(x)
      BY <2>2, KindIsKept
    <2>7. RequestsInv'
      BY <1>0, <2>1, <2>2, <2>3, <2>4, <2>5, <2>6, IssueKeepsRequests
    <2>8. QED
      BY <2>1, <2>7 DEF ServiceInv, CallbackIsForTheHead, Completion
  <1>2. ASSUME NEW s \in Sockets, submit_accept(s) \/ submit_recv(s) \/ submit_close(s)
        PROVE  ServiceInv'
    BY <1>1, <1>2 DEF submit_accept, submit_recv, submit_close, Types
  <1>3. ASSUME NEW s \in Sockets, ackuire_send_workitem(s)
        PROVE  ServiceInv'
    <2>1. /\ internal_alloc_work_item(s, "UNKNOWN") /\ "UNKNOWN" \in Types
          /\ UNCHANGED ring_vars
      BY <1>3 DEF ackuire_send_workitem, Types
    <2>2. /\ Objects' = Objects \cup {NewObject}
          /\ \A x \in Objects : heap'[x] = heap[x]
          /\ heap'[NewObject].m_state = "IN_USE"
      BY <1>0, <2>1, AllocEffect
    <2>3. cq' = cq /\ calling' = calling /\ UNCHANGED <<sq, armed>>
      BY <2>1 DEF ring_vars
    <2>4. Drops(0) /\ 0 \in {0, 1}
      BY <1>0, <2>3, DropsNothing
    <2>5. \A x \in Objects : Multishot(x)' <=> Multishot(x)
      BY <2>2, KindIsKept
    <2>6. RequestsInv'
      BY <1>0, <2>2, <2>3, <2>4, <2>5, QuietStepKeepsRequests
    <2>7. QED
      BY <2>3, <2>6 DEF ServiceInv, CallbackIsForTheHead, Completion
  <1>4. ASSUME NEW s \in Sockets, NEW family \in ConnectTargets, submit_connect(s, family)
        PROVE  ServiceInv'
    <2>1. CASE AllocAndSubmit(s, "CONNECT")
      BY <1>1, <2>1 DEF Types
    <2>2. CASE Fail("submit: m_connect_sock_len")
      <3>1. UNCHANGED <<pool_vars, sq, armed>> /\ cq' = cq /\ calling' = calling
        BY <2>2 DEF Fail
      <3>2. RequestsInv'
        BY <1>0, <3>1, DropsNothing, RingStepKeepsRequests
      <3>3. QED
        BY <3>1, <3>2 DEF ServiceInv, CallbackIsForTheHead, Completion
    <2>3. QED
      BY <1>4, <2>1, <2>2 DEF submit_connect
  <1>5. ASSUME NEW o \in Objects, submit_send(o)
        PROVE  ServiceInv'
    <2>1. /\ heap[o].m_work_type = "UNKNOWN"
          /\ heap' = [heap EXCEPT ![o].m_work_type = SendType(o)]
          /\ SendType(o) \in Types \ {"UNKNOWN"}
          /\ submit(o)
          /\ UNCHANGED <<m_work_items, m_free_ids>>
          /\ cq' = cq /\ calling' = calling
      BY <1>5 DEF submit_send, SendType, Types, SendTypes
    <2>2. /\ Objects' = Objects
          /\ heap'[o].m_state = heap[o].m_state
          /\ \A x \in Objects \ {o} : heap'[x] = heap[x]
      BY <1>0, <2>1, WriteItemTyped
    <2>3. heap'[o].m_work_type = SendType(o)
      <3>1. heap \in Seq(WorkItem) /\ o \in 1 .. Len(heap)
        BY <1>0 DEF EngineInv, TypeOK, PoolTypeOK, Objects
      <3>2. heap[o] \in WorkItem /\ DOMAIN heap = 1 .. Len(heap)
        BY <3>1, ElementOfSeq, LenProperties
      <3>3. QED
        BY <2>1, <3>1, <3>2 DEF WorkItem
    <2>4. heap'[o].m_state = "IN_USE" /\ heap'[o].m_work_type # "UNKNOWN"
      BY <1>0, <2>1, <2>2, <2>3 DEF RequestsInv, HeldItemsAreInUse
    <2>5. ~Live(o)
      BY <2>1 DEF Live
    <2>6. ~OnItsWay(sq, armed, o) /\ \A i \in 1 .. Len(cq') : cq'[i].obj # o
      BY <1>0, <2>1, <2>5
    <2>7. Drops(0) /\ 0 \in {0, 1}
      BY <1>0, <2>1, DropsNothing
    <2>8. Objects' = Objects \cup {o} /\ o \in 1 .. MaxItems
      BY <1>0, <2>2
    <2>9. \A x \in Objects : Multishot(x)' <=> Multishot(x)
      <3>1. SendType(o) # "RECV"
        BY DEF SendType
      <3>2. ~Multishot(o) /\ ~Multishot(o)'
        BY <2>1, <2>3, <3>1 DEF Multishot
      <3>3. \A x \in Objects \ {o} : Multishot(x)' <=> Multishot(x)
        BY <2>2, KindIsKept
      <3>4. QED
        BY <3>2, <3>3
    <2>10. RequestsInv'
      BY <1>0, <2>1, <2>2, <2>4, <2>6, <2>7, <2>8, <2>9, IssueKeepsRequests
    <2>11. QED
      BY <2>1, <2>10 DEF ServiceInv, CallbackIsForTheHead, Completion
  <1>6. QED
    BY <1>2, <1>3, <1>4, <1>5 DEF Application

(* The engine starts without requests.                                     *)
LEMMA ServiceInitInv == Init => ServiceInv
  <1> SUFFICES ASSUME Init
               PROVE  ServiceInv
    OBVIOUS
  <1>1. /\ Len(sq) = 0 /\ Len(cq) = 0 /\ Len(heap) = 0 /\ calling = NULL
        /\ armed = [o \in 1 .. MaxItems |-> 0]
    BY EmptySeq DEF Init, PoolInit
  <1>2. EngineInv
    BY EngineInitInv
  <1>3. QED
    BY <1>1, <1>2 DEF ServiceInv, RequestsInv, Exclusive, InQueue, OnItsWay, OneCompletion,
                      RequestsAreLive, HeldItemsAreInUse, Objects, CallbackIsForTheHead,
                      Alone

(* Without datagram sockets no receive is multishot.                       *)
LEMMA OnlyDatagramsRepeat ==
  ASSUME DatagramSockets = {}
  PROVE  /\ \A x : ~Multishot(x)
         /\ Alone = 1 .. MaxItems
  BY DEF Multishot, is_stream, Alone, Repeats

(* Every step keeps the requests, if handlers of datagrams go on           *)
(* receiving.                                                              *)
LEMMA ServiceStep ==
  ASSUME DatagramsGoOn
  PROVE  ServiceInv /\ [Next]_vars => ServiceInv'
  <1> SUFFICES ASSUME ServiceInv, [Next]_vars
               PROVE  ServiceInv'
    OBVIOUS
  <1>0. EngineInv /\ EngineInv'
    BY EngineStep DEF ServiceInv
  <1>1. ASSUME UNCHANGED <<pool_vars, sq, armed>>, cq' = cq, calling' = calling
        PROVE  ServiceInv'
    <2>1. RequestsInv'
      BY <1>0, <1>1, DropsNothing, RingStepKeepsRequests
    <2>2. QED
      BY <1>0, <1>1, <2>1 DEF ServiceInv, CallbackIsForTheHead, Completion
  <1>2. CASE \E result \in InitResults : init(result)
    BY <1>1, <1>2 DEF init
  <1>3. CASE Application
    BY <1>0, <1>3, ApplicationKeepsRequests
  <1>4. CASE Kernel
    BY <1>0, <1>4, KernelKeepsRequests
  <1>5. CASE PollDrop
    <2>1. /\ cq # <<>> /\ cq' = Advanced /\ calling' = NULL
          /\ UNCHANGED <<pool_vars, sq, armed>>
      BY <1>5 DEF PollDrop, CanPoll
    <2>2. Drops(1) /\ 1 \in {0, 1}
      BY <2>1, HeadOwner DEF Drops
    <2>3. RequestsInv'
      BY <1>0, <2>1, <2>2, RingStepKeepsRequests
    <2>4. QED
      BY <1>0, <2>1, <2>3 DEF ServiceInv, CallbackIsForTheHead
  <1>6. CASE PollFail
    BY <1>1, <1>6 DEF PollFail, Fail
  <1>7. CASE PollSilently
    <2>1. cq # <<>> /\ Finish(Found, "RE_SUBMIT")
      BY <1>7 DEF PollSilently, Dispatches, CanPoll
    <2>2. QED
      BY <1>0, <2>1, FinishKeepsRequests
  <1>8. CASE PollCall
    <2>1. /\ cq # <<>> /\ cq' = cq /\ calling' = Found
          /\ UNCHANGED <<pool_vars, sq, armed>>
      BY <1>8 DEF PollCall, Dispatches, CanPoll
    <2>2. Found = Completion.obj
      BY <2>1, HeadOwner
    <2>3. RequestsInv'
      BY <1>0, <2>1, DropsNothing, RingStepKeepsRequests
    <2>4. QED
      BY <1>0, <2>1, <2>2, <2>3 DEF ServiceInv, CallbackIsForTheHead, Completion
  <1>9. CASE CallbackReturn
    <2>1. /\ cq # <<>> /\ calling = Found
          /\ \E action \in HandlerReturns(calling) : Finish(calling, action)
      BY <1>0, <1>9, HeadOwner DEF CallbackReturn, EngineInv, CompletionIsKept,
                                    ServiceInv, CallbackIsForTheHead
    <2>2. PICK action \in HandlerReturns(Found) : Finish(Found, action)
      BY <2>1
    <2>3. Multishot(Found) => action = "RE_SUBMIT"
      BY <2>2, OnlyDatagramsRepeat DEF HandlerReturns, DatagramsGoOn
    <2>4. QED
      BY <1>0, <2>1, <2>2, <2>3, FinishKeepsRequests
  <1>10. CASE UNCHANGED vars
    BY <1>1, <1>10 DEF vars, ring_vars
  <1>11. QED
    BY <1>2, <1>3, <1>4, <1>5, <1>6, <1>7, <1>8, <1>9, <1>10 DEF Next, poll_completion_queues

(* ServiceInv says what the runs check.                                    *)
LEMMA ServiceInvImplies ==
  ASSUME ServiceInv
  PROVE  /\ OutstandingItemIsLive
         /\ CallbackGetsItsOwnResult
         /\ DatagramSockets = {} => OneRequestPerItem
  <1>0. /\ EngineInv /\ RequestsInv
        /\ Objects \subseteq 1 .. MaxItems
        /\ DOMAIN sq = 1 .. Len(sq) /\ DOMAIN cq = 1 .. Len(cq)
        /\ armed \in [1 .. MaxItems -> Nat]
        /\ \A i \in DOMAIN sq : sq[i] \in 1 .. MaxItems
        /\ \A i \in DOMAIN cq : cq[i].obj \in Objects
    <2>1. DOMAIN sq = 1 .. Len(sq) /\ DOMAIN cq = 1 .. Len(cq)
      BY LenProperties DEF ServiceInv, EngineInv, TypeOK
    <2>2. QED
      BY <2>1, ItemTypes, ElementOfSeq DEF ServiceInv
  <1>1. OutstandingItemIsLive
    BY <1>0 DEF OutstandingItemIsLive, Outstanding, Queued, Completed, RequestsInv,
                RequestsAreLive, OnItsWay, InQueue
  <1>2. ASSUME DatagramSockets = {}
        PROVE  OneRequestPerItem
    <2>0. Alone = 1 .. MaxItems
      BY <1>2, OnlyDatagramsRepeat
    <2>1. \A i, j \in DOMAIN sq : sq[i] = sq[j] => i = j
      BY <1>0, <2>0 DEF RequestsInv, Exclusive
    <2>2. \A i, j \in DOMAIN cq : cq[i].obj = cq[j].obj => i = j
      BY <1>0, <2>0 DEF RequestsInv, OneCompletion
    <2>3. ASSUME NEW o \in Objects
          PROVE  /\ armed[o] <= 1
                 /\ armed[o] = 1 => ~Queued(o) /\ ~Completed(o)
                 /\ ~(Queued(o) /\ Completed(o))
      <3>1. armed[o] <= 1 /\ (armed[o] = 1 => ~InQueue(sq, o))
        BY <1>0, <2>0 DEF RequestsInv, Exclusive
      <3>2. Completed(o) => ~OnItsWay(sq, armed, o)
        BY <1>0, <2>0 DEF RequestsInv, OneCompletion, Completed
      <3>3. Queued(o) <=> InQueue(sq, o)
        BY <1>0 DEF Queued, InQueue
      <3>4. QED
        BY <3>1, <3>2, <3>3 DEF OnItsWay
    <2>4. QED
      BY <2>1, <2>2, <2>3 DEF OneRequestPerItem
  <1>3. CallbackGetsItsOwnResult
    BY <1>0, HeadOwner DEF CallbackGetsItsOwnResult, ServiceInv, CallbackIsForTheHead, EngineInv,
                           CompletionIsKept
  <1>4. QED
    BY <1>1, <1>2, <1>3

(* With any number of items and sockets, streams and datagrams, any        *)
(* results, and submissions that fail or stop early: a request on its way  *)
(* belongs to an item in use, and each callback is told the result of its  *)
(* own request (poll_completion_queues, IOUring.cpp), provided the handler *)
(* of a datagram always returns RE_SUBMIT.                                 *)
THEOREM RequestsAreSafe ==
  ASSUME DatagramsGoOn
  PROVE  Spec => [](OutstandingItemIsLive /\ CallbackGetsItsOwnResult)
  <1>1. ServiceInv => OutstandingItemIsLive /\ CallbackGetsItsOwnResult
    BY ServiceInvImplies
  <1>2. ServiceInv /\ [Next]_vars => ServiceInv'
    BY ServiceStep
  <1>3. QED
    BY <1>1, <1>2, ServiceInitInv, PTL DEF Spec

(* Without datagram sockets an item has one request at most, so its msghdr *)
(* and its address buffer are never shared (submit, IOUring.cpp).          *)
THEOREM StreamsHaveOneRequest ==
  ASSUME DatagramSockets = {}
  PROVE  Spec => []OneRequestPerItem
  <1>1. ServiceInv => OneRequestPerItem
    BY ServiceInvImplies
  <1>2. ServiceInv /\ [Next]_vars => ServiceInv'
    BY ServiceStep DEF DatagramsGoOn
  <1>3. QED
    BY <1>1, <1>2, ServiceInitInv, PTL DEF Spec

-----------------------------------------------------------------------------
(* The ids that the engine passes to io_uring.                             *)

(* The engine changes m_work_items only by allocating and freeing items.   *)
LEMMA EngineStepOfPool ==
  ASSUME EngineInv, [Next]_vars
  PROVE  \/ \E s \in Sockets, t \in Types : internal_alloc_work_item(s, t)
         \/ \E id \in Ids : free_work_item(id)
         \/ UNCHANGED m_work_items
  <1>1. ASSUME cq # <<>>, NEW o, NEW action, Finish(o, action)
        PROVE  (\E id \in Ids : free_work_item(id)) \/ UNCHANGED m_work_items
    BY <1>1, CompletionTyped DEF Finish
  <1>2. CASE Application
    BY <1>2 DEF Application, submit_accept, submit_recv, submit_close, submit_connect,
                ackuire_send_workitem, submit_send, AllocAndSubmit, Fail, Types, pool_vars
  <1>3. CASE Kernel
    BY <1>3 DEF Kernel, CompleteRequest, ReceiveData, ReceiveEOF, ReceiveError, Post
  <1>4. CASE poll_completion_queues
    BY <1>1, <1>4 DEF poll_completion_queues, PollDrop, PollFail, PollSilently, PollCall,
                      Dispatches, CanPoll, Fail, pool_vars
  <1>5. CASE CallbackReturn
    BY <1>1, <1>5 DEF CallbackReturn, EngineInv, CompletionIsKept
  <1>6. CASE (\E result \in InitResults : init(result)) \/ UNCHANGED vars
    BY <1>6 DEF init, vars, pool_vars
  <1>7. QED
    BY <1>2, <1>3, <1>4, <1>5, <1>6 DEF Next

(* The user data of the engine's requests are ids of an id allocator, with *)
(* datagram sockets too: no two live items share an id, and an id beyond   *)
(* the range in use is taken only when all ids in it are.                  *)
THEOREM EngineImplementsIdAllocator == Spec => ImplementsIdAllocator
  <1>1. Init => Allocator!Init
    BY EmptySeq DEF Init, PoolInit, Allocator!Init, UsedIds, Ids
  <1>2. EngineInv /\ [Next]_vars => [Allocator!Next]_(Allocator!vars)
    <2> SUFFICES ASSUME EngineInv, [Next]_vars
                 PROVE  [Allocator!Next]_(Allocator!vars)
      OBVIOUS
    <2>1. PoolIInv
      BY DEF EngineInv, TypeOK, PoolIInv
    <2>2. QED
      BY <2>1, EngineStepOfPool, AllocatorStep
  <1>3. QED
    BY <1>1, <1>2, EngineInitInv, EngineStep, PTL DEF Spec, ImplementsIdAllocator, Allocator!Spec

=============================================================================
