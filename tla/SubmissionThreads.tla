-------------------------- MODULE SubmissionThreads --------------------------
(***************************************************************************)
(* IOUring::submit, get_sqe and submit_all_requests as several threads run *)
(* them: the memory that liburing shares with the kernel, step by step.    *)
(*                                                                         *)
(* The alloc_*_work_item functions of the pool submit while they hold      *)
(* m_mutex.  The polling thread that re-arms an accept or a receive, and   *)
(* submit_stream_data and submit_packet, submit without it.  io_uring has  *)
(* no lock of its own in user space.                                       *)
(*                                                                         *)
(* A request is a number; what it writes into its entry is that number,    *)
(* once as the user data and once as the operation with its arguments.     *)
(***************************************************************************)
EXTENDS Naturals, Sequences

CONSTANTS
  NULL,         (* no owner of the mutex                                  *)
  Threads,      (* threads that submit requests                           *)
  Unlocked,     (* those of them that also do so without m_mutex          *)
  QueueSize,    (* m_queue_size: entries of the submission queue          *)
  SubmitFaults, (* may io_uring_submit take fewer entries than given?     *)
  MaxRequests   (* bound: how many requests are submitted                 *)

ASSUME ThreadsAssumption ==
  /\ NULL \notin Threads
  /\ Unlocked \subseteq Threads
  /\ QueueSize \in Nat \ {0}
  /\ SubmitFaults \in BOOLEAN
  /\ MaxRequests \in Nat

VARIABLES
  sqes,      (* the entries: what was last written into each              *)
  sqe_tail,  (* entries handed out by io_uring_get_sqe, ever              *)
  khead,     (* entries taken by the kernel, ever                         *)
  taken,     (* what it took, in order                                    *)
  m_mutex,   (* the thread that holds it, or NULL                         *)
  pc,        (* each thread: where it is in submit                        *)
  local,     (* each thread: its request, and the tail it read            *)
  submitted, (* how many requests were begun                              *)
  failed     (* did get_sqe abort?                                        *)

vars == <<sqes, sqe_tail, khead, taken, m_mutex, pc, local, submitted, failed>>

Slots == 0 .. QueueSize - 1
SlotOf(n) == n % QueueSize
Requests == 1 .. MaxRequests
Entry == [user_data : Requests \cup {0}, op : Requests \cup {0}]

Init ==
  /\ sqes = [s \in Slots |-> [user_data |-> 0, op |-> 0]]
  /\ sqe_tail = 0
  /\ khead = 0
  /\ taken = <<>>
  /\ m_mutex = NULL
  /\ pc = [t \in Threads |-> "IDLE"]
  /\ local = [t \in Threads |-> [request |-> 0, tail |-> 0]]
  /\ submitted = 0
  /\ failed = FALSE

-----------------------------------------------------------------------------
Goto(t, from, to) ==
  /\ ~failed
  /\ pc[t] = from
  /\ pc' = [pc EXCEPT ![t] = to]

Faulty_Acquire(t) == UNCHANGED m_mutex
(* The lock_guard of alloc_*_work_item; the other callers have none.       *)
Acquire(t) ==
  \/ m_mutex = NULL /\ m_mutex' = t
  \/ t \in Unlocked /\ UNCHANGED m_mutex

Faulty_Release(t) == UNCHANGED m_mutex
Release(t) == m_mutex' = IF m_mutex = t THEN NULL ELSE m_mutex

(* A thread has an item to submit: a new one, or one to arm again.         *)
Begin(t) ==
  /\ submitted < MaxRequests
  /\ Goto(t, "IDLE", "WAIT")
  /\ submitted' = submitted + 1
  /\ local' = [local EXCEPT ![t].request = submitted + 1]
  /\ UNCHANGED <<sqes, sqe_tail, khead, taken, m_mutex, failed>>

(* The lock_guard, if this caller has one; then submit calls get_sqe.      *)
Enter(t) ==
  /\ Goto(t, "WAIT", "GET")
  /\ Acquire(t)
  /\ UNCHANGED <<sqes, sqe_tail, khead, taken, local, submitted, failed>>

Faulty_HasRoom == sqe_tail - khead <= QueueSize
HasRoom == sqe_tail - khead < QueueSize

(* io_uring_get_sqe reads the tail,                                        *)
ReadTail(t, from) ==
  /\ HasRoom
  /\ Goto(t, from, "CLAIM")
  /\ local' = [local EXCEPT ![t].tail = sqe_tail]
  /\ UNCHANGED <<sqes, sqe_tail, khead, taken, m_mutex, submitted, failed>>

(* and advances it: the entry is the thread's.                             *)
Claim(t) ==
  /\ Goto(t, "CLAIM", "DATA")
  /\ sqe_tail' = local[t].tail + 1
  /\ UNCHANGED <<sqes, khead, taken, m_mutex, local, submitted, failed>>

MySlot(t) == SlotOf(local[t].tail)

(* io_uring_sqe_set_data                                                   *)
SetData(t) ==
  /\ Goto(t, "DATA", "PREP")
  /\ sqes' = [sqes EXCEPT ![MySlot(t)].user_data = local[t].request]
  /\ UNCHANGED <<sqe_tail, khead, taken, m_mutex, local, submitted, failed>>

(* the switch over the type of the item                                    *)
Prepare(t) ==
  /\ Goto(t, "PREP", "SUBMIT")
  /\ sqes' = [sqes EXCEPT ![MySlot(t)].op = local[t].request]
  /\ UNCHANGED <<sqe_tail, khead, taken, m_mutex, local, submitted, failed>>

(* io_uring_submit: the kernel takes the entries up to the tail, or fewer. *)
(* Two unlocked threads can set the tail back behind the head; what the    *)
(* kernel does after that is not modelled.                                 *)
Flushed ==
  /\ \E k \in IF SubmitFaults THEN khead .. sqe_tail ELSE {sqe_tail} :
       /\ khead' = k
       /\ taken' = taken \o [i \in 1 .. k - khead |-> sqes[SlotOf(khead + i - 1)]]
  /\ UNCHANGED <<sqes, sqe_tail, local, submitted>>

(* get_sqe on a full queue: flush, try again, abort.                       *)
FlushFull(t) ==
  /\ ~HasRoom
  /\ Goto(t, "GET", "RETRY")
  /\ Flushed
  /\ UNCHANGED <<m_mutex, failed>>

Abort(t) ==
  /\ ~HasRoom
  /\ Goto(t, "RETRY", "RETRY")
  /\ failed' = TRUE
  /\ UNCHANGED <<sqes, sqe_tail, khead, taken, m_mutex, local, submitted>>

(* submit_all_requests, and the end of the critical section.               *)
Submit(t) ==
  /\ Goto(t, "SUBMIT", "IDLE")
  /\ Flushed
  /\ Release(t)
  /\ UNCHANGED failed

Step(t) ==
  \/ Enter(t) \/ ReadTail(t, "GET") \/ FlushFull(t) \/ ReadTail(t, "RETRY") \/ Abort(t)
  \/ Claim(t) \/ SetData(t) \/ Prepare(t) \/ Submit(t)

Next == \E t \in Threads : Begin(t) \/ Step(t)

Spec == Init /\ [][Next]_vars

(* A thread that has something to submit goes on whenever it can.          *)
FairSpec == Spec /\ \A t \in Threads : WF_vars(Step(t))

-----------------------------------------------------------------------------
(* Properties.                                                             *)

Places == {"IDLE", "WAIT", "GET", "RETRY", "CLAIM", "DATA", "PREP", "SUBMIT"}

(* Type invariant; the tail never runs away from the head, so the entries  *)
(* that wait are all in the array.                                         *)
TypeOK ==
  /\ sqes \in [Slots -> Entry]
  /\ khead \in Nat /\ sqe_tail \in khead .. khead + QueueSize
  /\ taken \in Seq(Entry)
  /\ m_mutex \in Threads \cup {NULL}
  /\ pc \in [Threads -> Places]
  /\ local \in [Threads -> [request : Requests \cup {0}, tail : Nat]]
  /\ submitted \in 0 .. MaxRequests
  /\ failed \in BOOLEAN

Waiting == {sqes[SlotOf(n)].op : n \in khead .. sqe_tail - 1}
InProgress == {local[t].request : t \in {u \in Threads : pc[u] # "IDLE"}}

(* "Submits the work item for processing." (IWorkItem.hpp:52): a request   *)
(* that was submitted waits in the queue, or the kernel took an entry that *)
(* is all of that request, not half of it and half of the request that had *)
(* the slot before, whose id may belong to another item by now.            *)
NoRequestIsLost ==
  \A r \in 1 .. submitted :
    \/ r \in Waiting \cup InProgress
    \/ \E i \in DOMAIN taken : taken[i].op = r /\ taken[i].user_data = r

(* Every call of submit returns, unless it aborts: no thread waits for     *)
(* ever for the mutex or for room in the queue.                            *)
SubmissionsEnd == \A t \in Threads : pc[t] # "IDLE" ~> (failed \/ pc[t] = "IDLE")

(* The entry handed out last counts only once it was written.              *)
Unwritten == \E t \in Threads : pc[t] \in {"DATA", "PREP", "SUBMIT"}
Visible == IF Unwritten THEN sqe_tail - 1 ELSE sqe_tail

Atomic == INSTANCE AtomicSubmission
  WITH Room <- QueueSize,
       pending <- [i \in 1 .. Visible - khead |-> sqes[SlotOf(khead + i - 1)].op],
       taken <- [i \in DOMAIN taken |-> taken[i].op],
       ended <- failed

(* Submissions that are all made under the mutex, or by one thread, are    *)
(* atomic.                                                                 *)
ImplementsAtomicSubmission == Atomic!Spec

=============================================================================
