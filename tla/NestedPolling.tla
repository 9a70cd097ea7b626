---------------------------- MODULE NestedPolling ----------------------------
(***************************************************************************)
(* poll_completion_queues called by a callback.                            *)
(*                                                                         *)
(* The completion queue is advanced only after the callback returned, so a *)
(* callback that polls (to wait for something, say) finds its own          *)
(* completion at the head of the queue again.  The module IOUring rules    *)
(* this out; here requests are as simple as can be, with one completion    *)
(* each and no resubmission, and polls nest.  An item may then be freed by *)
(* the callback of another one, or twice (ReturnFails); what the pool      *)
(* promises about its ids must hold all the same.                          *)
(***************************************************************************)
EXTENDS WorkPool

CONSTANT Depth   (* how many calls of poll_completion_queues may be active *)

ASSUME DepthAssumption == Depth \in Nat

VARIABLES
  cq,      (* the completion queue: items whose request completed          *)
  posted,  (* the items whose request ever completed                       *)
  active,  (* the ids being dispatched, the innermost poll last            *)
  failed   (* "NO", or what ended the process                              *)

vars == <<pool_vars, cq, posted, active, failed>>

Init ==
  /\ PoolInit
  /\ cq = <<>>
  /\ posted = {}
  /\ active = <<>>
  /\ failed = "NO"

Submit(s) ==
  /\ failed = "NO"
  /\ internal_alloc_work_item(s, "RECV")
  /\ UNCHANGED <<cq, posted, active, failed>>

(* The kernel ends a request, whatever became of its item. *)
Complete(o) ==
  /\ failed = "NO"
  /\ o \notin posted
  /\ posted' = posted \cup {o}
  /\ cq' = Append(cq, o)
  /\ UNCHANGED <<pool_vars, active, failed>>

CanPoll == failed = "NO" /\ cq # <<>> /\ Len(active) < Depth

HeadId == heap[Head(cq)].m_id

(* The id names no item: the completion is dropped. *)
PollDrop ==
  /\ CanPoll
  /\ get_work_item(HeadId) = NULL
  /\ cq' = Tail(cq)
  /\ UNCHANGED <<pool_vars, posted, active, failed>>

PollCall ==
  /\ CanPoll
  /\ get_work_item(HeadId) # NULL
  /\ active' = Append(active, HeadId)
  /\ UNCHANGED <<pool_vars, cq, posted, failed>>

Innermost == active[Len(active)]

(* The callback of the innermost poll returns: its item is freed by id and *)
(* the queue is advanced by one, whatever its head is now.                 *)
Return ==
  /\ failed = "NO"
  /\ active # <<>>
  /\ CanFree(Innermost)
  /\ cq # <<>>
  /\ free_work_item(Innermost)
  /\ cq' = Tail(cq)
  /\ active' = SubSeq(active, 1, Len(active) - 1)
  /\ UNCHANGED <<posted, failed>>

(* An assertion of free_work_item fails, or the head of the queue is moved *)
(* past its tail.                                                          *)
ReturnFails ==
  /\ failed = "NO"
  /\ active # <<>>
  /\ \/ ~CanFree(Innermost) /\ failed' = "free_work_item"
     \/ CanFree(Innermost) /\ cq = <<>> /\ failed' = "io_uring_cq_advance"
  /\ UNCHANGED <<pool_vars, cq, posted, active>>

Next ==
  \/ \E s \in Sockets : Submit(s)
  \/ \E o \in Objects : Complete(o)
  \/ PollDrop \/ PollCall \/ Return \/ ReturnFails

Spec == Init /\ [][Next]_vars

=============================================================================
