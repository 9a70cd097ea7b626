-------------------------- MODULE AtomicSubmission --------------------------
(***************************************************************************)
(* A submission queue whose users queue and flush a request in one step:   *)
(* every request is taken by the kernel at most once, whole, and in the    *)
(* order of submission.  The module IOUring takes submit to be such a step.*)
(***************************************************************************)
EXTENDS Naturals, Sequences

CONSTANTS
  Room,     (* how many requests the queue holds                          *)
  Requests  (* the requests, each submitted once                          *)

VARIABLES
  pending,  (* queued and not yet taken, oldest first                     *)
  taken,    (* what the kernel took, in order                             *)
  ended     (* did a full queue end the process?                          *)

submission_vars == <<pending, taken, ended>>

Init == pending = <<>> /\ taken = <<>> /\ ended = FALSE

IsNew(r) == \A s \in {pending, taken} : \A i \in DOMAIN s : s[i] # r

(* The kernel takes the first k of the requests q. *)
Take(q, k) ==
  /\ taken' = taken \o SubSeq(q, 1, k)
  /\ pending' = SubSeq(q, k + 1, Len(q))
  /\ UNCHANGED ended

Submit(r) ==
  /\ ~ended
  /\ Len(pending) < Room
  /\ IsNew(r)
  /\ \E k \in 0 .. Len(pending) + 1 : Take(Append(pending, r), k)

Flush == ~ended /\ \E k \in 0 .. Len(pending) : Take(pending, k)

End ==
  /\ Len(pending) = Room
  /\ ended' = TRUE
  /\ UNCHANGED <<pending, taken>>

Next == (\E r \in Requests : Submit(r)) \/ Flush \/ End

Spec == Init /\ [][Next]_submission_vars

=============================================================================
