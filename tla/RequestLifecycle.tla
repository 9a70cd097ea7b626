-------------------------- MODULE RequestLifecycle --------------------------
(***************************************************************************)
(* What the completion engine promises about each request an application   *)
(* makes: it is issued once, the kernel answers it, and the answer is told *)
(* to the application by one callback, during which no other callback      *)
(* runs.  Then the request is over, or it is issued again (accept, and a   *)
(* receive whose handler asks for it), never while it is outstanding.      *)
(* Some answers are not told: the request is then over without a callback, *)
(* issued again, or left with nothing outstanding.                         *)
(***************************************************************************)
CONSTANT Requests

VARIABLES
  status,  (* of each request                              *)
  alive    (* FALSE once an assertion or abort ended it all *)

vars == <<status, alive>>

Statuses == {"absent", "held", "pending", "completed", "calling", "lost", "done"}

Init ==
  /\ status = [r \in Requests |-> "absent"]
  /\ alive = TRUE

Become(r, new) == status' = [status EXCEPT ![r] = new]

(* Issuing a request leaves it pending, unless it is the end of it all.    *)
Issued(r) ==
  \/ Become(r, "pending") /\ UNCHANGED alive
  \/ Become(r, "lost") /\ alive' = FALSE

Hold(r) == status[r] = "absent" /\ Become(r, "held") /\ UNCHANGED alive

Issue(r) == status[r] \in {"absent", "held"} /\ Issued(r)

(* The kernel answers.                                                     *)
Complete(r) == status[r] = "pending" /\ Become(r, "completed") /\ UNCHANGED alive

Quiet == \A r \in Requests : status[r] # "calling"

Call(r) ==
  /\ status[r] = "completed"
  /\ Quiet
  /\ Become(r, "calling")
  /\ UNCHANGED alive

(* The answer is dealt with: after its callback, or without one.           *)
Settled(r) == status[r] = "calling" \/ (status[r] = "completed" /\ Quiet)

End(r) == Settled(r) /\ Become(r, "done") /\ UNCHANGED alive

Reissue(r) == Settled(r) /\ Issued(r)

(* An answer is dropped and the request neither ended nor issued again.    *)
Lose(r) ==
  /\ status[r] = "completed"
  /\ Quiet
  /\ Become(r, "lost")
  /\ UNCHANGED alive

Die == alive' = FALSE /\ UNCHANGED status

Next ==
  /\ alive
  /\ \/ \E r \in Requests : \/ Hold(r)    \/ Issue(r)
                            \/ Complete(r) \/ Call(r)
                            \/ End(r) \/ Reissue(r) \/ Lose(r)
     \/ Die

Spec == Init /\ [][Next]_vars

=============================================================================
