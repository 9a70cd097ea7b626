----------------------------- MODULE IdAllocator -----------------------------
(***************************************************************************)
(* What WorkPool promises about the ids it passes to io_uring as user      *)
(* data: an id names at most one live work item, the ids in circulation    *)
(* are the dense range 0 .. size-1, and that range grows only when every   *)
(* id in it is taken.  Which of several free ids is handed out is left     *)
(* open; WorkPool implements it with a stack.                              *)
(***************************************************************************)
EXTENDS Integers

VARIABLES
  used,   (* the ids that name a live work item     *)
  size    (* the number of ids ever put in circulation *)

vars == <<used, size>>

Init ==
  /\ used = {}
  /\ size = 0

(* Hand out an id that was released before. *)
Reuse ==
  /\ \E id \in (0 .. size - 1) \ used : used' = used \cup {id}
  /\ UNCHANGED size

(* Put a new id in circulation: only when none is free. *)
Grow ==
  /\ used = 0 .. size - 1
  /\ used' = used \cup {size}
  /\ size' = size + 1

Release ==
  /\ \E id \in used : used' = used \ {id}
  /\ UNCHANGED size

Next == Reuse \/ Grow \/ Release

Spec == Init /\ [][Next]_vars

=============================================================================
