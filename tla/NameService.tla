----------------------------- MODULE NameService -----------------------------
(***************************************************************************)
(* What resolve_hostname promises its callers, without entries, threads    *)
(* and memory: a handler is called at most once, and what it is told is    *)
(* what the resolver found out about the name it was given for.  A name    *)
(* that is an address already is known from the start.                     *)
(***************************************************************************)
EXTENDS Naturals, Sequences

CONSTANTS
  Names,      (* host names                                               *)
  Literals,   (* the names that are addresses                             *)
  Failed,     (* the answer HOSTNAME_RESOLVE_FAILED                       *)
  Unknown     (* stands for no answer yet                                 *)

VARIABLES
  asked,      (* asked[h]: the name handler h was given for               *)
  known,      (* known[n]: what is known of a name                        *)
  told        (* told[h]: the answers handler h was called with           *)

names_vars == <<asked, known, told>>

Init ==
  /\ asked = <<>>
  /\ known = [n \in Names |-> IF n \in Literals THEN n ELSE Unknown]
  /\ told = <<>>

Ask(n) ==
  /\ asked' = Append(asked, n)
  /\ \/ told' = Append(told, <<>>)
     \/ known[n] # Unknown /\ told' = Append(told, <<known[n]>>)
  /\ UNCHANGED known

Learn(n) ==
  /\ known[n] = Unknown
  /\ \E r \in {n, Failed} : known' = [known EXCEPT ![n] = r]
  /\ UNCHANGED <<asked, told>>

Tell(h) ==
  /\ told[h] = <<>>
  /\ known[asked[h]] # Unknown
  /\ told' = [told EXCEPT ![h] = <<known[asked[h]]>>]
  /\ UNCHANGED <<asked, known>>

Next ==
  \/ \E n \in Names : Ask(n) \/ Learn(n)
  \/ \E h \in DOMAIN asked : Tell(h)

Spec == Init /\ [][Next]_names_vars

=============================================================================
