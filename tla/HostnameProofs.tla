---------------------------- MODULE HostnameProofs ----------------------------
(***************************************************************************)
(* That callers of resolve_hostname who take turns are told, in the order  *)
(* of their calls, what the lookup of their own name ended with: for any   *)
(* number of names, calls and addresses that requests can have.            *)
(*                                                                         *)
(* The argument: a name has one entry and at most one lookup, and until    *)
(* that lookup is reported the entry holds its request (LookupsFit), so    *)
(* that no other lookup can be taken for it, although the address of a     *)
(* freed request is used again: the entry that gets it is past the end of  *)
(* every walk that looks for the old one.  The handlers of the entry up to *)
(* the one that was called last were told the outcome, and no other was    *)
(* told anything (ToldInTurn).                                             *)
(*                                                                         *)
(* Nothing is said of when a vector moves: Moved is never expanded.        *)
(***************************************************************************)
EXTENDS HostnameResolve, SequenceTheorems, TLAPS

Busy(t) == resolving[t] # Idle
IsOwn(k, e) == entries[e].hostname = lookups[k].hostname

(* What the request of lookup k contains once the lookup ended. *)
Reported(k) == IF lookups[k].outcome = Failed THEN NULL ELSE lookups[k].outcome

(* How many handlers of its entry the thread of lookup k has called. *)
DoneWith(k) == IF lookups[k].pc = "CALL" THEN lookups[k].next - 1
               ELSE IF lookups[k].pc = "HANDLER" THEN lookups[k].next
               ELSE lookups[k].end

(* A name has one entry and one lookup. *)
NamesDiffer ==
  /\ \A e \in DOMAIN entries : entries[e].hostname \notin Literals
  /\ \A e, f \in DOMAIN entries : entries[e].hostname = entries[f].hostname => e = f
  /\ \A k, l \in Lookups : lookups[k].hostname = lookups[l].hostname => k = l
  /\ \A k \in Lookups : \E e \in DOMAIN entries : IsOwn(k, e)

(* What a thread that is in resolve_hostname relies on. *)
EmplaceFits(t) ==
  /\ resolving[t].name \in Names \ Literals
  /\ EntriesOf(resolving[t].name) = {}

StartFits(t) ==
  /\ entries # <<>>
  /\ entries[Len(entries)].hostname = resolving[t].name
  /\ entries[Len(entries)].request = resolving[t].request
  /\ resolving[t].request \in Addresses
  /\ sig = resolving[t].request
  /\ gaicb[sig] = NULL
  /\ \A k \in Lookups : lookups[k].hostname # resolving[t].name

(* Threads take turns; the thread that resolves has its lookup still to    *)
(* start, so that there are no more lookups than calls.                    *)
OneResolves ==
  /\ \A t, u \in Threads : Busy(t) /\ Busy(u) => t = u
  /\ \A t \in Threads : Busy(t) =>
       /\ Len(lookups) < Len(asked)
       /\ resolving[t].step = "EMPLACE" => EmplaceFits(t)
       /\ resolving[t].step = "START" => StartFits(t)
  /\ \A t \in Threads : resolving[t].step = "IDLE" => ~Busy(t)
  /\ Len(lookups) <= Len(asked)

(* No entry points to a freed request, no two entries to the same one. *)
RequestsApart ==
  \A e, f \in DOMAIN entries : entries[e].request # NULL =>
    /\ gaicb[entries[e].request] # "FREE"
    /\ entries[e].request = entries[f].request => e = f

StillToReport(k, e) ==
  \/ lookups[k].pc \in {"PENDING", "ENDED"}
  \/ lookups[k].pc = "WALK" /\ lookups[k].at <= e

(* Lookup k and its entry e. *)
LookupFits(k, e) ==
  /\ lookups[k].ptr = lookups[k].request
  /\ lookups[k].pc = "PENDING" => gaicb[lookups[k].request] = NULL
  /\ lookups[k].pc # "PENDING" => lookups[k].outcome # NULL
  /\ StillToReport(k, e) =>
       /\ entries[e].request = lookups[k].request
       /\ lookups[k].pc # "PENDING" => gaicb[lookups[k].request] = Reported(k)
       /\ lookups[k].end = 0
  /\ lookups[k].pc \notin {"PENDING", "ENDED"} =>
       /\ lookups[k].at >= 1
       /\ e <= lookups[k].last /\ lookups[k].last <= Len(entries)
       /\ \A f \in 1 .. lookups[k].last : f # e => entries[f].request # lookups[k].request
  /\ lookups[k].end <= Len(entries[e].handlers)
  /\ lookups[k].pc \in {"CALL", "HANDLER"} =>
       /\ lookups[k].at = e
       /\ lookups[k].result = lookups[k].outcome
       /\ lookups[k].next >= 1
       /\ lookups[k].next <= lookups[k].end + (IF lookups[k].pc = "CALL" THEN 1 ELSE 0)

LookupsFit == \A k \in Lookups, e \in DOMAIN entries : IsOwn(k, e) => LookupFits(k, e)

(* A handler is in one place of one entry, that of its name. *)
ListedOnce ==
  \A e \in DOMAIN entries : \A i, j \in DOMAIN entries[e].handlers :
    /\ entries[e].handlers[i] \in Handlers
    /\ asked[entries[e].handlers[i]] = entries[e].hostname
    /\ entries[e].handlers[i] = entries[e].handlers[j] => i = j

(* The handlers of an entry are told the outcome one after the other. *)
ToldInTurn ==
  \A e \in DOMAIN entries : \A i \in DOMAIN entries[e].handlers :
    /\ \A k \in Lookups : IsOwn(k, e) /\ i <= DoneWith(k) =>
         told[entries[e].handlers[i]] = <<lookups[k].outcome>>
    /\ (\A k \in Lookups : IsOwn(k, e) => i > DoneWith(k)) => told[entries[e].handlers[i]] = <<>>

HostInv ==
  /\ TypeOK
  /\ NamesDiffer
  /\ OneResolves
  /\ RequestsApart
  /\ LookupsFit
  /\ ListedOnce
  /\ ToldInTurn

-----------------------------------------------------------------------------
USE DEF entries

(* Types.                                                                  *)

(* A sequence and the elements of its domain. *)
LEMMA SeqFacts ==
  ASSUME NEW S, NEW q \in Seq(S)
  PROVE  /\ Len(q) \in Nat /\ DOMAIN q = 1 .. Len(q)
         /\ \A i \in 1 .. Len(q) : q[i] \in S
  OBVIOUS

(* An element more at the end. *)
LEMMA AppendFacts ==
  ASSUME NEW S, NEW q \in Seq(S), NEW x \in S
  PROVE  /\ Append(q, x) \in Seq(S)
         /\ Len(Append(q, x)) = Len(q) + 1
         /\ DOMAIN Append(q, x) = 1 .. Len(q) + 1
         /\ \A i \in 1 .. Len(q) : Append(q, x)[i] = q[i]
         /\ Append(q, x)[Len(q) + 1] = x
  BY AppendProperties

(* Another element in place i. *)
LEMMA ExceptFacts ==
  ASSUME NEW S, NEW q \in Seq(S), NEW i \in 1 .. Len(q), NEW x \in S
  PROVE  /\ [q EXCEPT ![i] = x] \in Seq(S)
         /\ Len([q EXCEPT ![i] = x]) = Len(q)
         /\ DOMAIN [q EXCEPT ![i] = x] = 1 .. Len(q)
         /\ \A j \in 1 .. Len(q) : j # i => [q EXCEPT ![i] = x][j] = q[j]
         /\ [q EXCEPT ![i] = x][i] = x
  BY ExceptSeq

ResolvingRecords ==
  [step : {"IDLE", "EMPLACE", "START"}, name : Names \cup {NULL},
   request : Addresses \cup {NULL}, size : Nat]

(* What the type invariant says of each entry. *)
LEMMA EntryTypes ==
  ASSUME TypeOK
  PROVE  /\ Len(entries) \in Nat /\ DOMAIN entries = 1 .. Len(entries)
         /\ \A e \in DOMAIN entries :
              /\ entries[e] \in RequestInfos
              /\ entries[e].hostname \in Names
              /\ entries[e].request \in Addresses \cup {NULL}
              /\ entries[e].handlers \in Seq(1 .. MaxCalls)
              /\ Len(entries[e].handlers) \in Nat
              /\ DOMAIN entries[e].handlers = 1 .. Len(entries[e].handlers)
  <1>1. entries \in Seq(RequestInfos)
    BY DEF TypeOK
  <1>2. /\ Len(entries) \in Nat /\ DOMAIN entries = 1 .. Len(entries)
        /\ \A e \in DOMAIN entries : entries[e] \in RequestInfos
    BY <1>1, SeqFacts
  <1>3. \A e \in DOMAIN entries :
          /\ entries[e].hostname \in Names
          /\ entries[e].request \in Addresses \cup {NULL}
          /\ entries[e].handlers \in Seq(1 .. MaxCalls)
    BY <1>2 DEF RequestInfos
  <1>4. \A e \in DOMAIN entries :
          /\ Len(entries[e].handlers) \in Nat
          /\ DOMAIN entries[e].handlers = 1 .. Len(entries[e].handlers)
    BY <1>3, SeqFacts
  <1>5. QED
    BY <1>2, <1>3, <1>4

(* What the type invariant says of each lookup. *)
LEMMA LookupTypes ==
  ASSUME TypeOK
  PROVE  /\ Len(lookups) \in Nat /\ Lookups = 1 .. Len(lookups)
         /\ Lookups \subseteq 1 .. MaxCalls /\ MaxCalls \in Nat
         /\ \A k \in Lookups : lookups[k] \in LookupRecords
         /\ \A k \in Lookups :
              /\ lookups[k].hostname \in Names
              /\ lookups[k].request \in Addresses /\ lookups[k].request # NULL
              /\ lookups[k].ptr \in Addresses
              /\ lookups[k].outcome \in Names \cup {Failed, NULL}
              /\ lookups[k].result \in Names \cup {Failed, NULL}
         /\ \A k \in Lookups :
              /\ lookups[k].pc \in {"PENDING", "ENDED", "WALK", "CALL", "HANDLER"}
              /\ lookups[k].at \in Nat /\ lookups[k].last \in Nat
              /\ lookups[k].next \in Nat /\ lookups[k].end \in Nat
  <1>1. lookups \in Seq(LookupRecords) /\ Len(lookups) <= MaxCalls /\ MaxCalls \in Nat
    BY HostnameAssumption DEF TypeOK
  <1>2. /\ Len(lookups) \in Nat /\ Lookups = 1 .. Len(lookups)
        /\ Lookups \subseteq 1 .. MaxCalls
        /\ \A k \in Lookups : lookups[k] \in LookupRecords
    BY <1>1, SeqFacts DEF Lookups
  <1>3. NULL \notin Addresses
    BY HostnameAssumption
  <1>4. QED
    BY <1>1, <1>2, <1>3 DEF LookupRecords, Outcomes

(* What the type invariant says of each handler and of each thread. *)
LEMMA CallTypes ==
  ASSUME TypeOK
  PROVE  /\ Len(asked) \in Nat /\ Len(asked) <= MaxCalls
         /\ Handlers = 1 .. Len(asked) /\ DOMAIN asked = Handlers /\ DOMAIN told = Handlers
         /\ asked \in Seq(Names) /\ told \in Seq(Seq(Outcomes)) /\ Len(told) = Len(asked)
         /\ \A h \in Handlers : asked[h] \in Names /\ told[h] \in Seq(Outcomes)
         /\ gaicb \in [Addresses -> {"FREE", NULL} \cup Names]
         /\ resolving \in [Threads -> ResolvingRecords]
         /\ \A t \in Threads : resolving[t] \in ResolvingRecords
  <1>1. asked \in Seq(Names) /\ told \in Seq(Seq(Outcomes)) /\ Len(told) = Len(asked)
    BY DEF TypeOK
  <1>2. /\ Handlers = 1 .. Len(asked) /\ DOMAIN asked = Handlers /\ DOMAIN told = Handlers
        /\ \A h \in Handlers : asked[h] \in Names /\ told[h] \in Seq(Outcomes)
    BY <1>1, SeqFacts DEF Handlers
  <1>3. QED
    BY <1>1, <1>2 DEF TypeOK, ResolvingRecords

-----------------------------------------------------------------------------
(* What stays when a lookup's thread takes a step.                         *)

(* Lookup k becomes r. *)
LEMMA LookupChanges ==
  ASSUME TypeOK, NEW k \in Lookups, NEW r \in LookupRecords,
         lookups' = [lookups EXCEPT ![k] = r]
  PROVE  /\ lookups' \in Seq(LookupRecords) /\ Len(lookups') = Len(lookups)
         /\ Lookups' = Lookups
         /\ lookups'[k] = r
         /\ \A l \in Lookups : l # k => lookups'[l] = lookups[l]
  <1>1. lookups \in Seq(LookupRecords) /\ k \in 1 .. Len(lookups)
    BY DEF TypeOK, Lookups
  <1>2. QED
    BY <1>1, ExceptFacts DEF Lookups

(* The type invariant after a step of a lookup's thread. *)
LEMMA TypesAfterLookupStep ==
  ASSUME TypeOK,
         lookups' \in Seq(LookupRecords), Len(lookups') = Len(lookups),
         entries' \in Seq(RequestInfos),
         gaicb' \in [Addresses -> {"FREE", NULL} \cup Names],
         told' \in Seq(Seq(Outcomes)), Len(told') = Len(told),
         failed' \in BOOLEAN,
         UNCHANGED <<sig, resolving, asked>>
  PROVE  TypeOK'
  BY DEF TypeOK, Threads

(* Who owns what when no name changes. *)
LEMMA NamesStay ==
  ASSUME NamesDiffer, Lookups' = Lookups, DOMAIN entries' = DOMAIN entries,
         \A l \in Lookups : lookups'[l].hostname = lookups[l].hostname,
         \A e \in DOMAIN entries : entries'[e].hostname = entries[e].hostname
  PROVE  /\ NamesDiffer'
         /\ \A l \in Lookups, e \in DOMAIN entries : IsOwn(l, e)' <=> IsOwn(l, e)
  BY DEF NamesDiffer, IsOwn

(* The entry of a lookup. *)
LEMMA OwnEntry ==
  ASSUME HostInv, NEW k \in Lookups
  PROVE  \E e \in DOMAIN entries :
           /\ IsOwn(k, e) /\ LookupFits(k, e)
           /\ \A f \in DOMAIN entries : IsOwn(k, f) => f = e
           /\ \A l \in Lookups : IsOwn(l, e) => l = k
  BY DEF HostInv, NamesDiffer, LookupsFit, IsOwn

(* Lookups that are not reported yet have requests of their own. *)
LEMMA RequestsOfLookupsDiffer ==
  ASSUME HostInv, NEW k \in Lookups, NEW l \in Lookups, k # l,
         NEW e \in DOMAIN entries, NEW f \in DOMAIN entries, IsOwn(k, e), IsOwn(l, f),
         StillToReport(k, e), StillToReport(l, f)
  PROVE  lookups[k].request # lookups[l].request
  <1>1. /\ entries[e].request = lookups[k].request
        /\ entries[f].request = lookups[l].request
    BY DEF HostInv, LookupsFit, LookupFits
  <1>2. lookups[k].request # NULL
    BY LookupTypes DEF HostInv
  <1>3. e # f
    BY DEF HostInv, NamesDiffer, IsOwn
  <1>4. QED
    BY <1>1, <1>2, <1>3 DEF HostInv, RequestsApart

(* The request of the lookup that is about to start is another one's. *)
LEMMA NewRequestDiffers ==
  ASSUME HostInv, NEW t \in Threads, Busy(t), resolving[t].step = "START",
         NEW k \in Lookups, NEW e \in DOMAIN entries, IsOwn(k, e)
  PROVE  /\ e # Len(entries) /\ Len(entries) \in DOMAIN entries
         /\ StillToReport(k, e) => lookups[k].request # sig
  <1>1. StartFits(t)
    BY DEF HostInv, OneResolves
  <1>2. Len(entries) \in DOMAIN entries
    BY <1>1, EntryTypes, EmptySeq DEF HostInv, StartFits
  <1>3. e # Len(entries)
    BY <1>1, LookupTypes DEF StartFits, IsOwn
  <1>4. ASSUME StillToReport(k, e)
        PROVE  lookups[k].request # sig
    <2>1. entries[e].request = lookups[k].request /\ lookups[k].request # NULL
      BY <1>4, LookupTypes DEF HostInv, LookupsFit, LookupFits
    <2>2. entries[Len(entries)].request = sig
      BY <1>1 DEF StartFits
    <2>3. QED
      BY <1>2, <1>3, <2>1, <2>2 DEF HostInv, RequestsApart
  <1>5. QED
    BY <1>2, <1>3, <1>4

(* The thread that resolves is not disturbed by that of lookup k, which    *)
(* touches its own entry and its own request only.                         *)
LEMMA TurnsStay ==
  ASSUME HostInv, NEW k \in Lookups, NEW e \in DOMAIN entries, IsOwn(k, e),
         Lookups' = Lookups, Len(lookups') = Len(lookups),
         \A l \in Lookups : lookups'[l].hostname = lookups[l].hostname,
         DOMAIN entries' = DOMAIN entries, Len(entries') = Len(entries),
         \A f \in DOMAIN entries : entries'[f].hostname = entries[f].hostname,
         \A f \in DOMAIN entries : f # e => entries'[f].request = entries[f].request,
         \A a \in Addresses : a # lookups[k].request => gaicb'[a] = gaicb[a],
         StillToReport(k, e) \/ gaicb' = gaicb,
         UNCHANGED <<sig, resolving, asked>>
  PROVE  OneResolves'
  <1>1. ASSUME NEW t \in Threads, Busy(t), resolving[t].step = "EMPLACE"
        PROVE  EmplaceFits(t)'
    <2>1. EmplaceFits(t)
      BY <1>1 DEF HostInv, OneResolves
    <2>2. QED
      BY <2>1 DEF EmplaceFits, EntriesOf
  <1>2. ASSUME NEW t \in Threads, Busy(t), resolving[t].step = "START"
        PROVE  StartFits(t)'
    <2>1. StartFits(t)
      BY <1>2 DEF HostInv, OneResolves
    <2>2. /\ e # Len(entries) /\ Len(entries) \in DOMAIN entries
          /\ StillToReport(k, e) => lookups[k].request # sig
      BY <1>2, NewRequestDiffers
    <2>3. sig \in Addresses
      BY <2>1 DEF StartFits
    <2>4. gaicb'[sig] = NULL
      BY <2>1, <2>2, <2>3 DEF StartFits
    <2>5. entries' # <<>>
      BY <2>2
    <2>6. QED
      BY <2>1, <2>2, <2>4, <2>5 DEF StartFits
  <1>3. QED
    BY <1>1, <1>2 DEF HostInv, OneResolves, Busy

(* Nor are the other lookups. *)
LEMMA OthersFit ==
  ASSUME HostInv, NEW k \in Lookups, NEW e \in DOMAIN entries, IsOwn(k, e),
         \A l \in Lookups : l # k => lookups'[l] = lookups[l],
         Len(entries') = Len(entries),
         \A f \in DOMAIN entries : entries'[f].handlers = entries[f].handlers,
         \A f \in DOMAIN entries : f # e => entries'[f].request = entries[f].request,
         entries'[e].request \in {entries[e].request, NULL},
         \A a \in Addresses : a # lookups[k].request => gaicb'[a] = gaicb[a],
         StillToReport(k, e) \/ gaicb' = gaicb,
         NEW l \in Lookups, l # k, NEW f \in DOMAIN entries, IsOwn(l, f)
  PROVE  LookupFits(l, f)'
  <1>1. LookupFits(l, f) /\ lookups'[l] = lookups[l]
    BY DEF HostInv, LookupsFit
  <1>2. /\ lookups[l].request \in Addresses /\ lookups[l].request # NULL
        /\ Len(entries) \in Nat /\ DOMAIN entries = 1 .. Len(entries)
    BY LookupTypes, EntryTypes DEF HostInv
  <1>3. f # e
    BY DEF HostInv, NamesDiffer, IsOwn
  <1>4. StillToReport(l, f) => gaicb'[lookups[l].request] = gaicb[lookups[l].request]
    BY <1>2, RequestsOfLookupsDiffer
  <1>5. lookups[l].pc = "PENDING" => StillToReport(l, f)
    BY DEF StillToReport
  <1>6. lookups[l].pc \notin {"PENDING", "ENDED"} =>
          \A g \in 1 .. lookups[l].last : g # f => entries'[g].request # lookups[l].request
    <2>1. SUFFICES ASSUME lookups[l].pc \notin {"PENDING", "ENDED"},
                          NEW g \in 1 .. lookups[l].last, g # f
                   PROVE  entries'[g].request # lookups[l].request
      OBVIOUS
    <2>2. lookups[l].last <= Len(entries) /\ entries[g].request # lookups[l].request
      BY <1>1, <2>1 DEF LookupFits
    <2>3. g \in DOMAIN entries
      BY <1>2, <2>2, LookupTypes DEF HostInv
    <2>4. QED
      BY <1>2, <2>2, <2>3
  <1>7. StillToReport(l, f)' <=> StillToReport(l, f)
    BY <1>1 DEF StillToReport
  <1>8. Reported(l)' = Reported(l)
    BY <1>1 DEF Reported
  <1>9. QED
    BY <1>1, <1>3, <1>4, <1>5, <1>6, <1>7, <1>8 DEF LookupFits

(* What handlers were told stays right while lookup k calls none. *)
LEMMA ToldStays ==
  ASSUME HostInv, NEW k \in Lookups, Lookups' = Lookups,
         \A l \in Lookups : l # k => lookups'[l] = lookups[l],
         lookups'[k].hostname = lookups[k].hostname,
         DoneWith(k)' = DoneWith(k),
         lookups'[k].outcome = lookups[k].outcome \/ DoneWith(k) = 0,
         DOMAIN entries' = DOMAIN entries,
         \A e \in DOMAIN entries : /\ entries'[e].hostname = entries[e].hostname
                                   /\ entries'[e].handlers = entries[e].handlers,
         UNCHANGED <<told, asked>>
  PROVE  ToldInTurn' /\ ListedOnce'
  <1>1. \A l \in Lookups, e \in DOMAIN entries : IsOwn(l, e)' <=> IsOwn(l, e)
    BY NamesStay DEF HostInv
  <1>2. \A l \in Lookups : DoneWith(l)' = DoneWith(l)
    BY DEF DoneWith
  <1>3. ASSUME NEW e \in DOMAIN entries, NEW i \in DOMAIN entries[e].handlers,
               NEW l \in Lookups, IsOwn(l, e), i <= DoneWith(l)
        PROVE  told[entries[e].handlers[i]] = <<lookups'[l].outcome>>
    <2>1. told[entries[e].handlers[i]] = <<lookups[l].outcome>>
      BY <1>3 DEF HostInv, ToldInTurn
    <2>2. i \in Nat /\ i >= 1
      BY <1>3, EntryTypes DEF HostInv
    <2>3. QED
      BY <1>3, <2>1, <2>2
  <1>4. ASSUME NEW e \in DOMAIN entries, NEW i \in DOMAIN entries[e].handlers,
               \A l \in Lookups : IsOwn(l, e) => i > DoneWith(l)
        PROVE  told[entries[e].handlers[i]] = <<>>
    BY <1>4 DEF HostInv, ToldInTurn
  <1>5. ToldInTurn'
    <2>1. ASSUME NEW e \in DOMAIN entries', NEW i \in DOMAIN entries'[e].handlers,
                 NEW l \in Lookups', IsOwn(l, e)', i <= DoneWith(l)'
          PROVE  told'[entries'[e].handlers[i]] = <<lookups'[l].outcome>>
      <3>1. e \in DOMAIN entries /\ i \in DOMAIN entries[e].handlers /\ l \in Lookups
        BY <2>1
      <3>2. IsOwn(l, e) /\ i <= DoneWith(l)
        BY <1>1, <1>2, <2>1, <3>1
      <3>3. QED
        BY <1>3, <3>1, <3>2
    <2>2. ASSUME NEW e \in DOMAIN entries', NEW i \in DOMAIN entries'[e].handlers,
                 \A l \in Lookups' : IsOwn(l, e)' => i > DoneWith(l)'
          PROVE  told'[entries'[e].handlers[i]] = <<>>
      <3>1. e \in DOMAIN entries /\ i \in DOMAIN entries[e].handlers
        BY <2>2
      <3>2. \A l \in Lookups : IsOwn(l, e) => i > DoneWith(l)
        BY <1>1, <1>2, <2>2, <3>1
      <3>3. QED
        BY <1>4, <3>1, <3>2
    <2>3. QED
      BY <2>1, <2>2 DEF ToldInTurn
  <1>6. ListedOnce'
    BY DEF HostInv, ListedOnce, Handlers
  <1>7. QED
    BY <1>5, <1>6

(* So what is left to see of a step of lookup k: its own entry, and what   *)
(* handlers were told.                                                     *)
LEMMA LookupStep ==
  ASSUME HostInv, NEW k \in Lookups, NEW e \in DOMAIN entries, IsOwn(k, e),
         NEW r \in LookupRecords, lookups' = [lookups EXCEPT ![k] = r],
         r.hostname = lookups[k].hostname,
         entries' \in Seq(RequestInfos), Len(entries') = Len(entries),
         \A f \in DOMAIN entries : /\ entries'[f].hostname = entries[f].hostname
                                   /\ entries'[f].handlers = entries[f].handlers,
         \A f \in DOMAIN entries : f # e => entries'[f].request = entries[f].request,
         entries'[e].request \in {entries[e].request, NULL},
         gaicb' \in [Addresses -> {"FREE", NULL} \cup Names],
         \A a \in Addresses : a # lookups[k].request => gaicb'[a] = gaicb[a],
         StillToReport(k, e) \/ gaicb' = gaicb,
         told' \in Seq(Seq(Outcomes)), Len(told') = Len(told), failed' \in BOOLEAN,
         UNCHANGED <<sig, resolving, asked>>,
         LookupFits(k, e)', RequestsApart', ToldInTurn', ListedOnce'
  PROVE  HostInv'
  <1> USE DEF HostInv
  <1>1. /\ lookups' \in Seq(LookupRecords) /\ Len(lookups') = Len(lookups)
        /\ Lookups' = Lookups /\ lookups'[k] = r
        /\ \A l \in Lookups : l # k => lookups'[l] = lookups[l]
    BY LookupChanges
  <1>2. \A l \in Lookups : lookups'[l].hostname = lookups[l].hostname
    BY <1>1
  <1>3. DOMAIN entries' = DOMAIN entries
    BY SeqFacts, EntryTypes
  <1>4. TypeOK'
    BY <1>1, TypesAfterLookupStep
  <1>5. NamesDiffer' /\ \A l \in Lookups, f \in DOMAIN entries : IsOwn(l, f)' <=> IsOwn(l, f)
    BY <1>1, <1>2, <1>3, NamesStay
  <1>6. OneResolves'
    BY <1>1, <1>2, <1>3, TurnsStay
  <1>7. LookupsFit'
    <2>1. SUFFICES ASSUME NEW l \in Lookups, NEW f \in DOMAIN entries, IsOwn(l, f)
                   PROVE  LookupFits(l, f)'
      BY <1>1, <1>3, <1>5 DEF LookupsFit
    <2>2. CASE l = k
      <3>1. f = e
        BY <2>1, <2>2 DEF NamesDiffer, IsOwn
      <3>2. QED
        BY <2>2, <3>1
    <2>3. CASE l # k
      BY <1>1, <2>1, <2>3, OthersFit
    <2>4. QED
      BY <2>2, <2>3
  <1>8. QED
    BY <1>4, <1>5, <1>6, <1>7

(* And of one that changes nothing but the state of the walk. *)
LEMMA WalkStep ==
  ASSUME HostInv, NEW k \in Lookups, NEW e \in DOMAIN entries, IsOwn(k, e),
         NEW r \in LookupRecords, lookups' = [lookups EXCEPT ![k] = r],
         r.hostname = lookups[k].hostname, r.outcome = lookups[k].outcome,
         failed' \in BOOLEAN,
         UNCHANGED <<m_hostname_DNS_requests, gaicb, sig, resolving, asked, told>>,
         DoneWith(k)' = DoneWith(k), LookupFits(k, e)'
  PROVE  HostInv'
  <1>1. /\ Lookups' = Lookups /\ lookups'[k] = r
        /\ \A l \in Lookups : l # k => lookups'[l] = lookups[l]
    BY LookupChanges DEF HostInv
  <1>2. ToldInTurn' /\ ListedOnce'
    BY <1>1, ToldStays
  <1>3. RequestsApart'
    BY DEF HostInv, RequestsApart
  <1>4. /\ entries' \in Seq(RequestInfos) /\ gaicb' \in [Addresses -> {"FREE", NULL} \cup Names]
        /\ told' \in Seq(Seq(Outcomes))
    BY DEF HostInv, TypeOK
  <1>5. QED
    BY <1>2, <1>3, <1>4, LookupStep

-----------------------------------------------------------------------------
(* The steps of the thread that reports a lookup.                          *)

LEMMA NotifierStartsKeeps ==
  ASSUME HostInv, NEW k \in Lookups, NotifierStarts(k)
  PROVE  HostInv'
  <1> DEFINE r == [lookups[k] EXCEPT !.pc = "WALK", !.at = 1, !.last = Len(entries)]
  <1>1. PICK e \in DOMAIN entries : IsOwn(k, e) /\ LookupFits(k, e)
    BY OwnEntry
  <1>2. /\ lookups[k] \in LookupRecords /\ lookups[k].pc = "ENDED"
        /\ Len(entries) \in Nat /\ DOMAIN entries = 1 .. Len(entries)
    BY LookupTypes, EntryTypes DEF HostInv, NotifierStarts
  <1>3. r \in LookupRecords
    BY <1>2 DEF LookupRecords
  <1>4. /\ r.hostname = lookups[k].hostname /\ r.outcome = lookups[k].outcome
        /\ r.request = lookups[k].request /\ r.ptr = lookups[k].ptr
        /\ r.next = lookups[k].next /\ r.end = lookups[k].end
        /\ r.pc = "WALK" /\ r.at = 1 /\ r.last = Len(entries)
    BY <1>2 DEF LookupRecords
  <1>5. lookups' = [lookups EXCEPT ![k] = r]
    BY DEF NotifierStarts
  <1> HIDE DEF r
  <1>6. lookups'[k] = r
    BY <1>3, <1>5, LookupChanges DEF HostInv
  <1>7. /\ UNCHANGED <<m_hostname_DNS_requests, gaicb, sig, resolving, asked, told>>
        /\ failed' \in BOOLEAN
    BY DEF NotifierStarts, HostInv, TypeOK
  <1>8. DoneWith(k)' = DoneWith(k)
    BY <1>2, <1>4, <1>6 DEF DoneWith
  <1>9. /\ entries[e].request = lookups[k].request
        /\ gaicb[lookups[k].request] = Reported(k)
        /\ lookups[k].end = 0
    BY <1>1, <1>2 DEF LookupFits, StillToReport
  <1>10. \A f \in DOMAIN entries : f # e => entries[f].request # lookups[k].request
    BY <1>9, LookupTypes DEF HostInv, RequestsApart
  <1>11. Reported(k)' = Reported(k)
    BY <1>4, <1>6 DEF Reported
  <1>12. 0 <= Len(entries[e].handlers)
    BY <1>1, EntryTypes DEF HostInv
  <1>13. LookupFits(k, e)'
    BY <1>1, <1>2, <1>4, <1>6, <1>7, <1>9, <1>10, <1>11, <1>12 DEF LookupFits, StillToReport
  <1>14. QED
    BY <1>1, <1>3, <1>4, <1>5, <1>7, <1>8, <1>13, WalkStep

(* The process ends. *)
LEMMA OnlyFails ==
  ASSUME HostInv, failed' = TRUE,
         UNCHANGED <<m_hostname_DNS_requests, gaicb, sig, resolving, lookups, asked, told>>
  PROVE  HostInv'
  <1>1. TypeOK'
    BY DEF HostInv, TypeOK, Threads
  <1>2. NamesDiffer'
    BY DEF HostInv, NamesDiffer, Lookups, IsOwn
  <1>3. OneResolves'
    BY DEF HostInv, OneResolves, Lookups, Busy, EmplaceFits, StartFits, EntriesOf
  <1>4. RequestsApart'
    BY DEF HostInv, RequestsApart
  <1>5. LookupsFit'
    BY DEF HostInv, LookupsFit, Lookups, IsOwn, LookupFits, StillToReport, Reported
  <1>6. ListedOnce'
    BY DEF HostInv, ListedOnce, Handlers
  <1>7. ToldInTurn'
    BY DEF HostInv, ToldInTurn, Lookups, IsOwn, DoneWith
  <1>8. QED
    BY <1>1, <1>2, <1>3, <1>4, <1>5, <1>6, <1>7 DEF HostInv

(* The walk goes on, or ends the process. *)
LEMMA SkipEntryKeeps ==
  ASSUME HostInv, NEW k \in Lookups, SkipEntry(k)
  PROVE  HostInv'
  <1> DEFINE r == [lookups[k] EXCEPT !.at = @ + 1]
  <1>1. PICK e \in DOMAIN entries : IsOwn(k, e) /\ LookupFits(k, e)
    BY OwnEntry
  <1>2. /\ lookups[k] \in LookupRecords /\ lookups[k].pc = "WALK"
        /\ Len(entries) \in Nat /\ DOMAIN entries = 1 .. Len(entries)
        /\ lookups[k].at \in Nat /\ lookups[k].last \in Nat
    BY LookupTypes, EntryTypes DEF HostInv, SkipEntry, Walks
  <1>3. r \in LookupRecords
    BY <1>2 DEF LookupRecords
  <1>4. /\ r.hostname = lookups[k].hostname /\ r.outcome = lookups[k].outcome
        /\ r.request = lookups[k].request /\ r.ptr = lookups[k].ptr
        /\ r.next = lookups[k].next /\ r.end = lookups[k].end
        /\ r.pc = "WALK" /\ r.at = lookups[k].at + 1 /\ r.last = lookups[k].last
    BY <1>2 DEF LookupRecords
  <1>5. UNCHANGED <<m_hostname_DNS_requests, gaicb, sig, resolving, asked, told>>
    BY DEF SkipEntry
  <1>6. \/ failed' = TRUE /\ UNCHANGED lookups
        \/ lookups' = [lookups EXCEPT ![k] = r] /\ UNCHANGED failed
    BY DEF SkipEntry, Passed
  <1> HIDE DEF r
  <1>7. CASE failed' = TRUE /\ UNCHANGED lookups
    BY <1>5, <1>7, OnlyFails
  <1>8. CASE lookups' = [lookups EXCEPT ![k] = r] /\ UNCHANGED failed
    <2>1. lookups'[k] = r
      BY <1>3, <1>8, LookupChanges DEF HostInv
    <2>2. failed' \in BOOLEAN
      BY <1>8 DEF HostInv, TypeOK
    <2>3. DoneWith(k)' = DoneWith(k) /\ Reported(k)' = Reported(k)
      BY <1>2, <1>4, <2>1 DEF DoneWith, Reported
    <2>4. StillToReport(k, e)' => StillToReport(k, e)
      BY <1>2, <1>4, <2>1 DEF StillToReport
    <2>5. LookupFits(k, e)'
      BY <1>1, <1>2, <1>4, <1>5, <2>1, <2>3, <2>4 DEF LookupFits
    <2>6. QED
      BY <1>1, <1>3, <1>4, <1>5, <1>8, <2>2, <2>3, <2>5, WalkStep
  <1>9. QED
    BY <1>6, <1>7, <1>8

(* The next handler, or the end of the loop over them. *)
LEMMA HandlerReturnsKeeps ==
  ASSUME HostInv, NEW k \in Lookups, HandlerReturns(k)
  PROVE  HostInv'
  <1> DEFINE r == [lookups[k] EXCEPT !.pc = "CALL", !.next = @ + 1]
  <1>1. PICK e \in DOMAIN entries : IsOwn(k, e) /\ LookupFits(k, e)
    BY OwnEntry
  <1>2. /\ lookups[k] \in LookupRecords /\ lookups[k].pc = "HANDLER"
        /\ Len(entries) \in Nat /\ DOMAIN entries = 1 .. Len(entries)
        /\ lookups[k].next \in Nat /\ lookups[k].end \in Nat
    BY LookupTypes, EntryTypes DEF HostInv, HandlerReturns
  <1>3. r \in LookupRecords
    <2>1. lookups[k].next + 1 \in Nat
      BY <1>2
    <2>2. QED
      BY <1>2, <2>1 DEF LookupRecords
  <1>4. /\ r.hostname = lookups[k].hostname /\ r.outcome = lookups[k].outcome
        /\ r.request = lookups[k].request /\ r.ptr = lookups[k].ptr
        /\ r.next = lookups[k].next + 1 /\ r.end = lookups[k].end
        /\ r.result = lookups[k].result
        /\ r.pc = "CALL" /\ r.at = lookups[k].at /\ r.last = lookups[k].last
    BY <1>2 DEF LookupRecords
  <1>5. lookups' = [lookups EXCEPT ![k] = r]
    BY DEF HandlerReturns
  <1> HIDE DEF r
  <1>6. lookups'[k] = r
    BY <1>3, <1>5, LookupChanges DEF HostInv
  <1>7. /\ UNCHANGED <<m_hostname_DNS_requests, gaicb, sig, resolving, asked, told>>
        /\ failed' \in BOOLEAN
    BY DEF HandlerReturns, HostInv, TypeOK
  <1>8. DoneWith(k)' = DoneWith(k)
    BY <1>2, <1>4, <1>6 DEF DoneWith
  <1>9. ~StillToReport(k, e)'
    BY <1>4, <1>6 DEF StillToReport
  <1>10. lookups[k].next <= lookups[k].end /\ lookups[k].next >= 1
    BY <1>1, <1>2 DEF LookupFits
  <1>11. LookupFits(k, e)'
    BY <1>1, <1>2, <1>4, <1>6, <1>7, <1>9, <1>10 DEF LookupFits
  <1>12. QED
    BY <1>1, <1>3, <1>4, <1>5, <1>7, <1>8, <1>11, WalkStep

(* All handlers were called. *)
LEMMA EntryDoneKeeps ==
  ASSUME HostInv, NEW k \in Lookups, EntryDone(k)
  PROVE  HostInv'
  <1> DEFINE r == [lookups[k] EXCEPT !.pc = "WALK", !.at = @ + 1]
  <1>1. PICK e \in DOMAIN entries : IsOwn(k, e) /\ LookupFits(k, e)
    BY OwnEntry
  <1>2. /\ lookups[k] \in LookupRecords /\ lookups[k].pc = "CALL"
        /\ Len(entries) \in Nat /\ DOMAIN entries = 1 .. Len(entries) /\ e \in Nat
        /\ lookups[k].next \in Nat /\ lookups[k].end \in Nat /\ lookups[k].at \in Nat
        /\ lookups[k].next > lookups[k].end
    BY LookupTypes, EntryTypes DEF HostInv, EntryDone, Calls
  <1>3. r \in LookupRecords
    <2>1. lookups[k].at + 1 \in Nat
      BY <1>2
    <2>2. QED
      BY <1>2, <2>1 DEF LookupRecords
  <1>4. /\ r.hostname = lookups[k].hostname /\ r.outcome = lookups[k].outcome
        /\ r.request = lookups[k].request /\ r.ptr = lookups[k].ptr
        /\ r.next = lookups[k].next /\ r.end = lookups[k].end
        /\ r.pc = "WALK" /\ r.at = lookups[k].at + 1 /\ r.last = lookups[k].last
    BY <1>2 DEF LookupRecords
  <1>5. lookups' = [lookups EXCEPT ![k] = r]
    BY DEF EntryDone
  <1> HIDE DEF r
  <1>6. lookups'[k] = r
    BY <1>3, <1>5, LookupChanges DEF HostInv
  <1>7. /\ UNCHANGED <<m_hostname_DNS_requests, gaicb, sig, resolving, asked, told>>
        /\ failed' \in BOOLEAN
    BY DEF EntryDone, HostInv, TypeOK
  <1>8. /\ lookups[k].next = lookups[k].end + 1
        /\ lookups[k].at = e
    BY <1>1, <1>2 DEF LookupFits
  <1>9. DoneWith(k)' = DoneWith(k)
    BY <1>2, <1>4, <1>6, <1>8 DEF DoneWith
  <1>10. ~StillToReport(k, e)'
    BY <1>2, <1>4, <1>6, <1>8 DEF StillToReport
  <1>11. LookupFits(k, e)'
    BY <1>1, <1>2, <1>4, <1>6, <1>7, <1>8, <1>10 DEF LookupFits
  <1>12. QED
    BY <1>1, <1>3, <1>4, <1>5, <1>7, <1>9, <1>11, WalkStep

(* A lookup ends: its request is its entry's still, and no handler was     *)
(* told anything.                                                          *)
LEMMA LookupEndsKeeps ==
  ASSUME HostInv, NEW k \in Lookups, LookupEnds(k)
  PROVE  HostInv'
  <1>1. PICK e \in DOMAIN entries : IsOwn(k, e) /\ LookupFits(k, e)
    BY OwnEntry
  <1>2. PICK outcome \in {Failed} \cup NamesRead(k) :
          /\ lookups' = [lookups EXCEPT ![k] = [@ EXCEPT !.pc = "ENDED", !.outcome = outcome]]
          /\ gaicb' = IF outcome = Failed THEN gaicb
                        ELSE [gaicb EXCEPT ![lookups[k].request] = outcome]
    BY DEF LookupEnds
  <1> DEFINE r == [lookups[k] EXCEPT !.pc = "ENDED", !.outcome = outcome]
             a == lookups[k].request
  <1>3. /\ lookups[k] \in LookupRecords /\ lookups[k].pc = "PENDING"
        /\ lookups[k].hostname \in Names /\ a \in Addresses
        /\ lookups[k].end \in Nat
    BY LookupTypes DEF HostInv, LookupEnds
  <1>4. outcome \in Outcomes /\ outcome # NULL
    BY <1>3, HostnameAssumption DEF NamesRead, Outcomes
  <1>5. r \in LookupRecords
    BY <1>3, <1>4 DEF LookupRecords
  <1>6. /\ r.hostname = lookups[k].hostname /\ r.outcome = outcome
        /\ r.request = a /\ r.ptr = lookups[k].ptr
        /\ r.next = lookups[k].next /\ r.end = lookups[k].end /\ r.pc = "ENDED"
    BY <1>3 DEF LookupRecords
  <1>7. lookups' = [lookups EXCEPT ![k] = r]
    BY <1>2
  <1> HIDE DEF r
  <1>8. /\ lookups'[k] = r /\ Lookups' = Lookups
        /\ \A l \in Lookups : l # k => lookups'[l] = lookups[l]
    BY <1>5, <1>7, LookupChanges DEF HostInv
  <1>9. /\ UNCHANGED <<m_hostname_DNS_requests, sig, resolving, asked, told>>
        /\ failed' \in BOOLEAN
    BY DEF LookupEnds, HostInv, TypeOK
  <1>10. /\ entries[e].request = a /\ lookups[k].end = 0
         /\ gaicb[a] = NULL /\ StillToReport(k, e)
    BY <1>1, <1>3 DEF LookupFits, StillToReport
  <1>11. /\ gaicb' \in [Addresses -> {"FREE", NULL} \cup Names]
         /\ \A b \in Addresses : b # a => gaicb'[b] = gaicb[b]
         /\ gaicb'[a] = IF outcome = Failed THEN NULL ELSE outcome
    <2>1. gaicb \in [Addresses -> {"FREE", NULL} \cup Names]
      BY CallTypes DEF HostInv
    <2>2. CASE outcome = Failed
      BY <1>2, <1>10, <2>1, <2>2
    <2>3. CASE outcome # Failed
      <3>1. gaicb' = [gaicb EXCEPT ![a] = outcome] /\ outcome \in Names
        BY <1>2, <1>4, <2>3 DEF Outcomes
      <3>2. QED
        BY <1>3, <2>1, <2>3, <3>1
    <2>4. QED
      BY <2>2, <2>3
  <1>12. DoneWith(k)' = DoneWith(k) /\ DoneWith(k) = 0
    BY <1>3, <1>6, <1>8, <1>10 DEF DoneWith
  <1>13. ToldInTurn' /\ ListedOnce'
    BY <1>6, <1>8, <1>9, <1>12, ToldStays
  <1>14. gaicb'[a] # "FREE"
    BY <1>4, <1>11, HostnameAssumption DEF Outcomes
  <1>15. RequestsApart'
    <2>1. SUFFICES ASSUME NEW f \in DOMAIN entries, entries[f].request # NULL
                   PROVE  /\ gaicb'[entries[f].request] # "FREE"
                          /\ \A g \in DOMAIN entries :
                               entries[f].request = entries[g].request => f = g
      BY <1>9 DEF RequestsApart
    <2>2. entries[f].request \in Addresses
      BY <2>1, EntryTypes DEF HostInv
    <2>3. QED
      BY <1>11, <1>14, <2>1, <2>2 DEF HostInv, RequestsApart
  <1>16. Reported(k)' = gaicb'[a]
    BY <1>6, <1>8, <1>11 DEF Reported
  <1>17. LookupFits(k, e)'
    BY <1>1, <1>4, <1>6, <1>8, <1>9, <1>10, <1>16 DEF LookupFits, StillToReport
  <1>18. entries' \in Seq(RequestInfos) /\ told' \in Seq(Seq(Outcomes))
    BY <1>9 DEF HostInv, TypeOK
  <1>19. QED
    BY <1>1, <1>5, <1>6, <1>7, <1>9, <1>10, <1>11, <1>13, <1>15, <1>17, <1>18, LookupStep

(* The walk finds the request it was started for in the entry of its name, *)
(* and in no other.                                                        *)
LEMMA MatchIsOwn ==
  ASSUME HostInv, NEW k \in Lookups, NEW e \in DOMAIN entries, IsOwn(k, e),
         Walks(k), Matches(k, lookups[k].at)
  PROVE  /\ lookups[k].at = e /\ lookups[k].pc = "WALK" /\ StillToReport(k, e)
         /\ entries[e].request = lookups[k].request /\ lookups[k].end = 0
         /\ gaicb[lookups[k].request] = Reported(k)
         /\ lookups[k].outcome \in Outcomes
  <1>1. /\ LookupFits(k, e) /\ lookups[k].pc = "WALK"
        /\ lookups[k].at \in Nat /\ lookups[k].last \in Nat
        /\ lookups[k].at <= lookups[k].last
        /\ entries[lookups[k].at].request = lookups[k].ptr
        /\ e \in Nat
    BY LookupTypes, EntryTypes DEF HostInv, LookupsFit, Walks, Matches
  <1>2. /\ lookups[k].at \in 1 .. lookups[k].last
        /\ entries[lookups[k].at].request = lookups[k].request
    BY <1>1 DEF LookupFits
  <1>3. lookups[k].at = e
    BY <1>1, <1>2 DEF LookupFits
  <1>4. StillToReport(k, e)
    BY <1>1, <1>3 DEF StillToReport
  <1>5. lookups[k].outcome \in Outcomes
    BY <1>1, LookupTypes DEF HostInv, LookupFits, Outcomes
  <1>6. QED
    BY <1>1, <1>3, <1>4, <1>5 DEF LookupFits

(* The request is freed, or stays as it is without a result. *)
LEMMA HandleEntryKeeps ==
  ASSUME HostInv, NEW k \in Lookups, HandleEntry(k)
  PROVE  HostInv'
  <1>1. PICK e \in DOMAIN entries : IsOwn(k, e) /\ LookupFits(k, e)
    BY OwnEntry
  <1> DEFINE a == lookups[k].request
             outcome == lookups[k].outcome
             n == Len(entries[e].handlers)
             r == [lookups[k] EXCEPT !.pc = "CALL", !.next = 1, !.end = n, !.result = outcome]
  <1>2. /\ lookups[k].at = e /\ lookups[k].pc = "WALK" /\ StillToReport(k, e)
        /\ entries[e].request = a /\ lookups[k].end = 0
        /\ gaicb[a] = Reported(k) /\ outcome \in Outcomes
    BY <1>1, MatchIsOwn DEF HandleEntry
  <1>3. /\ lookups[k] \in LookupRecords /\ a \in Addresses /\ a # NULL
        /\ n \in Nat /\ e \in Nat /\ Len(entries) \in Nat /\ DOMAIN entries = 1 .. Len(entries)
    BY LookupTypes, EntryTypes DEF HostInv
  <1>4. outcome = IF gaicb[a] = NULL THEN Failed ELSE gaicb[a]
    BY <1>2, HostnameAssumption DEF Reported, Outcomes
  <1>5. /\ lookups' = [lookups EXCEPT ![k] = r]
        /\ UNCHANGED <<sig, resolving, asked, told, failed>>
        /\ IF outcome = Failed
             THEN UNCHANGED <<gaicb, m_hostname_DNS_requests>>
             ELSE /\ gaicb' = [gaicb EXCEPT ![a] = "FREE"]
                  /\ m_hostname_DNS_requests' = [entries EXCEPT ![e].request = NULL]
    BY <1>2, <1>4 DEF HandleEntry, Handled
  <1>6. r \in LookupRecords
    BY <1>2, <1>3 DEF LookupRecords
  <1>7. /\ r.hostname = lookups[k].hostname /\ r.outcome = outcome /\ r.result = outcome
        /\ r.request = a /\ r.ptr = lookups[k].ptr
        /\ r.next = 1 /\ r.end = n /\ r.pc = "CALL" /\ r.at = e /\ r.last = lookups[k].last
    BY <1>2, <1>3 DEF LookupRecords
  <1> HIDE DEF r
  <1>8. /\ lookups'[k] = r /\ Lookups' = Lookups
        /\ \A l \in Lookups : l # k => lookups'[l] = lookups[l]
    BY <1>5, <1>6, LookupChanges DEF HostInv
  <1>9. DoneWith(k)' = DoneWith(k)
    BY <1>2, <1>7, <1>8 DEF DoneWith
  <1>10. /\ gaicb \in [Addresses -> {"FREE", NULL} \cup Names] /\ entries \in Seq(RequestInfos)
         /\ told \in Seq(Seq(Outcomes)) /\ failed \in BOOLEAN
    BY DEF HostInv, TypeOK
  <1>11. /\ gaicb' \in [Addresses -> {"FREE", NULL} \cup Names]
         /\ \A b \in Addresses : b # a => gaicb'[b] = gaicb[b]
    <2>1. CASE outcome = Failed
      BY <1>5, <1>10, <2>1
    <2>2. CASE outcome # Failed
      BY <1>3, <1>5, <1>10, <2>2
    <2>3. QED
      BY <2>1, <2>2
  <1>12. /\ entries' \in Seq(RequestInfos) /\ Len(entries') = Len(entries)
         /\ DOMAIN entries' = DOMAIN entries
         /\ \A f \in DOMAIN entries : f # e => entries'[f] = entries[f]
         /\ entries'[e].hostname = entries[e].hostname
         /\ entries'[e].handlers = entries[e].handlers
         /\ entries'[e].request = IF outcome = Failed THEN a ELSE NULL
    <2>1. CASE outcome = Failed
      BY <1>2, <1>5, <1>10, <2>1
    <2>2. CASE outcome # Failed
      <3> DEFINE info == [entries[e] EXCEPT !.request = NULL]
      <3>1. entries[e] \in RequestInfos /\ e \in 1 .. Len(entries)
        BY EntryTypes DEF HostInv
      <3>2. /\ info \in RequestInfos /\ info.request = NULL
            /\ info.hostname = entries[e].hostname /\ info.handlers = entries[e].handlers
        BY <3>1 DEF RequestInfos
      <3>3. entries' = [entries EXCEPT ![e] = info]
        BY <1>5, <2>2
      <3> HIDE DEF info
      <3>4. /\ entries' \in Seq(RequestInfos) /\ Len(entries') = Len(entries)
            /\ DOMAIN entries' = 1 .. Len(entries) /\ entries'[e] = info
            /\ \A f \in 1 .. Len(entries) : f # e => entries'[f] = entries[f]
        BY <1>10, <3>1, <3>2, <3>3, ExceptFacts
      <3>5. QED
        BY <1>3, <2>2, <3>2, <3>4
    <2>3. QED
      BY <2>1, <2>2
  <1>13. ToldInTurn' /\ ListedOnce'
    <2>1. \A f \in DOMAIN entries : /\ entries'[f].hostname = entries[f].hostname
                                    /\ entries'[f].handlers = entries[f].handlers
      BY <1>12
    <2>2. QED
      BY <1>5, <1>7, <1>8, <1>9, <1>12, <2>1, ToldStays
  <1>14. RequestsApart'
    <2>1. CASE outcome = Failed
      BY <1>5, <2>1 DEF HostInv, RequestsApart
    <2>2. CASE outcome # Failed
      <3>1. SUFFICES ASSUME NEW f \in DOMAIN entries, entries'[f].request # NULL
                     PROVE  /\ gaicb'[entries'[f].request] # "FREE"
                            /\ \A g \in DOMAIN entries :
                                 entries'[f].request = entries'[g].request => f = g
        BY <1>12 DEF RequestsApart
      <3>2. f # e /\ entries'[f].request = entries[f].request
        BY <1>12, <2>2, <3>1
      <3>3. entries[f].request \in Addresses /\ entries[f].request # a
        BY <1>2, <3>1, <3>2, EntryTypes DEF HostInv, RequestsApart
      <3>4. gaicb[entries[f].request] # "FREE"
        BY <3>1, <3>2 DEF HostInv, RequestsApart
      <3>5. ASSUME NEW g \in DOMAIN entries, entries'[f].request = entries'[g].request
            PROVE  f = g
        <4>1. g # e
          BY <1>12, <2>2, <3>1, <3>5
        <4>2. entries[f].request = entries[g].request
          BY <1>12, <3>2, <3>5, <4>1
        <4>3. QED
          BY <3>1, <3>2, <4>2 DEF HostInv, RequestsApart
      <3>6. QED
        BY <1>11, <3>2, <3>3, <3>4, <3>5
    <2>3. QED
      BY <2>1, <2>2
  <1>15. LookupFits(k, e)'
    <2>1. ~StillToReport(k, e)'
      BY <1>7, <1>8 DEF StillToReport
    <2>2. outcome # NULL
      BY <1>2, HostnameAssumption DEF Outcomes
    <2>3. \A f \in 1 .. lookups[k].last : f # e => entries'[f].request # a
      <3>1. SUFFICES ASSUME NEW f \in 1 .. lookups[k].last, f # e
                     PROVE  entries'[f].request # a
        OBVIOUS
      <3>2. entries[f].request # a /\ lookups[k].last <= Len(entries)
        BY <1>1, <1>2, <3>1 DEF LookupFits
      <3>3. f \in DOMAIN entries
        BY <1>3, <3>2, LookupTypes DEF HostInv
      <3>4. QED
        BY <1>12, <3>1, <3>2, <3>3
    <2>4. /\ lookups[k].ptr = a /\ e >= 1
          /\ e <= lookups[k].last /\ lookups[k].last <= Len(entries')
      BY <1>1, <1>2, <1>3, <1>12 DEF LookupFits
    <2>5. QED
      BY <1>3, <1>7, <1>8, <1>12, <2>1, <2>2, <2>3, <2>4 DEF LookupFits
  <1>16. entries'[e].request \in {entries[e].request, NULL}
    BY <1>2, <1>12
  <1>17. \A f \in DOMAIN entries : /\ entries'[f].hostname = entries[f].hostname
                                   /\ entries'[f].handlers = entries[f].handlers
                                   /\ f # e => entries'[f].request = entries[f].request
    BY <1>12
  <1>18. QED
    <2>1. told' \in Seq(Seq(Outcomes)) /\ Len(told') = Len(told) /\ failed' \in BOOLEAN
      BY <1>5, <1>10
    <2>2. UNCHANGED <<sig, resolving, asked>>
      BY <1>5
    <2>3. QED
      BY <1>1, <1>2, <1>5, <1>6, <1>7, <1>11, <1>12, <1>13, <1>14, <1>15, <1>16, <1>17, <2>1, <2>2,
         LookupStep

(* The handler that is called next was told nothing yet. *)
LEMMA NextIsUntold ==
  ASSUME HostInv, NEW k \in Lookups, NEW e \in DOMAIN entries, IsOwn(k, e),
         Calls(k), lookups[k].next <= lookups[k].end
  PROVE  LET h == Waiting(k)[lookups[k].next] IN
           /\ Waiting(k) = entries[e].handlers
           /\ lookups[k].next \in DOMAIN entries[e].handlers
           /\ h \in Handlers /\ told[h] = <<>> /\ asked[h] = lookups[k].hostname
           /\ lookups[k].result = lookups[k].outcome
           /\ lookups[k].outcome \in Outcomes
           /\ DoneWith(k) = lookups[k].next - 1
  <1>1. /\ LookupFits(k, e) /\ lookups[k].pc = "CALL"
        /\ lookups[k].next \in Nat /\ lookups[k].end \in Nat
        /\ Len(entries[e].handlers) \in Nat
        /\ DOMAIN entries[e].handlers = 1 .. Len(entries[e].handlers)
    BY LookupTypes, EntryTypes DEF HostInv, LookupsFit, Calls
  <1>2. /\ Waiting(k) = entries[e].handlers
        /\ lookups[k].result = lookups[k].outcome /\ lookups[k].outcome # NULL
        /\ lookups[k].next >= 1 /\ lookups[k].end <= Len(entries[e].handlers)
    BY <1>1 DEF LookupFits, Waiting
  <1>3. lookups[k].next \in DOMAIN entries[e].handlers
    BY <1>1, <1>2
  <1>4. DoneWith(k) = lookups[k].next - 1 /\ lookups[k].next > DoneWith(k)
    BY <1>1 DEF DoneWith
  <1>5. \A l \in Lookups : IsOwn(l, e) => l = k
    BY DEF HostInv, NamesDiffer, IsOwn
  <1>6. told[entries[e].handlers[lookups[k].next]] = <<>>
    BY <1>3, <1>4, <1>5 DEF HostInv, ToldInTurn
  <1>7. /\ entries[e].handlers[lookups[k].next] \in Handlers
        /\ asked[entries[e].handlers[lookups[k].next]] = lookups[k].hostname
    BY <1>3 DEF HostInv, ListedOnce, IsOwn
  <1>8. lookups[k].outcome \in Outcomes
    BY <1>2, LookupTypes DEF HostInv, Outcomes
  <1>9. QED
    BY <1>2, <1>3, <1>4, <1>6, <1>7, <1>8

(* A handler is told the outcome, or the process ends. *)
LEMMA CallHandlerKeeps ==
  ASSUME HostInv, NEW k \in Lookups, CallHandler(k)
  PROVE  HostInv'
  <1>1. PICK e \in DOMAIN entries :
          /\ IsOwn(k, e) /\ LookupFits(k, e)
          /\ \A l \in Lookups : IsOwn(l, e) => l = k
    BY OwnEntry
  <1> DEFINE next == lookups[k].next
             h == entries[e].handlers[next]
             outcome == lookups[k].outcome
             r == [lookups[k] EXCEPT !.pc = "HANDLER"]
  <1>2. /\ Waiting(k) = entries[e].handlers /\ next \in DOMAIN entries[e].handlers
        /\ h \in Handlers /\ told[h] = <<>>
        /\ lookups[k].result = outcome /\ outcome \in Outcomes
        /\ DoneWith(k) = next - 1 /\ next <= lookups[k].end /\ lookups[k].pc = "CALL"
    BY <1>1, NextIsUntold DEF CallHandler, Calls
  <1>3. /\ UNCHANGED <<m_hostname_DNS_requests, gaicb, sig, resolving, asked>>
        /\ \/ failed' = TRUE /\ UNCHANGED <<lookups, told>>
           \/ /\ told' = [told EXCEPT ![h] = Append(@, outcome)]
              /\ lookups' = [lookups EXCEPT ![k] = r]
              /\ UNCHANGED failed
    BY <1>2 DEF CallHandler
  <1>4. CASE failed' = TRUE /\ UNCHANGED <<lookups, told>>
    BY <1>3, <1>4, OnlyFails
  <1>5. CASE /\ told' = [told EXCEPT ![h] = Append(@, outcome)]
             /\ lookups' = [lookups EXCEPT ![k] = r]
             /\ UNCHANGED failed
    <2>1. lookups[k] \in LookupRecords /\ next \in Nat /\ lookups[k].end \in Nat
      BY LookupTypes DEF HostInv
    <2>2. r \in LookupRecords
      BY <2>1 DEF LookupRecords
    <2>3. /\ r.hostname = lookups[k].hostname /\ r.outcome = outcome /\ r.result = outcome
          /\ r.request = lookups[k].request /\ r.ptr = lookups[k].ptr
          /\ r.next = next /\ r.end = lookups[k].end
          /\ r.pc = "HANDLER" /\ r.at = lookups[k].at /\ r.last = lookups[k].last
      BY <1>2, <2>1 DEF LookupRecords
    <2> HIDE DEF r
    <2>4. /\ lookups'[k] = r /\ Lookups' = Lookups
          /\ \A l \in Lookups : l # k => lookups'[l] = lookups[l]
          /\ \A l \in Lookups : lookups'[l].hostname = lookups[l].hostname
      BY <1>5, <2>2, <2>3, LookupChanges DEF HostInv
    <2>5. /\ told' \in Seq(Seq(Outcomes)) /\ Len(told') = Len(told)
          /\ \A g \in Handlers : g # h => told'[g] = told[g]
          /\ told'[h] = <<outcome>>
      <3>1. told \in Seq(Seq(Outcomes)) /\ Handlers = 1 .. Len(told) /\ told[h] = <<>>
        BY <1>2, CallTypes DEF HostInv
      <3>2. Append(told[h], outcome) = <<outcome>> /\ <<outcome>> \in Seq(Outcomes)
        BY <1>2, <3>1
      <3>3. told' = [told EXCEPT ![h] = <<outcome>>]
        BY <1>5, <3>2
      <3>4. QED
        BY <1>2, <3>1, <3>2, <3>3, ExceptFacts
    <2>6. \A l \in Lookups, f \in DOMAIN entries : IsOwn(l, f)' <=> IsOwn(l, f)
      BY <1>3, <2>4, NamesStay DEF HostInv
    <2>7. /\ DoneWith(k)' = next
          /\ \A l \in Lookups : l # k => DoneWith(l)' = DoneWith(l)
      BY <2>3, <2>4 DEF DoneWith
    <2>8. ListedOnce'
      BY <1>3 DEF HostInv, ListedOnce, Handlers
    <2>9. ASSUME NEW f \in DOMAIN entries, NEW i \in DOMAIN entries[f].handlers,
                 entries[f].handlers[i] = h
          PROVE  f = e /\ i = next
      <3>1. entries[f].hostname = entries[e].hostname
        BY <1>2, <2>9 DEF HostInv, ListedOnce
      <3>2. f = e
        BY <3>1 DEF HostInv, NamesDiffer
      <3>3. QED
        BY <1>2, <2>9, <3>2 DEF HostInv, ListedOnce
    <2>10. ToldInTurn'
      <3>1. ASSUME NEW f \in DOMAIN entries, NEW i \in DOMAIN entries[f].handlers,
                   NEW l \in Lookups, IsOwn(l, f), i <= DoneWith(l)'
            PROVE  told'[entries[f].handlers[i]] = <<lookups'[l].outcome>>
        <4>1. entries[f].handlers[i] \in Handlers
          BY DEF HostInv, ListedOnce
        <4>2. lookups'[l].outcome = lookups[l].outcome
          BY <2>3, <2>4
        <4>3. CASE entries[f].handlers[i] = h
          <5>1. f = e
            BY <2>9, <4>3
          <5>2. l = k
            BY <1>1, <3>1, <5>1
          <5>3. QED
            BY <2>5, <4>2, <4>3, <5>2
        <4>4. CASE entries[f].handlers[i] # h
          <5>1. i \in Nat
            BY <3>1, EntryTypes DEF HostInv
          <5>2. l = k => f = e
            BY <1>1, <3>1 DEF HostInv, NamesDiffer, IsOwn
          <5>3. l = k => i # next
            BY <4>4, <5>2
          <5>4. i <= DoneWith(l)
            BY <1>2, <2>1, <2>7, <3>1, <5>1, <5>3
          <5>5. told[entries[f].handlers[i]] = <<lookups[l].outcome>>
            BY <3>1, <5>4 DEF HostInv, ToldInTurn
          <5>6. QED
            BY <2>5, <4>1, <4>2, <4>4, <5>5
        <4>5. QED
          BY <4>3, <4>4
      <3>2. ASSUME NEW f \in DOMAIN entries, NEW i \in DOMAIN entries[f].handlers,
                   \A l \in Lookups : IsOwn(l, f) => i > DoneWith(l)'
            PROVE  told'[entries[f].handlers[i]] = <<>>
        <4>1. entries[f].handlers[i] \in Handlers /\ i \in Nat
          BY EntryTypes DEF HostInv, ListedOnce
        <4>2. entries[f].handlers[i] # h
          BY <1>1, <2>1, <2>7, <2>9, <3>2
        <4>3. \A l \in Lookups : IsOwn(l, f) => i > DoneWith(l)
          BY <1>2, <2>1, <2>7, <3>2, <4>1
        <4>4. told[entries[f].handlers[i]] = <<>>
          BY <4>3 DEF HostInv, ToldInTurn
        <4>5. QED
          BY <2>5, <4>1, <4>2, <4>4
      <3>3. ASSUME NEW f \in DOMAIN entries', NEW i \in DOMAIN entries'[f].handlers
            PROVE  f \in DOMAIN entries /\ i \in DOMAIN entries[f].handlers
        BY <1>3
      <3>4. ASSUME NEW f \in DOMAIN entries', NEW i \in DOMAIN entries'[f].handlers,
                   NEW l \in Lookups', IsOwn(l, f)', i <= DoneWith(l)'
            PROVE  told'[entries'[f].handlers[i]] = <<lookups'[l].outcome>>
        <4>1. f \in DOMAIN entries /\ i \in DOMAIN entries[f].handlers /\ l \in Lookups
          BY <2>4, <3>3, <3>4
        <4>2. IsOwn(l, f) /\ entries' = entries
          BY <1>3, <2>6, <3>4, <4>1
        <4>3. QED
          BY <3>1, <3>4, <4>1, <4>2
      <3>5. ASSUME NEW f \in DOMAIN entries', NEW i \in DOMAIN entries'[f].handlers,
                   \A l \in Lookups' : IsOwn(l, f)' => i > DoneWith(l)'
            PROVE  told'[entries'[f].handlers[i]] = <<>>
        <4>1. /\ f \in DOMAIN entries /\ i \in DOMAIN entries[f].handlers
              /\ entries' = entries
          BY <1>3, <3>3, <3>5
        <4>2. \A l \in Lookups : IsOwn(l, f) => i > DoneWith(l)'
          BY <2>4, <2>6, <3>5, <4>1
        <4>3. QED
          BY <3>2, <4>1, <4>2
      <3>6. QED
        BY <3>4, <3>5 DEF ToldInTurn
    <2>11. RequestsApart'
      BY <1>3 DEF HostInv, RequestsApart
    <2>12. LookupFits(k, e)'
      <3>1. ~StillToReport(k, e)'
        BY <2>3, <2>4 DEF StillToReport
      <3>2. QED
        BY <1>1, <1>2, <1>3, <2>1, <2>3, <2>4, <3>1 DEF LookupFits
    <2>13. /\ entries' \in Seq(RequestInfos) /\ failed' \in BOOLEAN
           /\ gaicb' \in [Addresses -> {"FREE", NULL} \cup Names]
      BY <1>3, <1>5 DEF HostInv, TypeOK
    <2>14. UNCHANGED <<sig, resolving, asked>> /\ entries' = entries /\ gaicb' = gaicb
      BY <1>3
    <2>15. QED
      BY <1>1, <1>5, <2>2, <2>3, <2>5, <2>8, <2>10, <2>11, <2>12, <2>13, <2>14, LookupStep
  <1>6. QED
    BY <1>3, <1>4, <1>5

-----------------------------------------------------------------------------
(* The steps of resolve_hostname.                                          *)

(* A further call. *)
LEMMA AskFacts ==
  ASSUME HostInv, NEW n \in Names, NEW answers \in Seq(Outcomes), Ask(n, answers),
         Len(asked) < MaxCalls
  PROVE  /\ asked' \in Seq(Names) /\ Len(asked') = Len(asked) + 1 /\ Len(asked') <= MaxCalls
         /\ told' \in Seq(Seq(Outcomes)) /\ Len(told') = Len(asked')
         /\ Handlers \subseteq Handlers' /\ Len(asked) + 1 \in Handlers'
         /\ Len(asked) + 1 \in 1 .. MaxCalls /\ Len(asked) + 1 \notin Handlers
         /\ asked'[Len(asked) + 1] = n /\ told'[Len(asked) + 1] = answers
         /\ \A h \in Handlers : asked'[h] = asked[h] /\ told'[h] = told[h]
  <1>1. /\ asked \in Seq(Names) /\ told \in Seq(Seq(Outcomes)) /\ Len(told) = Len(asked)
        /\ Len(asked) \in Nat /\ Handlers = 1 .. Len(asked) /\ MaxCalls \in Nat
    BY CallTypes, HostnameAssumption DEF HostInv
  <1>2. asked' = Append(asked, n) /\ told' = Append(told, answers)
    BY DEF Ask
  <1>3. /\ asked' \in Seq(Names) /\ Len(asked') = Len(asked) + 1
        /\ \A h \in Handlers : asked'[h] = asked[h]
        /\ asked'[Len(asked) + 1] = n
    BY <1>1, <1>2, AppendFacts
  <1>4. /\ told' \in Seq(Seq(Outcomes)) /\ Len(told') = Len(told) + 1
        /\ \A h \in Handlers : told'[h] = told[h]
        /\ told'[Len(told) + 1] = answers
    BY <1>1, <1>2, AppendFacts
  <1>5. QED
    BY <1>1, <1>3, <1>4 DEF Handlers

(* It disturbs nothing while the entries stay. *)
LEMMA AskKeeps ==
  ASSUME HostInv, NEW n \in Names, NEW answers \in Seq(Outcomes), Ask(n, answers),
         Len(asked) < MaxCalls, resolving' \in [Threads -> ResolvingRecords],
         UNCHANGED <<m_hostname_DNS_requests, gaicb, sig, lookups, failed>>,
         OneResolves'
  PROVE  HostInv'
  <1>1. /\ asked' \in Seq(Names) /\ Len(asked') <= MaxCalls
        /\ told' \in Seq(Seq(Outcomes)) /\ Len(told') = Len(asked')
        /\ Handlers \subseteq Handlers'
        /\ \A h \in Handlers : asked'[h] = asked[h] /\ told'[h] = told[h]
    BY AskFacts
  <1>2. TypeOK'
    BY <1>1 DEF HostInv, TypeOK, ResolvingRecords, Threads
  <1>3. NamesDiffer'
    BY DEF HostInv, NamesDiffer, Lookups, IsOwn
  <1>4. RequestsApart'
    BY DEF HostInv, RequestsApart
  <1>5. LookupsFit'
    BY DEF HostInv, LookupsFit, Lookups, IsOwn, LookupFits, StillToReport, Reported
  <1>6. \A e \in DOMAIN entries : \A i, j \in DOMAIN entries[e].handlers :
          /\ entries[e].handlers[i] \in Handlers'
          /\ asked'[entries[e].handlers[i]] = entries[e].hostname
          /\ told'[entries[e].handlers[i]] = told[entries[e].handlers[i]]
          /\ entries[e].handlers[i] = entries[e].handlers[j] => i = j
    BY <1>1 DEF HostInv, ListedOnce
  <1>7. ListedOnce' /\ ToldInTurn'
    <2>1. ListedOnce'
      BY <1>6 DEF ListedOnce
    <2>2. \A e \in DOMAIN entries : \A i \in DOMAIN entries[e].handlers :
            /\ \A k \in Lookups : IsOwn(k, e) /\ i <= DoneWith(k) =>
                 told'[entries[e].handlers[i]] = <<lookups[k].outcome>>
            /\ (\A k \in Lookups : IsOwn(k, e) => i > DoneWith(k)) =>
                 told'[entries[e].handlers[i]] = <<>>
      <3>1. SUFFICES ASSUME NEW e \in DOMAIN entries, NEW i \in DOMAIN entries[e].handlers
                     PROVE  /\ \A k \in Lookups : IsOwn(k, e) /\ i <= DoneWith(k) =>
                                 told'[entries[e].handlers[i]] = <<lookups[k].outcome>>
                            /\ (\A k \in Lookups : IsOwn(k, e) => i > DoneWith(k)) =>
                                 told'[entries[e].handlers[i]] = <<>>
        OBVIOUS
      <3>2. told'[entries[e].handlers[i]] = told[entries[e].handlers[i]]
        BY <1>6, <3>1
      <3>3. QED
        BY <3>1, <3>2 DEF HostInv, ToldInTurn
    <2>3. /\ Lookups' = Lookups /\ entries' = entries /\ lookups' = lookups
          /\ \A k \in Lookups : DoneWith(k)' = DoneWith(k)
          /\ \A k \in Lookups, e \in DOMAIN entries : IsOwn(k, e)' <=> IsOwn(k, e)
      BY DEF Lookups, DoneWith, IsOwn
    <2>4. ASSUME NEW e \in DOMAIN entries', NEW i \in DOMAIN entries'[e].handlers,
                 NEW k \in Lookups', IsOwn(k, e)', i <= DoneWith(k)'
          PROVE  told'[entries'[e].handlers[i]] = <<lookups'[k].outcome>>
      BY <2>2, <2>3, <2>4
    <2>5. ASSUME NEW e \in DOMAIN entries', NEW i \in DOMAIN entries'[e].handlers,
                 \A k \in Lookups' : IsOwn(k, e)' => i > DoneWith(k)'
          PROVE  told'[entries'[e].handlers[i]] = <<>>
      <3>1. \A k \in Lookups : IsOwn(k, e) => i > DoneWith(k)
        BY <2>3, <2>5
      <3>2. QED
        BY <2>2, <2>3, <2>5, <3>1
    <2>6. ToldInTurn'
      BY <2>4, <2>5 DEF ToldInTurn
    <2>7. QED
      BY <2>1, <2>6
  <1>8. QED
    BY <1>2, <1>3, <1>4, <1>5, <1>6, <1>7 DEF HostInv

(* Nothing but the answer is noted. *)
LEMMA ResolveLiteralKeeps ==
  ASSUME HostInv, NEW t \in Threads, NEW n \in Names, ResolveLiteral(t, n)
  PROVE  HostInv'
  <1>1. /\ Ask(n, <<n>>) /\ Len(asked) < MaxCalls
        /\ UNCHANGED <<m_hostname_DNS_requests, gaicb, sig, resolving, lookups, failed>>
    BY DEF ResolveLiteral, MayCall
  <1>2. <<n>> \in Seq(Outcomes)
    BY DEF Outcomes
  <1>3. Len(asked') = Len(asked) + 1 /\ Len(asked) \in Nat /\ Len(lookups) \in Nat
    BY <1>1, <1>2, AskFacts, CallTypes, LookupTypes DEF HostInv
  <1>4. OneResolves'
    BY <1>1, <1>3 DEF HostInv, OneResolves, Busy, EmplaceFits, StartFits, EntriesOf, Lookups
  <1>5. QED
    BY <1>1, <1>2, <1>4, AskKeeps, CallTypes DEF HostInv

(* Threads take turns, so the one that calls is the only one.              *)
LEMMA ResolveNewKeeps ==
  ASSUME OneAtATime, HostInv, NEW t \in Threads, NEW n \in Names, ResolveNew(t, n)
  PROVE  HostInv'
  <1> DEFINE r == [Idle EXCEPT !.step = "EMPLACE", !.name = n]
  <1>1. /\ Ask(n, <<>>) /\ Len(asked) < MaxCalls
        /\ \A u \in Threads : resolving[u] = Idle
        /\ n \notin Literals /\ EntriesOf(n) = {}
        /\ resolving' = [resolving EXCEPT ![t] = r]
        /\ UNCHANGED <<m_hostname_DNS_requests, gaicb, sig, lookups, failed>>
    BY DEF ResolveNew, MayCall
  <1>2. Idle \in ResolvingRecords /\ Idle.step = "IDLE"
    BY DEF Idle, ResolvingRecords
  <1>3. <<>> \in Seq(Outcomes)
    OBVIOUS
  <1>4. Len(asked') = Len(asked) + 1 /\ Len(asked) \in Nat /\ Len(lookups) \in Nat
    BY <1>1, <1>3, AskFacts, CallTypes, LookupTypes DEF HostInv
  <1>5. r \in ResolvingRecords /\ r.step = "EMPLACE" /\ r.name = n
    BY <1>2 DEF ResolvingRecords
  <1> HIDE DEF r
  <1>6. /\ resolving' \in [Threads -> ResolvingRecords]
        /\ resolving'[t] = r
        /\ \A u \in Threads : u # t => resolving'[u] = Idle
    BY <1>1, <1>5, CallTypes DEF HostInv
  <1>7. OneResolves'
    <2>1. r # Idle
      BY <1>2, <1>5
    <2>2. /\ \A u \in Threads : Busy(u)' => u = t
          /\ \A u \in Threads : resolving'[u].step = "IDLE" => ~Busy(u)'
      BY <1>2, <1>5, <1>6, <2>1 DEF Busy
    <2>3. EmplaceFits(t)'
      BY <1>1, <1>5, <1>6 DEF EmplaceFits, EntriesOf
    <2>4. Len(lookups') < Len(asked') /\ Len(lookups') <= Len(asked')
      BY <1>1, <1>4 DEF HostInv, OneResolves
    <2>5. \A u \in Threads : Busy(u)' =>
            /\ Len(lookups') < Len(asked')
            /\ resolving'[u].step = "EMPLACE" => EmplaceFits(u)'
            /\ resolving'[u].step = "START" => StartFits(u)'
      BY <1>5, <1>6, <2>2, <2>3, <2>4
    <2>6. Threads' = Threads
      BY DEF Threads
    <2>7. QED
      BY <2>2, <2>4, <2>5, <2>6 DEF OneResolves
  <1>8. QED
    BY <1>1, <1>3, <1>6, <1>7, AskKeeps

(* A handler joins the entry of its name, behind those that are being      *)
(* called.                                                                 *)
LEMMA ResolveDuplicateKeeps ==
  ASSUME OneAtATime, HostInv, NEW t \in Threads, NEW n \in Names, ResolveDuplicate(t, n)
  PROVE  HostInv'
  <1> DEFINE h == Len(asked) + 1
  <1>1. PICK e \in EntriesOf(n) :
          m_hostname_DNS_requests' = [entries EXCEPT ![e].handlers = Listed(@, h)]
    <2> DEFINE First(e) == \A f \in EntriesOf(n) : e <= f
    <2>1. PICK e \in EntriesOf(n) : TRUE
      BY DEF ResolveDuplicate
    <2>2. \A f \in EntriesOf(n) : f = e
      BY DEF HostInv, NamesDiffer, EntriesOf
    <2>3. First(e)
      BY <2>1, <2>2, EntryTypes DEF HostInv, EntriesOf
    <2>4. (CHOOSE f \in EntriesOf(n) : First(f)) \in EntriesOf(n)
      BY <2>1, <2>3
    <2>5. QED
      BY <2>4 DEF ResolveDuplicate
  <1> DEFINE hs == entries[e].handlers
             m == Len(hs)
             info == [entries[e] EXCEPT !.handlers = Append(hs, h)]
  <1>2. /\ Ask(n, <<>>) /\ Len(asked) < MaxCalls /\ \A u \in Threads : resolving[u] = Idle
        /\ UNCHANGED <<gaicb, sig, resolving, lookups, failed>>
    BY DEF ResolveDuplicate, MayCall
  <1>3. /\ e \in DOMAIN entries /\ entries[e].hostname = n
        /\ Len(entries) \in Nat /\ DOMAIN entries = 1 .. Len(entries)
        /\ entries[e] \in RequestInfos /\ entries \in Seq(RequestInfos)
        /\ hs \in Seq(1 .. MaxCalls) /\ m \in Nat /\ DOMAIN hs = 1 .. m
    BY EntryTypes DEF EntriesOf, HostInv, TypeOK
  <1>4. /\ asked' \in Seq(Names) /\ Len(asked') = h /\ Len(asked') <= MaxCalls
        /\ told' \in Seq(Seq(Outcomes)) /\ Len(told') = Len(asked')
        /\ Handlers \subseteq Handlers' /\ h \in Handlers' /\ h \in 1 .. MaxCalls
        /\ h \notin Handlers /\ asked'[h] = n /\ told'[h] = <<>>
        /\ \A g \in Handlers : asked'[g] = asked[g] /\ told'[g] = told[g]
    <2>1. <<>> \in Seq(Outcomes)
      OBVIOUS
    <2>2. QED
      BY <1>2, <2>1, AskFacts
  <1> HIDE DEF h
  <1>5. /\ Append(hs, h) \in Seq(1 .. MaxCalls)
        /\ Len(Append(hs, h)) = m + 1 /\ DOMAIN Append(hs, h) = 1 .. m + 1
        /\ \A i \in 1 .. m : Append(hs, h)[i] = hs[i]
        /\ Append(hs, h)[m + 1] = h
    BY <1>3, <1>4, AppendFacts
  <1>6. /\ info \in RequestInfos /\ info.handlers = Append(hs, h)
        /\ info.hostname = n /\ info.request = entries[e].request
    BY <1>3, <1>5 DEF RequestInfos
  <1>7. entries' = [entries EXCEPT ![e] = info]
    BY <1>1 DEF Listed
  <1> HIDE DEF info
  <1>8. /\ entries' \in Seq(RequestInfos) /\ Len(entries') = Len(entries)
        /\ DOMAIN entries' = DOMAIN entries /\ entries'[e] = info
        /\ \A f \in DOMAIN entries : f # e => entries'[f] = entries[f]
    BY <1>3, <1>6, <1>7, ExceptFacts
  <1>9. \A f \in DOMAIN entries :
          /\ entries'[f].hostname = entries[f].hostname
          /\ entries'[f].request = entries[f].request
    BY <1>3, <1>6, <1>8
  <1>10. Lookups' = Lookups
    BY <1>2 DEF Lookups
  <1>11. TypeOK'
    BY <1>2, <1>4, <1>8 DEF HostInv, TypeOK, Threads
  <1>12. NamesDiffer' /\ \A k \in Lookups, f \in DOMAIN entries : IsOwn(k, f)' <=> IsOwn(k, f)
    BY <1>2, <1>8, <1>9, <1>10, NamesStay DEF HostInv
  <1>13. OneResolves'
    <2>1. Len(lookups') <= Len(asked')
      BY <1>2, <1>4, CallTypes, LookupTypes DEF HostInv, OneResolves, h
    <2>2. QED
      BY <1>2, <2>1 DEF OneResolves, Busy, Threads
  <1>14. RequestsApart'
    BY <1>2, <1>8, <1>9 DEF HostInv, RequestsApart
  <1>15. LookupsFit'
    <2>1. SUFFICES ASSUME NEW k \in Lookups, NEW f \in DOMAIN entries, IsOwn(k, f)
                   PROVE  LookupFits(k, f)'
      BY <1>8, <1>10, <1>12 DEF LookupsFit
    <2>2. LookupFits(k, f) /\ lookups[k].end \in Nat /\ lookups[k].last \in Nat
      BY <2>1, LookupTypes DEF HostInv, LookupsFit
    <2>3. lookups[k].end <= Len(entries'[f].handlers)
      <3>1. CASE f = e
        BY <1>3, <1>5, <1>6, <1>8, <2>2, <3>1 DEF LookupFits
      <3>2. CASE f # e
        BY <1>8, <2>2, <3>2 DEF LookupFits
      <3>3. QED
        BY <3>1, <3>2
    <2>4. lookups[k].pc \notin {"PENDING", "ENDED"} =>
            \A g \in 1 .. lookups[k].last : g # f => entries'[g].request # lookups[k].request
      <3>1. SUFFICES ASSUME lookups[k].pc \notin {"PENDING", "ENDED"},
                            NEW g \in 1 .. lookups[k].last, g # f
                     PROVE  entries'[g].request # lookups[k].request
        OBVIOUS
      <3>2. lookups[k].last <= Len(entries) /\ entries[g].request # lookups[k].request
        BY <2>2, <3>1 DEF LookupFits
      <3>3. g \in DOMAIN entries
        BY <1>3, <2>2, <3>2
      <3>4. QED
        BY <1>9, <3>2, <3>3
    <2>5. StillToReport(k, f)' = StillToReport(k, f) /\ Reported(k)' = Reported(k)
      BY <1>2 DEF StillToReport, Reported
    <2>6. entries'[f].request = entries[f].request /\ Len(entries') = Len(entries)
      BY <1>8, <1>9
    <2>7. lookups' = lookups /\ gaicb' = gaicb
      BY <1>2
    <2>8. QED
      BY <2>2, <2>3, <2>4, <2>5, <2>6, <2>7 DEF LookupFits
  <1>16. ASSUME NEW f \in DOMAIN entries, NEW i \in DOMAIN entries'[f].handlers
         PROVE  \/ i \in DOMAIN entries[f].handlers /\ entries'[f].handlers[i] = entries[f].handlers[i]
                \/ f = e /\ i = m + 1 /\ entries'[f].handlers[i] = h
    <2>1. CASE f # e
      BY <1>8, <1>16, <2>1
    <2>2. CASE f = e
      <3>1. entries'[f].handlers = Append(hs, h) /\ entries[f].handlers = hs
        BY <1>6, <1>8, <2>2
      <3>2. i \in 1 .. m + 1
        BY <1>5, <1>16, <3>1
      <3>3. CASE i = m + 1
        BY <1>5, <2>2, <3>1, <3>3
      <3>4. CASE i # m + 1
        <4>1. i \in 1 .. m
          BY <1>3, <3>2, <3>4
        <4>2. QED
          BY <1>3, <1>5, <3>1, <4>1
      <3>5. QED
        BY <3>3, <3>4
    <2>3. QED
      BY <2>1, <2>2
  <1>17. ListedOnce'
    <2>1. SUFFICES ASSUME NEW f \in DOMAIN entries,
                          NEW i \in DOMAIN entries'[f].handlers, NEW j \in DOMAIN entries'[f].handlers
                   PROVE  /\ entries'[f].handlers[i] \in Handlers'
                          /\ asked'[entries'[f].handlers[i]] = entries'[f].hostname
                          /\ entries'[f].handlers[i] = entries'[f].handlers[j] => i = j
      BY <1>8 DEF ListedOnce
    <2>2. \A g \in DOMAIN entries[f].handlers :
            /\ entries[f].handlers[g] \in Handlers
            /\ asked[entries[f].handlers[g]] = entries[f].hostname
      BY DEF HostInv, ListedOnce
    <2>3. /\ entries'[f].handlers[i] \in Handlers'
          /\ asked'[entries'[f].handlers[i]] = entries'[f].hostname
      BY <1>3, <1>4, <1>9, <1>16, <2>2
    <2>4. ASSUME entries'[f].handlers[i] = entries'[f].handlers[j]
          PROVE  i = j
      <3>1. CASE i \in DOMAIN entries[f].handlers /\ entries'[f].handlers[i] = entries[f].handlers[i]
        <4>1. entries'[f].handlers[j] # h
          BY <1>4, <2>2, <2>4, <3>1
        <4>2. j \in DOMAIN entries[f].handlers /\ entries'[f].handlers[j] = entries[f].handlers[j]
          BY <1>16, <4>1
        <4>3. QED
          BY <2>4, <3>1, <4>2 DEF HostInv, ListedOnce
      <3>2. CASE f = e /\ i = m + 1 /\ entries'[f].handlers[i] = h
        <4>1. ~(j \in DOMAIN entries[f].handlers /\ entries'[f].handlers[j] = entries[f].handlers[j])
          BY <1>4, <2>2, <2>4, <3>2
        <4>2. QED
          BY <1>16, <3>2, <4>1
      <3>3. QED
        BY <1>16, <3>1, <3>2
    <2>5. QED
      BY <2>3, <2>4
  <1>18. ToldInTurn'
    <2>1. /\ lookups' = lookups
          /\ \A k \in Lookups : DoneWith(k)' = DoneWith(k)
      BY <1>2 DEF DoneWith
    <2>2. \A f \in DOMAIN entries : \A i \in DOMAIN entries[f].handlers :
            told'[entries[f].handlers[i]] = told[entries[f].handlers[i]]
      BY <1>4 DEF HostInv, ListedOnce
    <2>3. \A k \in Lookups : IsOwn(k, e) => DoneWith(k) < m + 1
      <3>1. SUFFICES ASSUME NEW k \in Lookups, IsOwn(k, e)
                     PROVE  DoneWith(k) < m + 1
        OBVIOUS
      <3>2. /\ LookupFits(k, e) /\ lookups[k].end \in Nat /\ lookups[k].next \in Nat
            /\ lookups[k].pc \in {"PENDING", "ENDED", "WALK", "CALL", "HANDLER"}
        BY <1>3, <3>1, LookupTypes DEF HostInv, LookupsFit
      <3>3. QED
        BY <1>3, <3>2 DEF LookupFits, DoneWith
    <2>4. ASSUME NEW f \in DOMAIN entries', NEW i \in DOMAIN entries'[f].handlers,
                 NEW k \in Lookups', IsOwn(k, f)', i <= DoneWith(k)'
          PROVE  told'[entries'[f].handlers[i]] = <<lookups'[k].outcome>>
      <3>1. f \in DOMAIN entries /\ k \in Lookups /\ IsOwn(k, f) /\ i <= DoneWith(k)
        BY <1>8, <1>10, <1>12, <2>1, <2>4
      <3>2. DoneWith(k) \in Int
        BY <3>1, LookupTypes DEF HostInv, DoneWith
      <3>3. ~(f = e /\ i = m + 1)
        BY <1>3, <2>3, <3>1, <3>2
      <3>4. i \in DOMAIN entries[f].handlers /\ entries'[f].handlers[i] = entries[f].handlers[i]
        BY <1>16, <2>4, <3>1, <3>3
      <3>5. told[entries[f].handlers[i]] = <<lookups[k].outcome>>
        BY <3>1, <3>4 DEF HostInv, ToldInTurn
      <3>6. QED
        BY <2>1, <2>2, <3>1, <3>4, <3>5
    <2>5. ASSUME NEW f \in DOMAIN entries', NEW i \in DOMAIN entries'[f].handlers,
                 \A k \in Lookups' : IsOwn(k, f)' => i > DoneWith(k)'
          PROVE  told'[entries'[f].handlers[i]] = <<>>
      <3>1. f \in DOMAIN entries
        BY <1>8
      <3>2. \A k \in Lookups : IsOwn(k, f) => i > DoneWith(k)
        BY <1>10, <1>12, <2>1, <2>5, <3>1
      <3>3. CASE i \in DOMAIN entries[f].handlers /\ entries'[f].handlers[i] = entries[f].handlers[i]
        <4>1. told[entries[f].handlers[i]] = <<>>
          BY <3>1, <3>2, <3>3 DEF HostInv, ToldInTurn
        <4>2. QED
          BY <2>2, <3>1, <3>3, <4>1
      <3>4. CASE entries'[f].handlers[i] = h
        BY <1>4, <3>4
      <3>5. QED
        BY <1>16, <2>5, <3>1, <3>3, <3>4
    <2>6. QED
      BY <2>4, <2>5 DEF ToldInTurn
  <1>19. QED
    BY <1>11, <1>12, <1>13, <1>14, <1>15, <1>17, <1>18 DEF HostInv

(* A new entry gets a request that no entry and no lookup relies on, and   *)
(* is past the end of every walk.                                          *)
LEMMA EmplaceKeeps ==
  ASSUME HostInv, NEW t \in Threads, Emplace(t)
  PROVE  HostInv'
  <1>1. PICK a \in Addresses :
          /\ gaicb[a] = "FREE"
          /\ gaicb' = [gaicb EXCEPT ![a] = NULL]
          /\ m_hostname_DNS_requests' = Append(entries, RequestInfo(resolving[t].name, a))
          /\ sig' = a
          /\ resolving' = [resolving EXCEPT ![t] =
               [@ EXCEPT !.step = "START", !.request = a, !.size = Len(entries) + 1]]
    BY DEF Emplace
  <1> DEFINE n == resolving[t].name
             N == Len(entries) + 1
             info == RequestInfo(n, a)
             r == [resolving[t] EXCEPT !.step = "START", !.request = a, !.size = N]
  <1>2. /\ UNCHANGED <<lookups, asked, told, failed>>
        /\ resolving[t].step = "EMPLACE" /\ resolving[t] \in ResolvingRecords
        /\ Idle.step = "IDLE"
    BY CallTypes DEF Emplace, HostInv, Idle
  <1>3. Busy(t)
    BY <1>2 DEF Busy
  <1>4. /\ EmplaceFits(t) /\ Len(lookups) < Len(asked)
        /\ \A u \in Threads : Busy(u) => u = t
    BY <1>2, <1>3 DEF HostInv, OneResolves
  <1>5. /\ n \in Names \ Literals
        /\ \A e \in DOMAIN entries : entries[e].hostname # n
    BY <1>4 DEF EmplaceFits, EntriesOf
  <1>6. /\ info \in RequestInfos /\ info.hostname = n /\ info.request = a /\ info.handlers = <<>>
    BY <1>5 DEF RequestInfos, RequestInfo
  <1>7. /\ Len(entries) \in Nat /\ DOMAIN entries = 1 .. Len(entries)
        /\ entries \in Seq(RequestInfos)
    BY EntryTypes DEF HostInv, TypeOK
  <1>8. /\ r \in ResolvingRecords /\ r.step = "START" /\ r.name = n /\ r.request = a
    <2>1. N \in Nat
      BY <1>7
    <2>2. QED
      BY <1>2, <2>1 DEF ResolvingRecords
  <1> HIDE DEF info, r
  <1>9. /\ entries' \in Seq(RequestInfos) /\ Len(entries') = N /\ N \in DOMAIN entries'
        /\ DOMAIN entries' = DOMAIN entries \cup {N} /\ N \notin DOMAIN entries
        /\ \A e \in DOMAIN entries : entries'[e] = entries[e]
        /\ entries'[N] = info
    <2>1. entries' = Append(entries, info)
      BY <1>1 DEF info
    <2>2. /\ entries' \in Seq(RequestInfos) /\ Len(entries') = N
          /\ DOMAIN entries' = 1 .. N
          /\ \A e \in 1 .. Len(entries) : entries'[e] = entries[e]
          /\ entries'[N] = info
      BY <1>6, <1>7, <2>1, AppendFacts
    <2>3. QED
      BY <1>7, <2>2
  <1>10. /\ gaicb' \in [Addresses -> {"FREE", NULL} \cup Names]
         /\ gaicb'[a] = NULL /\ a # NULL
         /\ \A b \in Addresses : b # a => gaicb'[b] = gaicb[b]
    BY <1>1, CallTypes, HostnameAssumption DEF HostInv
  <1>11. /\ resolving' \in [Threads -> ResolvingRecords]
         /\ resolving'[t] = r
         /\ \A u \in Threads : u # t => resolving'[u] = resolving[u]
    BY <1>1, <1>8, CallTypes DEF HostInv, r
  <1>12. Lookups' = Lookups /\ lookups' = lookups /\ told' = told /\ asked' = asked
    BY <1>2 DEF Lookups
  <1>13. \A k \in Lookups : lookups[k].hostname # n
    BY <1>5 DEF HostInv, NamesDiffer, IsOwn
  <1>14. \A k \in Lookups :
           /\ \A e \in DOMAIN entries : IsOwn(k, e)' <=> IsOwn(k, e)
           /\ \A e \in DOMAIN entries' : IsOwn(k, e)' => e \in DOMAIN entries
    BY <1>6, <1>9, <1>12, <1>13 DEF IsOwn
  <1>15. TypeOK'
    BY <1>1, <1>2, <1>9, <1>10, <1>11 DEF HostInv, TypeOK, ResolvingRecords, Threads
  <1>16. NamesDiffer'
    <2>1. \A e \in DOMAIN entries' : entries'[e].hostname \notin Literals
      BY <1>5, <1>6, <1>9 DEF HostInv, NamesDiffer
    <2>2. \A e, f \in DOMAIN entries' : entries'[e].hostname = entries'[f].hostname => e = f
      BY <1>5, <1>6, <1>9 DEF HostInv, NamesDiffer
    <2>3. \A k \in Lookups : \E e \in DOMAIN entries' : IsOwn(k, e)'
      BY <1>9, <1>14 DEF HostInv, NamesDiffer
    <2>4. \A k, l \in Lookups : lookups[k].hostname = lookups[l].hostname => k = l
      BY DEF HostInv, NamesDiffer
    <2>5. QED
      BY <1>12, <2>1, <2>2, <2>3, <2>4 DEF NamesDiffer
  <1>17. OneResolves'
    <2>1. \A u \in Threads : Busy(u)' => u = t
      BY <1>4, <1>11 DEF Busy
    <2>2. StartFits(t)'
      <3>1. entries' # <<>>
        BY <1>9
      <3>2. QED
        BY <1>1, <1>6, <1>8, <1>9, <1>10, <1>11, <1>12, <1>13, <3>1 DEF StartFits
    <2>3. Len(lookups') < Len(asked') /\ Len(lookups') <= Len(asked')
      BY <1>4, <1>12, CallTypes, LookupTypes DEF HostInv
    <2>4. \A u \in Threads : resolving'[u].step = "IDLE" => ~Busy(u)'
      BY <1>2, <1>8, <1>11 DEF HostInv, OneResolves, Busy
    <2>5. \A u \in Threads : Busy(u)' =>
            /\ Len(lookups') < Len(asked')
            /\ resolving'[u].step = "EMPLACE" => EmplaceFits(u)'
            /\ resolving'[u].step = "START" => StartFits(u)'
      BY <1>8, <1>11, <2>1, <2>2, <2>3
    <2>6. Threads' = Threads
      BY DEF Threads
    <2>7. QED
      BY <2>1, <2>3, <2>4, <2>5, <2>6 DEF OneResolves
  <1>18. \A e \in DOMAIN entries : entries[e].request # a
    BY <1>1, <1>10 DEF HostInv, RequestsApart
  <1>19. RequestsApart'
    <2>1. SUFFICES ASSUME NEW e \in DOMAIN entries', entries'[e].request # NULL
                   PROVE  /\ gaicb'[entries'[e].request] # "FREE"
                          /\ \A f \in DOMAIN entries' :
                               entries'[e].request = entries'[f].request => e = f
      BY DEF RequestsApart
    <2>2. CASE e = N
      <3>1. gaicb'[entries'[e].request] # "FREE"
        BY <1>6, <1>9, <1>10, <2>2, HostnameAssumption
      <3>2. QED
        BY <1>6, <1>9, <1>18, <2>2, <3>1
    <2>3. CASE e # N
      <3>1. e \in DOMAIN entries /\ entries'[e] = entries[e]
        BY <1>9, <2>1, <2>3
      <3>2. entries[e].request \in Addresses /\ entries[e].request # a
        BY <1>18, <2>1, <3>1, EntryTypes DEF HostInv
      <3>3. gaicb'[entries[e].request] # "FREE"
        BY <1>10, <2>1, <3>1, <3>2 DEF HostInv, RequestsApart
      <3>4. \A f \in DOMAIN entries : entries[e].request = entries[f].request => e = f
        BY <2>1, <3>1 DEF HostInv, RequestsApart
      <3>5. QED
        BY <1>6, <1>9, <3>1, <3>2, <3>3, <3>4
    <2>4. QED
      BY <2>2, <2>3
  <1>20. LookupsFit'
    <2>1. SUFFICES ASSUME NEW k \in Lookups, NEW e \in DOMAIN entries, IsOwn(k, e)
                   PROVE  LookupFits(k, e)'
      <3>1. ASSUME NEW k \in Lookups', NEW e \in DOMAIN entries', IsOwn(k, e)'
            PROVE  k \in Lookups /\ e \in DOMAIN entries /\ IsOwn(k, e)
        BY <1>12, <1>14, <3>1
      <3>2. QED
        BY <3>1 DEF LookupsFit
    <2>2. /\ LookupFits(k, e) /\ lookups[k].last \in Nat
          /\ lookups[k].request \in Addresses
      BY <2>1, LookupTypes DEF HostInv, LookupsFit
    <2>3. StillToReport(k, e) => gaicb'[lookups[k].request] = gaicb[lookups[k].request]
      BY <1>10, <1>18, <2>2 DEF LookupFits
    <2>4. lookups[k].pc = "PENDING" => StillToReport(k, e)
      BY DEF StillToReport
    <2>5. lookups[k].pc \notin {"PENDING", "ENDED"} =>
            /\ lookups[k].last <= Len(entries')
            /\ \A g \in 1 .. lookups[k].last : g # e => entries'[g].request # lookups[k].request
      <3>1. SUFFICES ASSUME lookups[k].pc \notin {"PENDING", "ENDED"}
                     PROVE  /\ lookups[k].last <= Len(entries')
                            /\ \A g \in 1 .. lookups[k].last : g # e =>
                                 entries'[g].request # lookups[k].request
        OBVIOUS
      <3>2. /\ lookups[k].last <= Len(entries)
            /\ \A g \in 1 .. lookups[k].last : g # e => entries[g].request # lookups[k].request
        BY <2>2, <3>1 DEF LookupFits
      <3>3. \A g \in 1 .. lookups[k].last : g \in DOMAIN entries
        BY <1>7, <2>2, <3>2
      <3>4. QED
        BY <1>7, <1>9, <2>2, <3>2, <3>3
    <2>6. StillToReport(k, e)' = StillToReport(k, e) /\ Reported(k)' = Reported(k)
      BY <1>12 DEF StillToReport, Reported
    <2>7. entries'[e] = entries[e]
      BY <1>9
    <2>8. QED
      BY <1>12, <2>2, <2>3, <2>4, <2>5, <2>6, <2>7 DEF LookupFits
  <1>21. \A i \in DOMAIN entries'[N].handlers : FALSE
    BY <1>6, <1>9
  <1>22. ListedOnce'
    <2>1. SUFFICES ASSUME NEW e \in DOMAIN entries,
                          NEW i \in DOMAIN entries[e].handlers, NEW j \in DOMAIN entries[e].handlers
                   PROVE  /\ entries[e].handlers[i] \in Handlers'
                          /\ asked'[entries[e].handlers[i]] = entries[e].hostname
                          /\ entries[e].handlers[i] = entries[e].handlers[j] => i = j
      BY <1>9, <1>21 DEF ListedOnce
    <2>2. QED
      BY <1>12 DEF HostInv, ListedOnce, Handlers
  <1>23. ToldInTurn'
    <2>1. ASSUME NEW e \in DOMAIN entries', NEW i \in DOMAIN entries'[e].handlers
          PROVE  e \in DOMAIN entries /\ entries'[e] = entries[e] /\ i \in DOMAIN entries[e].handlers
      BY <1>9, <1>21, <2>1
    <2>2. \A k \in Lookups : DoneWith(k)' = DoneWith(k)
      BY <1>12 DEF DoneWith
    <2>3. ASSUME NEW e \in DOMAIN entries', NEW i \in DOMAIN entries'[e].handlers,
                 NEW k \in Lookups', IsOwn(k, e)', i <= DoneWith(k)'
          PROVE  told'[entries'[e].handlers[i]] = <<lookups'[k].outcome>>
      <3>1. /\ e \in DOMAIN entries /\ entries'[e] = entries[e] /\ i \in DOMAIN entries[e].handlers
            /\ k \in Lookups /\ i <= DoneWith(k)
        BY <1>12, <2>1, <2>2, <2>3
      <3>2. IsOwn(k, e)
        BY <1>14, <2>3, <3>1
      <3>3. told[entries[e].handlers[i]] = <<lookups[k].outcome>>
        BY <3>1, <3>2 DEF HostInv, ToldInTurn
      <3>4. QED
        BY <1>12, <3>1, <3>3
    <2>4. ASSUME NEW e \in DOMAIN entries', NEW i \in DOMAIN entries'[e].handlers,
                 \A k \in Lookups' : IsOwn(k, e)' => i > DoneWith(k)'
          PROVE  told'[entries'[e].handlers[i]] = <<>>
      <3>1. e \in DOMAIN entries /\ entries'[e] = entries[e] /\ i \in DOMAIN entries[e].handlers
        BY <2>1, <2>4
      <3>2. \A k \in Lookups : IsOwn(k, e) => i > DoneWith(k)
        BY <1>12, <1>14, <2>2, <2>4, <3>1
      <3>3. told[entries[e].handlers[i]] = <<>>
        BY <3>1, <3>2 DEF HostInv, ToldInTurn
      <3>4. QED
        BY <1>12, <3>1, <3>3
    <2>5. QED
      BY <2>3, <2>4 DEF ToldInTurn
  <1>24. QED
    BY <1>15, <1>16, <1>17, <1>19, <1>20, <1>22, <1>23 DEF HostInv

(* The thread leaves resolve_hostname, with or without a lookup. *)
LEMMA TurnEnds ==
  ASSUME HostInv, NEW t \in Threads, Start(t), Len(lookups') \in Nat,
         Len(lookups') <= Len(lookups) + 1
  PROVE  /\ OneResolves'
         /\ resolving' \in [Threads -> ResolvingRecords]
         /\ StartFits(t)
  <1>1. /\ resolving[t].step = "START" /\ Idle.step = "IDLE"
        /\ resolving' = [resolving EXCEPT ![t] = Idle]
        /\ UNCHANGED <<m_hostname_DNS_requests, gaicb, sig, asked, told>>
    BY DEF Start, Idle
  <1>2. Busy(t)
    BY <1>1 DEF Busy
  <1>3. /\ StartFits(t) /\ Len(lookups) < Len(asked)
        /\ \A u \in Threads : Busy(u) => u = t
    BY <1>1, <1>2 DEF HostInv, OneResolves
  <1>4. Idle \in ResolvingRecords
    BY DEF Idle, ResolvingRecords
  <1>5. resolving' \in [Threads -> ResolvingRecords] /\ \A u \in Threads : resolving'[u] = Idle
    BY <1>1, <1>3, <1>4, CallTypes DEF HostInv, Busy
  <1>6. Len(lookups') <= Len(asked')
    BY <1>1, <1>3, CallTypes, LookupTypes DEF HostInv
  <1>7. OneResolves'
    BY <1>5, <1>6 DEF OneResolves, Busy, Threads
  <1>8. QED
    BY <1>3, <1>5, <1>7

(* The lookup of a new name finds its entry, which holds its request. *)
LEMMA StartKeeps ==
  ASSUME HostInv, NEW t \in Threads, Start(t)
  PROVE  HostInv'
  <1>1. /\ UNCHANGED <<m_hostname_DNS_requests, gaicb, sig, asked, told>>
        /\ failed' \in BOOLEAN
        /\ \/ UNCHANGED lookups
           \/ lookups' = Append(lookups, Lookup(resolving[t].name, resolving[t].request))
    BY DEF Start, HostInv, TypeOK
  <1>2. /\ lookups \in Seq(LookupRecords) /\ Len(lookups) \in Nat
        /\ Lookups = 1 .. Len(lookups)
    BY LookupTypes DEF HostInv, TypeOK
  <1>3. RequestsApart' /\ ListedOnce'
    BY <1>1 DEF HostInv, RequestsApart, ListedOnce, Handlers
  <1>4. CASE UNCHANGED lookups
    <2>1. OneResolves' /\ resolving' \in [Threads -> ResolvingRecords]
      BY <1>2, <1>4, TurnEnds
    <2>2. TypeOK'
      BY <1>1, <1>4, <2>1 DEF HostInv, TypeOK, ResolvingRecords, Threads
    <2>3. NamesDiffer'
      BY <1>1, <1>4 DEF HostInv, NamesDiffer, Lookups, IsOwn
    <2>4. LookupsFit'
      BY <1>1, <1>4 DEF HostInv, LookupsFit, Lookups, IsOwn, LookupFits, StillToReport, Reported
    <2>5. ToldInTurn'
      BY <1>1, <1>4 DEF HostInv, ToldInTurn, Lookups, IsOwn, DoneWith
    <2>6. QED
      BY <1>3, <2>1, <2>2, <2>3, <2>4, <2>5 DEF HostInv
  <1>5. CASE lookups' = Append(lookups, Lookup(resolving[t].name, resolving[t].request))
    <2> DEFINE n == resolving[t].name
               a == resolving[t].request
               r == Lookup(n, a)
               K == Len(lookups) + 1
               E == Len(entries)
    <2>1. Len(lookups') = Len(lookups) + 1
      BY <1>2, <1>5
    <2>2. OneResolves' /\ resolving' \in [Threads -> ResolvingRecords] /\ StartFits(t)
      BY <1>2, <2>1, TurnEnds
    <2>3. /\ E \in DOMAIN entries /\ entries[E].hostname = n /\ entries[E].request = a
          /\ a \in Addresses /\ sig = a /\ gaicb[a] = NULL /\ n \in Names
          /\ \A k \in Lookups : lookups[k].hostname # n
      <3>1. E \in DOMAIN entries
        BY <2>2, EntryTypes, EmptySeq DEF HostInv, StartFits
      <3>2. QED
        BY <2>2, <3>1, EntryTypes DEF HostInv, StartFits
    <2>4. r = [hostname |-> n, request |-> a, ptr |-> a, pc |-> "PENDING",
               outcome |-> NULL, result |-> NULL,
               at |-> 0, last |-> 0, next |-> 0, end |-> 0]
      BY <2>3 DEF Lookup
    <2>5. /\ r \in LookupRecords
          /\ r.hostname = n /\ r.request = a /\ r.ptr = a /\ r.pc = "PENDING" /\ r.end = 0
      BY <2>3, <2>4 DEF LookupRecords
    <2> HIDE DEF r
    <2>6. /\ lookups' \in Seq(LookupRecords)
          /\ Lookups' = Lookups \cup {K} /\ K \notin Lookups
          /\ \A k \in Lookups : lookups'[k] = lookups[k]
          /\ lookups'[K] = r
      <3>1. lookups' = Append(lookups, r)
        BY <1>5 DEF r
      <3>2. /\ lookups' \in Seq(LookupRecords) /\ Len(lookups') = K
            /\ \A k \in 1 .. Len(lookups) : lookups'[k] = lookups[k]
            /\ lookups'[K] = r
        BY <1>2, <2>5, <3>1, AppendFacts
      <3>3. QED
        BY <1>2, <3>2 DEF Lookups
    <2>7. entries' = entries /\ gaicb' = gaicb /\ told' = told /\ sig' = sig
      BY <1>1
    <2> HIDE DEF K, E, n, a
    <2>8. TypeOK'
      <3>1. Len(lookups') <= MaxCalls
        BY <1>1, <1>2, <2>1, <2>2, CallTypes, HostnameAssumption DEF HostInv, OneResolves
      <3>2. QED
        BY <1>1, <2>2, <2>6, <3>1 DEF HostInv, TypeOK, ResolvingRecords, Threads
    <2>9. /\ \A k \in Lookups, e \in DOMAIN entries : IsOwn(k, e)' <=> IsOwn(k, e)
          /\ \A e \in DOMAIN entries : entries[e].hostname = r.hostname <=> e = E
      BY <2>3, <2>5, <2>6, <2>7 DEF HostInv, NamesDiffer, IsOwn
    <2>10. NamesDiffer'
      <3>1. \A k, l \in Lookups' : lookups'[k].hostname = lookups'[l].hostname => k = l
        BY <2>3, <2>5, <2>6 DEF HostInv, NamesDiffer
      <3>2. ASSUME NEW k \in Lookups'
            PROVE  \E e \in DOMAIN entries : entries[e].hostname = lookups'[k].hostname
        BY <2>3, <2>5, <2>6 DEF HostInv, NamesDiffer, IsOwn
      <3>3. QED
        BY <2>7, <3>1, <3>2 DEF HostInv, NamesDiffer, IsOwn
    <2>11. LookupsFit'
      <3>1. SUFFICES ASSUME NEW k \in Lookups', NEW e \in DOMAIN entries, IsOwn(k, e)'
                     PROVE  LookupFits(k, e)'
        BY <2>7 DEF LookupsFit
      <3>2. CASE k \in Lookups
        <4>1. LookupFits(k, e) /\ lookups'[k] = lookups[k]
          BY <2>6, <2>9, <3>1, <3>2 DEF HostInv, LookupsFit
        <4>2. QED
          BY <2>7, <4>1 DEF LookupFits, StillToReport, Reported
      <3>3. CASE k = K
        <4>1. lookups'[k] = r
          BY <2>6, <3>3
        <4>2. e = E
          BY <2>7, <2>9, <3>1, <4>1 DEF IsOwn
        <4>3. 0 <= Len(entries[e].handlers)
          BY <3>1, EntryTypes DEF HostInv
        <4>4. QED
          BY <2>3, <2>5, <2>7, <4>1, <4>2, <4>3 DEF LookupFits
      <3>4. QED
        BY <2>6, <3>1, <3>2, <3>3
    <2>12. ToldInTurn'
      <3>1. \A k \in Lookups : DoneWith(k)' = DoneWith(k)
        BY <2>6 DEF DoneWith
      <3>2. ASSUME NEW e \in DOMAIN entries', NEW i \in DOMAIN entries'[e].handlers,
                   NEW k \in Lookups', IsOwn(k, e)', i <= DoneWith(k)'
            PROVE  told'[entries'[e].handlers[i]] = <<lookups'[k].outcome>>
        <4>1. e \in DOMAIN entries /\ i \in DOMAIN entries[e].handlers /\ i \in Nat /\ i >= 1
          BY <2>7, <3>2, EntryTypes DEF HostInv
        <4>2. k # K
          <5>1. lookups'[K].pc = "PENDING" /\ lookups'[K].end = 0
            BY <2>5, <2>6
          <5>2. QED
            BY <3>2, <4>1, <5>1 DEF DoneWith
        <4>3. k \in Lookups
          BY <2>6, <3>2, <4>2
        <4>4. IsOwn(k, e) /\ i <= DoneWith(k)
          BY <2>9, <3>1, <3>2, <4>1, <4>3
        <4>5. told[entries[e].handlers[i]] = <<lookups[k].outcome>>
          BY <4>1, <4>3, <4>4 DEF HostInv, ToldInTurn
        <4>6. QED
          BY <2>6, <2>7, <4>3, <4>5
      <3>3. ASSUME NEW e \in DOMAIN entries', NEW i \in DOMAIN entries'[e].handlers,
                   \A k \in Lookups' : IsOwn(k, e)' => i > DoneWith(k)'
            PROVE  told'[entries'[e].handlers[i]] = <<>>
        <4>1. e \in DOMAIN entries /\ i \in DOMAIN entries[e].handlers
          BY <2>7, <3>3
        <4>2. \A k \in Lookups : IsOwn(k, e) => i > DoneWith(k)
          BY <2>6, <2>9, <3>1, <3>3, <4>1
        <4>3. told[entries[e].handlers[i]] = <<>>
          BY <4>1, <4>2 DEF HostInv, ToldInTurn
        <4>4. QED
          BY <2>7, <4>3
      <3>4. QED
        BY <3>2, <3>3 DEF ToldInTurn
    <2>13. QED
      BY <1>3, <2>2, <2>8, <2>10, <2>11, <2>12 DEF HostInv
  <1>6. QED
    BY <1>1, <1>4, <1>5

-----------------------------------------------------------------------------
(* The theorems.                                                           *)

(* HostInv is inductive. *)
LEMMA HostInit == Init => HostInv
  <1> SUFFICES ASSUME Init
               PROVE  HostInv
    OBVIOUS
  <1>1. /\ entries = <<>> /\ lookups = <<>> /\ asked = <<>> /\ told = <<>>
        /\ \A t \in Threads : resolving[t] = Idle
        /\ Lookups = {} /\ DOMAIN entries = {}
    BY DEF Init, Lookups
  <1>2. TypeOK
    <2>1. /\ <<>> \in Seq(RequestInfos) /\ <<>> \in Seq(LookupRecords)
          /\ <<>> \in Seq(Names) /\ <<>> \in Seq(Seq(Outcomes)) /\ Len(<<>>) = 0
      OBVIOUS
    <2>2. Idle \in ResolvingRecords
      BY DEF Idle, ResolvingRecords
    <2>3. resolving \in [Threads -> ResolvingRecords]
      BY <2>2 DEF Init
    <2>4. /\ gaicb \in [Addresses -> {"FREE", NULL} \cup Names]
          /\ sig \in Addresses \cup {NULL} /\ failed \in BOOLEAN
      BY DEF Init
    <2>5. 0 <= MaxCalls
      BY HostnameAssumption
    <2>6. QED
      BY <1>1, <2>1, <2>3, <2>4, <2>5 DEF TypeOK, ResolvingRecords
  <1>3. OneResolves
    BY <1>1 DEF OneResolves, Busy
  <1>4. QED
    BY <1>1, <1>2, <1>3 DEF HostInv, NamesDiffer, RequestsApart, LookupsFit, ListedOnce, ToldInTurn

(* Every action keeps it while threads take turns. *)
LEMMA HostNext ==
  ASSUME OneAtATime, HostInv, [Next]_vars
  PROVE  HostInv'
  <1>1. ASSUME NEW t \in Threads, resolve_hostname(t)
        PROVE  HostInv'
    <2>1. CASE \E n \in Names : ResolveLiteral(t, n) \/ ResolveDuplicate(t, n) \/ ResolveNew(t, n)
      BY <2>1, ResolveLiteralKeeps, ResolveDuplicateKeeps, ResolveNewKeeps
    <2>2. CASE Emplace(t)
      BY <2>2, EmplaceKeeps
    <2>3. CASE Start(t)
      BY <2>3, StartKeeps
    <2>4. QED
      BY <1>1, <2>1, <2>2, <2>3 DEF resolve_hostname
  <1>2. ASSUME NEW k \in Lookups, LookupEnds(k) \/ trigger_hostname_resolve_callbacks(k)
        PROVE  HostInv'
    BY <1>2, LookupEndsKeeps, NotifierStartsKeeps, SkipEntryKeeps, HandleEntryKeeps,
       CallHandlerKeeps, HandlerReturnsKeeps, EntryDoneKeeps
       DEF trigger_hostname_resolve_callbacks
  <1>3. CASE UNCHANGED vars
    <2>1. /\ UNCHANGED <<m_hostname_DNS_requests, gaicb, sig, resolving, lookups, asked, told>>
          /\ UNCHANGED failed
      BY <1>3 DEF vars
    <2>2. TypeOK'
      BY <2>1 DEF HostInv, TypeOK, Threads
    <2>3. NamesDiffer'
      BY <2>1 DEF HostInv, NamesDiffer, Lookups, IsOwn
    <2>4. OneResolves'
      BY <2>1 DEF HostInv, OneResolves, Lookups, Busy, EmplaceFits, StartFits, EntriesOf
    <2>5. RequestsApart'
      BY <2>1 DEF HostInv, RequestsApart
    <2>6. LookupsFit'
      BY <2>1 DEF HostInv, LookupsFit, Lookups, IsOwn, LookupFits, StillToReport, Reported
    <2>7. ListedOnce'
      BY <2>1 DEF HostInv, ListedOnce, Handlers
    <2>8. ToldInTurn'
      BY <2>1 DEF HostInv, ToldInTurn, Lookups, IsOwn, DoneWith
    <2>9. QED
      BY <2>2, <2>3, <2>4, <2>5, <2>6, <2>7, <2>8 DEF HostInv
  <1>4. QED
    BY <1>1, <1>2, <1>3 DEF Next

(* So it always holds. *)
LEMMA HostInvariant ==
  ASSUME OneAtATime
  PROVE  Spec => []HostInv
  <1>1. HostInv /\ [Next]_vars => HostInv'
    BY HostNext
  <1>2. QED
    BY <1>1, HostInit, PTL DEF Spec

(* Types, and no more lookups than calls: a lookup is started for the      *)
(* first call of a name only.                                              *)
THEOREM LookupsAreTyped ==
  ASSUME OneAtATime
  PROVE  Spec => []TypeOK
  <1>1. HostInv => TypeOK
    BY DEF HostInv
  <1>2. QED
    BY <1>1, HostInvariant, PTL

(* free(it.request): the resolver has no request that was freed, and an    *)
(* entry none that was freed through another entry, although addresses are *)
(* used again.                                                             *)
THEOREM RequestsOutliveTheirLookups ==
  ASSUME OneAtATime
  PROVE  Spec => []NoFreedRequestIsUsed
  <1>1. HostInv => NoFreedRequestIsUsed
    <2>1. SUFFICES ASSUME HostInv
                   PROVE  NoFreedRequestIsUsed
      OBVIOUS
    <2>2. ASSUME NEW k \in Lookups, lookups[k].pc = "PENDING"
          PROVE  gaicb[lookups[k].request] # "FREE"
      <3>1. \E e \in DOMAIN entries : LookupFits(k, e)
        BY <2>1, OwnEntry
      <3>2. gaicb[lookups[k].request] = NULL
        BY <2>2, <3>1 DEF LookupFits
      <3>3. QED
        BY <3>2, HostnameAssumption
    <2>3. QED
      BY <2>1, <2>2 DEF HostInv, NoFreedRequestIsUsed, RequestsApart
  <1>2. QED
    BY <1>1, HostInvariant, PTL

(* The loop over the handlers of an entry, which takes begin and end once: *)
(* a handler that joins meanwhile does not get before an older one.        *)
THEOREM HandlersTakeTurns ==
  ASSUME OneAtATime
  PROVE  Spec => []HandlersAreCalledInOrder
  <1>1. HostInv => HandlersAreCalledInOrder
    <2>1. SUFFICES ASSUME HostInv, NEW e \in DOMAIN entries,
                          NEW i \in DOMAIN entries[e].handlers,
                          NEW j \in DOMAIN entries[e].handlers,
                          i < j, told[entries[e].handlers[j]] # <<>>
                   PROVE  told[entries[e].handlers[i]] # <<>>
      BY DEF HandlersAreCalledInOrder
    <2>2. PICK k \in Lookups : IsOwn(k, e) /\ ~(j > DoneWith(k))
      BY <2>1 DEF HostInv, ToldInTurn
    <2>3. DoneWith(k) \in Int /\ i \in Nat /\ j \in Nat
      BY <2>1, LookupTypes, EntryTypes DEF HostInv, DoneWith
    <2>4. i <= DoneWith(k)
      BY <2>1, <2>2, <2>3
    <2>5. told[entries[e].handlers[i]] = <<lookups[k].outcome>>
      BY <2>1, <2>2, <2>4 DEF HostInv, ToldInTurn
    <2>6. QED
      BY <2>5
  <1>2. QED
    BY <1>1, HostInvariant, PTL

-----------------------------------------------------------------------------
(* That this is a name service.                                            *)

(* What is known of each name, as in Service. *)
Known == [n \in Names |-> IF n \in Literals THEN n
                          ELSE IF Found(n) = {} THEN NULL
                          ELSE lookups[CHOOSE k \in Found(n) : TRUE].outcome]

(* The names of lookups, and what is known of them and of addresses. *)
LEMMA KnownFacts ==
  ASSUME HostInv
  PROVE  /\ \A n \in Literals : Known[n] = n /\ n # NULL /\ n \in Names
         /\ \A k \in Lookups :
              /\ lookups[k].hostname \in Names \ Literals
              /\ \A l \in Lookups : lookups[l].hostname = lookups[k].hostname => l = k
              /\ lookups[k].pc = "PENDING" => Known[lookups[k].hostname] = NULL
              /\ lookups[k].pc # "PENDING" => Known[lookups[k].hostname] = lookups[k].outcome
  <1>1. \A n \in Literals : Known[n] = n /\ n # NULL /\ n \in Names
    BY HostnameAssumption DEF Known
  <1>2. ASSUME NEW k \in Lookups
        PROVE  /\ lookups[k].hostname \in Names \ Literals
               /\ \A l \in Lookups : lookups[l].hostname = lookups[k].hostname => l = k
    BY LookupTypes DEF HostInv, NamesDiffer, IsOwn
  <1>3. ASSUME NEW k \in Lookups, lookups[k].pc = "PENDING"
        PROVE  Known[lookups[k].hostname] = NULL
    <2>1. Found(lookups[k].hostname) = {}
      BY <1>2, <1>3 DEF Found
    <2>2. QED
      BY <1>2, <2>1 DEF Known
  <1>4. ASSUME NEW k \in Lookups, lookups[k].pc # "PENDING"
        PROVE  Known[lookups[k].hostname] = lookups[k].outcome
    <2>1. Found(lookups[k].hostname) = {k}
      BY <1>2, <1>4 DEF Found
    <2>2. (CHOOSE l \in Found(lookups[k].hostname) : TRUE) = k
      BY <2>1
    <2>3. QED
      BY <1>2, <2>1, <2>2 DEF Known
  <1>5. QED
    BY <1>1, <1>2, <1>3, <1>4

(* Nothing is learned while no lookup ends. *)
LEMMA KnownStays ==
  ASSUME \A n \in Names : Found(n)' = Found(n),
         \A n \in Names : \A k \in Found(n) : lookups'[k].outcome = lookups[k].outcome
  PROVE  Known' = Known
  <1>1. ASSUME NEW n \in Names, Found(n) # {}
        PROVE  LET k == CHOOSE k \in Found(n) : TRUE IN
                 /\ (CHOOSE l \in Found(n)' : TRUE) = k
                 /\ lookups'[k].outcome = lookups[k].outcome
    BY <1>1
  <1>2. QED
    BY <1>1 DEF Known

(* A lookup whose thread takes a step. *)
LEMMA ReportLearnsNothing ==
  ASSUME HostInv, NEW k \in Lookups, NEW r, lookups' = [lookups EXCEPT ![k] = r],
         r.hostname = lookups[k].hostname, r.outcome = lookups[k].outcome,
         lookups[k].pc # "PENDING", r.pc # "PENDING"
  PROVE  Known' = Known
  <1>1. lookups \in Seq(LookupRecords) /\ Lookups = 1 .. Len(lookups) /\ Len(lookups) \in Nat
    BY LookupTypes DEF HostInv, TypeOK
  <1>2. /\ Len(lookups') = Len(lookups) /\ Lookups' = Lookups /\ lookups'[k] = r
        /\ \A l \in Lookups : l # k => lookups'[l] = lookups[l]
    BY <1>1 DEF Lookups
  <1>3. \A n \in Names : Found(n)' = Found(n)
    BY <1>2 DEF Found
  <1>4. \A n \in Names : \A l \in Found(n) : lookups'[l].outcome = lookups[l].outcome
    BY <1>2 DEF Found
  <1>5. QED
    BY <1>3, <1>4, KnownStays

(* resolve_hostname is asked; an address is answered at once. *)
LEMMA CallAsks ==
  ASSUME HostInv, NEW t \in Threads, NEW n \in Names,
         ResolveLiteral(t, n) \/ ResolveDuplicate(t, n) \/ ResolveNew(t, n)
  PROVE  Service!Next
  <1>1. Known' = Known
    <2>1. lookups' = lookups
      BY DEF ResolveLiteral, ResolveDuplicate, ResolveNew
    <2>2. QED
      BY <2>1, KnownStays DEF Found, Lookups
  <1>2. \/ Ask(n, <<>>)
        \/ n \in Literals /\ Ask(n, <<n>>)
    BY DEF ResolveLiteral, ResolveDuplicate, ResolveNew
  <1>3. n \in Literals => Known[n] = n /\ n # NULL
    BY KnownFacts
  <1>4. /\ asked' = Append(asked, n)
        /\ \/ told' = Append(told, <<>>)
           \/ Known[n] # NULL /\ told' = Append(told, <<Known[n]>>)
    BY <1>2, <1>3 DEF Ask
  <1>5. Service!Ask(n)
    BY <1>1, <1>4 DEF Service!Ask, Known
  <1>6. QED
    BY <1>5 DEF Service!Next

(* A lookup that starts has not found out anything. *)
LEMMA StartLearnsNothing ==
  ASSUME HostInv, NEW t \in Threads, Start(t)
  PROVE  Known' = Known
  <1>1. CASE UNCHANGED lookups
    BY <1>1, KnownStays DEF Found, Lookups
  <1>2. CASE lookups' = Append(lookups, Lookup(resolving[t].name, resolving[t].request))
    <2> DEFINE r == Lookup(resolving[t].name, resolving[t].request)
               K == Len(lookups) + 1
    <2>1. /\ lookups \in Seq(LookupRecords) /\ Lookups = 1 .. Len(lookups) /\ Len(lookups) \in Nat
      BY LookupTypes DEF HostInv, TypeOK
    <2>2. r.pc = "PENDING"
      BY DEF Lookup
    <2> HIDE DEF r
    <2>3. /\ Lookups' = Lookups \cup {K} /\ K \notin Lookups
          /\ \A k \in Lookups : lookups'[k] = lookups[k]
          /\ lookups'[K] = r
      <3>1. lookups' = Append(lookups, r)
        BY <1>2 DEF r
      <3>2. /\ Len(lookups') = K
            /\ \A k \in 1 .. Len(lookups) : lookups'[k] = lookups[k]
            /\ lookups'[K] = r
        BY <2>1, <3>1, AppendProperties
      <3>3. QED
        BY <2>1, <3>2 DEF Lookups
    <2> HIDE DEF K
    <2>4. \A n \in Names : Found(n)' = Found(n)
      BY <2>2, <2>3 DEF Found
    <2>5. \A n \in Names : \A k \in Found(n) : lookups'[k].outcome = lookups[k].outcome
      BY <2>3 DEF Found
    <2>6. QED
      BY <2>4, <2>5, KnownStays
  <1>3. QED
    BY <1>1, <1>2 DEF Start

(* A lookup ends with its own name or with failure. *)
LEMMA LookupLearns ==
  ASSUME KeepsNames, HostInv, NEW k \in Lookups, LookupEnds(k)
  PROVE  Service!Next
  <1> DEFINE n == lookups[k].hostname
  <1>1. PICK outcome \in {n, Failed} :
          lookups' = [lookups EXCEPT ![k] = [@ EXCEPT !.pc = "ENDED", !.outcome = outcome]]
    BY DEF LookupEnds, NamesRead
  <1> DEFINE r == [lookups[k] EXCEPT !.pc = "ENDED", !.outcome = outcome]
  <1>2. /\ lookups \in Seq(LookupRecords) /\ Lookups = 1 .. Len(lookups) /\ Len(lookups) \in Nat
        /\ lookups[k] \in LookupRecords /\ lookups[k].pc = "PENDING"
        /\ UNCHANGED <<asked, told>>
    BY LookupTypes DEF HostInv, TypeOK, LookupEnds
  <1>3. r.hostname = n /\ r.pc = "ENDED" /\ r.outcome = outcome
    BY <1>2 DEF LookupRecords
  <1>4. lookups' = [lookups EXCEPT ![k] = r]
    BY <1>1
  <1> HIDE DEF r
  <1>5. /\ Lookups' = Lookups /\ lookups'[k] = r
        /\ \A l \in Lookups : l # k => lookups'[l] = lookups[l]
    BY <1>2, <1>4 DEF Lookups
  <1>6. /\ n \in Names \ Literals /\ Known[n] = NULL
        /\ \A l \in Lookups : lookups[l].hostname = n => l = k
    BY <1>2, KnownFacts
  <1>7. ASSUME NEW m \in Names
        PROVE  Known'[m] = IF m = n THEN outcome ELSE Known[m]
    <2>1. CASE m = n
      <3>1. Found(m)' = {k}
        BY <1>3, <1>5, <1>6, <2>1 DEF Found
      <3>2. (CHOOSE l \in Found(m)' : TRUE) = k
        BY <3>1
      <3>3. Known'[m] = lookups'[k].outcome
        BY <1>6, <2>1, <3>1, <3>2 DEF Known
      <3>4. QED
        BY <1>3, <1>5, <2>1, <3>3
    <2>2. CASE m # n
      <3>1. Found(m)' = Found(m) /\ k \notin Found(m)
        BY <1>3, <1>5, <2>2 DEF Found
      <3>2. \A l \in Found(m) : lookups'[l].outcome = lookups[l].outcome
        BY <1>5, <3>1 DEF Found
      <3>3. CASE m \notin Literals /\ Found(m) # {}
        <4>1. (CHOOSE l \in Found(m)' : TRUE) = (CHOOSE l \in Found(m) : TRUE)
          BY <3>1
        <4>2. (CHOOSE l \in Found(m) : TRUE) \in Found(m)
          BY <3>3
        <4>3. QED
          BY <2>2, <3>1, <3>2, <3>3, <4>1, <4>2 DEF Known
      <3>4. CASE m \in Literals \/ Found(m) = {}
        BY <2>2, <3>1, <3>4 DEF Known
      <3>5. QED
        BY <3>3, <3>4
    <2>3. QED
      BY <2>1, <2>2
  <1>8. Known' = [Known EXCEPT ![n] = outcome]
    <2>1. Known' = [m \in Names |-> Known'[m]] /\ Known = [m \in Names |-> Known[m]]
      BY DEF Known
    <2> HIDE DEF n
    <2>2. [Known EXCEPT ![n] = outcome] = [m \in Names |-> IF m = n THEN outcome ELSE Known[m]]
      BY <2>1
    <2>3. QED
      BY <1>7, <2>1, <2>2
  <1>9. PICK m \in Names : m = n
    BY <1>6
  <1>10. Service!Learn(m)
    <2>1. /\ Known[m] = NULL
          /\ \E x \in {m, Failed} : Known' = [Known EXCEPT ![m] = x]
          /\ UNCHANGED <<asked, told>>
      BY <1>2, <1>6, <1>8, <1>9
    <2>2. QED
      BY <2>1, Zenon DEF Service!Learn, Known
  <1>11. QED
    BY <1>10 DEF Service!Next

(* A handler is told what is known of its name, for the first time. *)
LEMMA CallTells ==
  ASSUME HostInv, NEW k \in Lookups, CallHandler(k), told' # told
  PROVE  Service!Next
  <1>1. PICK e \in DOMAIN entries : IsOwn(k, e)
    BY OwnEntry
  <1> DEFINE next == lookups[k].next
             h == Waiting(k)[next]
             outcome == lookups[k].outcome
             r == [lookups[k] EXCEPT !.pc = "HANDLER"]
  <1>2. /\ h \in Handlers /\ told[h] = <<>> /\ asked[h] = lookups[k].hostname
        /\ lookups[k].result = outcome /\ outcome \in Outcomes /\ lookups[k].pc = "CALL"
    BY <1>1, NextIsUntold DEF CallHandler, Calls
  <1>3. /\ told' = [told EXCEPT ![h] = Append(@, outcome)]
        /\ lookups' = [lookups EXCEPT ![k] = r]
        /\ UNCHANGED asked
    BY <1>2 DEF CallHandler
  <1>4. lookups[k] \in LookupRecords /\ DOMAIN asked = Handlers
    BY LookupTypes, CallTypes DEF HostInv
  <1>5. r.hostname = lookups[k].hostname /\ r.outcome = outcome /\ r.pc = "HANDLER"
    BY <1>4 DEF LookupRecords
  <1> HIDE DEF r
  <1>6. Known' = Known
    BY <1>2, <1>3, <1>5, ReportLearnsNothing
  <1>7. Known[asked[h]] = outcome /\ outcome # NULL
    BY <1>2, KnownFacts, HostnameAssumption DEF Outcomes
  <1>8. told' = [told EXCEPT ![h] = <<Known[asked[h]]>>]
    <2>1. Append(told[h], outcome) = <<Known[asked[h]]>>
      BY <1>2, <1>7
    <2>2. QED
      BY <1>3, <2>1
  <1>9. PICK g \in DOMAIN asked : g = h
    BY <1>2, <1>4
  <1>10. Service!Tell(g)
    BY <1>2, <1>3, <1>6, <1>7, <1>8, <1>9 DEF Service!Tell, Known
  <1>11. QED
    BY <1>10 DEF Service!Next

(* The other steps of the thread that reports are its own affair. *)
LEMMA WalkIsHidden ==
  ASSUME HostInv, NEW k \in Lookups, trigger_hostname_resolve_callbacks(k),
         CallHandler(k) => told' = told
  PROVE  Known' = Known /\ asked' = asked /\ told' = told
  <1>1. asked' = asked /\ told' = told
    <2>1. CallHandler(k) => asked' = asked
      BY DEF CallHandler
    <2>2. NotifierStarts(k) \/ SkipEntry(k) \/ HandleEntry(k) \/ HandlerReturns(k) \/ EntryDone(k) =>
            asked' = asked /\ told' = told
      BY DEF NotifierStarts, SkipEntry, HandleEntry, HandlerReturns, EntryDone
    <2>3. QED
      BY <2>1, <2>2 DEF trigger_hostname_resolve_callbacks
  <1>2. CASE UNCHANGED lookups
    BY <1>1, <1>2, KnownStays DEF Found, Lookups
  <1>3. QED
    <2>1. lookups[k] \in LookupRecords
      BY LookupTypes DEF HostInv
    <2>2. CASE NotifierStarts(k)
      <3> DEFINE r == [lookups[k] EXCEPT !.pc = "WALK", !.at = 1, !.last = Len(entries)]
      <3>1. /\ lookups' = [lookups EXCEPT ![k] = r] /\ lookups[k].pc # "PENDING"
            /\ r.hostname = lookups[k].hostname /\ r.outcome = lookups[k].outcome /\ r.pc = "WALK"
        BY <2>1, <2>2 DEF NotifierStarts, LookupRecords
      <3>2. QED
        BY <1>1, <3>1, ReportLearnsNothing
    <2>3. CASE SkipEntry(k) /\ lookups' # lookups
      <3> DEFINE r == [lookups[k] EXCEPT !.at = @ + 1]
      <3>1. /\ lookups' = [lookups EXCEPT ![k] = r] /\ lookups[k].pc # "PENDING"
            /\ r.hostname = lookups[k].hostname /\ r.outcome = lookups[k].outcome /\ r.pc = "WALK"
        BY <2>1, <2>3 DEF SkipEntry, Walks, Passed, LookupRecords
      <3>2. QED
        BY <1>1, <3>1, ReportLearnsNothing
    <2>4. CASE HandleEntry(k)
      <3>1. PICK m, result :
              lookups' = [lookups EXCEPT ![k] =
                [@ EXCEPT !.pc = "CALL", !.next = 1, !.end = m, !.result = result]]
        BY <2>4 DEF HandleEntry
      <3> DEFINE r == [lookups[k] EXCEPT !.pc = "CALL", !.next = 1, !.end = m, !.result = result]
      <3>2. /\ lookups' = [lookups EXCEPT ![k] = r] /\ lookups[k].pc # "PENDING"
            /\ r.hostname = lookups[k].hostname /\ r.outcome = lookups[k].outcome /\ r.pc = "CALL"
        BY <2>1, <2>4, <3>1 DEF HandleEntry, Walks, LookupRecords
      <3>3. QED
        BY <1>1, <3>2, ReportLearnsNothing
    <2>5. CASE HandlerReturns(k)
      <3> DEFINE r == [lookups[k] EXCEPT !.pc = "CALL", !.next = @ + 1]
      <3>1. /\ lookups' = [lookups EXCEPT ![k] = r] /\ lookups[k].pc # "PENDING"
            /\ r.hostname = lookups[k].hostname /\ r.outcome = lookups[k].outcome /\ r.pc = "CALL"
        BY <2>1, <2>5 DEF HandlerReturns, LookupRecords
      <3>2. QED
        BY <1>1, <3>1, ReportLearnsNothing
    <2>6. CASE EntryDone(k)
      <3> DEFINE r == [lookups[k] EXCEPT !.pc = "WALK", !.at = @ + 1]
      <3>1. /\ lookups' = [lookups EXCEPT ![k] = r] /\ lookups[k].pc # "PENDING"
            /\ r.hostname = lookups[k].hostname /\ r.outcome = lookups[k].outcome /\ r.pc = "WALK"
        BY <2>1, <2>6 DEF EntryDone, Calls, LookupRecords
      <3>2. QED
        BY <1>1, <3>1, ReportLearnsNothing
    <2>7. CASE CallHandler(k) /\ lookups' # lookups
      <3> DEFINE r == [lookups[k] EXCEPT !.pc = "HANDLER"]
      <3>1. /\ lookups' = [lookups EXCEPT ![k] = r] /\ lookups[k].pc # "PENDING"
            /\ r.hostname = lookups[k].hostname /\ r.outcome = lookups[k].outcome /\ r.pc = "HANDLER"
        BY <2>1, <2>7 DEF CallHandler, Calls, LookupRecords
      <3>2. QED
        BY <1>1, <3>1, ReportLearnsNothing
    <2>8. QED
      BY <1>1, <1>2, <2>2, <2>3, <2>4, <2>5, <2>6, <2>7 DEF trigger_hostname_resolve_callbacks

(* "m_hostname_DNS_requests" and its threads are a name service while      *)
(* callers take turns and keep their strings until the lookup ended: a     *)
(* handler is called at most once, with what the lookup of its own name    *)
(* ended with.                                                             *)
THEOREM RefinesNameService ==
  ASSUME OneAtATime, KeepsNames
  PROVE  Spec => ImplementsNameService
  <1>1. Init => Service!Init
    <2>1. SUFFICES ASSUME Init
                   PROVE  Service!Init
      OBVIOUS
    <2>2. \A n \in Names : Found(n) = {}
      BY <2>1 DEF Init, Found, Lookups
    <2>3. Known = [n \in Names |-> IF n \in Literals THEN n ELSE NULL]
      BY <2>2 DEF Known
    <2>4. asked = <<>> /\ told = <<>>
      BY <2>1 DEF Init
    <2>5. QED
      BY <2>3, <2>4 DEF Service!Init, Known
  <1>2. HostInv /\ [Next]_vars => [Service!Next]_(Service!names_vars)
    <2>1. SUFFICES ASSUME HostInv, [Next]_vars
                   PROVE  [Service!Next]_(Service!names_vars)
      OBVIOUS
    <2>2. ASSUME Known' = Known, asked' = asked, told' = told
          PROVE  UNCHANGED Service!names_vars
      BY <2>2 DEF Service!names_vars, Known
    <2>3. ASSUME NEW t \in Threads, resolve_hostname(t)
          PROVE  [Service!Next]_(Service!names_vars)
      <3>1. CASE \E n \in Names : ResolveLiteral(t, n) \/ ResolveDuplicate(t, n) \/ ResolveNew(t, n)
        BY <2>1, <3>1, CallAsks
      <3>2. CASE Emplace(t)
        <4>1. lookups' = lookups /\ asked' = asked /\ told' = told
          BY <3>2 DEF Emplace
        <4>2. Known' = Known
          BY <4>1, KnownStays DEF Found, Lookups
        <4>3. QED
          BY <2>2, <4>1, <4>2
      <3>3. CASE Start(t)
        <4>1. asked' = asked /\ told' = told
          BY <3>3 DEF Start
        <4>2. Known' = Known
          BY <2>1, <3>3, StartLearnsNothing
        <4>3. QED
          BY <2>2, <4>1, <4>2
      <3>4. QED
        BY <2>3, <3>1, <3>2, <3>3 DEF resolve_hostname
    <2>4. ASSUME NEW k \in Lookups, LookupEnds(k)
          PROVE  [Service!Next]_(Service!names_vars)
      BY <2>1, <2>4, LookupLearns
    <2>5. ASSUME NEW k \in Lookups, trigger_hostname_resolve_callbacks(k)
          PROVE  [Service!Next]_(Service!names_vars)
      <3>1. CASE CallHandler(k) /\ told' # told
        BY <2>1, <3>1, CallTells
      <3>2. CASE CallHandler(k) => told' = told
        BY <2>1, <2>2, <2>5, <3>2, WalkIsHidden
      <3>3. QED
        BY <3>1, <3>2
    <2>6. CASE UNCHANGED vars
      <3>1. lookups' = lookups /\ asked' = asked /\ told' = told
        BY <2>6 DEF vars
      <3>2. Known' = Known
        BY <3>1, KnownStays DEF Found, Lookups
      <3>3. QED
        BY <2>2, <3>1, <3>2
    <2>7. QED
      BY <2>1, <2>3, <2>4, <2>5, <2>6 DEF Next
  <1>3. QED
    BY <1>1, <1>2, HostInvariant, PTL DEF Spec, ImplementsNameService, Service!Spec

=============================================================================
