--------------------------- MODULE HostnameResolve ---------------------------
(***************************************************************************)
(* Host name resolution (IOUring.cpp, resolve_hostname and below).         *)
(*                                                                         *)
(* resolve_hostname keeps one entry per name in m_hostname_DNS_requests    *)
(* and starts a lookup with getaddrinfo_a.  When a lookup ends, the C      *)
(* library starts a thread (SIGEV_THREAD) which walks over the entries and *)
(* calls the handlers of the one whose request it was started for.  No     *)
(* mutex protects the list, so the steps of the threads interleave.        *)
(*                                                                         *)
(* Undefined behaviour: a std::vector that grows past its capacity moves   *)
(* its elements.  A thread that walks over the old elements then either    *)
(* ends the process (failed) or, in the list of entries, reads moved-from  *)
(* ones, whose request is a null pointer.  Single vector operations are    *)
(* taken to be atomic.                                                     *)
(***************************************************************************)
EXTENDS Naturals, Sequences

CONSTANTS
  NULL,         (* the null pointer                                       *)
  Failed,       (* HOSTNAME_RESOLVE_FAILED                                *)
  Names,        (* host names                                             *)
  Literals,     (* the names that IPAddress::parse accepts                *)
  Addresses,    (* where `new gaicb` may put a request: freed addresses   *)
                (* are used again                                         *)
  MaxCalls,     (* bound: how often resolve_hostname is called            *)
  Reentrant,    (* do handlers call resolve_hostname?                     *)
  OneAtATime,   (* do the threads take turns in calling resolve_hostname? *)
  KeepsNames,   (* does the caller keep the string it passed until the    *)
                (* lookup ended?                                          *)
  LookupFaults  (* may getaddrinfo_a fail to start a lookup?              *)

ASSUME HostnameAssumption ==
  /\ Literals \subseteq Names
  /\ NULL \notin Names \cup Addresses \cup {Failed}
  /\ "FREE" \notin Names \cup {NULL}
  /\ Failed \notin Names
  /\ MaxCalls \in Nat
  /\ {Reentrant, OneAtATime, KeepsNames, LookupFaults} \subseteq BOOLEAN

VARIABLES
  m_hostname_DNS_requests,
  gaicb,     (* each address: "FREE", or the ar_result of the request     *)
             (* there, NULL while there is none                           *)
  sig,       (* sival_ptr of the static sigevent                          *)
  resolving, (* each thread: where it is in resolve_hostname              *)
  lookups,   (* the lookups started, and the threads that report them     *)
  asked,     (* asked[h]: the name of the h-th call, whose handler is h   *)
  told,      (* told[h]: what handler h was called with, in order         *)
  failed     (* did undefined behaviour end the process?                  *)

vars == <<m_hostname_DNS_requests, gaicb, sig, resolving, lookups, asked, told, failed>>

entries == m_hostname_DNS_requests
Handlers == 1 .. Len(asked)
Lookups == 1 .. Len(lookups)
Threads == 0 .. MaxCalls   (* 0 is the application's, k that of lookup k  *)

Idle == [step |-> "IDLE", name |-> NULL, request |-> NULL, size |-> 0]

(* Elements a std::vector of n elements has room for: it doubles.          *)
Capacity(n) == CHOOSE c \in {0} \cup {2 ^ k : k \in 0 .. n} :
                 c >= n /\ (c = 0 \/ c < 2 * n)

(* A vector that had n elements when a walk over it began has moved them.  *)
Moved(vector, n) == Capacity(Len(vector)) # Capacity(n)

Init ==
  /\ m_hostname_DNS_requests = <<>>
  /\ gaicb = [a \in Addresses |-> "FREE"]
  /\ sig = NULL
  /\ resolving = [t \in Threads |-> Idle]
  /\ lookups = <<>>
  /\ asked = <<>>
  /\ told = <<>>
  /\ failed = FALSE

-----------------------------------------------------------------------------
(* resolve_hostname.                                                       *)

EntriesOf(n) == {e \in DOMAIN entries : entries[e].hostname = n}

(* The application's thread calls it at any time, the thread of a lookup   *)
(* from the handler that it is running.                                    *)
MayCall(t) ==
  /\ ~failed
  /\ Len(asked) < MaxCalls
  /\ resolving[t] = Idle
  /\ OneAtATime => \A u \in Threads : resolving[u] = Idle
  /\ \/ t = 0
     \/ Reentrant /\ t \in Lookups /\ lookups[t].pc = "HANDLER"

Ask(n, answers) ==
  /\ asked' = Append(asked, n)
  /\ told' = Append(told, answers)

(* An address is answered at once.                                         *)
ResolveLiteral(t, n) ==
  /\ MayCall(t)
  /\ n \in Literals
  /\ Ask(n, <<n>>)
  /\ UNCHANGED <<m_hostname_DNS_requests, gaicb, sig, resolving, lookups, failed>>

Faulty_Listed(handlers, h) == <<h>> \o handlers
Listed(handlers, h) == Append(handlers, h)

(* A name that has an entry: the handler joins it, whatever became of the  *)
(* lookup.                                                                 *)
ResolveDuplicate(t, n) ==
  /\ MayCall(t)
  /\ n \notin Literals
  /\ EntriesOf(n) # {}
  /\ LET e == CHOOSE e \in EntriesOf(n) : \A f \in EntriesOf(n) : e <= f IN
       m_hostname_DNS_requests' =
         [entries EXCEPT ![e].handlers = Listed(@, Len(asked) + 1)]
  /\ Ask(n, <<>>)
  /\ UNCHANGED <<gaicb, sig, resolving, lookups, failed>>

(* A new name: the handler is not stored anywhere.                         *)
ResolveNew(t, n) ==
  /\ MayCall(t)
  /\ n \notin Literals
  /\ EntriesOf(n) = {}
  /\ resolving' = [resolving EXCEPT ![t] = [Idle EXCEPT !.step = "EMPLACE", !.name = n]]
  /\ Ask(n, <<>>)
  /\ UNCHANGED <<m_hostname_DNS_requests, gaicb, sig, lookups, failed>>

RequestInfo(n, a) == [hostname |-> n, request |-> a, handlers |-> <<>>]

(* emplace_back, and what is filled in before the lookup is started.       *)
Emplace(t) ==
  /\ ~failed
  /\ resolving[t].step = "EMPLACE"
  /\ \E a \in Addresses :
       /\ gaicb[a] = "FREE"
       /\ gaicb' = [gaicb EXCEPT ![a] = NULL]
       /\ m_hostname_DNS_requests' = Append(entries, RequestInfo(resolving[t].name, a))
       /\ sig' = a
       /\ resolving' = [resolving EXCEPT ![t] =
            [@ EXCEPT !.step = "START", !.request = a, !.size = Len(entries) + 1]]
  /\ UNCHANGED <<lookups, asked, told, failed>>

Faulty_Lookup(n, a) ==
  [hostname |-> n, request |-> a, ptr |-> NULL, pc |-> "PENDING",
   outcome |-> NULL, result |-> NULL,
   at |-> 0, last |-> 0, next |-> 0, end |-> 0]
Lookup(n, a) ==
  [hostname |-> n, request |-> a, ptr |-> sig, pc |-> "PENDING",
   outcome |-> NULL, result |-> NULL,
   at |-> 0, last |-> 0, next |-> 0, end |-> 0]

(* getaddrinfo_a, which copies sig.  Its result is ignored.  If the list   *)
(* moved, req.all_requests is gone: there is nothing to look up, or worse. *)
Start(t) ==
  /\ ~failed
  /\ resolving[t].step = "START"
  /\ \/ /\ ~Moved(entries, resolving[t].size)
        /\ lookups' = Append(lookups, Lookup(resolving[t].name, resolving[t].request))
        /\ UNCHANGED failed
     \/ /\ LookupFaults \/ Moved(entries, resolving[t].size)
        /\ UNCHANGED <<lookups, failed>>
     \/ /\ Moved(entries, resolving[t].size)
        /\ failed' = TRUE
        /\ UNCHANGED lookups
  /\ resolving' = [resolving EXCEPT ![t] = Idle]
  /\ UNCHANGED <<m_hostname_DNS_requests, gaicb, sig, asked, told>>

-----------------------------------------------------------------------------
(* The resolver, and trigger_hostname_resolve_callbacks on its thread.     *)

(* ar_name points into the caller's string: once that is gone, the lookup  *)
(* is one of whatever is there.                                            *)
NamesRead(k) == IF KeepsNames THEN {lookups[k].hostname} ELSE Names

LookupEnds(k) ==
  /\ ~failed
  /\ lookups[k].pc = "PENDING"
  /\ \E outcome \in {Failed} \cup NamesRead(k) :
       /\ lookups' = [lookups EXCEPT ![k].pc = "ENDED", ![k].outcome = outcome]
       /\ gaicb' = IF outcome = Failed THEN gaicb
                     ELSE [gaicb EXCEPT ![lookups[k].request] = outcome]
  /\ UNCHANGED <<m_hostname_DNS_requests, sig, resolving, asked, told, failed>>

(* The loop over the entries takes begin and end when it starts.           *)
NotifierStarts(k) ==
  /\ ~failed
  /\ lookups[k].pc = "ENDED"
  /\ lookups' = [lookups EXCEPT ![k].pc = "WALK", ![k].at = 1, ![k].last = Len(entries)]
  /\ UNCHANGED <<m_hostname_DNS_requests, gaicb, sig, resolving, asked, told, failed>>

Walks(k) == ~failed /\ lookups[k].pc = "WALK" /\ lookups[k].at <= lookups[k].last

Faulty_Passed(k) == [lookups EXCEPT ![k].at = @ + 2]
Passed(k) == [lookups EXCEPT ![k].at = @ + 1]

Faulty_Matches(k, e) == entries[e].request # NULL
Matches(k, e) ==
  /\ entries[e].request # NULL
  /\ entries[e].request = lookups[k].ptr

(* The entry is another one's, or was handled; or the walk is over moved   *)
(* elements and ends the process or reads a null request.                  *)
SkipEntry(k) ==
  /\ Walks(k)
  /\ \/ /\ Moved(entries, lookups[k].last)
        /\ failed' = TRUE
        /\ UNCHANGED lookups
     \/ /\ \/ Moved(entries, lookups[k].last)
           \/ ~Matches(k, lookups[k].at)
        /\ lookups' = Passed(k)
        /\ UNCHANGED failed
  /\ UNCHANGED <<m_hostname_DNS_requests, gaicb, sig, resolving, asked, told>>

Faulty_Handled(e) == entries
(* free(it.request), it.request = nullptr                                  *)
Handled(e) == [entries EXCEPT ![e].request = NULL]

(* The request is handled: with a result it is freed, without one it stays *)
(* as it is.  The loop over the handlers takes begin and end.              *)
HandleEntry(k) ==
  /\ Walks(k)
  /\ ~Moved(entries, lookups[k].last)
  /\ Matches(k, lookups[k].at)
  /\ LET e      == lookups[k].at
         a      == entries[e].request
         result == IF gaicb[a] = NULL THEN Failed ELSE gaicb[a]
     IN /\ IF result = Failed
             THEN UNCHANGED <<gaicb, m_hostname_DNS_requests>>
             ELSE /\ gaicb' = [gaicb EXCEPT ![a] = "FREE"]
                  /\ m_hostname_DNS_requests' = Handled(e)
        /\ lookups' = [lookups EXCEPT ![k].pc = "CALL", ![k].next = 1,
                         ![k].end = Len(entries[e].handlers), ![k].result = result]
  /\ UNCHANGED <<sig, resolving, asked, told, failed>>

Calls(k) == ~failed /\ lookups[k].pc = "CALL"
Waiting(k) == entries[lookups[k].at].handlers

(* The handlers may have moved, too: an empty std::function or freed       *)
(* memory is called.                                                       *)
CallHandler(k) ==
  /\ Calls(k)
  /\ lookups[k].next <= lookups[k].end
  /\ IF Moved(Waiting(k), lookups[k].end)
       THEN failed' = TRUE /\ UNCHANGED <<lookups, told>>
       ELSE /\ told' = [told EXCEPT ![Waiting(k)[lookups[k].next]] = Append(@, lookups[k].result)]
            /\ lookups' = [lookups EXCEPT ![k].pc = "HANDLER"]
            /\ UNCHANGED failed
  /\ UNCHANGED <<m_hostname_DNS_requests, gaicb, sig, resolving, asked>>

HandlerReturns(k) ==
  /\ ~failed
  /\ lookups[k].pc = "HANDLER"
  /\ resolving[k] = Idle
  /\ lookups' = [lookups EXCEPT ![k].pc = "CALL", ![k].next = @ + 1]
  /\ UNCHANGED <<m_hostname_DNS_requests, gaicb, sig, resolving, asked, told, failed>>

EntryDone(k) ==
  /\ Calls(k)
  /\ lookups[k].next > lookups[k].end
  /\ lookups' = [lookups EXCEPT ![k].pc = "WALK", ![k].at = @ + 1]
  /\ UNCHANGED <<m_hostname_DNS_requests, gaicb, sig, resolving, asked, told, failed>>

-----------------------------------------------------------------------------
resolve_hostname(t) ==
  \/ \E n \in Names : ResolveLiteral(t, n) \/ ResolveDuplicate(t, n) \/ ResolveNew(t, n)
  \/ Emplace(t)
  \/ Start(t)

trigger_hostname_resolve_callbacks(k) ==
  \/ NotifierStarts(k)
  \/ SkipEntry(k)
  \/ HandleEntry(k)
  \/ CallHandler(k)
  \/ HandlerReturns(k)
  \/ EntryDone(k)

Next ==
  \/ \E t \in Threads : resolve_hostname(t)
  \/ \E k \in Lookups : LookupEnds(k) \/ trigger_hostname_resolve_callbacks(k)

Spec == Init /\ [][Next]_vars

(* Threads that have something to do go on; no call is ever due.           *)
Fairness ==
  /\ \A t \in Threads : WF_vars(Emplace(t) \/ Start(t))
  /\ \A k \in 1 .. MaxCalls :
       WF_vars(k \in Lookups /\ (LookupEnds(k) \/ trigger_hostname_resolve_callbacks(k)))

FairSpec == Spec /\ Fairness

-----------------------------------------------------------------------------
(* Properties.                                                             *)

RequestInfos == [hostname : Names, request : Addresses \cup {NULL}, handlers : Seq(1 .. MaxCalls)]
Outcomes == Names \cup {Failed}
LookupRecords ==
  [hostname : Names, request : Addresses, ptr : Addresses,
   outcome : Outcomes \cup {NULL}, result : Outcomes \cup {NULL},
   pc : {"PENDING", "ENDED", "WALK", "CALL", "HANDLER"},
   at : Nat, last : Nat, next : Nat, end : Nat]

(* Type invariant. *)
TypeOK ==
  /\ entries \in Seq(RequestInfos)
  /\ gaicb \in [Addresses -> {"FREE", NULL} \cup Names]
  /\ sig \in Addresses \cup {NULL}
  /\ resolving \in [Threads ->
       [step : {"IDLE", "EMPLACE", "START"}, name : Names \cup {NULL},
        request : Addresses \cup {NULL}, size : Nat]]
  /\ lookups \in Seq(LookupRecords) /\ Len(lookups) <= MaxCalls
  /\ asked \in Seq(Names) /\ Len(asked) <= MaxCalls
  /\ told \in Seq(Seq(Outcomes)) /\ Len(told) = Len(asked)
  /\ failed \in BOOLEAN

(* No request is freed while the resolver still writes into it, and no     *)
(* entry keeps a pointer to a freed one.                                   *)
NoFreedRequestIsUsed ==
  /\ \A k \in Lookups : lookups[k].pc = "PENDING" => gaicb[lookups[k].request] # "FREE"
  /\ \A e, f \in DOMAIN entries : entries[e].request # NULL =>
       /\ gaicb[entries[e].request] # "FREE"
       /\ entries[e].request = entries[f].request => e = f

(* The handlers of an entry are called in the order of their calls: none   *)
(* is passed over in favour of one that came later.                        *)
HandlersAreCalledInOrder ==
  \A e \in DOMAIN entries : \A i, j \in DOMAIN entries[e].handlers :
    i < j /\ told[entries[e].handlers[j]] # <<>> => told[entries[e].handlers[i]] # <<>>

(* "requests for this hostname:" (IOUring.hpp:130): every handler that was *)
(* not called yet is kept with the entry of its name.                      *)
RequestsAreListed ==
  \A h \in Handlers :
    \/ told[h] # <<>>
    \/ \E t \in Threads : resolving[t] # Idle
    \/ \E e \in EntriesOf(asked[h]) : \E i \in DOMAIN entries[e].handlers :
         entries[e].handlers[i] = h

(* Handler h is in an entry whose lookup was not reported yet. *)
JoinedInTime(h) ==
  /\ h \in Handlers
  /\ told[h] = <<>>
  /\ \E e \in EntriesOf(asked[h]), k \in Lookups :
       /\ \E i \in DOMAIN entries[e].handlers : entries[e].handlers[i] = h
       /\ lookups[k].request = entries[e].request
       /\ lookups[k].pc \in {"PENDING", "ENDED"}

(* The entries moved under the thread that looks for the entry of h. *)
WalkIsLost(h) ==
  \E k \in Lookups : /\ lookups[k].hostname = asked[h]
                     /\ Walks(k)
                     /\ Moved(entries, lookups[k].last)

(* A handler that joins the entry of its name before the lookup's thread   *)
(* walks over the entries is called some day: entries of other names,      *)
(* requests handled or freed before, and handlers that resolve further     *)
(* names do not hide it.  Only moved entries do, or the end of the process.*)
HandlersInTimeAreCalled ==
  \A h \in 1 .. MaxCalls :
    JoinedInTime(h) ~> (failed \/ (h \in Handlers /\ (told[h] # <<>> \/ WalkIsLost(h))))

Found(n) == {k \in Lookups : lookups[k].hostname = n /\ lookups[k].pc # "PENDING"}

Service == INSTANCE NameService
  WITH Unknown <- NULL,
       known <- [n \in Names |-> IF n \in Literals THEN n
                                 ELSE IF Found(n) = {} THEN NULL
                                 ELSE lookups[CHOOSE k \in Found(n) : TRUE].outcome]

(* resolve_hostname is a name service: a handler is told what a lookup of  *)
(* its own name ended with, failure only when that lookup failed, and is   *)
(* told once ("hostname resolve request already handled", IOUring.cpp:872),*)
(* although several threads walk over the entries and the memory of a      *)
(* freed request is used for the next one.                                 *)
ImplementsNameService == Service!Spec

=============================================================================
