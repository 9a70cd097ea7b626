--------------------------- MODULE SubmissionProofs ---------------------------
(***************************************************************************)
(* Submissions that are all made under the mutex of the pool, or by one    *)
(* thread, for any number of threads and requests and a queue of any size: *)
(* they lose nothing, mix nothing up, and are atomic.                      *)
(***************************************************************************)
EXTENDS SubmissionThreads, Integers, SequenceTheorems, TLAPS

(* A function on 1 .. n is a sequence of length n. *)
LEMMA FunctionIsSeq ==
  ASSUME NEW S, NEW n \in Nat, NEW f \in [1 .. n -> S]
  PROVE  f \in Seq(S) /\ Len(f) = n
  OBVIOUS

(* Two numbers less than Q apart have different remainders.                *)
LEMMA RemaindersDiffer ==
  ASSUME NEW Q \in Nat \ {0}, NEW a \in Nat, NEW b \in Nat, a < b, b < a + Q
  PROVE  a % Q # b % Q
  <1> DEFINE c == a \div Q
             d == b \div Q
  <1>1. SUFFICES ASSUME a % Q = b % Q PROVE FALSE
    OBVIOUS
  <1>2. a = Q * c + (a % Q) /\ b = Q * d + (b % Q)
    OBVIOUS
  <1>3. c \in Int /\ d \in Int /\ a % Q \in Int
    OBVIOUS
  <1> HIDE DEF c, d
  <1>4. Q * c \in Int /\ Q * d \in Int /\ Q * (d - c) = Q * d - Q * c
    BY <1>3
  <1>5. \A u, v, m \in Int : a = u + m /\ b = v + m => b - a = v - u
    OBVIOUS
  <1>6. b - a = Q * (d - c)
    BY <1>1, <1>2, <1>3, <1>4, <1>5
  <1>7. PICK e \in Int : e = d - c
    BY <1>3
  <1>8. e <= 0 => Q * e <= 0
    BY <1>7
  <1>9. e >= 1 => Q * e >= Q
    BY <1>7
  <1>10. QED
    BY <1>6, <1>7, <1>8, <1>9

(* The entries that wait, and the next one, have slots of their own.       *)
LEMMA SlotsDiffer ==
  ASSUME NEW h \in Nat, NEW a \in h .. h + QueueSize - 1,
         NEW b \in h .. h + QueueSize - 1, a # b
  PROVE  SlotOf(a) # SlotOf(b)
  <1>1. QueueSize \in Nat \ {0} /\ a \in Nat /\ b \in Nat
    BY ThreadsAssumption
  <1>2. CASE a < b
    <2>1. b < a + QueueSize
      BY <1>1
    <2>2. a % QueueSize # b % QueueSize
      BY <1>1, <1>2, <2>1, RemaindersDiffer
    <2>3. QED
      BY <2>2 DEF SlotOf
  <1>3. CASE b < a
    <2>1. a < b + QueueSize
      BY <1>1
    <2>2. b % QueueSize # a % QueueSize
      BY <1>1, <1>3, <2>1, RemaindersDiffer
    <2>3. QED
      BY <2>2 DEF SlotOf
  <1>4. QED
    BY <1>1, <1>2, <1>3

(* A slot is one of the array.                                             *)
LEMMA SlotTyped ==
  ASSUME NEW n \in Nat
  PROVE  SlotOf(n) \in Slots
  BY ThreadsAssumption DEF SlotOf, Slots

-----------------------------------------------------------------------------
(* The invariant.                                                          *)

Inside == {"GET", "RETRY", "CLAIM", "DATA", "PREP", "SUBMIT"}
Writing == {"DATA", "PREP", "SUBMIT"}

(* Where a thread submits without the mutex, it is the only one: that is   *)
(* an application that calls from one thread, which allocates under the    *)
(* mutex and re-arms and sends without it.                                 *)
NoRivals == \A t \in Unlocked, u \in Threads : u = t

(* One thread is inside, and this is what it has done.                     *)
PlacesInv ==
  \A t \in Threads :
    /\ pc[t] \in Inside => m_mutex = t \/ t \in Unlocked
    /\ pc[t] \in Inside => \A u \in Threads : u # t => pc[u] \notin Inside
    /\ pc[t] = "CLAIM" => local[t].tail = sqe_tail /\ sqe_tail < khead + QueueSize
    /\ pc[t] \in Writing => sqe_tail = local[t].tail + 1 /\ khead < sqe_tail
    /\ pc[t] \in {"PREP", "SUBMIT"} => sqes[MySlot(t)].user_data = local[t].request
    /\ pc[t] = "SUBMIT" => sqes[MySlot(t)].op = local[t].request

(* An entry that was written belongs to one request.                       *)
Whole(e, m) == e.op \in 1 .. m /\ e.user_data = e.op

InEntries(q, h, v, r) == \E n \in h .. v - 1 : q[SlotOf(n)].op = r
InTaken(s, r) == \E i \in 1 .. Len(s) : s[i].op = r

EntriesInv ==
  /\ \A n \in khead .. Visible - 1 : Whole(sqes[SlotOf(n)], submitted)
  /\ \A i \in 1 .. Len(taken) : Whole(taken[i], submitted)

(* Each request is with one thread, waits, or was taken.                   *)
RequestsInv ==
  /\ \A r \in 1 .. submitted :
       \/ \E t \in Threads : pc[t] # "IDLE" /\ local[t].request = r
       \/ InEntries(sqes, khead, Visible, r)
       \/ InTaken(taken, r)
  /\ \A t \in Threads : pc[t] # "IDLE" =>
       /\ local[t].request \in 1 .. submitted
       /\ ~InEntries(sqes, khead, Visible, local[t].request)
       /\ ~InTaken(taken, local[t].request)
  /\ \A t, u \in Threads :
       pc[t] # "IDLE" /\ pc[u] # "IDLE" /\ local[t].request = local[u].request => t = u

ThreadInv == TypeOK /\ PlacesInv /\ EntriesInv /\ RequestsInv

(* Which entries are visible, told by where the thread inside is.           *)
LEMMA VisibleIs ==
  ASSUME TypeOK, PlacesInv, NEW t \in Threads, pc[t] \in Inside
  PROVE  /\ pc[t] \notin Writing => ~Unwritten /\ Visible = sqe_tail
         /\ pc[t] \in Writing => /\ Unwritten
                                 /\ Visible = sqe_tail - 1
                                 /\ Visible = local[t].tail
  <1>1. \A u \in Threads : pc[u] \in Writing => u = t
    BY DEF PlacesInv, Inside, Writing
  <1>2. Unwritten <=> pc[t] \in Writing
    BY <1>1 DEF Unwritten, Writing
  <1>3. pc[t] \in Writing => sqe_tail = local[t].tail + 1 /\ local[t].tail \in Nat
    BY DEF PlacesInv, TypeOK
  <1>4. QED
    BY <1>2, <1>3 DEF Visible

(* The bounds that the arithmetic needs.                                   *)
LEMMA Bounds ==
  ASSUME TypeOK
  PROVE  /\ QueueSize \in Nat \ {0} /\ khead \in Nat /\ sqe_tail \in Nat
         /\ khead <= sqe_tail /\ sqe_tail <= khead + QueueSize
         /\ submitted \in Nat /\ submitted <= MaxRequests /\ MaxRequests \in Nat
         /\ \A t \in Threads : local[t].tail \in Nat
         /\ Visible \in Int /\ Visible <= sqe_tail
  BY ThreadsAssumption DEF TypeOK, Visible

(* A step that leaves the visible entries, what was taken and the requests *)
(* of the threads alone keeps what the invariant says of them.             *)
LEMMA ViewKept ==
  ASSUME EntriesInv, RequestsInv,
         khead' = khead, taken' = taken, submitted' = submitted, Visible' = Visible,
         \A n \in khead .. Visible - 1 : sqes'[SlotOf(n)] = sqes[SlotOf(n)],
         \A t \in Threads : /\ pc'[t] = "IDLE" <=> pc[t] = "IDLE"
                            /\ local'[t].request = local[t].request
  PROVE  EntriesInv' /\ RequestsInv'
  <1>1. EntriesInv'
    BY DEF EntriesInv
  <1>2. \A r : InEntries(sqes', khead', Visible', r) <=> InEntries(sqes, khead, Visible, r)
    BY DEF InEntries
  <1>3. RequestsInv'
    BY <1>2 DEF RequestsInv
  <1>4. QED
    BY <1>1, <1>3

-----------------------------------------------------------------------------
(* The steps before an entry is flushed.                                   *)

(* Nothing has been submitted.                                             *)
LEMMA InitThreadInv == Init => ThreadInv
  <1> SUFFICES ASSUME Init PROVE ThreadInv
    OBVIOUS
  <1>1. QueueSize \in Nat \ {0} /\ MaxRequests \in Nat
    BY ThreadsAssumption
  <1>2. TypeOK
    <2>1. sqes \in [Slots -> Entry]
      BY DEF Init, Entry, Requests
    <2>2. taken \in Seq(Entry)
      BY EmptySeq DEF Init
    <2>3. local \in [Threads -> [request : Requests \cup {0}, tail : Nat]]
      BY DEF Init
    <2>4. khead \in Nat /\ sqe_tail \in khead .. khead + QueueSize /\ submitted \in 0 .. MaxRequests
      BY <1>1 DEF Init
    <2>5. /\ m_mutex \in Threads \cup {NULL} /\ failed \in BOOLEAN
          /\ pc \in [Threads -> Places]
      BY DEF Init, Places
    <2>6. QED
      BY <2>1, <2>2, <2>3, <2>4, <2>5 DEF TypeOK
  <1>3. ~Unwritten /\ Visible = 0 /\ khead = 0 /\ Len(taken) = 0
    BY EmptySeq DEF Init, Unwritten, Visible
  <1>4. QED
    BY <1>2, <1>3 DEF Init, ThreadInv, PlacesInv, EntriesInv, RequestsInv, Inside, Writing

(* A new request has a number of its own.                                  *)
LEMMA BeginInv ==
  ASSUME ThreadInv, NEW t \in Threads, Begin(t)
  PROVE  ThreadInv'
  <1>1. TypeOK /\ PlacesInv /\ EntriesInv /\ RequestsInv
    BY DEF ThreadInv
  <1>2. /\ submitted \in Nat /\ submitted < MaxRequests /\ MaxRequests \in Nat
        /\ pc[t] = "IDLE" /\ pc' = [pc EXCEPT ![t] = "WAIT"]
        /\ submitted' = submitted + 1
        /\ local' = [local EXCEPT ![t].request = submitted + 1]
        /\ UNCHANGED <<sqes, sqe_tail, khead, taken, m_mutex, failed>>
    BY <1>1, Bounds DEF Begin, Goto
  <1>3. /\ local' \in [Threads -> [request : Requests \cup {0}, tail : Nat]]
        /\ local'[t].request = submitted + 1
        /\ \A u \in Threads : local'[u].tail = local[u].tail
        /\ \A u \in Threads : u # t => local'[u] = local[u]
    BY <1>1, <1>2 DEF TypeOK, Requests
  <1>4. /\ pc' \in [Threads -> Places]
        /\ pc'[t] = "WAIT"
        /\ \A u \in Threads : u # t => pc'[u] = pc[u]
    BY <1>1, <1>2 DEF TypeOK, Places
  <1>5. TypeOK'
    BY <1>1, <1>2, <1>3, <1>4 DEF TypeOK
  <1>6. Unwritten' = Unwritten /\ Visible' = Visible
    BY <1>2, <1>4 DEF Unwritten, Visible
  <1>7. PlacesInv'
    BY <1>1, <1>2, <1>3, <1>4 DEF PlacesInv, Inside, Writing, MySlot
  <1>8. \A e : Whole(e, submitted) => Whole(e, submitted + 1) /\ e.op # submitted + 1
    BY <1>2 DEF Whole
  <1>9. EntriesInv'
    BY <1>1, <1>2, <1>6, <1>8 DEF EntriesInv
  <1>10. /\ ~InEntries(sqes, khead, Visible, submitted + 1)
         /\ ~InTaken(taken, submitted + 1)
    BY <1>1, <1>8 DEF EntriesInv, InEntries, InTaken
  <1>11. \A u \in Threads : pc[u] # "IDLE" => /\ local[u].request \in 1 .. submitted
                                             /\ local[u].request # submitted + 1
    BY <1>1, <1>2 DEF RequestsInv
  <1>12. RequestsInv'
    <2>1. \A r \in 1 .. submitted' :
            \/ \E u \in Threads : pc'[u] # "IDLE" /\ local'[u].request = r
            \/ InEntries(sqes', khead', Visible', r)
            \/ InTaken(taken', r)
      <3>1. SUFFICES ASSUME NEW r \in 1 .. submitted + 1
                     PROVE  \/ \E u \in Threads : pc'[u] # "IDLE" /\ local'[u].request = r
                            \/ InEntries(sqes, khead, Visible, r)
                            \/ InTaken(taken, r)
        BY <1>2, <1>6
      <3>2. CASE r = submitted + 1
        BY <1>3, <1>4, <3>2
      <3>3. CASE r \in 1 .. submitted
        BY <1>1, <1>2, <1>3, <1>4, <3>3 DEF RequestsInv
      <3>4. QED
        BY <1>2, <3>2, <3>3
    <2>2. \A u \in Threads : pc'[u] # "IDLE" =>
            /\ local'[u].request \in 1 .. submitted'
            /\ ~InEntries(sqes', khead', Visible', local'[u].request)
            /\ ~InTaken(taken', local'[u].request)
      BY <1>1, <1>2, <1>3, <1>4, <1>6, <1>10, <1>11 DEF RequestsInv
    <2>3. \A u, w \in Threads :
            pc'[u] # "IDLE" /\ pc'[w] # "IDLE" /\ local'[u].request = local'[w].request => u = w
      BY <1>1, <1>3, <1>4, <1>11 DEF RequestsInv
    <2>4. QED
      BY <2>1, <2>2, <2>3 DEF RequestsInv
  <1>13. QED
    BY <1>5, <1>7, <1>9, <1>12 DEF ThreadInv

(* A thread that enters finds nobody inside.                               *)
LEMMA EnterInv ==
  ASSUME NoRivals, ThreadInv, NEW t \in Threads, Enter(t)
  PROVE  ThreadInv'
  <1>1. TypeOK /\ PlacesInv /\ EntriesInv /\ RequestsInv
    BY DEF ThreadInv
  <1>2. /\ pc[t] = "WAIT"
        /\ \/ m_mutex = NULL /\ m_mutex' = t
           \/ t \in Unlocked /\ m_mutex' = m_mutex
        /\ UNCHANGED <<sqes, sqe_tail, khead, taken, local, submitted, failed>>
    BY DEF Enter, Goto, Acquire
  <1>3. \A u \in Threads : pc[u] \notin Inside
    <2>1. CASE t \in Unlocked
      BY <1>2, <2>1 DEF NoRivals, Inside
    <2>2. CASE m_mutex = NULL
      BY <1>1, <1>2, <2>2, ThreadsAssumption DEF PlacesInv, NoRivals, Inside
    <2>3. QED
      BY <1>2, <2>1, <2>2
  <1>4. /\ pc' \in [Threads -> Places]
        /\ pc'[t] = "GET"
        /\ \A u \in Threads : u # t => pc'[u] = pc[u]
    BY <1>1 DEF Enter, Goto, TypeOK, Places
  <1>5. TypeOK'
    BY <1>1, <1>2, <1>4 DEF TypeOK
  <1>6. ~Unwritten /\ ~Unwritten' /\ Visible' = Visible
    BY <1>2, <1>3, <1>4 DEF Unwritten, Visible, Inside
  <1>7. PlacesInv'
    BY <1>2, <1>3, <1>4 DEF PlacesInv, Inside, Writing
  <1>8. EntriesInv' /\ RequestsInv'
    BY <1>1, <1>2, <1>4, <1>6, ViewKept
  <1>9. QED
    BY <1>5, <1>7, <1>8 DEF ThreadInv

(* The tail that is read is the tail: nobody else can advance it.          *)
LEMMA ReadTailInv ==
  ASSUME ThreadInv, NEW t \in Threads, NEW from \in {"GET", "RETRY"}, ReadTail(t, from)
  PROVE  ThreadInv'
  <1>1. TypeOK /\ PlacesInv /\ EntriesInv /\ RequestsInv
    BY DEF ThreadInv
  <1>2. /\ pc[t] = from /\ sqe_tail - khead < QueueSize
        /\ local' = [local EXCEPT ![t].tail = sqe_tail]
        /\ UNCHANGED <<sqes, sqe_tail, khead, taken, m_mutex, submitted, failed>>
    BY DEF ReadTail, Goto, HasRoom
  <1>3. \A u \in Threads : u # t => pc[u] \notin Inside
    BY <1>1, <1>2 DEF PlacesInv, Inside
  <1>4. /\ pc' \in [Threads -> Places]
        /\ pc'[t] = "CLAIM"
        /\ \A u \in Threads : u # t => pc'[u] = pc[u]
    BY <1>1 DEF ReadTail, Goto, TypeOK, Places
  <1>5. /\ local' \in [Threads -> [request : Requests \cup {0}, tail : Nat]]
        /\ local'[t].tail = sqe_tail
        /\ \A u \in Threads : local'[u].request = local[u].request
        /\ \A u \in Threads : u # t => local'[u] = local[u]
    BY <1>1, <1>2, Bounds DEF TypeOK
  <1>6. TypeOK'
    BY <1>1, <1>2, <1>4, <1>5 DEF TypeOK
  <1>7. ~Unwritten /\ ~Unwritten' /\ Visible' = Visible
    BY <1>2, <1>3, <1>4 DEF Unwritten, Visible, Inside
  <1>8. (m_mutex' = t \/ t \in Unlocked) /\ sqe_tail < khead + QueueSize
    BY <1>1, <1>2, Bounds DEF PlacesInv, Inside
  <1>9. PlacesInv'
    BY <1>2, <1>3, <1>4, <1>5, <1>8 DEF PlacesInv, Inside, Writing
  <1>10. EntriesInv' /\ RequestsInv'
    BY <1>1, <1>2, <1>4, <1>5, <1>7, ViewKept
  <1>11. QED
    BY <1>6, <1>9, <1>10 DEF ThreadInv

(* The entry that is handed out is not visible before it is written.       *)
LEMMA ClaimInv ==
  ASSUME ThreadInv, NEW t \in Threads, Claim(t)
  PROVE  ThreadInv'
  <1>1. TypeOK /\ PlacesInv /\ EntriesInv /\ RequestsInv
    BY DEF ThreadInv
  <1>2. /\ pc[t] = "CLAIM" /\ sqe_tail' = local[t].tail + 1
        /\ UNCHANGED <<sqes, khead, taken, m_mutex, local, submitted, failed>>
    BY DEF Claim, Goto
  <1>3. \A u \in Threads : u # t => pc[u] \notin Inside
    BY <1>1, <1>2 DEF PlacesInv, Inside
  <1>4. /\ pc' \in [Threads -> Places]
        /\ pc'[t] = "DATA"
        /\ \A u \in Threads : u # t => pc'[u] = pc[u]
    BY <1>1 DEF Claim, Goto, TypeOK, Places
  <1>5. /\ m_mutex = t \/ t \in Unlocked
        /\ sqe_tail' = sqe_tail + 1 /\ local[t].tail = sqe_tail
        /\ sqe_tail < khead + QueueSize /\ khead < sqe_tail'
        /\ sqe_tail' \in khead .. khead + QueueSize
    BY <1>1, <1>2, Bounds DEF PlacesInv, Inside
  <1>6. TypeOK'
    BY <1>1, <1>2, <1>4, <1>5 DEF TypeOK
  <1>7. Visible = sqe_tail
    BY <1>1, <1>2, VisibleIs DEF Inside, Writing
  <1>8. Unwritten' /\ Visible' = sqe_tail' - 1
    BY <1>4 DEF Unwritten, Visible
  <1>9. Visible' = Visible
    BY <1>1, <1>5, <1>7, <1>8, Bounds
  <1>10. PlacesInv'
    BY <1>2, <1>3, <1>4, <1>5 DEF PlacesInv, Inside, Writing
  <1>11. EntriesInv' /\ RequestsInv'
    BY <1>1, <1>2, <1>4, <1>9, ViewKept
  <1>12. QED
    BY <1>6, <1>10, <1>11 DEF ThreadInv

(* Only the slot of the thread's own entry is written, and no entry that   *)
(* waits has that slot.                                                    *)
LEMMA OwnSlot ==
  ASSUME ThreadInv, NEW t \in Threads, pc[t] \in Writing
  PROVE  /\ MySlot(t) \in Slots
         /\ \A n \in khead .. Visible - 1 : SlotOf(n) # MySlot(t)
         /\ local[t].request \in Requests
         /\ m_mutex = t \/ t \in Unlocked
         /\ \A u \in Threads : u # t => pc[u] \notin Inside
  <1>1. TypeOK /\ PlacesInv /\ RequestsInv
    BY DEF ThreadInv
  <1>2. pc[t] \in Inside
    BY DEF Inside, Writing
  <1>3. /\ local[t].tail \in Nat /\ khead \in Nat /\ QueueSize \in Nat \ {0}
        /\ sqe_tail = local[t].tail + 1 /\ khead < sqe_tail /\ sqe_tail <= khead + QueueSize
        /\ Visible = local[t].tail
    BY <1>1, <1>2, Bounds, VisibleIs DEF PlacesInv
  <1>4. local[t].tail \in khead .. khead + QueueSize - 1
    BY <1>3
  <1>5. \A n \in khead .. Visible - 1 : n \in khead .. khead + QueueSize - 1 /\ n # local[t].tail
    BY <1>3
  <1>6. MySlot(t) \in Slots
    BY <1>3, SlotTyped DEF MySlot
  <1>7. \A n \in khead .. Visible - 1 : SlotOf(n) # MySlot(t)
    BY <1>3, <1>4, <1>5, SlotsDiffer DEF MySlot
  <1>8. local[t].request \in Requests
    <2>1. local[t].request \in 1 .. submitted
      BY <1>1 DEF RequestsInv, Writing
    <2>2. QED
      BY <1>1, <2>1, Bounds DEF Requests
  <1>9. QED
    BY <1>1, <1>2, <1>6, <1>7, <1>8 DEF PlacesInv

(* The id of the item is written into the entry.                           *)
LEMMA SetDataInv ==
  ASSUME ThreadInv, NEW t \in Threads, SetData(t)
  PROVE  ThreadInv'
  <1>1. TypeOK /\ PlacesInv /\ EntriesInv /\ RequestsInv
    BY DEF ThreadInv
  <1>2. /\ pc[t] = "DATA" /\ pc[t] \in Writing
        /\ sqes' = [sqes EXCEPT ![MySlot(t)].user_data = local[t].request]
        /\ UNCHANGED <<sqe_tail, khead, taken, m_mutex, local, submitted, failed>>
    BY DEF SetData, Goto, Writing
  <1>3. /\ pc' \in [Threads -> Places]
        /\ pc'[t] = "PREP"
        /\ \A u \in Threads : u # t => pc'[u] = pc[u]
    BY <1>1 DEF SetData, Goto, TypeOK, Places
  <1>4. /\ sqes' \in [Slots -> Entry]
        /\ sqes'[MySlot(t)].user_data = local[t].request
        /\ \A n \in khead .. Visible - 1 : sqes'[SlotOf(n)] = sqes[SlotOf(n)]
    <2>1. sqes \in [Slots -> Entry] /\ MySlot(t) \in Slots /\ local[t].request \in Requests
      BY <1>1, <1>2, OwnSlot DEF TypeOK
    <2>2. \A n \in khead .. Visible - 1 : SlotOf(n) \in Slots /\ SlotOf(n) # MySlot(t)
      <3>1. \A n \in khead .. Visible - 1 : n \in Nat
        BY <1>1, Bounds
      <3>2. QED
        BY <1>2, <3>1, OwnSlot, SlotTyped
    <2>3. sqes' \in [Slots -> Entry] /\ sqes'[MySlot(t)].user_data = local[t].request
      BY <1>2, <2>1 DEF Entry
    <2>4. \A n \in khead .. Visible - 1 : sqes'[SlotOf(n)] = sqes[SlotOf(n)]
      BY <1>2, <2>1, <2>2
    <2>5. QED
      BY <2>3, <2>4
  <1>5. TypeOK'
    BY <1>1, <1>2, <1>3, <1>4 DEF TypeOK
  <1>6. Unwritten /\ Unwritten' /\ Visible' = Visible
    BY <1>2, <1>3 DEF Unwritten, Visible
  <1>7. /\ m_mutex = t \/ t \in Unlocked
        /\ \A u \in Threads : u # t => pc[u] \notin Inside
    BY <1>2, OwnSlot
  <1>8. MySlot(t)' = MySlot(t)
    BY <1>2 DEF MySlot
  <1>9. PlacesInv'
    <2>1. /\ sqe_tail' = local'[t].tail + 1 /\ khead' < sqe_tail'
          /\ m_mutex' = t \/ t \in Unlocked
          /\ sqes'[SlotOf(local'[t].tail)].user_data = local'[t].request
      BY <1>1, <1>2, <1>4, <1>7 DEF PlacesInv, MySlot
    <2>2. \A u \in Threads : u # t => pc'[u] \notin Inside
      BY <1>3, <1>7
    <2>3. QED
      BY <1>3, <2>1, <2>2 DEF PlacesInv, Inside, Writing, MySlot
  <1>10. EntriesInv' /\ RequestsInv'
    BY <1>1, <1>2, <1>3, <1>4, <1>6, ViewKept
  <1>11. QED
    BY <1>5, <1>9, <1>10 DEF ThreadInv

(* The operation is written into the entry.                                *)
LEMMA PrepareInv ==
  ASSUME ThreadInv, NEW t \in Threads, Prepare(t)
  PROVE  ThreadInv'
  <1>1. TypeOK /\ PlacesInv /\ EntriesInv /\ RequestsInv
    BY DEF ThreadInv
  <1>2. /\ pc[t] = "PREP" /\ pc[t] \in Writing
        /\ sqes' = [sqes EXCEPT ![MySlot(t)].op = local[t].request]
        /\ UNCHANGED <<sqe_tail, khead, taken, m_mutex, local, submitted, failed>>
    BY DEF Prepare, Goto, Writing
  <1>3. /\ pc' \in [Threads -> Places]
        /\ pc'[t] = "SUBMIT"
        /\ \A u \in Threads : u # t => pc'[u] = pc[u]
    BY <1>1 DEF Prepare, Goto, TypeOK, Places
  <1>4. /\ sqes' \in [Slots -> Entry]
        /\ sqes'[MySlot(t)].op = local[t].request
        /\ sqes'[MySlot(t)].user_data = local[t].request
        /\ \A n \in khead .. Visible - 1 : sqes'[SlotOf(n)] = sqes[SlotOf(n)]
    <2>1. /\ sqes \in [Slots -> Entry] /\ MySlot(t) \in Slots
          /\ local[t].request \in Requests
          /\ sqes[MySlot(t)].user_data = local[t].request
      BY <1>1, <1>2, OwnSlot DEF TypeOK, PlacesInv
    <2>2. \A n \in khead .. Visible - 1 : SlotOf(n) \in Slots /\ SlotOf(n) # MySlot(t)
      <3>1. \A n \in khead .. Visible - 1 : n \in Nat
        BY <1>1, Bounds
      <3>2. QED
        BY <1>2, <3>1, OwnSlot, SlotTyped
    <2>3. /\ sqes' \in [Slots -> Entry] /\ sqes'[MySlot(t)].op = local[t].request
          /\ sqes'[MySlot(t)].user_data = local[t].request
      BY <1>2, <2>1 DEF Entry
    <2>4. \A n \in khead .. Visible - 1 : sqes'[SlotOf(n)] = sqes[SlotOf(n)]
      BY <1>2, <2>1, <2>2
    <2>5. QED
      BY <2>3, <2>4
  <1>5. TypeOK'
    BY <1>1, <1>2, <1>3, <1>4 DEF TypeOK
  <1>6. Unwritten /\ Unwritten' /\ Visible' = Visible
    BY <1>2, <1>3 DEF Unwritten, Visible
  <1>7. /\ m_mutex = t \/ t \in Unlocked
        /\ \A u \in Threads : u # t => pc[u] \notin Inside
    BY <1>2, OwnSlot
  <1>8. PlacesInv'
    <2>1. /\ sqe_tail' = local'[t].tail + 1 /\ khead' < sqe_tail'
          /\ m_mutex' = t \/ t \in Unlocked
          /\ sqes'[SlotOf(local'[t].tail)].user_data = local'[t].request
          /\ sqes'[SlotOf(local'[t].tail)].op = local'[t].request
      BY <1>1, <1>2, <1>4, <1>7 DEF PlacesInv, MySlot
    <2>2. \A u \in Threads : u # t => pc'[u] \notin Inside
      BY <1>3, <1>7
    <2>3. QED
      BY <1>3, <2>1, <2>2 DEF PlacesInv, Inside, Writing, MySlot
  <1>9. EntriesInv' /\ RequestsInv'
    BY <1>1, <1>2, <1>3, <1>4, <1>6, ViewKept
  <1>10. QED
    BY <1>5, <1>8, <1>9 DEF ThreadInv

(* An abort changes nothing.                                               *)
LEMMA AbortInv ==
  ASSUME ThreadInv, NEW t \in Threads, Abort(t)
  PROVE  ThreadInv'
  <1>1. TypeOK /\ PlacesInv /\ EntriesInv /\ RequestsInv
    BY DEF ThreadInv
  <1>2. pc' = pc
    BY <1>1 DEF Abort, Goto, TypeOK
  <1>3. failed' = TRUE /\ UNCHANGED <<sqes, sqe_tail, khead, taken, m_mutex, local, submitted>>
    BY DEF Abort
  <1>4. TypeOK'
    BY <1>1, <1>2, <1>3 DEF TypeOK
  <1>5. PlacesInv'
    BY <1>1, <1>2, <1>3 DEF PlacesInv, MySlot
  <1>6. Visible' = Visible
    BY <1>2, <1>3 DEF Visible, Unwritten
  <1>7. EntriesInv' /\ RequestsInv'
    BY <1>1, <1>2, <1>3, <1>6, ViewKept
  <1>8. QED
    BY <1>4, <1>5, <1>7 DEF ThreadInv

-----------------------------------------------------------------------------
(* io_uring_submit.                                                        *)

(* The kernel has taken the entries up to k, in order.                     *)
Took(k) ==
  /\ k \in khead .. sqe_tail
  /\ khead' = k
  /\ taken' = taken \o [i \in 1 .. k - khead |-> sqes[SlotOf(khead + i - 1)]]

(* A flush takes some number of entries.                                   *)
LEMMA FlushedTook ==
  ASSUME TypeOK, Flushed
  PROVE  (\E k \in Nat : Took(k)) /\ UNCHANGED <<sqes, sqe_tail, local, submitted>>
  <1>1. PICK k \in IF SubmitFaults THEN khead .. sqe_tail ELSE {sqe_tail} :
          /\ khead' = k
          /\ taken' = taken \o [i \in 1 .. k - khead |-> sqes[SlotOf(khead + i - 1)]]
    BY DEF Flushed
  <1>2. k \in khead .. sqe_tail /\ k \in Nat
    BY Bounds
  <1>3. QED
    BY <1>1, <1>2 DEF Flushed, Took

(* What was taken is the old sequence followed by the entries.             *)
LEMMA TookEntries ==
  ASSUME TypeOK, NEW k \in Nat, Took(k)
  PROVE  /\ taken' \in Seq(Entry)
         /\ k - khead \in Nat
         /\ Len(taken) \in Nat
         /\ Len(taken') = Len(taken) + (k - khead)
         /\ \A i \in 1 .. Len(taken) : taken'[i] = taken[i]
         /\ \A i \in 1 .. k - khead : taken'[Len(taken) + i] = sqes[SlotOf(khead + i - 1)]
  <1> DEFINE new == [i \in 1 .. k - khead |-> sqes[SlotOf(khead + i - 1)]]
  <1>1. k - khead \in Nat /\ khead \in Nat
    BY Bounds DEF Took
  <1>2. \A i \in 1 .. k - khead : SlotOf(khead + i - 1) \in Slots
    <2>1. \A i \in 1 .. k - khead : khead + i - 1 \in Nat
      BY <1>1
    <2>2. QED
      BY <2>1, SlotTyped
  <1>3. new \in [1 .. k - khead -> Entry]
    BY <1>2 DEF TypeOK
  <1>4. new \in Seq(Entry) /\ Len(new) = k - khead
    BY <1>1, <1>3, FunctionIsSeq
  <1>5. \A i \in 1 .. k - khead : new[i] = sqes[SlotOf(khead + i - 1)]
    OBVIOUS
  <1>6. taken' = taken \o new /\ taken \in Seq(Entry) /\ Len(taken) \in Nat
    BY LenProperties DEF Took, TypeOK
  <1> HIDE DEF new
  <1>7. /\ taken \o new \in Seq(Entry)
        /\ Len(taken \o new) = Len(taken) + Len(new)
        /\ \A i \in 1 .. Len(taken) + Len(new) :
             (taken \o new)[i] = IF i <= Len(taken) THEN taken[i] ELSE new[i - Len(taken)]
    BY <1>4, <1>6, ConcatProperties
  <1>8. \A i \in 1 .. Len(taken) : taken'[i] = taken[i]
    BY <1>1, <1>4, <1>6, <1>7
  <1>9. ASSUME NEW i \in 1 .. k - khead
        PROVE  taken'[Len(taken) + i] = sqes[SlotOf(khead + i - 1)]
    <2>1. /\ Len(taken) + i \in 1 .. Len(taken) + Len(new)
          /\ ~(Len(taken) + i <= Len(taken))
          /\ Len(taken) + i - Len(taken) = i
      BY <1>1, <1>4, <1>6
    <2>2. taken'[Len(taken) + i] = new[i]
      BY <1>6, <1>7, <2>1
    <2>3. QED
      BY <1>5, <2>2
  <1>10. QED
    BY <1>1, <1>4, <1>6, <1>7, <1>8, <1>9

(* If all entries up to the tail were written, a flush keeps them whole,   *)
(* and each request of theirs waits or was taken.                          *)
LEMMA FlushKeeps ==
  ASSUME TypeOK, NEW k \in Nat, Took(k),
         UNCHANGED <<sqes, sqe_tail, submitted>>, Visible' = sqe_tail,
         \A n \in khead .. sqe_tail - 1 : Whole(sqes[SlotOf(n)], submitted),
         \A i \in 1 .. Len(taken) : Whole(taken[i], submitted)
  PROVE  /\ EntriesInv'
         /\ \A r : InEntries(sqes', khead', Visible', r) \/ InTaken(taken', r)
              <=> InEntries(sqes, khead, sqe_tail, r) \/ InTaken(taken, r)
  <1>1. /\ khead \in Nat /\ sqe_tail \in Nat /\ khead <= k /\ k <= sqe_tail /\ khead' = k
        /\ Len(taken) \in Nat
    BY Bounds, TookEntries DEF Took
  <1>2. ASSUME NEW i \in 1 .. Len(taken')
        PROVE  \/ i \in 1 .. Len(taken) /\ taken'[i] = taken[i]
               \/ \E n \in khead .. k - 1 : taken'[i] = sqes[SlotOf(n)]
    <2>1. CASE i <= Len(taken)
      BY <1>1, <2>1, TookEntries
    <2>2. CASE ~(i <= Len(taken))
      <3> DEFINE j == i - Len(taken)
      <3>1. j \in 1 .. k - khead /\ Len(taken) + j = i
        BY <1>1, <2>2, TookEntries
      <3>2. taken'[i] = sqes[SlotOf(khead + j - 1)]
        BY <3>1, TookEntries
      <3>3. khead + j - 1 \in khead .. k - 1
        BY <1>1, <3>1
      <3>4. QED
        BY <3>2, <3>3
    <2>3. QED
      BY <2>1, <2>2
  <1>3. ASSUME NEW n \in khead .. k - 1
        PROVE  \E i \in 1 .. Len(taken') : taken'[i] = sqes[SlotOf(n)]
    <2> DEFINE j == n - khead + 1
    <2>1. j \in 1 .. k - khead /\ khead + j - 1 = n /\ Len(taken) + j \in 1 .. Len(taken')
      BY <1>1, TookEntries
    <2>2. taken'[Len(taken) + j] = sqes[SlotOf(n)]
      BY <2>1, TookEntries
    <2>3. QED
      BY <2>1, <2>2
  <1>4. \A n : n \in khead .. sqe_tail - 1 <=> n \in khead .. k - 1 \/ n \in k .. sqe_tail - 1
    BY <1>1
  <1>5. EntriesInv'
    <2>1. \A i \in 1 .. Len(taken') : Whole(taken'[i], submitted)
      BY <1>2, <1>4
    <2>2. \A n \in k .. sqe_tail - 1 : Whole(sqes[SlotOf(n)], submitted)
      BY <1>4
    <2>3. QED
      BY <1>1, <2>1, <2>2 DEF EntriesInv
  <1>6. ASSUME NEW r, InEntries(sqes', khead', Visible', r) \/ InTaken(taken', r)
        PROVE  InEntries(sqes, khead, sqe_tail, r) \/ InTaken(taken, r)
    BY <1>1, <1>2, <1>4, <1>6 DEF InEntries, InTaken
  <1>7. ASSUME NEW r, InTaken(taken, r)
        PROVE  InTaken(taken', r)
    <2>1. PICK i \in 1 .. Len(taken) : taken[i].op = r
      BY <1>7 DEF InTaken
    <2>2. Len(taken') = Len(taken) + (k - khead) /\ k - khead \in Nat
      BY TookEntries
    <2>3. i \in 1 .. Len(taken')
      BY <1>1, <2>2
    <2>4. taken'[i] = taken[i]
      BY TookEntries
    <2>5. QED
      BY <2>1, <2>3, <2>4 DEF InTaken
  <1>8. ASSUME NEW r, InEntries(sqes, khead, sqe_tail, r)
        PROVE  InEntries(sqes', khead', Visible', r) \/ InTaken(taken', r)
    <2>1. PICK n \in khead .. sqe_tail - 1 : sqes[SlotOf(n)].op = r
      BY <1>8 DEF InEntries
    <2>2. CASE n \in khead .. k - 1
      BY <1>3, <2>1, <2>2 DEF InTaken
    <2>3. CASE n \in k .. sqe_tail - 1
      BY <1>1, <2>1, <2>3 DEF InEntries
    <2>4. QED
      BY <1>4, <2>2, <2>3
  <1>9. QED
    BY <1>5, <1>6, <1>7, <1>8

(* The flush of a full queue takes entries that are all written.           *)
LEMMA FlushFullInv ==
  ASSUME ThreadInv, NEW t \in Threads, FlushFull(t)
  PROVE  ThreadInv'
  <1>1. TypeOK /\ PlacesInv /\ EntriesInv /\ RequestsInv
    BY DEF ThreadInv
  <1>2. pc[t] = "GET" /\ pc[t] \in Inside /\ pc[t] \notin Writing
    BY DEF FlushFull, Goto, Inside, Writing
  <1>3. PICK k \in Nat : Took(k)
    BY <1>1, FlushedTook DEF FlushFull
  <1>4. UNCHANGED <<sqes, sqe_tail, local, submitted, m_mutex, failed>>
    BY <1>1, FlushedTook DEF FlushFull
  <1>5. /\ pc' \in [Threads -> Places]
        /\ pc'[t] = "RETRY"
        /\ \A u \in Threads : u # t => pc'[u] = pc[u]
    BY <1>1 DEF FlushFull, Goto, TypeOK, Places
  <1>6. /\ m_mutex = t \/ t \in Unlocked
        /\ \A u \in Threads : u # t => pc[u] \notin Inside
    BY <1>1, <1>2 DEF PlacesInv
  <1>7. Visible = sqe_tail
    BY <1>1, <1>2, VisibleIs
  <1>8. ~Unwritten' /\ Visible' = sqe_tail
    BY <1>4, <1>5, <1>6 DEF Unwritten, Visible, Inside
  <1>9. /\ EntriesInv'
        /\ \A r : InEntries(sqes', khead', Visible', r) \/ InTaken(taken', r)
             <=> InEntries(sqes, khead, sqe_tail, r) \/ InTaken(taken, r)
    BY <1>1, <1>3, <1>4, <1>7, <1>8, FlushKeeps DEF EntriesInv
  <1>10. RequestsInv'
    <2>1. \A u \in Threads : (pc'[u] = "IDLE" <=> pc[u] = "IDLE") /\ local'[u] = local[u]
      BY <1>2, <1>4, <1>5
    <2>2. QED
      BY <1>1, <1>4, <1>7, <1>9, <2>1 DEF RequestsInv
  <1>11. TypeOK'
    <2>1. taken' \in Seq(Entry)
      BY <1>1, <1>3, TookEntries
    <2>2. khead' \in Nat /\ sqe_tail' \in khead' .. khead' + QueueSize
      BY <1>1, <1>3, <1>4, Bounds DEF Took
    <2>3. QED
      BY <1>1, <1>4, <1>5, <2>1, <2>2 DEF TypeOK
  <1>12. PlacesInv'
    BY <1>4, <1>5, <1>6 DEF PlacesInv, Inside, Writing
  <1>13. QED
    BY <1>9, <1>10, <1>11, <1>12 DEF ThreadInv

(* With its own entry, all entries up to the tail are written.             *)
LEMMA AllWritten ==
  ASSUME ThreadInv, NEW t \in Threads, pc[t] = "SUBMIT"
  PROVE  /\ sqe_tail - 1 \in khead .. sqe_tail - 1
         /\ sqes[SlotOf(sqe_tail - 1)].op = local[t].request
         /\ \A n \in khead .. sqe_tail - 1 : n = sqe_tail - 1 \/ n \in khead .. Visible - 1
         /\ \A n \in khead .. sqe_tail - 1 : Whole(sqes[SlotOf(n)], submitted)
         /\ \A r : InEntries(sqes, khead, sqe_tail, r)
               <=> r = local[t].request \/ InEntries(sqes, khead, Visible, r)
  <1>1. TypeOK /\ PlacesInv /\ EntriesInv /\ RequestsInv
    BY DEF ThreadInv
  <1>2. pc[t] \in Inside /\ pc[t] \in Writing
    BY DEF Inside, Writing
  <1>3. /\ khead \in Nat /\ sqe_tail \in Nat /\ khead < sqe_tail
        /\ local[t].tail = sqe_tail - 1 /\ Visible = sqe_tail - 1
    BY <1>1, <1>2, Bounds, VisibleIs DEF PlacesInv
  <1>4. /\ sqes[SlotOf(sqe_tail - 1)].op = local[t].request
        /\ sqes[SlotOf(sqe_tail - 1)].user_data = local[t].request
    BY <1>1, <1>3 DEF PlacesInv, MySlot
  <1>5. local[t].request \in 1 .. submitted
    BY <1>1 DEF RequestsInv
  <1>6. \A n : n \in khead .. sqe_tail - 1 <=> n = sqe_tail - 1 \/ n \in khead .. Visible - 1
    BY <1>3
  <1>7. \A n \in khead .. sqe_tail - 1 : Whole(sqes[SlotOf(n)], submitted)
    BY <1>1, <1>4, <1>5, <1>6 DEF EntriesInv, Whole
  <1>8. \A r : InEntries(sqes, khead, sqe_tail, r)
          <=> r = local[t].request \/ InEntries(sqes, khead, Visible, r)
    BY <1>4, <1>6 DEF InEntries
  <1>9. QED
    BY <1>4, <1>6, <1>7, <1>8

(* The request of the thread that submits waits or is taken; those of the  *)
(* other threads are still theirs.                                         *)
LEMMA SubmitInv ==
  ASSUME NoRivals, ThreadInv, NEW t \in Threads, Submit(t)
  PROVE  ThreadInv'
  <1>1. TypeOK /\ PlacesInv /\ EntriesInv /\ RequestsInv
    BY DEF ThreadInv
  <1>2. pc[t] = "SUBMIT" /\ pc[t] \in Inside
    BY DEF Submit, Goto, Inside
  <1>3. PICK k \in Nat : Took(k)
    BY <1>1, FlushedTook DEF Submit
  <1>4. UNCHANGED <<sqes, sqe_tail, local, submitted, failed>>
    BY <1>1, FlushedTook DEF Submit
  <1>5. /\ pc' \in [Threads -> Places]
        /\ pc'[t] = "IDLE"
        /\ \A u \in Threads : u # t => pc'[u] = pc[u]
    BY <1>1 DEF Submit, Goto, TypeOK, Places
  <1>6. /\ m_mutex = t \/ t \in Unlocked
        /\ \A u \in Threads : u # t => pc[u] \notin Inside
    BY <1>1, <1>2 DEF PlacesInv
  <1>7. ~Unwritten' /\ Visible' = sqe_tail
    BY <1>4, <1>5, <1>6 DEF Unwritten, Visible, Inside
  <1>8. /\ EntriesInv'
        /\ \A r : InEntries(sqes', khead', Visible', r) \/ InTaken(taken', r)
             <=> InEntries(sqes, khead, sqe_tail, r) \/ InTaken(taken, r)
    BY <1>1, <1>2, <1>3, <1>4, <1>7, FlushKeeps, AllWritten DEF EntriesInv
  <1>9. \A r : InEntries(sqes', khead', Visible', r) \/ InTaken(taken', r)
          <=> r = local[t].request \/ InEntries(sqes, khead, Visible, r) \/ InTaken(taken, r)
    BY <1>2, <1>8, AllWritten
  <1>10. RequestsInv'
    <2>1. \A r \in 1 .. submitted' :
            \/ \E u \in Threads : pc'[u] # "IDLE" /\ local'[u].request = r
            \/ InEntries(sqes', khead', Visible', r)
            \/ InTaken(taken', r)
      <3>1. SUFFICES ASSUME NEW r \in 1 .. submitted
                     PROVE  \/ \E u \in Threads : pc'[u] # "IDLE" /\ local'[u].request = r
                            \/ InEntries(sqes', khead', Visible', r)
                            \/ InTaken(taken', r)
        BY <1>4
      <3>2. CASE \E u \in Threads : pc[u] # "IDLE" /\ local[u].request = r
        BY <1>4, <1>5, <1>9, <3>2
      <3>3. CASE InEntries(sqes, khead, Visible, r) \/ InTaken(taken, r)
        BY <1>9, <3>3
      <3>4. QED
        BY <1>1, <3>2, <3>3 DEF RequestsInv
    <2>2. ASSUME NEW u \in Threads, pc'[u] # "IDLE"
          PROVE  /\ local'[u].request \in 1 .. submitted'
                 /\ ~InEntries(sqes', khead', Visible', local'[u].request)
                 /\ ~InTaken(taken', local'[u].request)
      <3>1. u # t /\ pc[u] # "IDLE" /\ local'[u] = local[u]
        BY <1>4, <1>5, <2>2
      <3>2. local[u].request # local[t].request
        BY <1>1, <1>2, <3>1 DEF RequestsInv
      <3>3. QED
        BY <1>1, <1>4, <1>9, <3>1, <3>2 DEF RequestsInv
    <2>3. \A u, w \in Threads :
            pc'[u] # "IDLE" /\ pc'[w] # "IDLE" /\ local'[u].request = local'[w].request => u = w
      BY <1>1, <1>4, <1>5 DEF RequestsInv
    <2>4. QED
      BY <2>1, <2>2, <2>3 DEF RequestsInv
  <1>11. TypeOK'
    <2>1. taken' \in Seq(Entry)
      BY <1>1, <1>3, TookEntries
    <2>2. khead' \in Nat /\ sqe_tail' \in khead' .. khead' + QueueSize
      BY <1>1, <1>3, <1>4, Bounds DEF Took
    <2>3. m_mutex' \in Threads \cup {NULL}
      BY <1>1 DEF Submit, Release, TypeOK
    <2>4. QED
      BY <1>1, <1>4, <1>5, <2>1, <2>2, <2>3 DEF TypeOK
  <1>12. PlacesInv'
    BY <1>5, <1>6 DEF PlacesInv, Inside, Writing
  <1>13. QED
    BY <1>8, <1>10, <1>11, <1>12 DEF ThreadInv

(* The invariant is inductive.                                             *)
LEMMA ThreadStepInv ==
  ASSUME NoRivals, ThreadInv, [Next]_vars
  PROVE  ThreadInv'
  <1>1. ASSUME NEW t \in Threads, Begin(t) \/ Step(t)
        PROVE  ThreadInv'
    BY <1>1, BeginInv, EnterInv, ReadTailInv, FlushFullInv, AbortInv, ClaimInv, SetDataInv,
       PrepareInv, SubmitInv DEF Step
  <1>2. CASE UNCHANGED vars
    <2>1. TypeOK' /\ PlacesInv'
      BY <1>2 DEF ThreadInv, TypeOK, PlacesInv, vars, MySlot
    <2>2. Visible' = Visible
      BY <1>2 DEF vars, Visible, Unwritten
    <2>3. EntriesInv' /\ RequestsInv'
      BY <1>2, <2>2 DEF ThreadInv, EntriesInv, RequestsInv, vars
    <2>4. QED
      BY <2>1, <2>3 DEF ThreadInv
  <1>3. QED
    BY <1>1, <1>2 DEF Next

(* Submissions under the mutex (WorkPool.cpp:89 and the other              *)
(* alloc_*_work_item), and those of a single thread with or without it,    *)
(* never leave the array of entries, and the kernel has taken every entry  *)
(* whole: no request is lost and none is mixed with another one's id, for  *)
(* any number of threads, any size of the queue and whatever               *)
(* io_uring_submit takes.                                                  *)
THEOREM SubmissionsAreSafe ==
  ASSUME NoRivals
  PROVE  Spec => [](TypeOK /\ NoRequestIsLost)
  <1>1. ThreadInv => TypeOK
    BY DEF ThreadInv
  <1>2. ASSUME ThreadInv PROVE NoRequestIsLost
    <2>1. TypeOK /\ EntriesInv /\ RequestsInv
      BY <1>2 DEF ThreadInv
    <2>2. SUFFICES ASSUME NEW r \in 1 .. submitted
                   PROVE  \/ r \in Waiting \cup InProgress
                          \/ \E i \in DOMAIN taken : taken[i].op = r /\ taken[i].user_data = r
      BY DEF NoRequestIsLost
    <2>3. CASE \E t \in Threads : pc[t] # "IDLE" /\ local[t].request = r
      BY <2>3 DEF InProgress
    <2>4. CASE InEntries(sqes, khead, Visible, r)
      <3>1. PICK n \in khead .. Visible - 1 : sqes[SlotOf(n)].op = r
        BY <2>4 DEF InEntries
      <3>2. n \in khead .. sqe_tail - 1
        BY <2>1, Bounds
      <3>3. QED
        BY <3>1, <3>2 DEF Waiting
    <2>5. CASE InTaken(taken, r)
      <3>1. PICK i \in 1 .. Len(taken) : taken[i].op = r
        BY <2>5 DEF InTaken
      <3>2. taken[i].user_data = r
        BY <2>1, <3>1 DEF EntriesInv, Whole
      <3>3. i \in DOMAIN taken
        BY <2>1, LenProperties DEF TypeOK
      <3>4. QED
        BY <3>1, <3>2, <3>3
    <2>6. QED
      BY <2>1, <2>3, <2>4, <2>5 DEF RequestsInv
  <1>3. QED
    BY <1>1, <1>2, InitThreadInv, ThreadStepInv, PTL DEF Spec

-----------------------------------------------------------------------------
(* The refinement.                                                         *)

(* The sequences that the abstract queue consists of.                      *)
Pend == [i \in 1 .. Visible - khead |-> sqes[SlotOf(khead + i - 1)].op]
Ops == [i \in DOMAIN taken |-> taken[i].op]

ViewIsTyped ==
  /\ Visible - khead \in Nat
  /\ Pend \in Seq(Requests) /\ Len(Pend) = Visible - khead
  /\ \A i \in 1 .. Len(Pend) : Pend[i] = sqes[SlotOf(khead + i - 1)].op
  /\ Ops \in Seq(Requests) /\ Len(Ops) = Len(taken) /\ Len(taken) \in Nat
  /\ \A i \in 1 .. Len(Ops) : Ops[i] = taken[i].op
  /\ DOMAIN Ops = 1 .. Len(Ops) /\ DOMAIN Pend = 1 .. Len(Pend)

(* Both are sequences of requests.                                         *)
LEMMA ViewTyped == ThreadInv => ViewIsTyped
  <1> SUFFICES ASSUME ThreadInv PROVE ViewIsTyped
    OBVIOUS
  <1>1. TypeOK /\ PlacesInv /\ EntriesInv
    BY DEF ThreadInv
  <1>2. khead \in Nat /\ sqe_tail \in Nat /\ submitted \in Nat /\ 1 .. submitted \subseteq Requests
    BY <1>1, Bounds DEF Requests
  <1>3. Visible - khead \in Nat
    <2>1. CASE Unwritten
      <3>1. khead < sqe_tail
        BY <1>1, <2>1 DEF Unwritten, PlacesInv, Writing
      <3>2. QED
        BY <1>2, <2>1, <3>1 DEF Visible
    <2>2. CASE ~Unwritten
      BY <1>1, <2>2, Bounds DEF Visible
    <2>3. QED
      BY <2>1, <2>2
  <1>4. \A i \in 1 .. Visible - khead : sqes[SlotOf(khead + i - 1)].op \in Requests
    <2>1. \A h \in Nat, v \in Int : \A i \in 1 .. v - h : h + i - 1 \in h .. v - 1
      OBVIOUS
    <2>2. Visible \in Int
      BY <1>1, Bounds
    <2>3. \A i \in 1 .. Visible - khead : khead + i - 1 \in khead .. Visible - 1
      BY <1>2, <2>1, <2>2
    <2>4. QED
      BY <1>1, <1>2, <2>3 DEF EntriesInv, Whole
  <1>5. Pend \in [1 .. Visible - khead -> Requests]
    BY <1>4 DEF Pend
  <1>6. Pend \in Seq(Requests) /\ Len(Pend) = Visible - khead
    BY <1>3, <1>5, FunctionIsSeq
  <1>7. Len(taken) \in Nat /\ DOMAIN taken = 1 .. Len(taken)
    BY <1>1, LenProperties DEF TypeOK
  <1>8. Ops \in [1 .. Len(taken) -> Requests]
    BY <1>1, <1>2, <1>7 DEF Ops, EntriesInv, Whole
  <1>9. Ops \in Seq(Requests) /\ Len(Ops) = Len(taken)
    BY <1>7, <1>8, FunctionIsSeq
  <1>10. DOMAIN Ops = 1 .. Len(Ops) /\ DOMAIN Pend = 1 .. Len(Pend)
    BY <1>6, <1>9, LenProperties
  <1>11. QED
    BY <1>3, <1>6, <1>7, <1>9, <1>10 DEF ViewIsTyped, Pend, Ops

(* A sequence that goes on with the first k elements of another one.       *)
LEMMA FirstPart ==
  ASSUME NEW S, NEW a \in Seq(S), NEW b \in Seq(S), NEW q \in Seq(S), NEW k \in 0 .. Len(q),
         Len(b) = Len(a) + k,
         \A i \in 1 .. Len(a) : b[i] = a[i],
         \A i \in 1 .. k : b[Len(a) + i] = q[i]
  PROVE  b = a \o SubSeq(q, 1, k)
  <1>1. Len(a) \in Nat /\ Len(q) \in Nat /\ k \in Nat
    BY LenProperties
  <1>2. \A i \in 1 .. k : q[i] \in S
    BY <1>1, ElementOfSeq
  <1>3. /\ SubSeq(q, 1, k) \in Seq(S)
        /\ Len(SubSeq(q, 1, k)) = k
        /\ \A i \in 1 .. k : SubSeq(q, 1, k)[i] = q[i]
    BY <1>1, <1>2, SubSeqProperties
  <1> DEFINE c == SubSeq(q, 1, k)
  <1> HIDE DEF c
  <1>4. c \in Seq(S) /\ Len(c) = k /\ \A i \in 1 .. k : c[i] = q[i]
    BY <1>3 DEF c
  <1>5. /\ a \o c \in Seq(S)
        /\ Len(a \o c) = Len(a) + k
        /\ \A i \in 1 .. Len(a) + k : (a \o c)[i] = IF i <= Len(a) THEN a[i] ELSE c[i - Len(a)]
    BY <1>4, ConcatProperties
  <1>6. ASSUME NEW i \in 1 .. Len(a) + k
        PROVE  b[i] = (a \o c)[i]
    <2>1. CASE i <= Len(a)
      BY <1>1, <1>5, <2>1
    <2>2. CASE ~(i <= Len(a))
      <3> DEFINE j == i - Len(a)
      <3>1. j \in 1 .. k /\ Len(a) + j = i
        BY <1>1, <2>2
      <3>2. b[i] = q[j]
        BY <3>1
      <3>3. QED
        BY <1>4, <1>5, <2>2, <3>1, <3>2
    <2>3. QED
      BY <2>1, <2>2
  <1>7. b = a \o c
    BY <1>5, <1>6, SeqEqual
  <1>8. QED
    BY <1>7 DEF c

(* A sequence of the elements of another one after the first k.            *)
LEMMA LastPart ==
  ASSUME NEW S, NEW p \in Seq(S), NEW q \in Seq(S), NEW k \in 0 .. Len(q),
         Len(p) = Len(q) - k,
         \A i \in 1 .. Len(p) : p[i] = q[k + i]
  PROVE  p = SubSeq(q, k + 1, Len(q))
  <1>1. Len(q) \in Nat /\ k \in Nat /\ k <= Len(q)
    BY LenProperties
  <1>2. \A i \in k + 1 .. Len(q) : q[i] \in S
    BY <1>1, ElementOfSeq
  <1>3. /\ SubSeq(q, k + 1, Len(q)) \in Seq(S)
        /\ Len(SubSeq(q, k + 1, Len(q))) = IF k + 1 <= Len(q) THEN Len(q) - (k + 1) + 1 ELSE 0
        /\ \A i \in 1 .. Len(q) - (k + 1) + 1 : SubSeq(q, k + 1, Len(q))[i] = q[k + 1 + i - 1]
    BY <1>1, <1>2, SubSeqProperties
  <1> DEFINE c == SubSeq(q, k + 1, Len(q))
  <1> HIDE DEF c
  <1>4. c \in Seq(S) /\ Len(c) = Len(q) - k /\ \A i \in 1 .. Len(q) - k : c[i] = q[k + 1 + i - 1]
    BY <1>1, <1>3 DEF c
  <1>5. \A i \in 1 .. Len(p) : c[i] = p[i]
    <2>1. \A i \in 1 .. Len(p) : k + 1 + i - 1 = k + i
      BY <1>1
    <2>2. QED
      BY <1>4, <2>1
  <1>6. c = p
    BY <1>4, <1>5, SeqEqual
  <1>7. QED
    BY <1>6 DEF c

(* A flush takes a first part of the entries and leaves the others.        *)
LEMMA FlushSplits ==
  ASSUME ThreadInv, ThreadInv', NEW k \in Nat, Took(k),
         UNCHANGED <<sqes, sqe_tail>>, Visible' = sqe_tail,
         NEW q \in Seq(Requests), Len(q) = sqe_tail - khead,
         \A i \in 1 .. Len(q) : q[i] = sqes[SlotOf(khead + i - 1)].op
  PROVE  /\ k - khead \in 0 .. Len(q)
         /\ Ops' = Ops \o SubSeq(q, 1, k - khead)
         /\ Pend' = SubSeq(q, (k - khead) + 1, Len(q))
  <1>0. TypeOK
    BY DEF ThreadInv
  <1>1. khead \in Nat /\ sqe_tail \in Nat /\ khead <= k /\ k <= sqe_tail /\ khead' = k
    BY <1>0, Bounds DEF Took
  <1>2. k - khead \in 0 .. Len(q) /\ k - khead \in Nat
    BY <1>1
  <1>3. /\ Ops \in Seq(Requests) /\ Len(Ops) = Len(taken) /\ Len(taken) \in Nat
        /\ \A i \in 1 .. Len(Ops) : Ops[i] = taken[i].op
    BY ViewTyped DEF ViewIsTyped
  <1>4. /\ Ops' \in Seq(Requests) /\ Len(Ops') = Len(taken')
        /\ \A i \in 1 .. Len(Ops') : Ops'[i] = taken'[i].op
        /\ Pend' \in Seq(Requests) /\ Len(Pend') = Visible' - khead'
        /\ \A i \in 1 .. Len(Pend') : Pend'[i] = sqes'[SlotOf(khead' + i - 1)].op
    <2>1. (ThreadInv => ViewIsTyped)'
      BY ViewTyped, PTL
    <2>2. QED
      BY <2>1 DEF ViewIsTyped
  <1>5. Len(Ops') = Len(Ops) + (k - khead)
    BY <1>0, <1>3, <1>4, TookEntries
  <1>6. \A i \in 1 .. Len(Ops) : i \in 1 .. Len(Ops') /\ Ops'[i] = Ops[i]
    <2>1. \A i \in 1 .. Len(Ops) : i \in 1 .. Len(Ops')
      BY <1>2, <1>3, <1>5
    <2>2. \A i \in 1 .. Len(taken) : taken'[i] = taken[i]
      BY <1>0, TookEntries
    <2>3. ASSUME NEW i \in 1 .. Len(Ops)
          PROVE  Ops'[i] = Ops[i]
      <3>1. i \in 1 .. Len(taken) /\ i \in 1 .. Len(Ops')
        BY <1>3, <2>1
      <3>2. Ops'[i] = taken'[i].op
        BY <1>4, <3>1
      <3>3. QED
        BY <1>3, <2>2, <3>1, <3>2
    <2>4. QED
      BY <2>1, <2>3
  <1>7. \A i \in 1 .. k - khead : Ops'[Len(Ops) + i] = q[i]
    <2>1. \A i \in 1 .. k - khead : Len(Ops) + i \in 1 .. Len(Ops') /\ i \in 1 .. Len(q)
      BY <1>1, <1>2, <1>3, <1>5
    <2>2. \A i \in 1 .. k - khead : taken'[Len(Ops) + i] = sqes[SlotOf(khead + i - 1)]
      BY <1>0, <1>3, TookEntries
    <2>3. QED
      BY <1>4, <2>1, <2>2
  <1>8. Ops' = Ops \o SubSeq(q, 1, k - khead)
    <2> DEFINE d == k - khead
    <2>1. \A b \in Seq(Requests) :
            /\ Len(b) = Len(Ops) + d
            /\ \A i \in 1 .. Len(Ops) : b[i] = Ops[i]
            /\ \A i \in 1 .. d : b[Len(Ops) + i] = q[i]
            => b = Ops \o SubSeq(q, 1, d)
      <3> HIDE DEF d
      <3>1. d \in 0 .. Len(q)
        BY <1>2 DEF d
      <3>2. QED
        <4>1. SUFFICES ASSUME NEW b \in Seq(Requests),
                              Len(b) = Len(Ops) + d,
                              \A i \in 1 .. Len(Ops) : b[i] = Ops[i],
                              \A i \in 1 .. d : b[Len(Ops) + i] = q[i]
                       PROVE  b = Ops \o SubSeq(q, 1, d)
          OBVIOUS
        <4>2. Ops \in Seq(Requests)
          BY <1>3
        <4>3. QED
          BY <3>1, <4>1, <4>2, FirstPart
    <2>2. QED
      BY <1>4, <1>5, <1>6, <1>7, <2>1
  <1>9. Len(Pend') = Len(q) - (k - khead)
    BY <1>1, <1>4
  <1>10. \A i \in 1 .. Len(Pend') : Pend'[i] = q[(k - khead) + i]
    <2>1. \A i \in 1 .. Len(Pend') :
            /\ (k - khead) + i \in 1 .. Len(q)
            /\ khead + ((k - khead) + i) - 1 = k + i - 1
      BY <1>1, <1>9
    <2>2. QED
      BY <1>1, <1>4, <2>1
  <1>11. Pend' = SubSeq(q, (k - khead) + 1, Len(q))
    BY <1>2, <1>4, <1>9, <1>10, LastPart
  <1>12. QED
    BY <1>2, <1>8, <1>11

(* The flush of a full queue is a flush of the abstract queue.             *)
LEMMA FlushFullRefines ==
  ASSUME NoRivals, ThreadInv, NEW t \in Threads, FlushFull(t)
  PROVE  Atomic!Flush
  <1>0. ThreadInv' /\ TypeOK /\ PlacesInv
    BY FlushFullInv DEF ThreadInv
  <1>1. /\ pc[t] = "GET" /\ pc[t] \in Inside /\ pc[t] \notin Writing /\ ~failed
        /\ UNCHANGED <<sqes, sqe_tail, failed>>
    BY <1>0, FlushedTook DEF FlushFull, Goto, Inside, Writing
  <1>2. PICK k \in Nat : Took(k)
    BY <1>0, FlushedTook DEF FlushFull
  <1>3. pc'[t] = "RETRY" /\ t \in Threads
    BY <1>0 DEF FlushFull, Goto, TypeOK
  <1>4. Visible = sqe_tail
    BY <1>0, <1>1, VisibleIs
  <1>5. Visible' = sqe_tail
    <2>1. \A u \in Threads : pc'[u] \notin Writing
      BY <1>0, <1>1, <1>3 DEF FlushFull, Goto, TypeOK, PlacesInv, Inside, Writing
    <2>2. QED
      BY <1>1, <2>1 DEF Visible, Unwritten, Writing
  <1>6. /\ k - khead \in 0 .. Len(Pend)
        /\ Ops' = Ops \o SubSeq(Pend, 1, k - khead)
        /\ Pend' = SubSeq(Pend, (k - khead) + 1, Len(Pend))
    BY <1>0, <1>1, <1>2, <1>4, <1>5, ViewTyped, FlushSplits DEF ViewIsTyped
  <1>7. QED
    BY <1>1, <1>6 DEF Atomic!Flush, Atomic!Take, Pend, Ops

(* The last step of submit is the abstract submission.                     *)
LEMMA SubmitRefines ==
  ASSUME NoRivals, ThreadInv, NEW t \in Threads, Submit(t)
  PROVE  \E r \in Requests : Atomic!Submit(r)
  <1> DEFINE r == local[t].request
             q == Append(Pend, r)
  <1>0. ThreadInv' /\ TypeOK /\ PlacesInv /\ EntriesInv /\ RequestsInv
    BY SubmitInv DEF ThreadInv
  <1>1. /\ pc[t] = "SUBMIT" /\ pc[t] \in Inside /\ pc[t] \in Writing /\ ~failed
        /\ UNCHANGED <<sqes, sqe_tail, failed>>
    BY <1>0, FlushedTook DEF Submit, Goto, Inside, Writing
  <1>2. PICK k \in Nat : Took(k)
    BY <1>0, FlushedTook DEF Submit
  <1>3. /\ Visible = sqe_tail - 1 /\ khead \in Nat /\ sqe_tail \in Nat
        /\ sqe_tail <= khead + QueueSize /\ QueueSize \in Nat
    BY <1>0, <1>1, VisibleIs, Bounds
  <1>4. Visible' = sqe_tail
    <2>1. \A u \in Threads : pc'[u] \notin Writing
      BY <1>0, <1>1 DEF Submit, Goto, TypeOK, PlacesInv, Inside, Writing
    <2>2. QED
      BY <1>1, <2>1 DEF Visible, Unwritten, Writing
  <1>5. r \in Requests
    BY <1>1, OwnSlot
  <1>6. /\ Pend \in Seq(Requests) /\ Len(Pend) = Visible - khead /\ Len(Pend) \in Nat
        /\ \A i \in 1 .. Len(Pend) : Pend[i] = sqes[SlotOf(khead + i - 1)].op
        /\ Len(Ops) = Len(taken) /\ \A i \in 1 .. Len(Ops) : Ops[i] = taken[i].op
        /\ DOMAIN Ops = 1 .. Len(Ops) /\ DOMAIN Pend = 1 .. Len(Pend)
    BY ViewTyped DEF ViewIsTyped
  <1>7. /\ q \in Seq(Requests) /\ Len(q) = Len(Pend) + 1
        /\ \A i \in 1 .. Len(Pend) : q[i] = Pend[i]
        /\ q[Len(Pend) + 1] = r
    BY <1>5, <1>6, AppendProperties
  <1>8. sqes[SlotOf(sqe_tail - 1)].op = r
    BY <1>1, AllWritten
  <1> HIDE DEF q, r
  <1>9. Len(q) = sqe_tail - khead
    BY <1>3, <1>6, <1>7
  <1>10. \A i \in 1 .. Len(q) : q[i] = sqes[SlotOf(khead + i - 1)].op
    <2>1. SUFFICES ASSUME NEW i \in 1 .. Len(q)
                   PROVE  q[i] = sqes[SlotOf(khead + i - 1)].op
      OBVIOUS
    <2>2. CASE i \in 1 .. Len(Pend)
      BY <1>6, <1>7, <2>2
    <2>3. CASE i = Len(Pend) + 1
      <3>1. khead + i - 1 = sqe_tail - 1
        BY <1>3, <1>6, <2>3
      <3>2. QED
        BY <1>7, <1>8, <2>3, <3>1
    <2>4. QED
      BY <1>6, <1>7, <2>2, <2>3
  <1>11. /\ k - khead \in 0 .. Len(q)
         /\ Ops' = Ops \o SubSeq(q, 1, k - khead)
         /\ Pend' = SubSeq(q, (k - khead) + 1, Len(q))
    BY <1>0, <1>1, <1>2, <1>4, <1>7, <1>9, <1>10, FlushSplits
  <1>12. Len(Pend) < QueueSize
    BY <1>3, <1>6
  <1>13. \A i \in DOMAIN Pend : Pend[i] # r
    <2>1. ~InEntries(sqes, khead, Visible, r)
      BY <1>0, <1>1 DEF RequestsInv, r
    <2>2. \A i \in 1 .. Len(Pend) : khead + i - 1 \in khead .. Visible - 1
      BY <1>3, <1>6
    <2>3. QED
      BY <1>6, <2>1, <2>2 DEF InEntries
  <1>14. \A i \in DOMAIN Ops : Ops[i] # r
    <2>1. ~InTaken(taken, r)
      BY <1>0, <1>1 DEF RequestsInv, r
    <2>2. QED
      BY <1>6, <2>1 DEF InTaken
  <1>15. Atomic!IsNew(r)
    BY <1>13, <1>14 DEF Atomic!IsNew, Pend, Ops
  <1>16. \E j \in 0 .. Len(Pend) + 1 :
           Ops' = Ops \o SubSeq(q, 1, j) /\ Pend' = SubSeq(q, j + 1, Len(q))
    BY <1>7, <1>11
  <1>17. Atomic!Submit(r)
    BY <1>1, <1>12, <1>15, <1>16 DEF Atomic!Submit, Atomic!Take, Pend, Ops, q
  <1>18. QED
    BY <1>5, <1>17 DEF r

(* All other steps leave the abstract queue alone, or end the process.     *)
LEMMA OthersRefine ==
  ASSUME NoRivals, ThreadInv, NEW t \in Threads,
         \/ Begin(t) \/ Enter(t) \/ ReadTail(t, "GET") \/ ReadTail(t, "RETRY")
         \/ Claim(t) \/ SetData(t) \/ Prepare(t)
  PROVE  Pend' = Pend /\ Ops' = Ops /\ failed' = failed
  <1>0. TypeOK /\ PlacesInv /\ Visible \in Int /\ khead \in Nat
    BY Bounds DEF ThreadInv
  <1>1. taken' = taken /\ failed' = failed /\ khead' = khead
    BY DEF Begin, Enter, ReadTail, Claim, SetData, Prepare
  <1>2. Visible' = Visible
    <2>1. CASE Claim(t)
      <3>1. /\ pc[t] = "CLAIM" /\ pc[t] \in Inside /\ pc[t] \notin Writing
            /\ pc'[t] = "DATA" /\ sqe_tail' = local[t].tail + 1
        BY <1>0, <2>1 DEF Claim, Goto, TypeOK, Inside, Writing
      <3>2. Visible = sqe_tail /\ local[t].tail = sqe_tail /\ sqe_tail \in Nat
        BY <1>0, <3>1, VisibleIs, Bounds DEF PlacesInv
      <3>3. Unwritten'
        BY <3>1 DEF Unwritten
      <3>4. QED
        BY <3>1, <3>2, <3>3 DEF Visible
    <2>2. CASE ~Claim(t)
      <3>1. sqe_tail' = sqe_tail
        BY <2>2 DEF Begin, Enter, ReadTail, SetData, Prepare
      <3>2. \A u \in Threads : pc'[u] \in Writing <=> pc[u] \in Writing
        BY <1>0, <2>2 DEF Begin, Enter, ReadTail, SetData, Prepare, Goto, TypeOK, Writing
      <3>3. QED
        BY <3>1, <3>2 DEF Visible, Unwritten, Writing
    <2>3. QED
      BY <2>1, <2>2
  <1>3. \A n \in khead .. Visible - 1 : sqes'[SlotOf(n)] = sqes[SlotOf(n)]
    <2>1. CASE sqes' = sqes
      BY <2>1
    <2>2. CASE SetData(t) \/ Prepare(t)
      <3>1. pc[t] \in Writing
        BY <2>2 DEF SetData, Prepare, Goto, Writing
      <3>2. \A n \in khead .. Visible - 1 : SlotOf(n) \in Slots /\ SlotOf(n) # MySlot(t)
        <4>1. \A n \in khead .. Visible - 1 : n \in Nat
          BY <1>0
        <4>2. QED
          BY <3>1, <4>1, OwnSlot, SlotTyped
      <3>3. QED
        BY <1>0, <2>2, <3>2 DEF SetData, Prepare, TypeOK
    <2>3. QED
      BY <2>1, <2>2 DEF Begin, Enter, ReadTail, Claim
  <1>4. \A i \in 1 .. Visible - khead : khead + i - 1 \in khead .. Visible - 1
    BY <1>0
  <1>5. QED
    BY <1>1, <1>2, <1>3, <1>4 DEF Pend, Ops

(* A full queue that stays full ends the process.                          *)
LEMMA AbortRefines ==
  ASSUME ThreadInv, NEW t \in Threads, Abort(t)
  PROVE  Atomic!End
  <1>0. TypeOK /\ PlacesInv
    BY DEF ThreadInv
  <1>1. /\ pc[t] \in Inside /\ pc[t] \notin Writing /\ pc' = pc
        /\ ~(sqe_tail - khead < QueueSize) /\ failed' = TRUE
        /\ UNCHANGED <<sqes, sqe_tail, khead, taken>>
    BY <1>0 DEF Abort, Goto, TypeOK, HasRoom, Inside, Writing
  <1>2. Visible = sqe_tail /\ Visible' = Visible
    BY <1>0, <1>1, VisibleIs DEF Visible, Unwritten
  <1>3. Len(Pend) = QueueSize
    BY <1>0, <1>1, <1>2, ViewTyped, Bounds DEF ViewIsTyped
  <1>4. Pend' = Pend /\ Ops' = Ops
    BY <1>1, <1>2 DEF Pend, Ops
  <1>5. QED
    BY <1>1, <1>3, <1>4 DEF Atomic!End, Pend, Ops

(* Each submission is one step of the module AtomicSubmission, whole and   *)
(* taken at most once, in two cases.  All submissions are made under the   *)
(* mutex: that is so of alloc_*_work_item (WorkPool.cpp:89), but not of    *)
(* re-arms (IOUring.cpp:706, 722) nor of sends (WorkItem.cpp:42, 49).  Or  *)
(* one thread makes them all, some with the mutex and some without it,     *)
(* which is what module IOUring assumes.  The run UnlockedResubmit shows   *)
(* that a second thread breaks it.                                         *)
THEOREM SubmissionsAreAtomic ==
  ASSUME NoRivals
  PROVE  Spec => ImplementsAtomicSubmission
  <1>1. Init => Atomic!Init
    <2> SUFFICES ASSUME Init PROVE Atomic!Init
      OBVIOUS
    <2>1. ThreadInv /\ Visible = 0 /\ khead = 0 /\ taken = <<>> /\ failed = FALSE
      BY InitThreadInv DEF Init, Visible, Unwritten
    <2>2. Len(Pend) = 0 /\ Len(Ops) = 0 /\ Pend \in Seq(Requests) /\ Ops \in Seq(Requests)
      BY <2>1, ViewTyped, EmptySeq DEF ViewIsTyped
    <2>3. Pend = <<>> /\ Ops = <<>>
      BY <2>2, EmptySeq
    <2>4. QED
      BY <2>1, <2>3 DEF Atomic!Init, Pend, Ops
  <1>2. ThreadInv /\ [Next]_vars => [Atomic!Next]_(Atomic!submission_vars)
    <2> SUFFICES ASSUME ThreadInv, [Next]_vars
                 PROVE  [Atomic!Next]_(Atomic!submission_vars)
      OBVIOUS
    <2>1. CASE UNCHANGED vars
      <3>1. Visible' = Visible
        BY <2>1 DEF vars, Visible, Unwritten
      <3>2. QED
        BY <2>1, <3>1 DEF vars, Atomic!submission_vars
    <2>2. ASSUME NEW t \in Threads, Begin(t) \/ Step(t)
          PROVE  [Atomic!Next]_(Atomic!submission_vars)
      <3>1. CASE FlushFull(t)
        BY <3>1, FlushFullRefines DEF Atomic!Next
      <3>2. CASE Submit(t)
        BY <3>2, SubmitRefines DEF Atomic!Next
      <3>3. CASE Abort(t)
        BY <3>3, AbortRefines DEF Atomic!Next
      <3>4. CASE \/ Begin(t) \/ Enter(t) \/ ReadTail(t, "GET") \/ ReadTail(t, "RETRY")
                 \/ Claim(t) \/ SetData(t) \/ Prepare(t)
        <4>1. Pend' = Pend /\ Ops' = Ops /\ failed' = failed
          BY <3>4, OthersRefine
        <4>2. QED
          BY <4>1 DEF Atomic!submission_vars, Pend, Ops
      <3>5. QED
        BY <2>2, <3>1, <3>2, <3>3, <3>4 DEF Step
    <2>3. QED
      BY <2>1, <2>2 DEF Next
  <1>3. QED
    BY <1>1, <1>2, InitThreadInv, ThreadStepInv, PTL
       DEF Spec, ImplementsAtomicSubmission, Atomic!Spec

=============================================================================
