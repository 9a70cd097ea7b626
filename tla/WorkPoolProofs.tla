--------------------------- MODULE WorkPoolProofs ---------------------------
(***************************************************************************)
(* Proofs about WorkPool, for every number of items and set of sockets.    *)
(*                                                                         *)
(* The inductive invariant is PoolIInv: the type invariant together with   *)
(* the two parts of PoolInv.  Neither part is inductive alone: that a      *)
(* reused id names no live item needs the stack to hold empty slots only,  *)
(* and that the released id is not on the stack already needs its slot to  *)
(* be taken.                                                               *)
(***************************************************************************)
EXTENDS WorkPool, SequenceTheorems, TLAPS

PoolIInv == PoolTypeOK /\ PoolInv

(* The pool is consistent when it is created (WorkPool's constructor).     *)
LEMMA PoolInitInv == PoolInit => PoolIInv
  BY DEF PoolInit, PoolIInv, PoolTypeOK, PoolInv, FreeIdsAreTheEmptySlots,
         InUseItemsOwnTheirSlot, Objects, Ids

(* What is left of the stack of free ids once its top is taken.            *)
LEMMA PoppedProperties ==
  ASSUME NEW S, m_free_ids \in Seq(S), HasFreeId
  PROVE  /\ Len(m_free_ids) \in Nat \ {0}
         /\ Top \in S
         /\ Popped \in Seq(S)
         /\ Len(Popped) = Len(m_free_ids) - 1
         /\ \A i \in 1 .. Len(m_free_ids) - 1 : Popped[i] = m_free_ids[i]
  <1>1. Len(m_free_ids) \in Nat \ {0}
    BY EmptySeq DEF HasFreeId
  <1>2. Top \in S
    BY <1>1, ElementOfSeq DEF Top
  <1>3. \A i \in 1 .. Len(m_free_ids) - 1 : m_free_ids[i] \in S
    BY <1>1, ElementOfSeq
  <1>4. /\ Popped \in Seq(S)
        /\ Len(Popped) = Len(m_free_ids) - 1
        /\ \A i \in 1 .. Len(m_free_ids) - 1 : Popped[i] = m_free_ids[1 + i - 1]
    <2> DEFINE n == Len(m_free_ids) - 1
    <2>1. n \in Int /\ n - 1 + 1 = n /\ (1 <= n \/ n = 0)
      <3>1. \A k \in Nat \ {0} : k - 1 \in Int /\ k - 1 - 1 + 1 = k - 1 /\ (1 <= k - 1 \/ k - 1 = 0)
        OBVIOUS
      <3>2. QED
        BY <1>1, <3>1
    <2>2. /\ SubSeq(m_free_ids, 1, n) \in Seq(S)
          /\ Len(SubSeq(m_free_ids, 1, n)) = IF 1 <= n THEN n - 1 + 1 ELSE 0
          /\ \A i \in 1 .. n - 1 + 1 : SubSeq(m_free_ids, 1, n)[i] = m_free_ids[1 + i - 1]
      <3> HIDE DEF n
      <3>1. \A i \in 1 .. n : m_free_ids[i] \in S
        BY <1>3 DEF n
      <3>2. QED
        BY <2>1, <3>1, SubSeqProperties
    <2>3. QED
      BY <2>1, <2>2 DEF Popped
  <1>5. QED
    BY <1>1, <1>2, <1>4

(* Allocation keeps the pool consistent: the id it hands out, from the     *)
(* stack or new, named no live item (internal_alloc_work_item).            *)
LEMMA AllocPreservesPool ==
  ASSUME NEW s \in Sockets, NEW t \in Types, PoolIInv, internal_alloc_work_item(s, t)
  PROVE  PoolIInv'
  <1> DEFINE new == NewWorkItem(TakenId, s, t)
  <1>0. /\ Len(heap) \in Nat /\ Len(m_work_items) \in Nat /\ Len(m_free_ids) \in Nat
        /\ heap \in Seq(WorkItem)
        /\ m_work_items \in Seq(Objects \cup {NULL})
        /\ m_free_ids \in Seq(Ids)
    BY LenProperties DEF PoolIInv, PoolTypeOK
  <1>1. TakenId \in Nat /\ new \in WorkItem
    <2>1. CASE HasFreeId
      BY <1>0, <2>1, PoppedProperties DEF TakenId, Ids, NewWorkItem, WorkItem
    <2>2. CASE ~HasFreeId
      BY <1>0, <2>2 DEF TakenId, NewWorkItem, WorkItem
    <2>3. QED
      BY <2>1, <2>2
  <1>2. /\ heap' = Append(heap, new)
        /\ heap' \in Seq(WorkItem)
        /\ Len(heap') = Len(heap) + 1
        /\ \A o \in Objects : heap'[o] = heap[o]
        /\ heap'[NewObject].m_id = TakenId
        /\ heap'[NewObject].m_state = "IN_USE"
    <2>1. new.m_id = TakenId /\ new.m_state = "IN_USE"
      BY DEF NewWorkItem
    <2> HIDE DEF new
    <2>2. heap' = Append(heap, new)
      BY DEF internal_alloc_work_item, new
    <2>3. QED
      BY <2>1, <2>2, <1>0, <1>1, AppendProperties DEF Objects, NewObject
  <1>3. /\ Objects' = Objects \cup {NewObject}
        /\ NewObject \notin Objects
        /\ NewObject # NULL
        /\ NULL \notin Objects
    BY <1>0, <1>2, PoolAssumption DEF Objects, NewObject
  <1>4. CASE HasFreeId
    <2>1. /\ TakenId = Top /\ TakenId \in Ids
          /\ m_work_items' = [m_work_items EXCEPT ![TakenId + 1] = NewObject]
          /\ m_free_ids' = Popped
      BY <1>0, <1>4, PoppedProperties DEF internal_alloc_work_item, TakenId
    <2>2. /\ m_work_items' \in Seq(Objects' \cup {NULL})
          /\ Len(m_work_items') = Len(m_work_items)
          /\ \A id \in Ids : m_work_items'[id + 1] = IF id = TakenId THEN NewObject ELSE Slot(id)
      <3>1. m_work_items \in Seq(Objects' \cup {NULL})
        BY <1>0, <1>3, SeqMonotonic
      <3>2. NewObject \in Objects' \cup {NULL}
        BY <1>3
      <3>3. TakenId + 1 \in 1 .. Len(m_work_items)
        BY <1>0, <2>1 DEF Ids
      <3>4. QED
        BY <1>0, <2>1, <3>1, <3>2, <3>3, ExceptSeq DEF Ids, Slot
    <2>3. Ids' = Ids
      BY <2>2 DEF Ids
    <2>4. /\ m_free_ids' \in Seq(Ids')
          /\ Len(m_free_ids) \in Nat \ {0}
          /\ Len(m_free_ids') = Len(m_free_ids) - 1
          /\ \A i \in 1 .. Len(m_free_ids) - 1 : m_free_ids'[i] = m_free_ids[i]
          /\ m_free_ids[Len(m_free_ids)] = TakenId
          /\ DOMAIN m_free_ids = 1 .. Len(m_free_ids)
          /\ DOMAIN m_free_ids' = 1 .. Len(m_free_ids) - 1
      BY <1>0, <1>4, <2>1, <2>3, PoppedProperties, LenProperties DEF Top
    <2>5. PoolTypeOK'
      <3>1. \A o \in Objects' : heap'[o].m_id \in Ids'
        BY <1>2, <1>3, <2>1, <2>3 DEF PoolIInv, PoolTypeOK, NewWorkItem
      <3>2. QED
        BY <1>2, <2>2, <2>4, <3>1 DEF PoolTypeOK
    <2>6. FreeIdsAreTheEmptySlots'
      <3>1. /\ \A id \in Ids : Slot(id) = NULL <=> \E i \in DOMAIN m_free_ids : m_free_ids[i] = id
            /\ \A i, j \in DOMAIN m_free_ids : m_free_ids[i] = m_free_ids[j] => i = j
        BY DEF PoolIInv, PoolInv, FreeIdsAreTheEmptySlots
      <3>2. \A i, j \in DOMAIN m_free_ids' : m_free_ids'[i] = m_free_ids'[j] => i = j
        BY <2>4, <3>1
      <3>3. ASSUME NEW id \in Ids
            PROVE  m_work_items'[id + 1] = NULL <=> \E i \in DOMAIN m_free_ids' : m_free_ids'[i] = id
        <4>1. CASE id = TakenId
          <5>1. m_work_items'[id + 1] # NULL
            BY <1>3, <2>2, <4>1
          <5>2. \A i \in DOMAIN m_free_ids' : m_free_ids'[i] # id
            BY <2>4, <3>1, <4>1
          <5>3. QED
            BY <5>1, <5>2
        <4>2. CASE id # TakenId
          <5>1. m_work_items'[id + 1] = Slot(id)
            BY <2>2, <4>2
          <5>2. ASSUME NEW i \in DOMAIN m_free_ids, m_free_ids[i] = id
                PROVE  i \in DOMAIN m_free_ids' /\ m_free_ids'[i] = id
            BY <2>4, <4>2, <5>2
          <5>3. ASSUME NEW i \in DOMAIN m_free_ids', m_free_ids'[i] = id
                PROVE  i \in DOMAIN m_free_ids /\ m_free_ids[i] = id
            BY <2>4, <5>3
          <5>4. QED
            BY <3>1, <5>1, <5>2, <5>3
        <4>3. QED
          BY <4>1, <4>2
      <3>4. QED
        BY <2>3, <3>2, <3>3 DEF FreeIdsAreTheEmptySlots, Slot
    <2>7. Slot(TakenId) = NULL
      BY <1>0, <2>1, <2>4 DEF PoolIInv, PoolInv, FreeIdsAreTheEmptySlots
    <2>8. \A id \in Ids : Slot(id) \in Objects \cup {NULL}
      BY <1>0, ElementOfSeq DEF Ids, Slot
    <2>9. InUseItemsOwnTheirSlot'
      <3>1. ASSUME NEW id \in Ids', m_work_items'[id + 1] # NULL
            PROVE  heap'[m_work_items'[id + 1]].m_id = id /\ heap'[m_work_items'[id + 1]].m_state = "IN_USE"
        <4>1. CASE id = TakenId
          BY <1>2, <2>1, <2>2, <4>1
        <4>2. CASE id # TakenId
          <5>1. id \in Ids /\ m_work_items'[id + 1] = Slot(id)
            BY <2>2, <2>3, <4>2
          <5>2. Slot(id) # NULL /\ Slot(id) \in Objects
            BY <3>1, <5>1, <2>8
          <5>3. heap[Slot(id)].m_id = id /\ heap[Slot(id)].m_state = "IN_USE"
            BY <5>1, <5>2 DEF PoolIInv, PoolInv, InUseItemsOwnTheirSlot
          <5>4. QED
            BY <1>2, <5>1, <5>2, <5>3
        <4>3. QED
          BY <4>1, <4>2
      <3>2. ASSUME NEW o \in Objects', heap'[o].m_state = "IN_USE"
            PROVE  m_work_items'[heap'[o].m_id + 1] = o
        <4>1. CASE o = NewObject
          BY <4>1, <1>2, <2>1, <2>2 DEF NewWorkItem
        <4>2. CASE o \in Objects
          <5>1. heap[o].m_state = "IN_USE" /\ heap'[o].m_id = heap[o].m_id
            BY <1>2, <3>2, <4>2
          <5>2. heap[o].m_id \in Ids /\ Slot(heap[o].m_id) = o
            BY <4>2, <5>1 DEF PoolIInv, PoolTypeOK, PoolInv, InUseItemsOwnTheirSlot
          <5>3. heap[o].m_id # TakenId
            BY <1>3, <2>7, <4>2, <5>2
          <5>4. QED
            BY <2>2, <5>1, <5>2, <5>3
        <4>3. QED
          BY <1>3, <4>1, <4>2
      <3>3. QED
        BY <3>1, <3>2 DEF InUseItemsOwnTheirSlot, Slot
    <2>10. QED
      BY <2>5, <2>6, <2>9 DEF PoolIInv, PoolInv
  <1>5. CASE ~HasFreeId
    <2>1. /\ TakenId = Len(m_work_items)
          /\ m_work_items' = Append(m_work_items, NewObject)
          /\ m_free_ids' = m_free_ids
          /\ m_free_ids = <<>>
      BY <1>5 DEF internal_alloc_work_item, TakenId, HasFreeId
    <2>2. /\ m_work_items' \in Seq(Objects' \cup {NULL})
          /\ Len(m_work_items') = Len(m_work_items) + 1
          /\ \A id \in Ids : m_work_items'[id + 1] = Slot(id)
          /\ m_work_items'[TakenId + 1] = NewObject
      <3>1. m_work_items \in Seq(Objects' \cup {NULL})
        BY <1>0, <1>3, SeqMonotonic
      <3>2. NewObject \in Objects' \cup {NULL}
        BY <1>3
      <3>3. QED
        BY <1>0, <2>1, <3>1, <3>2, AppendProperties DEF Ids, Slot
    <2>3. Ids' = Ids \cup {TakenId} /\ TakenId \notin Ids
      BY <1>0, <2>1, <2>2 DEF Ids
    <2>4. m_free_ids' \in Seq(Ids') /\ DOMAIN m_free_ids = {}
      BY <2>1, EmptySeq
    <2>5. PoolTypeOK'
      <3>1. \A o \in Objects' : heap'[o].m_id \in Ids'
        BY <1>2, <1>3, <2>3 DEF PoolIInv, PoolTypeOK, NewWorkItem
      <3>2. QED
        BY <1>2, <2>2, <2>4, <3>1 DEF PoolTypeOK
    <2>6. FreeIdsAreTheEmptySlots'
      <3>1. \A id \in Ids' : m_work_items'[id + 1] # NULL
        BY <1>3, <2>2, <2>3, <2>4 DEF PoolIInv, PoolInv, FreeIdsAreTheEmptySlots
      <3>2. QED
        BY <2>1, <2>4, <3>1 DEF FreeIdsAreTheEmptySlots, Slot
    <2>7. \A id \in Ids : Slot(id) \in Objects \cup {NULL}
      BY <1>0, ElementOfSeq DEF Ids, Slot
    <2>8. InUseItemsOwnTheirSlot'
      <3>1. ASSUME NEW id \in Ids', m_work_items'[id + 1] # NULL
            PROVE  heap'[m_work_items'[id + 1]].m_id = id /\ heap'[m_work_items'[id + 1]].m_state = "IN_USE"
        <4>1. CASE id = TakenId
          BY <1>2, <2>2, <4>1
        <4>2. CASE id # TakenId
          <5>1. id \in Ids /\ m_work_items'[id + 1] = Slot(id)
            BY <2>2, <2>3, <4>2
          <5>2. Slot(id) # NULL /\ Slot(id) \in Objects
            BY <3>1, <5>1, <2>7
          <5>3. heap[Slot(id)].m_id = id /\ heap[Slot(id)].m_state = "IN_USE"
            BY <5>1, <5>2 DEF PoolIInv, PoolInv, InUseItemsOwnTheirSlot
          <5>4. QED
            BY <1>2, <5>1, <5>2, <5>3
        <4>3. QED
          BY <4>1, <4>2
      <3>2. ASSUME NEW o \in Objects', heap'[o].m_state = "IN_USE"
            PROVE  m_work_items'[heap'[o].m_id + 1] = o
        <4>1. CASE o = NewObject
          BY <4>1, <1>2, <2>2 DEF NewWorkItem
        <4>2. CASE o \in Objects
          <5>1. heap[o].m_state = "IN_USE" /\ heap'[o].m_id = heap[o].m_id
            BY <1>2, <3>2, <4>2
          <5>2. heap[o].m_id \in Ids /\ Slot(heap[o].m_id) = o
            BY <4>2, <5>1 DEF PoolIInv, PoolTypeOK, PoolInv, InUseItemsOwnTheirSlot
          <5>3. QED
            BY <2>2, <5>1, <5>2
        <4>3. QED
          BY <1>3, <4>1, <4>2
      <3>3. QED
        BY <3>1, <3>2 DEF InUseItemsOwnTheirSlot, Slot
    <2>9. QED
      BY <2>5, <2>6, <2>8 DEF PoolIInv, PoolInv
  <1>6. QED
    BY <1>4, <1>5

(* Releasing an item keeps the pool consistent: its id was not on the      *)
(* stack yet, and no other live item has it (free_work_item).              *)
LEMMA FreePreservesPool ==
  ASSUME NEW id \in Ids, PoolIInv, free_work_item(id)
  PROVE  PoolIInv'
  <1> DEFINE o == Slot(id)
  <1>0. /\ Len(heap) \in Nat /\ Len(m_work_items) \in Nat /\ Len(m_free_ids) \in Nat
        /\ heap \in Seq(WorkItem)
        /\ m_work_items \in Seq(Objects \cup {NULL})
        /\ m_free_ids \in Seq(Ids)
        /\ DOMAIN m_free_ids = 1 .. Len(m_free_ids)
    BY LenProperties DEF PoolIInv, PoolTypeOK
  <1>1. /\ id + 1 \in 1 .. Len(m_work_items)
        /\ o # NULL /\ o \in Objects /\ o \in 1 .. Len(heap)
        /\ heap[o].m_id = id
    <2>1. o # NULL
      BY DEF free_work_item, CanFree
    <2>2. id + 1 \in 1 .. Len(m_work_items)
      BY <1>0 DEF Ids
    <2>3. o \in Objects
      BY <1>0, <2>1, <2>2, ElementOfSeq DEF Slot
    <2>4. QED
      BY <2>1, <2>2, <2>3 DEF PoolIInv, PoolInv, InUseItemsOwnTheirSlot, Objects
  <1>2. /\ heap' \in Seq(WorkItem)
        /\ Len(heap') = Len(heap)
        /\ \A x \in Objects : heap'[x].m_id = heap[x].m_id
        /\ \A x \in Objects : heap'[x].m_state = IF x = o THEN "FREE" ELSE heap[x].m_state
    <2> DEFINE freed == [heap[o] EXCEPT !.m_state = "FREE"]
    <2>1. heap[o] \in WorkItem
      BY <1>0, <1>1, ElementOfSeq
    <2>2. freed \in WorkItem /\ freed.m_state = "FREE" /\ freed.m_id = heap[o].m_id
      BY <2>1 DEF WorkItem
    <2>3. heap' = [heap EXCEPT ![o] = freed]
      BY DEF free_work_item
    <2> HIDE DEF freed, o
    <2>4. QED
      BY <1>0, <1>1, <2>2, <2>3, ExceptSeq DEF Objects
  <1>3. Objects' = Objects
    BY <1>2 DEF Objects
  <1>4. /\ m_work_items' \in Seq(Objects' \cup {NULL})
        /\ Len(m_work_items') = Len(m_work_items)
        /\ \A i \in Ids : m_work_items'[i + 1] = IF i = id THEN NULL ELSE Slot(i)
    <2>1. m_work_items' = [m_work_items EXCEPT ![id + 1] = NULL]
      BY DEF free_work_item, Cleared
    <2>2. /\ m_work_items' \in Seq(Objects \cup {NULL})
          /\ Len(m_work_items') = Len(m_work_items)
          /\ \A j \in 1 .. Len(m_work_items) :
               m_work_items'[j] = IF j = id + 1 THEN NULL ELSE m_work_items[j]
      BY <1>0, <1>1, <2>1, ExceptSeq
    <2>3. QED
      BY <1>0, <1>3, <2>2 DEF Ids, Slot
  <1>5. Ids' = Ids
    BY <1>4 DEF Ids
  <1>6. /\ m_free_ids' \in Seq(Ids')
        /\ DOMAIN m_free_ids' = 1 .. Len(m_free_ids) + 1
        /\ \A i \in 1 .. Len(m_free_ids) : m_free_ids'[i] = m_free_ids[i]
        /\ m_free_ids'[Len(m_free_ids) + 1] = id
    <2>1. m_free_ids' = Append(m_free_ids, id)
      BY DEF free_work_item
    <2>2. /\ m_free_ids' \in Seq(Ids)
          /\ Len(m_free_ids') = Len(m_free_ids) + 1
      BY <1>0, <2>1, AppendProperties
    <2>3. QED
      BY <1>0, <1>5, <2>1, <2>2, AppendProperties, LenProperties
  <1>7. PoolTypeOK'
    BY <1>2, <1>3, <1>4, <1>5, <1>6 DEF PoolIInv, PoolTypeOK
  <1>8. FreeIdsAreTheEmptySlots'
    <2>1. /\ \A x \in Ids : Slot(x) = NULL <=> \E i \in DOMAIN m_free_ids : m_free_ids[i] = x
          /\ \A i, j \in DOMAIN m_free_ids : m_free_ids[i] = m_free_ids[j] => i = j
      BY DEF PoolIInv, PoolInv, FreeIdsAreTheEmptySlots
    <2>2. \A i \in 1 .. Len(m_free_ids) : m_free_ids[i] # id
      BY <1>0, <1>1, <2>1
    <2>3. \A i, j \in DOMAIN m_free_ids' : m_free_ids'[i] = m_free_ids'[j] => i = j
      BY <1>0, <1>6, <2>1, <2>2
    <2>4. ASSUME NEW x \in Ids
          PROVE  m_work_items'[x + 1] = NULL <=> \E i \in DOMAIN m_free_ids' : m_free_ids'[i] = x
      <3>1. CASE x = id
        BY <1>0, <1>4, <1>6, <3>1
      <3>2. CASE x # id
        <4>1. m_work_items'[x + 1] = Slot(x)
          BY <1>4, <3>2
        <4>2. ASSUME NEW i \in DOMAIN m_free_ids, m_free_ids[i] = x
              PROVE  i \in DOMAIN m_free_ids' /\ m_free_ids'[i] = x
          BY <1>0, <1>6, <4>2
        <4>3. ASSUME NEW i \in DOMAIN m_free_ids', m_free_ids'[i] = x
              PROVE  i \in DOMAIN m_free_ids /\ m_free_ids[i] = x
          BY <1>0, <1>6, <3>2, <4>3
        <4>4. QED
          BY <2>1, <4>1, <4>2, <4>3
      <3>3. QED
        BY <3>1, <3>2
    <2>5. QED
      BY <1>5, <2>3, <2>4 DEF FreeIdsAreTheEmptySlots, Slot
  <1>9. InUseItemsOwnTheirSlot'
    <2>1. ASSUME NEW x \in Ids', m_work_items'[x + 1] # NULL
          PROVE  /\ heap'[m_work_items'[x + 1]].m_id = x
                 /\ heap'[m_work_items'[x + 1]].m_state = "IN_USE"
      <3>1. x \in Ids /\ x # id /\ m_work_items'[x + 1] = Slot(x)
        BY <1>4, <1>5, <2>1
      <3>2. Slot(x) \in Objects
        BY <1>0, <2>1, <3>1, ElementOfSeq DEF Ids, Slot
      <3>3. heap[Slot(x)].m_id = x /\ heap[Slot(x)].m_state = "IN_USE"
        BY <2>1, <3>1 DEF PoolIInv, PoolInv, InUseItemsOwnTheirSlot
      <3>4. Slot(x) # o
        BY <1>1, <3>1, <3>3
      <3> HIDE DEF o
      <3>5. QED
        BY <1>2, <3>1, <3>2, <3>3, <3>4
    <2>2. ASSUME NEW x \in Objects', heap'[x].m_state = "IN_USE"
          PROVE  m_work_items'[heap'[x].m_id + 1] = x
      <3>1. x \in Objects /\ x # o /\ heap[x].m_state = "IN_USE" /\ heap'[x].m_id = heap[x].m_id
        BY <1>2, <1>3, <2>2
      <3>2. heap[x].m_id \in Ids /\ Slot(heap[x].m_id) = x
        BY <3>1 DEF PoolIInv, PoolTypeOK, PoolInv, InUseItemsOwnTheirSlot
      <3>3. heap[x].m_id # id
        BY <3>1, <3>2
      <3>4. QED
        BY <1>4, <3>1, <3>2, <3>3
    <2>3. QED
      BY <2>1, <2>2 DEF InUseItemsOwnTheirSlot, Slot
  <1>10. QED
    BY <1>7, <1>8, <1>9 DEF PoolIInv, PoolInv

(* What an allocation does to the objects: one more, in use, of the type   *)
(* asked for.                                                              *)
LEMMA AllocEffect ==
  ASSUME NEW s \in Sockets, NEW t \in Types, PoolIInv, internal_alloc_work_item(s, t)
  PROVE  /\ Len(heap') = Len(heap) + 1
         /\ Len(heap') <= MaxItems
         /\ Objects' = Objects \cup {NewObject}
         /\ NewObject \notin Objects
         /\ \A o \in Objects : heap'[o] = heap[o]
         /\ heap'[NewObject].m_work_type = t
         /\ heap'[NewObject].m_state = "IN_USE"
         /\ heap'[NewObject].m_accept_sock_len = 0
  <1> DEFINE new == NewWorkItem(TakenId, s, t)
  <1>1. /\ Len(heap) \in Nat
        /\ heap \in Seq(WorkItem)
        /\ Len(m_work_items) \in Nat
        /\ m_free_ids \in Seq(Ids)
    BY LenProperties DEF PoolIInv, PoolTypeOK
  <1>2. TakenId \in Nat
    <2>1. CASE HasFreeId
      BY <1>1, <2>1, PoppedProperties DEF TakenId, Ids
    <2>2. CASE ~HasFreeId
      BY <1>1, <2>2 DEF TakenId
    <2>3. QED
      BY <2>1, <2>2
  <1>3. /\ new \in WorkItem
        /\ new.m_work_type = t /\ new.m_state = "IN_USE" /\ new.m_accept_sock_len = 0
    BY <1>2 DEF NewWorkItem, WorkItem
  <1>4. heap' = Append(heap, new) /\ Len(heap) < MaxItems
    BY DEF internal_alloc_work_item
  <1> HIDE DEF new
  <1>5. /\ Len(heap') = Len(heap) + 1
        /\ \A o \in 1 .. Len(heap) : heap'[o] = heap[o]
        /\ heap'[Len(heap) + 1] = new
    BY <1>1, <1>3, <1>4, AppendProperties
  <1>6. QED
    BY <1>1, <1>3, <1>4, <1>5, PoolAssumption DEF Objects, NewObject

(* What a release does to the objects: the one in the slot becomes free.   *)
LEMMA FreeEffect ==
  ASSUME NEW id \in Ids, PoolIInv, free_work_item(id)
  PROVE  /\ Len(heap') = Len(heap)
         /\ Objects' = Objects
         /\ \A o \in Objects : /\ heap'[o].m_work_type = heap[o].m_work_type
                               /\ heap'[o].m_socket = heap[o].m_socket
         /\ \A o \in Objects \ {Slot(id)} : heap'[o] = heap[o]
         /\ heap'[Slot(id)].m_state = "FREE"
  <1>1. /\ Len(heap) \in Nat
        /\ heap \in Seq(WorkItem)
        /\ m_work_items \in Seq(Objects \cup {NULL})
        /\ Len(m_work_items) \in Nat
    BY LenProperties DEF PoolIInv, PoolTypeOK
  <1>2. Slot(id) \in Objects
    BY <1>1, ElementOfSeq DEF free_work_item, CanFree, Slot, Ids
  <1> DEFINE freed == [heap[Slot(id)] EXCEPT !.m_state = "FREE"]
  <1>3. heap[Slot(id)] \in WorkItem
    BY <1>1, <1>2, ElementOfSeq DEF Objects
  <1>4. /\ freed \in WorkItem
        /\ freed.m_work_type = heap[Slot(id)].m_work_type /\ freed.m_state = "FREE"
        /\ freed.m_socket = heap[Slot(id)].m_socket
    BY <1>3 DEF WorkItem
  <1>5. heap' = [heap EXCEPT ![Slot(id)] = freed]
    BY DEF free_work_item
  <1> HIDE DEF freed
  <1>6. /\ Len(heap') = Len(heap)
        /\ \A o \in 1 .. Len(heap) : heap'[o] = IF o = Slot(id) THEN freed ELSE heap[o]
    BY <1>1, <1>2, <1>4, <1>5, ExceptSeq DEF Objects
  <1>7. QED
    BY <1>2, <1>4, <1>6 DEF Objects

(* A step that changes no item's id and state, and nothing else of the     *)
(* pool, keeps it consistent.                                              *)
LEMMA RelabelPreservesPool ==
  ASSUME PoolIInv,
         heap' \in Seq(WorkItem), Len(heap') = Len(heap),
         \A o \in Objects : /\ heap'[o].m_id = heap[o].m_id
                            /\ heap'[o].m_state = heap[o].m_state,
         UNCHANGED <<m_work_items, m_free_ids>>
  PROVE  PoolIInv' /\ Objects' = Objects
  <1>1. Objects' = Objects /\ Ids' = Ids
    BY DEF Objects, Ids
  <1>2. PoolTypeOK'
    BY <1>1 DEF PoolIInv, PoolTypeOK
  <1>3. FreeIdsAreTheEmptySlots'
    BY <1>1 DEF PoolIInv, PoolInv, FreeIdsAreTheEmptySlots, Slot
  <1>4. InUseItemsOwnTheirSlot'
    <2>1. m_work_items \in Seq(Objects \cup {NULL}) /\ Len(m_work_items) \in Nat
      BY LenProperties DEF PoolIInv, PoolTypeOK
    <2>2. \A id \in Ids : m_work_items[id + 1] \in Objects \cup {NULL}
      BY <2>1, ElementOfSeq DEF Ids
    <2>3. /\ \A id \in Ids : m_work_items[id + 1] # NULL =>
               /\ heap[m_work_items[id + 1]].m_id = id
               /\ heap[m_work_items[id + 1]].m_state = "IN_USE"
          /\ \A o \in Objects : heap[o].m_state = "IN_USE" => m_work_items[heap[o].m_id + 1] = o
      BY DEF PoolIInv, PoolInv, InUseItemsOwnTheirSlot, Slot
    <2>4. QED
      BY <1>1, <2>2, <2>3 DEF InUseItemsOwnTheirSlot, Slot
  <1>5. QED
    BY <1>1, <1>2, <1>3, <1>4 DEF PoolIInv, PoolInv

(* Every step of the pool's clients keeps it consistent.                   *)
LEMMA PoolStep == PoolIInv /\ [PoolNext]_pool_vars => PoolIInv'
  <1> SUFFICES ASSUME PoolIInv, [PoolNext]_pool_vars
               PROVE  PoolIInv'
    OBVIOUS
  <1>1. CASE \E s \in Sockets, t \in {"UNKNOWN", "RECV"} : internal_alloc_work_item(s, t)
    BY <1>1, AllocPreservesPool DEF Types
  <1>2. CASE \E id \in Ids : free_work_item(id)
    BY <1>2, FreePreservesPool
  <1>3. CASE UNCHANGED pool_vars
    BY <1>3 DEF pool_vars, PoolIInv, PoolTypeOK, PoolInv, FreeIdsAreTheEmptySlots,
               InUseItemsOwnTheirSlot, Objects, Ids, Slot
  <1>4. QED
    BY <1>1, <1>2, <1>3 DEF PoolNext

(* What a reader of the pool may rely on: the ids are indices of           *)
(* m_work_items, the free stack holds each empty slot once, and a live     *)
(* object is the one its own slot points to (WorkPool.cpp).                *)
THEOREM PoolConsistent ==
  PoolSpec => [](PoolTypeOK /\ FreeIdsAreTheEmptySlots /\ InUseItemsOwnTheirSlot)
  <1>1. PoolIInv => PoolTypeOK /\ FreeIdsAreTheEmptySlots /\ InUseItemsOwnTheirSlot
    BY DEF PoolIInv, PoolInv
  <1>2. QED
    BY <1>1, PoolInitInv, PoolStep, PTL DEF PoolSpec

(* An allocation makes m_work_items longer only if no slot in it is empty: *)
(* with nothing on the stack, every slot is taken.                         *)
LEMMA AllocGrowth ==
  ASSUME NEW s \in Sockets, NEW t \in Types, PoolIInv, internal_alloc_work_item(s, t)
  PROVE  \/ /\ HasFreeId
            /\ TakenId \in Ids /\ Slot(TakenId) = NULL
            /\ Len(m_work_items') = Len(m_work_items)
            /\ UsedIds' = UsedIds \cup {TakenId}
         \/ /\ \A id \in Ids : Slot(id) # NULL
            /\ TakenId = Len(m_work_items)
            /\ Len(m_work_items') = Len(m_work_items) + 1
            /\ UsedIds' = UsedIds \cup {TakenId}
  <1>0. /\ Len(m_work_items) \in Nat /\ Len(m_free_ids) \in Nat /\ Len(heap) \in Nat
        /\ m_work_items \in Seq(Objects \cup {NULL})
        /\ m_free_ids \in Seq(Ids)
        /\ NewObject # NULL
    BY LenProperties, PoolAssumption DEF PoolIInv, PoolTypeOK, NewObject
  <1>1. /\ m_work_items \in Seq(Objects \cup {NULL, NewObject})
        /\ NewObject \in Objects \cup {NULL, NewObject}
    BY <1>0, SeqMonotonic
  <1>2. CASE HasFreeId
    <2>1. /\ TakenId = Top /\ TakenId \in Ids
          /\ m_work_items' = [m_work_items EXCEPT ![TakenId + 1] = NewObject]
          /\ Len(m_free_ids) \in Nat \ {0}
      BY <1>0, <1>2, PoppedProperties DEF internal_alloc_work_item, TakenId
    <2>2. Slot(TakenId) = NULL
      BY <1>0, <2>1, LenProperties DEF PoolIInv, PoolInv, FreeIdsAreTheEmptySlots, Top
    <2>3. TakenId + 1 \in 1 .. Len(m_work_items)
      BY <1>0, <2>1 DEF Ids
    <2>4. /\ Len(m_work_items') = Len(m_work_items)
          /\ \A j \in 1 .. Len(m_work_items) :
               m_work_items'[j] = IF j = TakenId + 1 THEN NewObject ELSE m_work_items[j]
      BY <1>1, <2>1, <2>3, ExceptSeq
    <2>5. /\ Ids' = Ids
          /\ \A id \in Ids : m_work_items'[id + 1] = IF id = TakenId THEN NewObject ELSE Slot(id)
      BY <1>0, <2>1, <2>4 DEF Ids, Slot
    <2>6. UsedIds' = UsedIds \cup {TakenId}
      BY <1>0, <2>1, <2>5 DEF UsedIds, Slot
    <2>7. QED
      BY <1>2, <2>1, <2>2, <2>4, <2>6
  <1>3. CASE ~HasFreeId
    <2>1. /\ TakenId = Len(m_work_items)
          /\ m_work_items' = Append(m_work_items, NewObject)
          /\ m_free_ids = <<>>
      BY <1>3 DEF internal_alloc_work_item, TakenId, HasFreeId
    <2>2. DOMAIN m_free_ids = {}
      BY <2>1, EmptySeq
    <2>3. \A id \in Ids : Slot(id) # NULL
      BY <2>2 DEF PoolIInv, PoolInv, FreeIdsAreTheEmptySlots
    <2>4. /\ Len(m_work_items') = Len(m_work_items) + 1
          /\ \A j \in 1 .. Len(m_work_items) : m_work_items'[j] = m_work_items[j]
          /\ m_work_items'[TakenId + 1] = NewObject
      BY <1>0, <1>1, <2>1, AppendProperties
    <2>5. /\ Ids' = Ids \cup {TakenId}
          /\ \A id \in Ids : m_work_items'[id + 1] = Slot(id)
      BY <1>0, <2>1, <2>4 DEF Ids, Slot
    <2>6. UsedIds' = UsedIds \cup {TakenId}
      BY <1>0, <2>1, <2>3, <2>4, <2>5 DEF UsedIds, Slot
    <2>7. QED
      BY <2>1, <2>3, <2>4, <2>6
  <1>4. QED
    BY <1>2, <1>3

(* A release leaves the size alone and takes one id out of use.            *)
LEMMA FreeGrowth ==
  ASSUME NEW id \in Ids, PoolIInv, free_work_item(id)
  PROVE  /\ id \in UsedIds
         /\ Len(m_work_items') = Len(m_work_items)
         /\ UsedIds' = UsedIds \ {id}
  <1>1. /\ Len(m_work_items) \in Nat
        /\ m_work_items \in Seq(Objects \cup {NULL})
    BY LenProperties DEF PoolIInv, PoolTypeOK
  <1>2. id \in UsedIds
    BY DEF free_work_item, CanFree, UsedIds
  <1>3. /\ m_work_items' = [m_work_items EXCEPT ![id + 1] = NULL]
        /\ id + 1 \in 1 .. Len(m_work_items)
    BY <1>1 DEF free_work_item, Cleared, Ids
  <1>4. /\ Len(m_work_items') = Len(m_work_items)
        /\ \A j \in 1 .. Len(m_work_items) :
             m_work_items'[j] = IF j = id + 1 THEN NULL ELSE m_work_items[j]
    BY <1>1, <1>3, ExceptSeq
  <1>5. Ids' = Ids /\ \A x \in Ids : m_work_items'[x + 1] = IF x = id THEN NULL ELSE Slot(x)
    BY <1>1, <1>4 DEF Ids, Slot
  <1>6. QED
    BY <1>2, <1>4, <1>5 DEF UsedIds, Slot

(* m_work_items grows only while every slot of it is taken.                *)
THEOREM PoolGrowsOnlyWhenFull == PoolSpec => GrowsOnlyWhenFull
  <1> DEFINE Good == /\ Len(m_work_items') >= Len(m_work_items)
                     /\ Len(m_work_items') > Len(m_work_items) => \A id \in Ids : Slot(id) # NULL
  <1>1. ASSUME PoolIInv, [PoolNext]_pool_vars
        PROVE  [Good]_pool_vars
    <2>0. Len(m_work_items) \in Nat
      BY <1>1, LenProperties DEF PoolIInv, PoolTypeOK
    <2>1. CASE \E s \in Sockets, t \in {"UNKNOWN", "RECV"} : internal_alloc_work_item(s, t)
      BY <1>1, <2>0, <2>1, AllocGrowth DEF Types
    <2>2. CASE \E id \in Ids : free_work_item(id)
      BY <1>1, <2>0, <2>2, FreeGrowth
    <2>3. QED
      BY <1>1, <2>1, <2>2 DEF PoolNext
  <1>2. QED
    BY <1>1, PoolInitInv, PoolStep, PTL DEF PoolSpec, GrowsOnlyWhenFull

(* Whoever allocates and frees, each step is one of the id allocator.      *)
LEMMA AllocatorStep ==
  ASSUME PoolIInv,
         \/ \E s \in Sockets, t \in Types : internal_alloc_work_item(s, t)
         \/ \E id \in Ids : free_work_item(id)
         \/ UNCHANGED m_work_items
  PROVE  [Allocator!Next]_(Allocator!vars)
  <1>0. Len(m_work_items) \in Nat /\ Ids = 0 .. Len(m_work_items) - 1
    BY LenProperties DEF PoolIInv, PoolTypeOK, Ids
  <1>1. CASE \E s \in Sockets, t \in Types : internal_alloc_work_item(s, t)
    <2>1. PICK s \in Sockets, t \in Types : internal_alloc_work_item(s, t)
      BY <1>1
    <2>2. CASE HasFreeId /\ TakenId \in Ids /\ Slot(TakenId) = NULL
               /\ Len(m_work_items') = Len(m_work_items)
               /\ UsedIds' = UsedIds \cup {TakenId}
      <3>1. TakenId \in (0 .. Len(m_work_items) - 1) \ UsedIds
        BY <1>0, <2>2 DEF UsedIds
      <3>2. Allocator!Reuse
        BY <2>2, <3>1 DEF Allocator!Reuse
      <3>3. QED
        BY <3>2 DEF Allocator!Next
    <2>3. CASE /\ \A id \in Ids : Slot(id) # NULL
               /\ TakenId = Len(m_work_items)
               /\ Len(m_work_items') = Len(m_work_items) + 1
               /\ UsedIds' = UsedIds \cup {TakenId}
      <3>1. Allocator!Grow
        BY <1>0, <2>3 DEF Allocator!Grow, UsedIds
      <3>2. QED
        BY <3>1 DEF Allocator!Next
    <2>4. QED
      BY <2>1, <2>2, <2>3, AllocGrowth
  <1>2. CASE \E id \in Ids : free_work_item(id)
    <2>1. Allocator!Release
      BY <1>2, FreeGrowth DEF Allocator!Release
    <2>2. QED
      BY <2>1 DEF Allocator!Next
  <1>3. CASE UNCHANGED m_work_items
    BY <1>3 DEF Allocator!vars, UsedIds, Ids, Slot
  <1>4. QED
    BY <1>1, <1>2, <1>3

(* The pool implements the id allocator: an id handed out names no live    *)
(* item, and the range of ids grows only when no id in it is free.         *)
THEOREM PoolImplementsIdAllocator == PoolSpec => ImplementsIdAllocator
  <1>1. PoolInit => Allocator!Init
    BY EmptySeq DEF PoolInit, Allocator!Init, UsedIds, Ids
  <1>2. PoolIInv /\ [PoolNext]_pool_vars => [Allocator!Next]_(Allocator!vars)
    <2> SUFFICES ASSUME PoolIInv, [PoolNext]_pool_vars
                 PROVE  [Allocator!Next]_(Allocator!vars)
      OBVIOUS
    <2>1. \/ \E s \in Sockets, t \in Types : internal_alloc_work_item(s, t)
          \/ \E id \in Ids : free_work_item(id)
          \/ UNCHANGED m_work_items
      BY DEF PoolNext, pool_vars, Types
    <2>2. QED
      BY <2>1, AllocatorStep
  <1>3. QED
    BY <1>1, <1>2, PoolInitInv, PoolStep, PTL DEF PoolSpec, ImplementsIdAllocator, Allocator!Spec

=============================================================================
