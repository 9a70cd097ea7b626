------------------------------ MODULE WorkPool ------------------------------
(***************************************************************************)
(* The pool of work items (WorkPool.cpp) and the WorkItem objects in it.   *)
(*                                                                         *)
(* io_uring gives back, with each completion, the 64-bit user data of the  *)
(* request.  The library uses an index into m_work_items as user data, so  *)
(* the pool decides which object a completion is delivered to.  Indices    *)
(* that are free again are kept on a stack, m_free_ids.                    *)
(*                                                                         *)
(* A WorkItem object is a position in heap: objects are made by            *)
(* make_shared and never reused, so a position is the identity of an       *)
(* object while m_id is the index it was given.  Every operation of the    *)
(* pool holds m_mutex from entry to return and is one step here.           *)
(*                                                                         *)
(* Definitions named Faulty_* are seeded faults: plausible mistakes in the *)
(* definition that follows them, used to see that a property notices.      *)
(***************************************************************************)
EXTENDS Integers, Sequences

CONSTANTS
  NULL,        (* the null shared_ptr in a slot of m_work_items          *)
  Sockets,     (* the sockets work items are made for                    *)
  MaxItems     (* bound: how many WorkItem objects a behaviour creates   *)

ASSUME PoolAssumption == MaxItems \in Nat /\ NULL \notin Nat

VARIABLES
  heap,          (* the WorkItem objects, in order of construction       *)
  m_work_items,  (* slot id (at position id + 1): an object, or NULL     *)
  m_free_ids     (* the stack of free ids; its top is the last element   *)

pool_vars == <<heap, m_work_items, m_free_ids>>

SendTypes == {"SEND_STREAM_DATA", "SEND_WORKPACKET"}
Types == {"UNKNOWN", "ACCEPT", "RECV", "CONNECT", "CLOSE"} \cup SendTypes

(* sizeof(sockaddr_in), what the kernel stores in m_accept_sock_len: a     *)
(* server socket is always bound to an AF_INET address.                    *)
SockaddrLen == 16

WorkItem ==
  [m_id : Nat, m_socket : Sockets, m_work_type : Types,
   m_state : {"IN_USE", "FREE"}, m_accept_sock_len : {0, SockaddrLen}]

Objects == 1 .. Len(heap)
Ids == 0 .. Len(m_work_items) - 1
Slot(id) == m_work_items[id + 1]

-----------------------------------------------------------------------------
(* Allocation.                                                             *)

Faulty_HasFreeId == Len(m_free_ids) > 1
HasFreeId == m_free_ids # <<>>

Top == m_free_ids[Len(m_free_ids)]

Faulty_TakenId == IF HasFreeId THEN m_free_ids[1] ELSE Len(m_work_items)
Faulty2_TakenId == IF HasFreeId THEN Top ELSE Len(m_work_items) + 1
(* The id the next object gets. *)
TakenId == IF HasFreeId THEN Top ELSE Len(m_work_items)

Faulty_Popped == m_free_ids
Popped == SubSeq(m_free_ids, 1, Len(m_free_ids) - 1)

(* The constructor; t is UNKNOWN until WorkItem::submit sets the type.     *)
NewWorkItem(id, s, t) ==
  [m_id |-> id, m_socket |-> s, m_work_type |-> t,
   m_state |-> "IN_USE", m_accept_sock_len |-> 0]

NewObject == Len(heap) + 1

(* internal_alloc_work_item and the alloc_*_work_item that calls it: all   *)
(* but alloc_send_work_item also submit the item, with its type set, in    *)
(* the same critical section.                                              *)
internal_alloc_work_item(s, t) ==
  /\ Len(heap) < MaxItems
  /\ heap' = Append(heap, NewWorkItem(TakenId, s, t))
  /\ IF HasFreeId
       THEN /\ m_work_items' = [m_work_items EXCEPT ![TakenId + 1] = NewObject]
            /\ m_free_ids' = Popped
       ELSE /\ m_work_items' = Append(m_work_items, NewObject)
            /\ UNCHANGED m_free_ids

-----------------------------------------------------------------------------
(* Look-up and release.                                                    *)

get_work_item(id) == Slot(id)

(* The assertions of free_work_item. *)
CanFree(id) ==
  /\ id \in Ids
  /\ Slot(id) # NULL
  /\ heap[Slot(id)].m_state = "IN_USE"

Faulty_Cleared(id) == m_work_items
Cleared(id) == [m_work_items EXCEPT ![id + 1] = NULL]

free_work_item(id) ==
  /\ CanFree(id)
  /\ heap' = [heap EXCEPT ![Slot(id)].m_state = "FREE"]
  /\ m_work_items' = Cleared(id)
  /\ m_free_ids' = Append(m_free_ids, id)

-----------------------------------------------------------------------------
(* The pool on its own.  Clients allocate items that are submitted at once *)
(* (the pool treats the kinds alike: RECV stands for all of them) or held  *)
(* by the caller (UNKNOWN), and release any item that is in use.           *)

PoolInit ==
  /\ heap = <<>>
  /\ m_work_items = <<>>
  /\ m_free_ids = <<>>

PoolNext ==
  \/ \E s \in Sockets, t \in {"UNKNOWN", "RECV"} : internal_alloc_work_item(s, t)
  \/ \E id \in Ids : free_work_item(id)

PoolSpec == PoolInit /\ [][PoolNext]_pool_vars

-----------------------------------------------------------------------------
(* Properties.                                                             *)

(* Type invariant: slots point to objects that exist, an object's id and   *)
(* every free id are indices of m_work_items (get_work_item indexes the    *)
(* vector with them unchecked: its assertion lets id = size() pass).       *)
PoolTypeOK ==
  /\ heap \in Seq(WorkItem)
  /\ m_work_items \in Seq(Objects \cup {NULL})
  /\ m_free_ids \in Seq(Ids)
  /\ \A o \in Objects : heap[o].m_id \in Ids

(* The comment on m_work_items: the vector only grows and m_free_ids       *)
(* tracks the free indices.  The stack holds every empty slot, each once,  *)
(* and no other: an id on it twice would later name two live items, an     *)
(* empty slot missing from it would be lost for good.                      *)
FreeIdsAreTheEmptySlots ==
  /\ \A id \in Ids : Slot(id) = NULL <=> \E i \in DOMAIN m_free_ids : m_free_ids[i] = id
  /\ \A i, j \in DOMAIN m_free_ids : m_free_ids[i] = m_free_ids[j] => i = j

(* An object is in use exactly while the slot of its own id points to it:  *)
(* get_work_item never returns a freed item nor an item of another id, and *)
(* two objects never share an id while both are in use.                    *)
InUseItemsOwnTheirSlot ==
  /\ \A id \in Ids : Slot(id) # NULL =>
       heap[Slot(id)].m_id = id /\ heap[Slot(id)].m_state = "IN_USE"
  /\ \A o \in Objects : heap[o].m_state = "IN_USE" => Slot(heap[o].m_id) = o

PoolInv == FreeIdsAreTheEmptySlots /\ InUseItemsOwnTheirSlot

(* m_work_items grows only when every slot is taken, so its size is the    *)
(* largest number of items ever in use at once: what makes the warning     *)
(* about ids above 64 in internal_alloc_work_item a sign of a leak.  And   *)
(* the indices handed to io_uring stay valid: the vector never shrinks.    *)
GrowsOnlyWhenFull ==
  [][/\ Len(m_work_items') >= Len(m_work_items)
     /\ Len(m_work_items') > Len(m_work_items) => \A id \in Ids : Slot(id) # NULL]_pool_vars

UsedIds == {id \in Ids : Slot(id) # NULL}

Allocator == INSTANCE IdAllocator WITH used <- UsedIds, size <- Len(m_work_items)

(* The pool is an implementation of the id allocator. *)
ImplementsIdAllocator == Allocator!Spec

=============================================================================
