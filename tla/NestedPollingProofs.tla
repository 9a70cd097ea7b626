-------------------------- MODULE NestedPollingProofs --------------------------
(***************************************************************************)
(* Polls that nest keep the promises of the pool: to the pool, a callback  *)
(* that polls is a client like any other, so all that WorkPoolProofs says  *)
(* of clients holds here, for any depth and any number of items.           *)
(***************************************************************************)
EXTENDS NestedPolling, WorkPoolProofs

LEMMA NestedStepIsAPoolStep == [Next]_vars => [PoolNext]_pool_vars
  <1> SUFFICES ASSUME [Next]_vars
               PROVE  [PoolNext]_pool_vars
    OBVIOUS
  <1>1. CASE \E s \in Sockets : Submit(s)
    BY <1>1 DEF Submit, PoolNext
  <1>2. CASE \E o \in Objects : Complete(o)
    BY <1>2 DEF Complete
  <1>3. CASE PollDrop
    BY <1>3 DEF PollDrop
  <1>4. CASE PollCall
    BY <1>4 DEF PollCall
  <1>5. CASE Return
    <2>1. Innermost \in Ids /\ free_work_item(Innermost)
      BY <1>5 DEF Return, CanFree
    <2>2. QED
      BY <2>1 DEF PoolNext
  <1>6. CASE ReturnFails
    BY <1>6 DEF ReturnFails
  <1>7. CASE UNCHANGED vars
    BY <1>7 DEF vars, pool_vars
  <1>8. QED
    BY <1>1, <1>2, <1>3, <1>4, <1>5, <1>6, <1>7 DEF Next

(* Whatever callbacks do when they poll (poll_completion_queues,           *)
(* IOUring.cpp:774), free_work_item and its assertions leave the pool      *)
(* consistent: slots, stack and items agree, although an item may be freed *)
(* by the callback of another one.                                         *)
THEOREM NestedPollsKeepPoolConsistent ==
  Spec => [](PoolTypeOK /\ FreeIdsAreTheEmptySlots /\ InUseItemsOwnTheirSlot)
  <1>1. Init => PoolInit
    BY DEF Init
  <1>2. PoolIInv => PoolTypeOK /\ FreeIdsAreTheEmptySlots /\ InUseItemsOwnTheirSlot
    BY DEF PoolIInv, PoolInv
  <1>3. QED
    BY <1>1, <1>2, NestedStepIsAPoolStep, PoolInitInv, PoolStep, PTL DEF Spec

(* Polls that nest never make the pool grow while an id is free, and the   *)
(* ids they are handed are those of an id allocator.                       *)
THEOREM NestedPollsImplementIdAllocator == Spec => GrowsOnlyWhenFull /\ ImplementsIdAllocator
  <1>1. Spec => PoolSpec
    <2>1. Init => PoolInit
      BY DEF Init
    <2>2. QED
      BY <2>1, NestedStepIsAPoolStep, PTL DEF Spec, PoolSpec
  <1>2. QED
    BY <1>1, PoolGrowsOnlyWhenFull, PoolImplementsIdAllocator

=============================================================================
