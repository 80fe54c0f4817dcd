----------------------- MODULE SubmissionLifetimeProofs -----------------------
(* Theorems of SubmissionLifetime for every value of its constants.        *)
EXTENDS SubmissionLifetime, TLAPS, FiniteSetTheorems

(* The effects of the arena's operations keep an allocation well typed.    *)
LEMMA AllocationEffects ==
  ASSUME NEW a \in Allocation
  PROVE  /\ Acquired(a) \in Allocation
         /\ a.in_flight > 0 => Released(a) \in Allocation
         /\ Transformed(a) \in Allocation
         /\ RepresentationConsumed(a) \in Allocation
         /\ ObjectConsumed(a) \in Allocation
         /\ Retired(a) \in Allocation
<1> DEFINE epoch == a.representation_epoch + 1
           live == a.live_representations + 1
           generation == a.generation + 1
<1>1. epoch \in Nat /\ live \in Nat /\ generation \in Nat
  BY DEF Allocation
<1>2. Acquired(a) \in Allocation
  BY DEF Allocation, Acquired
<1>3. a.in_flight > 0 => Released(a) \in Allocation
  BY DEF Allocation, Released
<1>4. RepresentationConsumed(a) \in Allocation
  BY DEF Allocation, RepresentationConsumed
<1> HIDE DEF epoch, live, generation
<1>5. [a EXCEPT !.representation_epoch = epoch, !.live_representations = live] \in Allocation
  BY <1>1 DEF Allocation
<1>6. [a EXCEPT !.state = "Retired", !.generation = generation] \in Allocation
  BY <1>1 DEF Allocation
<1>7. [a EXCEPT !.state = "Retired", !.generation = generation,
                !.live_representations = 0, !.backed = FALSE] \in Allocation
  BY <1>1 DEF Allocation
<1> QED
  BY <1>2, <1>3, <1>4, <1>5, <1>6, <1>7
     DEF Transformed, ObjectConsumed, Retired, epoch, live, generation

LEMMA ConstantAllocations == NoAllocation \in Allocation /\ FreshAllocation \in Allocation
  BY DEF Allocation, NoAllocation, FreshAllocation

LEMMA LiveRefsTyped ==
  ASSUME ArenaTypeOK
  PROVE  LiveRefs(allocations) \subseteq PointerRefs
  BY DEF ArenaTypeOK, LiveRefs, PointerRefs, Allocation

(* A call of the arena keeps its state well typed.                         *)
LEMMA ArenaTyped ==
  ASSUME ArenaTypeOK, ArenaNext
  PROVE  ArenaTypeOK'
<1> USE DEF ArenaTypeOK
<1>1. CASE Allocate
  BY <1>1, ConstantAllocations DEF Allocate, AllocationIds
<1>2. CASE \E i \in Imports : ImportAllocation(i)
  <2> PICK i \in Imports : ImportAllocation(i)
    BY <1>2
  <2>1. i \in [allocation : AllocationIds, generation : Nat \ {0},
               representation_epoch : Nat, state : {"Active", "Retired"}]
    <3>1. i \in [allocation : AllocationIds, generation : Nat \ {0},
                 representation_epoch : 0..MaxEpoch, state : {"Active", "Retired"}]
      BY ArenaAssumption
    <3> QED
      BY <3>1
  <2>2. [FreshAllocation EXCEPT !.generation = i.generation,
               !.representation_epoch = i.representation_epoch,
               !.state = i.state] \in Allocation
    BY <2>1 DEF FreshAllocation, Allocation
  <2>3. nextId' \in Nat \ {0}
    BY <2>1 DEF ImportAllocation, AllocationIds
  <2> QED
    BY <2>1, <2>2, <2>3 DEF ImportAllocation
<1>3. ASSUME NEW ref \in LiveRefs(allocations),
             \/ Retire(ref) \/ Transform(ref) \/ ReleaseRepresentation(ref)
             \/ ConsumeRepresentation(ref) \/ Consume(ref)
      PROVE  ArenaTypeOK'
  <2>1. ref.allocation \in AllocationIds /\ allocations[ref.allocation] \in Allocation
    BY LiveRefsTyped DEF PointerRefs
  <2>2. CASE Retire(ref)
    BY <2>1, <2>2, AllocationEffects DEF Retire
  <2>3. CASE Transform(ref)
    BY <2>1, <2>3, AllocationEffects DEF Transform
  <2>4. CASE ReleaseRepresentation(ref)
    <3>1. [allocations[ref.allocation] EXCEPT !.live_representations = @ - 1] \in Allocation
      BY <2>1, <2>4 DEF ReleaseRepresentation, Allocation
    <3> QED
      BY <2>1, <2>4, <3>1 DEF ReleaseRepresentation
  <2>5. CASE ConsumeRepresentation(ref)
    BY <2>1, <2>5, AllocationEffects DEF ConsumeRepresentation
  <2>6. CASE Consume(ref)
    BY <2>1, <2>6, AllocationEffects DEF Consume
  <2> QED
    BY <1>3, <2>2, <2>3, <2>4, <2>5, <2>6
<1> QED
  BY <1>1, <1>2, <1>3 DEF ArenaNext

(* The effects of the pool's operations keep the slots well typed.         *)
LEMMA SlotEffects ==
  ASSUME NEW sl \in [SlotIds -> Slot], NEW S
  PROVE  /\ SlotsRetired(sl, S) \in [SlotIds -> Slot]
         /\ UsesBegun(sl, S) \in [SlotIds -> Slot]
         /\ UsesEnded(sl, S) \in [SlotIds -> Slot]
<1>1. ASSUME NEW i \in SlotIds PROVE RetiredSlot(sl[i]) \in Slot
  <2> DEFINE next == sl[i].generation + 1
  <2>1. sl[i] \in Slot /\ next \in Nat \ {0}
    BY DEF Slot
  <2> HIDE DEF next
  <2>2. [sl[i] EXCEPT !.active = FALSE, !.generation = next] \in Slot
    BY <2>1 DEF Slot
  <2> QED
    BY <2>2 DEF RetiredSlot, next
<1>2. SlotsRetired(sl, S) \in [SlotIds -> Slot]
  BY <1>1 DEF SlotsRetired
<1>3. ASSUME NEW i \in SlotIds
      PROVE  [sl[i] EXCEPT !.in_flight = @ + 1, !.in_flight_generation = sl[i].generation] \in Slot
  <2> DEFINE uses == sl[i].in_flight + 1
             current == sl[i].generation
  <2>1. sl[i] \in Slot /\ uses \in Nat /\ current \in Nat
    BY DEF Slot
  <2> HIDE DEF uses, current
  <2>2. [sl[i] EXCEPT !.in_flight = uses, !.in_flight_generation = current] \in Slot
    BY <2>1 DEF Slot
  <2> QED
    BY <2>2 DEF uses, current
<1>4. UsesBegun(sl, S) \in [SlotIds -> Slot]
  BY <1>3 DEF UsesBegun
<1>5. ASSUME NEW i \in EndingAt(sl, S)
      PROVE  i \in SlotIds /\ [sl[i] EXCEPT !.in_flight = @ - 1] \in Slot
  BY DEF Slot, EndingAt, Outstanding
<1>6. UsesEnded(sl, S) \in [SlotIds -> Slot]
  BY <1>5 DEF UsesEnded
<1> QED
  BY <1>2, <1>4, <1>6

LEMMA FreeListEffects ==
  ASSUME NEW sl \in [SlotIds -> Slot], NEW fr \in [SlotIds -> Nat], NEW S
  PROVE  /\ FreeAfterRetire(sl, fr, S) \in [SlotIds -> Nat]
         /\ FreeAfterEnd(sl, fr, S) \in [SlotIds -> Nat]
         /\ \A i \in SlotIds : FreeAfterPlace(fr, i) \in [SlotIds -> Nat]
  BY DEF FreeAfterRetire, FreeAfterEnd, FreeAfterPlace

LEMMA PlacedTyped ==
  ASSUME NEW as \in [AllocationIds -> Allocation], NEW sl \in [SlotIds -> Slot],
         NEW i \in SlotIds, NEW view \in PointerRefs, NEW kind \in Kinds
  PROVE  Placed(as, sl, i, view, kind) \in [SlotIds -> Slot]
<1>1. as[view.allocation].representation_epoch \in Nat
  BY DEF PointerRefs, Allocation
<1>2. UnusedSlot \in Slot
  BY ArenaAssumption, PoolAssumption DEF UnusedSlot, Slot, PointerRefs, AllocationIds
<1> DEFINE new == [UnusedSlot EXCEPT
       !.generation = sl[i].generation, !.active = TRUE, !.kind = kind, !.view = view,
       !.representation_epoch = as[view.allocation].representation_epoch]
<1>3. new \in Slot
  BY <1>1, <1>2 DEF Slot
<1> HIDE DEF new
<1>4. [sl EXCEPT ![i] = new] \in [SlotIds -> Slot]
  BY <1>3
<1> QED
  BY <1>4 DEF Placed, new

LEMMA CountTyped ==
  ASSUME slotCount \in 0..MaxSlots, NEW fr \in [SlotIds -> Nat], NEW i \in SlotIds,
         Placeable(fr, i)
  PROVE  CountAfterPlace(fr, i) \in 0..MaxSlots
  BY PoolAssumption DEF CountAfterPlace, Placeable, SlotIds

(* A call of the pool keeps its state well typed.                          *)
LEMMA PoolTyped ==
  ASSUME ArenaTypeOK, PoolTypeOK, PoolNext
  PROVE  PoolTypeOK'
<1> USE DEF PoolTypeOK
<1>1. ASSUME NEW view \in LiveRefs(allocations), NEW kind \in Kinds, NEW i \in SlotIds,
             AcquireFacet(view, kind, i)
      PROVE  PoolTypeOK'
  <2>1. view \in PointerRefs /\ allocations \in [AllocationIds -> Allocation]
    BY LiveRefsTyped DEF ArenaTypeOK
  <2> QED
    BY <1>1, <2>1, PlacedTyped, CountTyped, FreeListEffects DEF AcquireFacet
<1>2. ASSUME NEW ref \in ActiveTokens, RetireFacet(ref)
      PROVE  PoolTypeOK'
  BY <1>2, SlotEffects, FreeListEffects DEF RetireFacet, ActiveTokens
<1>3. CASE RetireStale
  BY <1>3, SlotEffects, FreeListEffects DEF RetireStale
<1> QED
  BY <1>1, <1>2, <1>3 DEF PoolNext

LEMMA EndGpuUseTyped ==
  ASSUME PoolTypeOK, NEW S, EndGpuUse(S)
  PROVE  PoolTypeOK'
  BY SlotEffects, FreeListEffects DEF PoolTypeOK, EndGpuUse

LEMMA BeginGpuUseTyped ==
  ASSUME PoolTypeOK, NEW ref, BeginGpuUse(ref)
  PROVE  PoolTypeOK'
  BY SlotEffects DEF PoolTypeOK, BeginGpuUse

(* release() touches only in-flight counts it finds above zero.            *)
LEMMA ReleaseAllTyped ==
  ASSUME ArenaTypeOK, PoolTypeOK, NEW h, ReleaseAll(h)
  PROVE  ArenaTypeOK' /\ PoolTypeOK'
<1>1. ASSUME NEW id \in AllocationIds
      PROVE  AllocationsReleased(heldAllocations[h])[id] \in Allocation
  <2>1. allocations[id] \in Allocation
    BY DEF ArenaTypeOK
  <2>2. CASE \E ref \in heldAllocations[h] : ref.allocation = id /\ Releasable(allocations, ref)
    BY <2>1, <2>2, AllocationEffects DEF AllocationsReleased, Releasable
  <2>3. CASE ~\E ref \in heldAllocations[h] : ref.allocation = id /\ Releasable(allocations, ref)
    BY <2>1, <2>3 DEF AllocationsReleased
  <2> QED
    BY <2>2, <2>3
<1>2. AllocationsReleased(heldAllocations[h]) \in [AllocationIds -> Allocation]
  BY <1>1 DEF AllocationsReleased
<1> QED
  BY <1>2, EndGpuUseTyped DEF ReleaseAll, ArenaTypeOK

(* The item a commit works on next is one of its plan's.                   *)
LEMMA NextItemTyped ==
  ASSUME TypeOK, NEW h \in Holds, committed[h] < Len(plan[h].items)
  PROVE  NextItem(h) \in Items
<1>1. plan[h].items \in Seq(Items) /\ committed[h] \in Nat
  BY DEF TypeOK, Plans
<1> HIDE DEF TypeOK
<1>2. committed[h] + 1 \in 1..Len(plan[h].items)
  BY <1>1
<1> QED
  BY <1>1, <1>2 DEF NextItem

LEMMA PublishEpochTyped ==
  ASSUME ArenaTypeOK, PoolTypeOK, NEW item \in Items, NEW i \in SlotIds, PublishEpoch(item, i)
  PROVE  PoolTypeOK'
<1> DEFINE as == [allocations EXCEPT ![item.view.allocation] = Transformed(@)]
           S  == StaleSlots(as, slots)
           sl == SlotsRetired(slots, S)
           fr == FreeAfterRetire(slots, freeList, S)
<1>1. item.view \in PointerRefs /\ item.kind \in Kinds /\ item.view.allocation \in AllocationIds
  BY DEF Items, PointerRefs
<1>2. as \in [AllocationIds -> Allocation]
  BY <1>1, AllocationEffects DEF ArenaTypeOK
<1>3. sl \in [SlotIds -> Slot] /\ fr \in [SlotIds -> Nat]
  BY SlotEffects, FreeListEffects DEF PoolTypeOK
<1>4. /\ Placeable(fr, i)
      /\ slots' = Placed(as, sl, i, item.view, item.kind)
      /\ freeList' = FreeAfterPlace(fr, i)
      /\ slotCount' = CountAfterPlace(fr, i)
  BY DEF PublishEpoch
<1> HIDE DEF as, S, sl, fr
<1>5. slots' \in [SlotIds -> Slot]
  BY <1>1, <1>2, <1>3, <1>4, PlacedTyped
<1>6. freeList' \in [SlotIds -> Nat]
  BY <1>3, <1>4, FreeListEffects DEF PoolTypeOK
<1>7. slotCount' \in 0..MaxSlots
  BY <1>3, <1>4, CountTyped DEF PoolTypeOK
<1> QED
  BY <1>5, <1>6, <1>7 DEF PoolTypeOK

----------------------------------------------------------------------------
(* The final facets and allocations of a hold are well typed.              *)
LEMMA FinalTyped ==
  ASSUME TypeOK, NEW h \in Holds
  PROVE  FinalAllocations(h) \subseteq PointerRefs /\ FinalFacets(h) \subseteq FacetRefs
<1>1. FinalUses(h) \subseteq FacetUses
  BY DEF TypeOK, FinalUses, Plans
<1>2. \A use \in FinalUses(h) : use.ref \in FacetRefs /\ slots[use.ref.index] \in Slot
  BY <1>1 DEF FacetUses, FacetRefs, TypeOK, PoolTypeOK
<1>3. inventory[h] \subseteq PointerRefs
  BY DEF TypeOK
<1>4. Backings(FinalUses(h)) \subseteq PointerRefs
  BY <1>2 DEF Backings, Slot
<1> QED
  BY <1>2, <1>3, <1>4 DEF FinalAllocations, FinalFacets

(* A sequence of at most MaxItems plannable items is a sequence of items.  *)
LEMMA ItemListsTyped ==
  ASSUME ArenaTypeOK, NEW items \in ItemLists
  PROVE  items \in Seq(Items)
<1>1. PlannableItems \subseteq Items
  <2> SUFFICES ASSUME NEW item \in PlannableItems PROVE item \in Items
    OBVIOUS
  <2>1. item \in [view : LiveRefs(allocations), kind : Kinds, consume_input : BOOLEAN,
                  source : {allocations[id].representation_epoch : id \in AllocationIds}]
    BY DEF PlannableItems
  <2>2. \A id \in AllocationIds : allocations[id].representation_epoch \in Nat
    BY DEF ArenaTypeOK, Allocation
  <2> QED
    BY <2>1, <2>2, LiveRefsTyped DEF Items
<1>2. PICK n \in 0..MaxItems : items \in [1..n -> PlannableItems]
  BY DEF ItemLists
<1> QED
  BY <1>1, <1>2

LEMMA PlannableFacetsTyped ==
  ASSUME PoolTypeOK
  PROVE  PlannableFacets \subseteq FacetUses
<1> SUFFICES ASSUME NEW i \in SlotIds
             PROVE  [ref |-> TokenOf(slots, i), kind |-> slots[i].kind] \in FacetUses
  BY DEF PlannableFacets
<1>1. slots[i] \in Slot
  BY DEF PoolTypeOK
<1> QED
  BY <1>1 DEF Slot, TokenOf, FacetUses, FacetRefs

LEMMA InitTyped == Init => TypeOK
<1> SUFFICES ASSUME Init PROVE TypeOK
  OBVIOUS
<1> USE DEF Init
<1>1. ArenaTypeOK
  BY ConstantAllocations DEF ArenaInit, ArenaTypeOK
<1>2. UnusedSlot \in Slot
  BY ArenaAssumption, PoolAssumption DEF UnusedSlot, Slot, PointerRefs, AllocationIds
<1>3. PoolTypeOK
  BY <1>2, PoolAssumption DEF PoolInit, PoolTypeOK
<1>4. NoPlan \in Plans
  BY DEF NoPlan, Plans
<1> QED
  BY <1>1, <1>3, <1>4 DEF TypeOK, Phases

(* The part of TypeOK about the variables of this module.                  *)
HoldTypeOK ==
  /\ caller \in Holds \cup {NoHold}
  /\ phase \in [Holds -> Phases]
  /\ plan \in [Holds -> Plans]
  /\ inventory \in [Holds -> SUBSET PointerRefs]
  /\ committed \in [Holds -> Nat]
  /\ produced \in [Holds -> SUBSET FacetUses]
  /\ heldAllocations \in [Holds -> SUBSET PointerRefs]
  /\ heldFacets \in [Holds -> SUBSET FacetRefs]
  /\ guard \in [Scopes -> FacetRefs \cup {NoFacet}]

LEMMA TypeParts == TypeOK <=> ArenaTypeOK /\ PoolTypeOK /\ HoldTypeOK
  BY DEF TypeOK, HoldTypeOK

(* Every step of one submission keeps TypeOK.                              *)
LEMMA SubmitTyped ==
  ASSUME TypeOK, NEW h \in Holds, Submit(h)
  PROVE  TypeOK'
<1> USE DEF HoldTypeOK
<1>0. ArenaTypeOK /\ PoolTypeOK /\ HoldTypeOK
  BY TypeParts
<1> SUFFICES ArenaTypeOK' /\ PoolTypeOK' /\ HoldTypeOK'
  BY DEF TypeOK
<1>a. UNCHANGED arenaVars => ArenaTypeOK'
  BY <1>0 DEF arenaVars, ArenaTypeOK
<1>p. UNCHANGED poolVars => PoolTypeOK'
  BY <1>0 DEF poolVars, PoolTypeOK
<1>1. ASSUME NEW touched \in UpTo(MaxUses, LiveRefs(allocations)),
             NEW facets \in UpTo(MaxUses, PlannableFacets), NEW items \in ItemLists,
             Assemble(h, touched, facets, items)
      PROVE  ArenaTypeOK' /\ PoolTypeOK' /\ HoldTypeOK'
  <2>1. touched \subseteq PointerRefs /\ facets \subseteq FacetUses /\ items \in Seq(Items)
    BY <1>0, LiveRefsTyped, PlannableFacetsTyped, ItemListsTyped DEF UpTo
  <2>2. [touched |-> touched, facets |-> facets, items |-> items,
         graph_epoch |-> topologyEpoch] \in Plans
    BY <1>0, <2>1 DEF Plans, ArenaTypeOK
  <2> QED
    BY <1>0, <1>a, <1>p, <1>1, <2>2 DEF Assemble, Phases
<1>2. ASSUME Prepare(h)
      PROVE  ArenaTypeOK' /\ PoolTypeOK' /\ HoldTypeOK'
  <2>1. plan[h] \in Plans
    BY <1>0
  <2>2. \A use \in plan[h].facets : use.ref.index \in SlotIds
    BY <2>1 DEF Plans, FacetUses, FacetRefs
  <2>3. Backings(plan[h].facets) \subseteq PointerRefs
    BY <1>0, <2>2 DEF Backings, PoolTypeOK, Slot
  <2>4. ItemViews(plan[h]) \subseteq PointerRefs
    <3>1. plan[h].items \in Seq(Items)
      BY <2>1 DEF Plans
    <3>2. \A n \in DOMAIN plan[h].items : plan[h].items[n] \in Items
      BY <3>1
    <3> QED
      BY <3>2 DEF ItemViews, Items
  <2>5. plan[h].touched \subseteq PointerRefs
    BY <2>1 DEF Plans
  <2> QED
    BY <1>0, <1>a, <1>p, <1>2, <2>3, <2>4, <2>5 DEF Prepare, Phases
<1>3. ASSUME BeginCommit(h)
      PROVE  ArenaTypeOK' /\ PoolTypeOK' /\ HoldTypeOK'
  BY <1>0, <1>a, <1>p, <1>3 DEF BeginCommit, Phases
<1>4. ASSUME AbandonCommit(h), UNCHANGED <<plan, heldAllocations, heldFacets, guard>>
      PROVE  HoldTypeOK'
  BY <1>0, <1>4 DEF AbandonCommit, Phases
<1>5. ASSUME RefuseItem(h)
      PROVE  ArenaTypeOK' /\ PoolTypeOK' /\ HoldTypeOK'
  BY <1>a, <1>p, <1>4, <1>5 DEF RefuseItem
<1>6. ASSUME NEW i \in SlotIds, FailItem(h, i)
      PROVE  ArenaTypeOK' /\ PoolTypeOK' /\ HoldTypeOK'
  <2>1. NextItem(h) \in Items /\ PublishEpoch(NextItem(h), i)
    BY <1>6, NextItemTyped DEF FailItem
  <2>2. PoolTypeOK'
    BY <1>0, <2>1, PublishEpochTyped
  <2>3. NextItem(h).view.allocation \in AllocationIds
    BY <2>1 DEF Items, PointerRefs
  <2>4. ArenaTypeOK'
    BY <1>0, <1>6, <2>3, AllocationEffects DEF FailItem, PublishEpoch, ArenaTypeOK
  <2>5. HoldTypeOK'
    BY <1>4, <1>6 DEF FailItem
  <2> QED
    BY <2>2, <2>4, <2>5
<1>7. ASSUME NEW i \in SlotIds, CommitItem(h, i)
      PROVE  ArenaTypeOK' /\ PoolTypeOK' /\ HoldTypeOK'
  <2>1. NextItem(h) \in Items /\ PublishEpoch(NextItem(h), i)
    BY <1>7, NextItemTyped DEF CommitItem
  <2>2. PoolTypeOK'
    BY <1>0, <2>1, PublishEpochTyped
  <2> DEFINE id == NextItem(h).view.allocation
  <2>3. id \in AllocationIds
    BY <2>1 DEF Items, PointerRefs
  <2>4. /\ Transformed(allocations[id]) \in Allocation
        /\ RepresentationConsumed(Transformed(allocations[id])) \in Allocation
    BY <1>0, <2>3, AllocationEffects DEF ArenaTypeOK
  <2>5. \/ allocations' = [allocations EXCEPT ![id] = Transformed(@)]
        \/ allocations' = [allocations EXCEPT ![id] = RepresentationConsumed(Transformed(@))]
    BY <1>7 DEF CommitItem
  <2>6. allocations' \in [AllocationIds -> Allocation]
    BY <1>0, <2>3, <2>4, <2>5 DEF ArenaTypeOK
  <2>7. ArenaTypeOK'
    BY <1>0, <1>7, <2>6 DEF CommitItem, PublishEpoch, ArenaTypeOK
  <2>8. [ref |-> TokenOf(slots', i), kind |-> NextItem(h).kind] \in FacetUses
    <3>1. slots'[i] \in Slot /\ NextItem(h).kind \in Kinds
      BY <2>1, <2>2 DEF PoolTypeOK, Items
    <3> QED
      BY <3>1 DEF Slot, TokenOf, FacetUses, FacetRefs
  <2>9. HoldTypeOK'
    BY <1>0, <1>7, <2>8 DEF CommitItem
  <2> QED
    BY <2>2, <2>7, <2>9
<1>8. ASSUME FinishCommit(h)
      PROVE  ArenaTypeOK' /\ PoolTypeOK' /\ HoldTypeOK'
  BY <1>0, <1>a, <1>p, <1>8 DEF FinishCommit, Phases
<1>9. ASSUME BeginAcquire(h)
      PROVE  ArenaTypeOK' /\ PoolTypeOK' /\ HoldTypeOK'
  BY <1>0, <1>a, <1>p, <1>9 DEF BeginAcquire, Phases
<1>10. ASSUME NEW ref \in FinalAllocations(h), AcquireAllocation(h, ref)
       PROVE  ArenaTypeOK' /\ PoolTypeOK' /\ HoldTypeOK'
  <2>1. ref \in PointerRefs
    BY FinalTyped
  <2>2. ArenaTypeOK'
    BY <1>0, <1>10, <2>1, AllocationEffects DEF AcquireAllocation, ArenaTypeOK, PointerRefs
  <2> QED
    BY <1>0, <1>p, <1>10, <2>1, <2>2 DEF AcquireAllocation
<1>11. ASSUME NEW ref \in FinalFacets(h), AcquireFacetUse(h, ref)
       PROVE  ArenaTypeOK' /\ PoolTypeOK' /\ HoldTypeOK'
  BY <1>0, <1>a, <1>11, FinalTyped, BeginGpuUseTyped DEF AcquireFacetUse
<1>12. ASSUME FinishAcquire(h)
       PROVE  ArenaTypeOK' /\ PoolTypeOK' /\ HoldTypeOK'
  BY <1>0, <1>a, <1>p, <1>12 DEF FinishAcquire, Phases
<1>13. ASSUME RollBackAcquire(h)
       PROVE  ArenaTypeOK' /\ PoolTypeOK' /\ HoldTypeOK'
  BY <1>0, <1>13, ReleaseAllTyped DEF RollBackAcquire, Phases
<1>14. ASSUME Release(h)
       PROVE  ArenaTypeOK' /\ PoolTypeOK' /\ HoldTypeOK'
  BY <1>0, <1>14, ReleaseAllTyped DEF Release, Phases
<1>15. ASSUME Destroy(h)
       PROVE  ArenaTypeOK' /\ PoolTypeOK' /\ HoldTypeOK'
  BY <1>0, <1>15, ReleaseAllTyped DEF Destroy, Phases
<1> QED
  BY <1>1, <1>2, <1>3, <1>5, <1>6, <1>7, <1>8, <1>9, <1>10, <1>11, <1>12, <1>13, <1>14, <1>15
     DEF Submit

LEMMA NextTyped == TypeOK /\ [Next]_vars => TypeOK'
<1> SUFFICES ASSUME TypeOK, [Next]_vars PROVE TypeOK'
  OBVIOUS
<1>0. ArenaTypeOK /\ PoolTypeOK /\ HoldTypeOK
  BY TypeParts
<1>1. CASE \E h \in Holds : Submit(h)
  BY <1>1, SubmitTyped
<1>2. ASSUME NEW src \in Holds, NEW dst \in Holds, Move(src, dst)
      PROVE  TypeOK'
  <2>1. ArenaTypeOK' /\ PoolTypeOK'
    BY <1>0, <1>2, ReleaseAllTyped DEF Move
  <2>2. HoldTypeOK'
    BY <1>0, <1>2 DEF HoldTypeOK, Move, Moved, Phases
  <2> QED
    BY <2>1, <2>2 DEF TypeOK, HoldTypeOK
<1>3. ASSUME NEW k \in Scopes, NEW ref \in ActiveTokens, BeginGuard(k, ref)
      PROVE  TypeOK'
  <2>1. ref \in FacetRefs
    BY <1>0 DEF ActiveTokens, TokenOf, FacetRefs, PoolTypeOK, Slot
  <2>2. PoolTypeOK'
    BY <1>0, <1>3, BeginGpuUseTyped DEF BeginGuard
  <2> QED
    BY <1>3, <2>1, <2>2 DEF BeginGuard, TypeOK, arenaVars, ArenaTypeOK
<1>4. ASSUME NEW k \in Scopes, EndGuard(k)
      PROVE  TypeOK'
  <2>1. PoolTypeOK'
    BY <1>0, <1>4, EndGpuUseTyped DEF EndGuard
  <2> QED
    BY <1>4, <2>1 DEF EndGuard, TypeOK, arenaVars, ArenaTypeOK
<1>5. CASE CallArena
  <2>1. ArenaTypeOK'
    BY <1>0, <1>5, ArenaTyped DEF CallArena
  <2> QED
    BY <1>5, <2>1 DEF CallArena, TypeOK, poolVars, holdVars, PoolTypeOK
<1>6. CASE CallPool
  <2>1. PoolTypeOK'
    BY <1>0, <1>6, PoolTyped DEF CallPool
  <2> QED
    BY <1>6, <2>1 DEF CallPool, TypeOK, arenaVars, holdVars, ArenaTypeOK
<1>7. CASE UNCHANGED vars
  BY <1>7 DEF vars, arenaVars, poolVars, holdVars, TypeOK, ArenaTypeOK, PoolTypeOK
<1> QED
  BY <1>1, <1>2, <1>3, <1>4, <1>5, <1>6, <1>7 DEF Next

(* TypeOK holds in every reachable state of every instance: the counts of  *)
(* arena.h and facet.h are never decremented below zero and free_list_ is  *)
(* never popped when empty, whatever the number of holds and slots.        *)
THEOREM TypeCorrect == Spec => []TypeOK
  BY InitTyped, NextTyped, PTL DEF Spec

-----------------------------------------------------------------------------
(* That free_list_ is exact and that in-flight counts equal the holds and  *)
(* guards outstanding, and what follows: nothing a submission holds changes *)
(* underneath it.                                                          *)

(* free_list_ is exact, and the slots past slots_.size() are untouched.    *)
PoolShape(sl, n, fr) ==
  \A i \in SlotIds :
     /\ fr[i] = IF i < n /\ ~sl[i].active /\ sl[i].in_flight = 0 THEN 1 ELSE 0
     /\ i >= n => ~sl[i].active /\ sl[i].in_flight = 0

LEMMA SlotIdsAreNat == SlotIds \subseteq Nat
  BY DEF SlotIds

(* retire_slot() frees the index of an active slot only when no use of it  *)
(* is outstanding.                                                         *)
LEMMA RetireKeepsShape ==
  ASSUME NEW sl \in [SlotIds -> Slot], NEW n \in Nat, NEW fr \in [SlotIds -> Nat],
         PoolShape(sl, n, fr), NEW S, \A i \in S : i \in SlotIds /\ sl[i].active
  PROVE  PoolShape(SlotsRetired(sl, S), n, FreeAfterRetire(sl, fr, S))
<1> SUFFICES ASSUME NEW i \in SlotIds
             PROVE  /\ FreeAfterRetire(sl, fr, S)[i] =
                         IF /\ i < n /\ ~SlotsRetired(sl, S)[i].active
                            /\ SlotsRetired(sl, S)[i].in_flight = 0 THEN 1 ELSE 0
                    /\ i >= n => /\ ~SlotsRetired(sl, S)[i].active
                                 /\ SlotsRetired(sl, S)[i].in_flight = 0
  BY DEF PoolShape
<1>1. sl[i] \in Slot /\ fr[i] \in Nat /\ i \in Nat
  BY SlotIdsAreNat
<1>2. /\ fr[i] = IF i < n /\ ~sl[i].active /\ sl[i].in_flight = 0 THEN 1 ELSE 0
      /\ i >= n => ~sl[i].active /\ sl[i].in_flight = 0
  BY DEF PoolShape
<1>3. CASE i \in S
  <2>1. SlotsRetired(sl, S)[i].active = FALSE /\ SlotsRetired(sl, S)[i].in_flight = sl[i].in_flight
    BY <1>1, <1>3 DEF SlotsRetired, RetiredSlot, Slot
  <2>2. FreeAfterRetire(sl, fr, S)[i] = IF sl[i].in_flight = 0 THEN fr[i] + 1 ELSE fr[i]
    BY <1>3 DEF FreeAfterRetire
  <2>3. sl[i].active
    BY <1>3
  <2> QED
    BY <1>1, <1>2, <2>1, <2>2, <2>3
<1>4. CASE i \notin S
  BY <1>2, <1>4 DEF SlotsRetired, FreeAfterRetire
<1> QED
  BY <1>3, <1>4

(* acquire() takes an index from free_list_, or appends a slot.            *)
LEMMA PlaceKeepsShape ==
  ASSUME NEW as \in [AllocationIds -> Allocation], NEW sl \in [SlotIds -> Slot],
         NEW fr \in [SlotIds -> Nat], slotCount \in Nat, PoolShape(sl, slotCount, fr),
         NEW i \in SlotIds, Placeable(fr, i), NEW view, NEW kind
  PROVE  PoolShape(Placed(as, sl, i, view, kind), CountAfterPlace(fr, i), FreeAfterPlace(fr, i))
<1> DEFINE new == [UnusedSlot EXCEPT
       !.generation = sl[i].generation, !.active = TRUE, !.kind = kind, !.view = view,
       !.representation_epoch = as[view.allocation].representation_epoch]
           n == CountAfterPlace(fr, i)
<1>1. new.active = TRUE
  BY DEF UnusedSlot
<1>2. i \in Nat /\ fr[i] \in Nat
  BY SlotIdsAreNat
<1>3. i < n /\ n \in Nat /\ n >= slotCount
  BY <1>2 DEF Placeable, CountAfterPlace, PoolShape
<1>4. FreeAfterPlace(fr, i)[i] = 0
  BY <1>2 DEF FreeAfterPlace, PoolShape
<1> HIDE DEF new
<1>5. Placed(as, sl, i, view, kind) = [sl EXCEPT ![i] = new]
  BY DEF Placed, new
<1>6. ASSUME NEW j \in SlotIds, j # i
      PROVE  /\ Placed(as, sl, i, view, kind)[j] = sl[j]
             /\ FreeAfterPlace(fr, i)[j] = fr[j]
             /\ j < n <=> j < slotCount
  <2>1. j \in Nat
    BY SlotIdsAreNat
  <2>2. n = slotCount \/ (n = slotCount + 1 /\ i = slotCount)
    BY DEF CountAfterPlace, Placeable
  <2>3. j < n <=> j < slotCount
    BY <1>6, <2>1, <2>2, <1>2
  <2> QED
    BY <1>5, <1>6, <2>3 DEF FreeAfterPlace
<1>7. Placed(as, sl, i, view, kind)[i] = new
  BY <1>5
<1> HIDE DEF n
<1>8. ASSUME NEW j \in SlotIds
      PROVE  /\ FreeAfterPlace(fr, i)[j] =
                  IF j < n /\ ~Placed(as, sl, i, view, kind)[j].active
                           /\ Placed(as, sl, i, view, kind)[j].in_flight = 0 THEN 1 ELSE 0
             /\ j >= n => /\ ~Placed(as, sl, i, view, kind)[j].active
                          /\ Placed(as, sl, i, view, kind)[j].in_flight = 0
  <2>1. j \in Nat
    BY SlotIdsAreNat
  <2>2. CASE j = i
    <3>1. ~(i >= n)
      BY <1>2, <1>3
    <3>2. Placed(as, sl, i, view, kind)[i].active
      BY <1>1, <1>7
    <3> QED
      BY <1>4, <2>2, <3>1, <3>2
  <2>3. CASE j # i
    <3>1. (j < n <=> j < slotCount) /\ (j >= n <=> j >= slotCount)
      <4>1. j < n <=> j < slotCount
        BY <1>6, <2>3
      <4> QED
        BY <1>3, <2>1, <4>1
    <3>2. Placed(as, sl, i, view, kind)[j] = sl[j] /\ FreeAfterPlace(fr, i)[j] = fr[j]
      BY <1>6, <2>3
    <3>3. /\ fr[j] = IF j < slotCount /\ ~sl[j].active /\ sl[j].in_flight = 0 THEN 1 ELSE 0
          /\ j >= slotCount => ~sl[j].active /\ sl[j].in_flight = 0
      BY DEF PoolShape
    <3> QED
      BY <3>1, <3>2, <3>3
  <2> QED
    BY <2>2, <2>3
<1> QED
  BY <1>8 DEF PoolShape, n

(* begin_gpu_use() counts a use of an active slot, which is not free.      *)
LEMMA BeginKeepsShape ==
  ASSUME NEW sl \in [SlotIds -> Slot], NEW n \in Nat, NEW fr \in [SlotIds -> Nat],
         PoolShape(sl, n, fr), NEW S, \A ref \in S : sl[ref.index].active
  PROVE  PoolShape(UsesBegun(sl, S), n, fr)
<1> SUFFICES ASSUME NEW i \in SlotIds
             PROVE  /\ fr[i] = IF /\ i < n /\ ~UsesBegun(sl, S)[i].active
                                  /\ UsesBegun(sl, S)[i].in_flight = 0 THEN 1 ELSE 0
                    /\ i >= n => ~UsesBegun(sl, S)[i].active /\ UsesBegun(sl, S)[i].in_flight = 0
  BY DEF PoolShape
<1>1. sl[i] \in Slot
  OBVIOUS
<1>2. UsesBegun(sl, S)[i].active = sl[i].active
  BY <1>1 DEF UsesBegun, Slot
<1>3. (\E ref \in S : ref.index = i) \/ UsesBegun(sl, S)[i] = sl[i]
  BY DEF UsesBegun
<1> QED
  BY <1>2, <1>3 DEF PoolShape

(* end_gpu_use() frees the index of a retired slot with its last use.      *)
LEMMA EndKeepsShape ==
  ASSUME NEW sl \in [SlotIds -> Slot], NEW n \in Nat, NEW fr \in [SlotIds -> Nat],
         PoolShape(sl, n, fr), NEW S
  PROVE  PoolShape(UsesEnded(sl, S), n, FreeAfterEnd(sl, fr, S))
<1> SUFFICES ASSUME NEW i \in SlotIds
             PROVE  /\ FreeAfterEnd(sl, fr, S)[i] =
                         IF /\ i < n /\ ~UsesEnded(sl, S)[i].active
                            /\ UsesEnded(sl, S)[i].in_flight = 0 THEN 1 ELSE 0
                    /\ i >= n => ~UsesEnded(sl, S)[i].active /\ UsesEnded(sl, S)[i].in_flight = 0
  BY DEF PoolShape
<1>1. sl[i] \in Slot /\ sl[i].in_flight \in Nat /\ i \in Nat /\ fr[i] \in Nat
  BY SlotIdsAreNat DEF Slot
<1>2. CASE i \in EndingAt(sl, S)
  <2>1. sl[i].in_flight > 0
    BY <1>2 DEF EndingAt, Outstanding
  <2>2. /\ UsesEnded(sl, S)[i].active = sl[i].active
        /\ UsesEnded(sl, S)[i].in_flight = sl[i].in_flight - 1
    BY <1>1, <1>2 DEF UsesEnded, Slot
  <2>3. i < n /\ fr[i] = 0
    BY <1>1, <2>1 DEF PoolShape
  <2>4. FreeAfterEnd(sl, fr, S)[i] = IF sl[i].in_flight = 1 /\ ~sl[i].active THEN 1 ELSE 0
    BY <1>2, <2>3 DEF FreeAfterEnd
  <2> QED
    BY <1>1, <2>1, <2>2, <2>3, <2>4
<1>3. CASE i \notin EndingAt(sl, S)
  BY <1>3 DEF UsesEnded, FreeAfterEnd, PoolShape
<1> QED
  BY <1>2, <1>3

Shape == PoolShape(slots, slotCount, freeList)

LEMMA ShapeGivesFreeListExact == Shape => FreeListExact
  BY DEF Shape, PoolShape, FreeListExact

(* What a step does to the pool is one of its operations.                  *)
LEMMA PoolSteps ==
  ASSUME TypeOK, [Next]_vars
  PROVE  \/ UNCHANGED poolVars
         \/ PoolNext
         \/ \E ref \in FacetRefs : BeginGpuUse(ref)
         \/ \E S : EndGpuUse(S)
         \/ \E item \in Items, i \in SlotIds : PublishEpoch(item, i)
<1>0. ArenaTypeOK /\ PoolTypeOK /\ HoldTypeOK
  BY TypeParts
<1> DEFINE Goal == \/ UNCHANGED poolVars
                   \/ PoolNext
                   \/ \E ref \in FacetRefs : BeginGpuUse(ref)
                   \/ \E S : EndGpuUse(S)
                   \/ \E item \in Items, i \in SlotIds : PublishEpoch(item, i)
<1>1. ASSUME NEW h \in Holds, Submit(h) PROVE Goal
  <2>1. ASSUME NEW i \in SlotIds, FailItem(h, i) \/ CommitItem(h, i) PROVE Goal
    <3>1. NextItem(h) \in Items /\ PublishEpoch(NextItem(h), i)
      BY <2>1, NextItemTyped DEF FailItem, CommitItem
    <3> QED
      BY <3>1
  <2>2. ASSUME NEW ref \in FinalFacets(h), AcquireFacetUse(h, ref) PROVE Goal
    BY <2>2, FinalTyped DEF AcquireFacetUse
  <2>3. CASE Prepare(h)
    BY <2>3 DEF Prepare
  <2>4. CASE RollBackAcquire(h) \/ Release(h) \/ Destroy(h)
    BY <2>4 DEF RollBackAcquire, Release, Destroy, ReleaseAll
  <2> QED
    BY <1>1, <2>1, <2>2, <2>3, <2>4
       DEF Submit, Assemble, BeginCommit, RefuseItem, FinishCommit, BeginAcquire,
           AcquireAllocation, FinishAcquire
<1>2. ASSUME NEW src \in Holds, NEW dst \in Holds, Move(src, dst) PROVE Goal
  BY <1>2 DEF Move, ReleaseAll
<1>3. ASSUME NEW k \in Scopes, NEW ref \in ActiveTokens, BeginGuard(k, ref) PROVE Goal
  <2>1. ref \in FacetRefs
    BY <1>0 DEF ActiveTokens, TokenOf, FacetRefs, PoolTypeOK, Slot
  <2> QED
    BY <1>3, <2>1 DEF BeginGuard
<1>4. ASSUME NEW k \in Scopes, EndGuard(k) PROVE Goal
  BY <1>4 DEF EndGuard
<1>5. CASE CallArena \/ CallPool
  BY <1>5 DEF CallArena, CallPool
<1>6. CASE UNCHANGED vars
  BY <1>6 DEF vars
<1> QED
  BY <1>1, <1>2, <1>3, <1>4, <1>5, <1>6 DEF Next

LEMMA ShapePreserved ==
  ASSUME TypeOK, Shape, [Next]_vars
  PROVE  Shape'
<1> USE DEF Shape
<1>0. /\ ArenaTypeOK
      /\ slots \in [SlotIds -> Slot] /\ freeList \in [SlotIds -> Nat]
      /\ slotCount \in Nat
  BY DEF TypeOK, PoolTypeOK
<1>1. CASE UNCHANGED poolVars
  BY <1>1 DEF poolVars, PoolShape
<1>2. CASE PoolNext
  <2>1. ASSUME NEW view \in LiveRefs(allocations), NEW kind \in Kinds, NEW i \in SlotIds,
               AcquireFacet(view, kind, i)
        PROVE  Shape'
    BY <1>0, <2>1, PlaceKeepsShape DEF AcquireFacet, ArenaTypeOK
  <2>2. ASSUME NEW ref \in ActiveTokens, RetireFacet(ref)
        PROVE  Shape'
    <3>1. \A i \in {ref.index} : i \in SlotIds /\ slots[i].active
      BY DEF ActiveTokens, TokenOf
    <3> QED
      BY <1>0, <2>2, <3>1, RetireKeepsShape DEF RetireFacet
  <2>3. CASE RetireStale
    <3>1. \A i \in StaleSlots(allocations, slots) : i \in SlotIds /\ slots[i].active
      BY DEF StaleSlots
    <3> QED
      BY <1>0, <2>3, <3>1, RetireKeepsShape DEF RetireStale
  <2> QED
    BY <1>2, <2>1, <2>2, <2>3 DEF PoolNext
<1>3. ASSUME NEW ref \in FacetRefs, BeginGpuUse(ref) PROVE Shape'
  <2>1. \A r \in {ref} : slots[r.index].active
    BY <1>3 DEF BeginGpuUse, Resolves
  <2> QED
    BY <1>0, <1>3, <2>1, BeginKeepsShape DEF BeginGpuUse
<1>4. ASSUME NEW S, EndGpuUse(S) PROVE Shape'
  BY <1>0, <1>4, EndKeepsShape DEF EndGpuUse
<1>5. ASSUME NEW item \in Items, NEW i \in SlotIds, PublishEpoch(item, i) PROVE Shape'
  <2> DEFINE as == [allocations EXCEPT ![item.view.allocation] = Transformed(@)]
             S  == StaleSlots(as, slots)
             sl == SlotsRetired(slots, S)
             fr == FreeAfterRetire(slots, freeList, S)
  <2>1. item.view.allocation \in AllocationIds
    BY DEF Items, PointerRefs
  <2>2. as \in [AllocationIds -> Allocation]
    BY <1>0, <2>1, AllocationEffects DEF ArenaTypeOK
  <2>3. sl \in [SlotIds -> Slot] /\ fr \in [SlotIds -> Nat]
    BY <1>0, SlotEffects, FreeListEffects
  <2>4. \A j \in S : j \in SlotIds /\ slots[j].active
    BY DEF StaleSlots
  <2>5. PoolShape(sl, slotCount, fr)
    BY <1>0, <2>4, RetireKeepsShape
  <2>6. /\ Placeable(fr, i)
        /\ slots' = Placed(as, sl, i, item.view, item.kind)
        /\ freeList' = FreeAfterPlace(fr, i)
        /\ slotCount' = CountAfterPlace(fr, i)
    BY <1>5 DEF PublishEpoch
  <2> HIDE DEF as, S, sl, fr
  <2> QED
    BY <1>0, <2>2, <2>3, <2>5, <2>6, PlaceKeepsShape
<1> QED
  BY <1>1, <1>2, <1>3, <1>4, <1>5, PoolSteps

LEMMA InitShape == Init => Shape
  BY SlotIdsAreNat DEF Init, PoolInit, Shape, PoolShape, UnusedSlot

(* An index is in free_list_ once exactly when its slot may be reassigned, *)
(* in every reachable state of every instance: retire_slot() and           *)
(* end_gpu_use() never both free it and never both leave it to the other.  *)
THEOREM FreeListCorrect == Spec => []FreeListExact
<1>1. TypeOK /\ Shape /\ [Next]_vars => (TypeOK /\ Shape)'
  BY NextTyped, ShapePreserved
<1>2. Init => TypeOK /\ Shape
  BY InitTyped, InitShape
<1> QED
  BY <1>1, <1>2, ShapeGivesFreeListExact, PTL DEF Spec

----------------------------------------------------------------------------
(* The allocations.  What the holds say and what the arena counts agree,   *)
(* held references are live, and an id not handed out yet names nothing.   *)
Counted(as, held) ==
  \A id \in AllocationIds :
     as[id].in_flight =
       Cardinality({h \in Holds : \E ref \in held[h] : ref.allocation = id})

HeldLive(as, held) == \A h \in Holds : \A ref \in held[h] : Live(as, ref)

ArenaInv ==
  /\ Counted(allocations, heldAllocations)
  /\ HeldLive(allocations, heldAllocations)
  /\ \A id \in AllocationIds : id >= nextId => allocations[id].state = "Absent"

LEMMA SomeHoldsFinite ==
  ASSUME NEW T, T \subseteq Holds
  PROVE  IsFiniteSet(T)
  BY FS_Subset, HoldAssumption

(* An allocation with no use in flight is held by no submission.           *)
LEMMA NotHeld ==
  ASSUME NEW as, NEW held, Counted(as, held), NEW id \in AllocationIds, as[id].in_flight = 0
  PROVE  \A h \in Holds : \A ref \in held[h] : ref.allocation # id
<1> DEFINE H == {g \in Holds : \E r \in held[g] : r.allocation = id}
<1>1. Cardinality(H) = 0
  BY DEF Counted
<1>2. IsFiniteSet(H)
  BY SomeHoldsFinite
<1>3. H = {}
  BY <1>1, <1>2, FS_EmptySet
<1> QED
  BY <1>3

(* A step that leaves the holds alone, and changes an allocation's life    *)
(* only when it is not in flight, keeps the count and the held live.       *)
LEMMA ArenaInvKept ==
  ASSUME NEW as, NEW held, NEW new, Counted(as, held), HeldLive(as, held),
         held \in [Holds -> SUBSET PointerRefs],
         \A id \in AllocationIds :
            /\ new[id].in_flight = as[id].in_flight
            /\ as[id].in_flight # 0 =>
                 new[id].state = as[id].state /\ new[id].generation = as[id].generation
  PROVE  Counted(new, held) /\ HeldLive(new, held)
<1>1. Counted(new, held)
  BY DEF Counted
<1>2. ASSUME NEW h \in Holds, NEW ref \in held[h] PROVE Live(new, ref)
  <2>1. ref.allocation \in AllocationIds
    BY DEF PointerRefs
  <2>2. as[ref.allocation].in_flight # 0
    <3> SUFFICES ASSUME as[ref.allocation].in_flight = 0 PROVE FALSE
      OBVIOUS
    <3>1. \A g \in Holds : \A r \in held[g] : r.allocation # ref.allocation
      BY <2>1, NotHeld
    <3> QED
      BY <3>1
  <2> QED
    BY <2>1, <2>2 DEF HeldLive, Live
<1> QED
  BY <1>1, <1>2 DEF HeldLive

(* acquire() of one allocation the hold does not hold yet.                 *)
LEMMA AcquireKeepsArenaInv ==
  ASSUME ArenaTypeOK, HoldTypeOK, ArenaInv, NEW h \in Holds, NEW ref \in FinalAllocations(h),
         ref \in PointerRefs, AcquireAllocation(h, ref)
  PROVE  ArenaInv'
<1> DEFINE id == ref.allocation
<1>0. /\ id \in AllocationIds /\ allocations[id] \in Allocation
      /\ allocations \in [AllocationIds -> Allocation]
      /\ heldAllocations \in [Holds -> SUBSET PointerRefs]
  BY DEF ArenaTypeOK, HoldTypeOK, PointerRefs
<1>1. /\ Live(allocations, ref) /\ ref \notin heldAllocations[h]
      /\ allocations' = [allocations EXCEPT ![id] = Acquired(@)]
      /\ heldAllocations' = [heldAllocations EXCEPT ![h] = @ \cup {ref}]
      /\ nextId' = nextId
  BY DEF AcquireAllocation, FirstPending
<1>2. /\ allocations'[id].in_flight = allocations[id].in_flight + 1
      /\ allocations'[id].state = allocations[id].state
      /\ allocations'[id].generation = allocations[id].generation
      /\ \A other \in AllocationIds : other # id => allocations'[other] = allocations[other]
  BY <1>0, <1>1 DEF Acquired, Allocation
<1>3. ASSUME NEW r \in heldAllocations[h], r.allocation = id PROVE FALSE
  <2>1. Live(allocations, r) /\ r \in PointerRefs
    BY <1>0 DEF ArenaInv, HeldLive
  <2>2. r.generation = ref.generation
    BY <1>1, <1>3, <2>1 DEF Live
  <2>3. r = ref
    BY <1>3, <2>1, <2>2 DEF PointerRefs
  <2> QED
    BY <1>1, <2>3
<1> DEFINE H(held, i) == {g \in Holds : \E r \in held[g] : r.allocation = i}
<1>4. \A i \in AllocationIds : IsFiniteSet(H(heldAllocations, i))
  <2> SUFFICES ASSUME NEW i \in AllocationIds PROVE IsFiniteSet(H(heldAllocations, i))
    OBVIOUS
  <2> QED
    BY SomeHoldsFinite
<1>5. H(heldAllocations', id) = H(heldAllocations, id) \cup {h} /\ h \notin H(heldAllocations, id)
  BY <1>0, <1>1, <1>3
<1>6. Cardinality(H(heldAllocations', id)) = Cardinality(H(heldAllocations, id)) + 1
  BY <1>0, <1>4, <1>5, FS_AddElement
<1>7. \A i \in AllocationIds : i # id => H(heldAllocations', i) = H(heldAllocations, i)
  BY <1>0, <1>1
<1>8. Counted(allocations', heldAllocations')
  <2> SUFFICES ASSUME NEW i \in AllocationIds
               PROVE  allocations'[i].in_flight = Cardinality(H(heldAllocations', i))
    BY DEF Counted
  <2>1. allocations[i].in_flight = Cardinality(H(heldAllocations, i))
    BY DEF ArenaInv, Counted
  <2> HIDE DEF H
  <2> QED
    BY <1>2, <1>6, <1>7, <2>1
<1>9. HeldLive(allocations', heldAllocations')
  BY <1>0, <1>1, <1>2 DEF ArenaInv, HeldLive, Live, PointerRefs
<1>10. \A i \in AllocationIds : i >= nextId' => allocations'[i].state = "Absent"
  BY <1>1, <1>2 DEF ArenaInv
<1> QED
  BY <1>8, <1>9, <1>10 DEF ArenaInv

(* release() returns exactly one count for every allocation the hold held. *)
LEMMA ReleaseKeepsCount ==
  ASSUME ArenaTypeOK, HoldTypeOK, ArenaInv, NEW h \in Holds
  PROVE  LET new  == AllocationsReleased(heldAllocations[h])
             held == [heldAllocations EXCEPT ![h] = {}] IN
         /\ Counted(new, held)
         /\ HeldLive(new, held)
         /\ \A id \in AllocationIds : new[id].state = allocations[id].state
<1> DEFINE new  == AllocationsReleased(heldAllocations[h])
           held == [heldAllocations EXCEPT ![h] = {}]
           H(f, i) == {g \in Holds : \E r \in f[g] : r.allocation = i}
<1>0. /\ heldAllocations \in [Holds -> SUBSET PointerRefs]
      /\ allocations \in [AllocationIds -> Allocation]
  BY DEF ArenaTypeOK, HoldTypeOK
<1>1. ASSUME NEW i \in AllocationIds
      PROVE  /\ new[i].in_flight = Cardinality(H(held, i))
             /\ new[i].state = allocations[i].state
             /\ new[i].generation = allocations[i].generation
  <2>1. allocations[i] \in Allocation /\ allocations[i].in_flight = Cardinality(H(heldAllocations, i))
    BY <1>0 DEF ArenaInv, Counted
  <2>2. IsFiniteSet(H(heldAllocations, i))
    BY SomeHoldsFinite
  <2>3. CASE h \in H(heldAllocations, i)
    <3>1. PICK ref \in heldAllocations[h] : ref.allocation = i
      BY <2>3
    <3>2. allocations[i].in_flight # 0
      BY <2>1, <2>2, <2>3, FS_EmptySet
    <3>3. Releasable(allocations, ref)
      BY <2>1, <3>1, <3>2 DEF ArenaInv, HeldLive, Releasable, Allocation
    <3>4. new[i] = Released(allocations[i])
      BY <3>1, <3>3 DEF AllocationsReleased
    <3>5. /\ new[i].in_flight = allocations[i].in_flight - 1
          /\ new[i].state = allocations[i].state
          /\ new[i].generation = allocations[i].generation
      BY <2>1, <3>4 DEF Released, Allocation
    <3>6. H(held, i) = H(heldAllocations, i) \ {h}
      BY <1>0
    <3>7. Cardinality(H(held, i)) = Cardinality(H(heldAllocations, i)) - 1
      BY <2>2, <2>3, <3>6, FS_RemoveElement
    <3> QED
      BY <2>1, <3>5, <3>7
  <2>4. CASE h \notin H(heldAllocations, i)
    <3>1. new[i] = allocations[i]
      BY <2>4 DEF AllocationsReleased
    <3>2. H(held, i) = H(heldAllocations, i)
      BY <1>0, <2>4
    <3> QED
      BY <2>1, <3>1, <3>2
  <2> QED
    BY <2>3, <2>4
<1>2. Counted(new, held)
  BY <1>1 DEF Counted
<1>3. ASSUME NEW g \in Holds, NEW ref \in held[g] PROVE Live(new, ref)
  <2>1. ref \in heldAllocations[g] /\ ref.allocation \in AllocationIds
    BY <1>0 DEF PointerRefs
  <2>2. Live(allocations, ref)
    BY <2>1 DEF ArenaInv, HeldLive
  <2> QED
    BY <1>1, <2>1, <2>2 DEF Live
<1>4. HeldLive(new, held)
  BY <1>3 DEF HeldLive
<1> QED
  BY <1>1, <1>2, <1>4

(* Handing a hold's references to an empty hold changes no count.          *)
LEMMA MoveKeepsCount ==
  ASSUME NEW as, NEW held \in [Holds -> SUBSET PointerRefs], Counted(as, held), HeldLive(as, held),
         NEW src \in Holds, NEW dst \in Holds, src # dst, held[dst] = {}
  PROVE  LET moved == Moved(held, src, dst, {}) IN Counted(as, moved) /\ HeldLive(as, moved)
<1> DEFINE moved == Moved(held, src, dst, {})
           H(f, i) == {g \in Holds : \E r \in f[g] : r.allocation = i}
<1>1. /\ moved[dst] = held[src] /\ moved[src] = {}
      /\ \A g \in Holds : g # src /\ g # dst => moved[g] = held[g]
  BY DEF Moved
<1>2. ASSUME NEW i \in AllocationIds
      PROVE  Cardinality(H(moved, i)) = Cardinality(H(held, i))
  <2>1. IsFiniteSet(H(held, i)) /\ dst \notin H(held, i)
    BY SomeHoldsFinite
  <2>2. CASE src \in H(held, i)
    <3>1. H(moved, i) = (H(held, i) \ {src}) \cup {dst}
      BY <1>1, <2>1, <2>2
    <3> HIDE DEF H
    <3>2. IsFiniteSet(H(held, i) \ {src}) /\ dst \notin H(held, i) \ {src}
      BY <2>1, FS_RemoveElement
    <3>3. Cardinality(H(moved, i)) = Cardinality(H(held, i) \ {src}) + 1
      BY <3>1, <3>2, FS_AddElement
    <3>4. Cardinality(H(held, i) \ {src}) = Cardinality(H(held, i)) - 1
      BY <2>1, <2>2, FS_RemoveElement
    <3>5. Cardinality(H(held, i)) \in Nat
      BY <2>1, FS_CardinalityType
    <3> QED
      BY <3>3, <3>4, <3>5
  <2>3. CASE src \notin H(held, i)
    <3>1. H(moved, i) = H(held, i)
      BY <1>1, <2>1, <2>3
    <3> QED
      BY <3>1
  <2> QED
    BY <2>2, <2>3
<1>3. Counted(as, moved)
  BY <1>2 DEF Counted
<1>4. HeldLive(as, moved)
  BY <1>1 DEF HeldLive
<1> QED
  BY <1>3, <1>4

(* Only a live allocation has uses in flight.                              *)
LEMMA OnlyLiveInFlight ==
  ASSUME NEW as, NEW held, Counted(as, held), HeldLive(as, held), NEW id \in AllocationIds,
         as[id].state # "Active"
  PROVE  as[id].in_flight = 0
<1> DEFINE H == {g \in Holds : \E r \in held[g] : r.allocation = id}
<1>1. H = {}
  BY DEF HeldLive, Live
<1> QED
  BY <1>1, FS_EmptySet DEF Counted

(* What a call does to an allocation in flight, or to one that is not.     *)
Untouched(new) ==
  \A id \in AllocationIds :
     /\ new[id].in_flight = allocations[id].in_flight
     /\ allocations[id].in_flight # 0 =>
          \A field \in {"generation", "state", "representation_epoch", "backed"} :
             new[id][field] = allocations[id][field]

LEMMA UntouchedKeepsArenaInv ==
  ASSUME HoldTypeOK, ArenaInv, Untouched(allocations'), heldAllocations' = heldAllocations,
         \A id \in AllocationIds : id >= nextId' => allocations'[id].state = "Absent"
  PROVE  ArenaInv'
<1>1. \A id \in AllocationIds :
         /\ allocations'[id].in_flight = allocations[id].in_flight
         /\ allocations[id].in_flight # 0 =>
              /\ allocations'[id].state = allocations[id].state
              /\ allocations'[id].generation = allocations[id].generation
  BY DEF Untouched
<1>2. Counted(allocations', heldAllocations) /\ HeldLive(allocations', heldAllocations)
  BY <1>1, ArenaInvKept DEF ArenaInv, HoldTypeOK
<1> QED
  BY <1>2 DEF ArenaInv

(* One allocation not in flight is replaced by one that is not either.     *)
LEMMA ReplacedUntouched ==
  ASSUME ArenaTypeOK, NEW id \in AllocationIds, allocations[id].in_flight = 0,
         NEW a, a.in_flight = 0
  PROVE  Untouched([allocations EXCEPT ![id] = a])
  BY DEF Untouched, ArenaTypeOK

(* No call of the arena changes an allocation in flight.                   *)
LEMMA ArenaCallUntouched ==
  ASSUME ArenaTypeOK, ArenaInv, ArenaNext
  PROVE  /\ Untouched(allocations')
         /\ \A id \in AllocationIds : id >= nextId' => allocations'[id].state = "Absent"
<1> DEFINE Goal == /\ Untouched(allocations')
                   /\ \A id \in AllocationIds : id >= nextId' => allocations'[id].state = "Absent"
<1>0. /\ allocations \in [AllocationIds -> Allocation] /\ nextId \in Nat \ {0}
      /\ AllocationIds \subseteq Nat
  BY DEF ArenaTypeOK, AllocationIds
<1>1. CASE Allocate
  <2>1. nextId \in AllocationIds /\ allocations[nextId].state = "Absent"
    BY <1>0, <1>1, ArenaAssumption DEF Allocate, ArenaInv, AllocationIds
  <2>2. allocations[nextId].in_flight = 0
    BY <2>1, OnlyLiveInFlight DEF ArenaInv
  <2>3. Untouched(allocations')
    BY <1>1, <2>1, <2>2, ReplacedUntouched DEF Allocate, FreshAllocation
  <2>4. ASSUME NEW id \in AllocationIds, id >= nextId' PROVE allocations'[id].state = "Absent"
    <3>1. id # nextId /\ id >= nextId
      BY <1>0, <1>1, <2>4 DEF Allocate
    <3>2. allocations'[id] = allocations[id]
      BY <1>0, <1>1, <3>1 DEF Allocate
    <3> QED
      BY <3>1, <3>2 DEF ArenaInv
  <2> QED
    BY <2>3, <2>4
<1>2. ASSUME NEW i \in Imports, ImportAllocation(i) PROVE Goal
  <2>1. i.allocation \in AllocationIds
    BY ArenaAssumption
  <2>2. allocations[i.allocation].in_flight = 0
    BY <1>2, <2>1, OnlyLiveInFlight DEF ArenaInv, ImportAllocation
  <2> DEFINE new == [FreshAllocation EXCEPT !.generation = i.generation,
                      !.representation_epoch = i.representation_epoch, !.state = i.state]
  <2>3. new.in_flight = 0
    BY DEF FreshAllocation
  <2> HIDE DEF new
  <2>4. allocations' = [allocations EXCEPT ![i.allocation] = new]
    BY <1>2 DEF ImportAllocation, new
  <2>5. Untouched(allocations')
    BY <2>1, <2>2, <2>3, <2>4, ReplacedUntouched
  <2>6. ASSUME NEW id \in AllocationIds, id >= nextId' PROVE allocations'[id].state = "Absent"
    <3>1. id # i.allocation /\ id >= nextId
      BY <1>0, <1>2, <2>1, <2>6 DEF ImportAllocation
    <3> QED
      BY <1>0, <2>4, <3>1 DEF ArenaInv
  <2> QED
    BY <2>5, <2>6
<1>3. ASSUME NEW ref \in LiveRefs(allocations),
             \/ Retire(ref) \/ Transform(ref) \/ ReleaseRepresentation(ref)
             \/ ConsumeRepresentation(ref) \/ Consume(ref)
      PROVE  Goal
  <2> DEFINE id == ref.allocation
             a  == allocations[id]
  <2>0. id \in AllocationIds /\ a \in Allocation
    BY <1>0, LiveRefsTyped DEF PointerRefs
  <2>1. a.state = "Active" /\ nextId' = nextId
    BY <1>3 DEF Retire, Transform, ReleaseRepresentation, ConsumeRepresentation, Consume,
                CanTransform, Live
  <2>2. Untouched(allocations')
    <3>1. CASE ReleaseRepresentation(ref)
      BY <1>0, <2>0, <3>1 DEF ReleaseRepresentation, Untouched, Allocation
    <3>2. CASE ~ReleaseRepresentation(ref)
      <4>1. a.in_flight = 0
        BY <1>3, <3>2 DEF Retire, Transform, ConsumeRepresentation, Consume, CanTransform
      <4>2. /\ Retired(a).in_flight = 0 /\ Transformed(a).in_flight = 0
            /\ RepresentationConsumed(a).in_flight = 0 /\ ObjectConsumed(a).in_flight = 0
        BY <2>0, <4>1 DEF Retired, Transformed, RepresentationConsumed, ObjectConsumed, Allocation
      <4>3. \E b : b.in_flight = 0 /\ allocations' = [allocations EXCEPT ![id] = b]
        BY <1>3, <3>2, <4>2 DEF Retire, Transform, ConsumeRepresentation, Consume
      <4> QED
        BY <2>0, <4>1, <4>3, ReplacedUntouched
    <3> QED
      BY <3>1, <3>2
  <2>3. ASSUME NEW k \in AllocationIds, k >= nextId' PROVE allocations'[k].state = "Absent"
    <3>1. k # id
      BY <2>1, <2>3 DEF ArenaInv
    <3>2. allocations'[k] = allocations[k]
      BY <1>0, <1>3, <3>1 DEF Retire, Transform, ReleaseRepresentation, ConsumeRepresentation, Consume
    <3> QED
      BY <2>1, <2>3, <3>2 DEF ArenaInv
  <2> QED
    BY <2>2, <2>3
<1> QED
  BY <1>1, <1>2, <1>3 DEF ArenaNext

(* A commit transforms only an allocation that is not in flight.           *)
LEMMA CommitUntouched ==
  ASSUME TypeOK, ArenaInv, NEW h \in Holds, NEW i \in SlotIds, FailItem(h, i) \/ CommitItem(h, i)
  PROVE  /\ Untouched(allocations')
         /\ \A id \in AllocationIds : id >= nextId' => allocations'[id].state = "Absent"
<1> DEFINE id == NextItem(h).view.allocation
           a  == allocations[id]
<1>0. /\ ArenaTypeOK
      /\ allocations \in [AllocationIds -> Allocation]
      /\ NextItem(h) \in Items
  BY NextItemTyped DEF TypeOK, ArenaTypeOK, FailItem, CommitItem
<1>1. id \in AllocationIds /\ a \in Allocation
  BY <1>0 DEF Items, PointerRefs
<1>2. a.in_flight = 0 /\ a.state = "Active" /\ nextId' = nextId
  BY DEF FailItem, CommitItem, Admissible, CanTransform, Live, PublishEpoch
<1>3. Transformed(a).in_flight = 0 /\ RepresentationConsumed(Transformed(a)).in_flight = 0
  <2>1. Transformed(a) \in Allocation
    BY <1>1, AllocationEffects
  <2> QED
    BY <1>1, <1>2, <2>1 DEF Transformed, RepresentationConsumed, Allocation
<1>4. PICK b : b.in_flight = 0 /\ allocations' = [allocations EXCEPT ![id] = b]
  BY <1>3 DEF FailItem, CommitItem
<1>5. Untouched(allocations')
  <2> HIDE DEF id
  <2>1. Untouched([allocations EXCEPT ![id] = b])
    BY <1>0, <1>1, <1>2, <1>4, ReplacedUntouched
  <2> QED
    BY <1>4, <2>1
<1>6. ASSUME NEW k \in AllocationIds, k >= nextId' PROVE allocations'[k].state = "Absent"
  <2>1. k # id
    BY <1>2, <1>6 DEF ArenaInv
  <2> QED
    BY <1>0, <1>2, <1>4, <1>6, <2>1 DEF ArenaInv
<1> QED
  BY <1>5, <1>6

AllocationsStable ==
  \A h \in Holds : \A ref \in HeldAfter(h) :
     \A field \in {"generation", "state", "representation_epoch", "backed"} :
        allocations'[ref.allocation][field] = allocations[ref.allocation][field]

LEMMA UntouchedIsStable ==
  ASSUME TypeOK, ArenaInv, Untouched(allocations')
  PROVE  AllocationsStable
<1> SUFFICES ASSUME NEW h \in Holds, NEW ref \in heldAllocations[h]
             PROVE  \A field \in {"generation", "state", "representation_epoch", "backed"} :
                      allocations'[ref.allocation][field] = allocations[ref.allocation][field]
  BY DEF AllocationsStable, HeldAfter
<1>1. ref.allocation \in AllocationIds
  BY DEF TypeOK, PointerRefs
<1>2. CASE allocations[ref.allocation].in_flight = 0
  BY <1>1, <1>2, NotHeld DEF ArenaInv
<1>3. CASE allocations[ref.allocation].in_flight # 0
  BY <1>1, <1>3 DEF Untouched
<1> QED
  BY <1>2, <1>3

(* release() changes nothing of an allocation but its in-flight count.     *)
LEMMA ReleaseIsStable ==
  ASSUME TypeOK, NEW h \in Holds, allocations' = AllocationsReleased(heldAllocations[h])
  PROVE  AllocationsStable
<1> SUFFICES ASSUME NEW g \in Holds, NEW ref \in heldAllocations[g]
             PROVE  \A field \in {"generation", "state", "representation_epoch", "backed"} :
                      allocations'[ref.allocation][field] = allocations[ref.allocation][field]
  BY DEF AllocationsStable, HeldAfter
<1>1. ref.allocation \in AllocationIds /\ allocations[ref.allocation] \in Allocation
  BY DEF TypeOK, ArenaTypeOK, PointerRefs
<1>2. \/ allocations'[ref.allocation] = allocations[ref.allocation]
      \/ allocations'[ref.allocation] = Released(allocations[ref.allocation])
  BY <1>1 DEF AllocationsReleased
<1> QED
  BY <1>1, <1>2 DEF Released, Allocation

LEMMA ArenaStep ==
  ASSUME TypeOK, ArenaInv, [Next]_vars
  PROVE  ArenaInv' /\ AllocationsStable
<1>0. ArenaTypeOK /\ PoolTypeOK /\ HoldTypeOK
  BY TypeParts
<1> DEFINE Goal == ArenaInv' /\ AllocationsStable
<1>1. ASSUME UNCHANGED <<allocations, nextId, heldAllocations>> PROVE Goal
  BY <1>1, UntouchedIsStable DEF ArenaInv, Counted, HeldLive, Live, Untouched
<1>2. ASSUME NEW h \in Holds, allocations' = AllocationsReleased(heldAllocations[h]),
             nextId' = nextId, heldAllocations' = [heldAllocations EXCEPT ![h] = {}]
      PROVE  Goal
  <2>1. /\ Counted(allocations', heldAllocations') /\ HeldLive(allocations', heldAllocations')
        /\ \A id \in AllocationIds : allocations'[id].state = allocations[id].state
    BY <1>0, <1>2, ReleaseKeepsCount
  <2> QED
    BY <1>2, <2>1, ReleaseIsStable DEF ArenaInv
<1>3. ASSUME NEW h \in Holds, Submit(h) PROVE Goal
  <2>1. ASSUME NEW i \in SlotIds, FailItem(h, i) \/ CommitItem(h, i) PROVE Goal
    <3>1. heldAllocations' = heldAllocations
      BY <2>1 DEF FailItem, CommitItem
    <3> QED
      BY <1>0, <2>1, <3>1, CommitUntouched, UntouchedKeepsArenaInv, UntouchedIsStable
  <2>2. ASSUME NEW ref \in FinalAllocations(h), AcquireAllocation(h, ref) PROVE Goal
    <3>1. ref \in PointerRefs
      BY FinalTyped
    <3>2. ArenaInv'
      BY <1>0, <2>2, <3>1, AcquireKeepsArenaInv
    <3>3. AllocationsStable
      <4> SUFFICES ASSUME NEW g \in Holds, NEW r \in heldAllocations[g]
                   PROVE  \A field \in {"generation", "state", "representation_epoch", "backed"} :
                            allocations'[r.allocation][field] = allocations[r.allocation][field]
        BY DEF AllocationsStable, HeldAfter
      <4>1. r.allocation \in AllocationIds /\ allocations[r.allocation] \in Allocation
        BY DEF TypeOK, ArenaTypeOK, PointerRefs
      <4>2. \/ allocations'[r.allocation] = allocations[r.allocation]
            \/ allocations'[r.allocation] = Acquired(allocations[r.allocation])
        BY <1>0, <2>2, <3>1, <4>1 DEF AcquireAllocation, ArenaTypeOK, PointerRefs
      <4> QED
        BY <4>1, <4>2 DEF Acquired, Allocation
    <3> QED
      BY <3>2, <3>3
  <2>3. CASE RollBackAcquire(h) \/ Release(h) \/ Destroy(h)
    BY <1>2, <2>3 DEF RollBackAcquire, Release, Destroy, ReleaseAll
  <2>4. CASE \/ \E touched \in UpTo(MaxUses, LiveRefs(allocations)),
                  facets \in UpTo(MaxUses, PlannableFacets), items \in ItemLists :
                    Assemble(h, touched, facets, items)
             \/ Prepare(h) \/ BeginCommit(h) \/ RefuseItem(h) \/ FinishCommit(h)
             \/ BeginAcquire(h) \/ FinishAcquire(h)
             \/ \E ref \in FinalFacets(h) : AcquireFacetUse(h, ref)
    <3>1. UNCHANGED <<allocations, nextId, heldAllocations>>
      BY <2>4 DEF Assemble, Prepare, BeginCommit, RefuseItem, FinishCommit, BeginAcquire,
                  FinishAcquire, AcquireFacetUse, arenaVars
    <3> QED
      BY <1>1, <3>1
  <2> QED
    BY <1>3, <2>1, <2>2, <2>3, <2>4 DEF Submit
<1>4. ASSUME NEW src \in Holds, NEW dst \in Holds, Move(src, dst) PROVE Goal
  <2> DEFINE mid == [heldAllocations EXCEPT ![dst] = {}]
  <2>1. /\ allocations' = AllocationsReleased(heldAllocations[dst]) /\ nextId' = nextId
        /\ src # dst /\ heldAllocations' = Moved(heldAllocations, src, dst, {})
    BY <1>4 DEF Move, ReleaseAll
  <2>2. /\ Counted(allocations', mid) /\ HeldLive(allocations', mid)
        /\ \A id \in AllocationIds : allocations'[id].state = allocations[id].state
    BY <1>0, <2>1, ReleaseKeepsCount
  <2>3. mid \in [Holds -> SUBSET PointerRefs] /\ mid[dst] = {}
    BY <1>0 DEF HoldTypeOK
  <2>4. heldAllocations' = Moved(mid, src, dst, {})
    BY <1>0, <2>1 DEF Moved, HoldTypeOK
  <2> HIDE DEF mid
  <2>5. Counted(allocations', heldAllocations') /\ HeldLive(allocations', heldAllocations')
    BY <2>1, <2>2, <2>3, <2>4, MoveKeepsCount
  <2>6. AllocationsStable
    BY <2>1, ReleaseIsStable
  <2> QED
    BY <2>1, <2>2, <2>5, <2>6 DEF ArenaInv
<1>5. ASSUME NEW k \in Scopes, EndGuard(k) \/ \E ref \in ActiveTokens : BeginGuard(k, ref) PROVE Goal
  <2>1. UNCHANGED <<allocations, nextId, heldAllocations>>
    BY <1>5 DEF EndGuard, BeginGuard, arenaVars
  <2> QED
    BY <1>1, <2>1
<1>6. CASE CallArena
  <2>1. heldAllocations' = heldAllocations /\ ArenaNext
    BY <1>6 DEF CallArena, holdVars
  <2> QED
    BY <1>0, <2>1, ArenaCallUntouched, UntouchedKeepsArenaInv, UntouchedIsStable
<1>7. CASE CallPool \/ UNCHANGED vars
  <2>1. UNCHANGED <<allocations, nextId, heldAllocations>>
    BY <1>7 DEF CallPool, vars, arenaVars, holdVars
  <2> QED
    BY <1>1, <2>1
<1> QED
  BY <1>3, <1>4, <1>5, <1>6, <1>7 DEF Next

LEMMA InitArenaInv == Init => ArenaInv
<1> SUFFICES ASSUME Init PROVE ArenaInv
  OBVIOUS
<1>1. ASSUME NEW id \in AllocationIds
      PROVE  {h \in Holds : \E ref \in heldAllocations[h] : ref.allocation = id} = {}
  BY DEF Init
<1>2. Counted(allocations, heldAllocations)
  BY <1>1, FS_EmptySet DEF Counted, Init, ArenaInit, NoAllocation
<1> QED
  BY <1>2 DEF ArenaInv, HeldLive, Init, ArenaInit, NoAllocation

----------------------------------------------------------------------------
(* The facets.  What the holds and guards say and what the pool counts     *)
(* agree, and each of their uses is found by end_gpu_use().                *)
FacetHolders(held, i) == {h \in Holds : \E ref \in held[h] : ref.index = i}

FacetGuards(g, i) == {k \in Scopes : g[k] # NoFacet /\ g[k].index = i}

UsesCounted(sl, held, g) ==
  \A i \in SlotIds :
     sl[i].in_flight = Cardinality(FacetHolders(held, i)) + Cardinality(FacetGuards(g, i))

UsesOutstanding(sl, held, g) ==
  /\ \A h \in Holds : \A ref \in held[h] : Outstanding(sl, ref)
  /\ \A k \in Scopes : g[k] # NoFacet => Outstanding(sl, g[k])

(* The uses of an active slot were begun under its current generation.     *)
UsesCurrent(sl) ==
  \A i \in SlotIds :
     sl[i].active /\ sl[i].in_flight # 0 => sl[i].in_flight_generation = sl[i].generation

FacetInv ==
  /\ UsesCounted(slots, heldFacets, guard)
  /\ UsesOutstanding(slots, heldFacets, guard)
  /\ UsesCurrent(slots)

LEMMA HoldersFinite ==
  ASSUME NEW held, NEW g, NEW i
  PROVE  /\ IsFiniteSet(FacetHolders(held, i)) /\ Cardinality(FacetHolders(held, i)) \in Nat
         /\ IsFiniteSet(FacetGuards(g, i)) /\ Cardinality(FacetGuards(g, i)) \in Nat
<1>1. IsFiniteSet(FacetHolders(held, i))
  BY SomeHoldsFinite DEF FacetHolders
<1>2. IsFiniteSet(FacetGuards(g, i))
  <2>1. FacetGuards(g, i) \subseteq Scopes
    BY DEF FacetGuards
  <2> QED
    BY <2>1, FS_Subset, HoldAssumption
<1> QED
  BY <1>1, <1>2, FS_CardinalityType

(* What a step that begins and ends no use leaves of a slot.               *)
SlotKept(s, t) ==
  /\ t.in_flight = s.in_flight
  /\ s.in_flight # 0 =>
       /\ t.in_flight_generation = s.in_flight_generation
       /\ t.view = s.view /\ t.kind = s.kind /\ t.representation_epoch = s.representation_epoch
       /\ t.active => s.active /\ t.generation = s.generation

Kept(sl, new) == \A i \in SlotIds : SlotKept(sl[i], new[i])

LEMMA KeptTransitive ==
  ASSUME NEW a, NEW b, NEW c, Kept(a, b), Kept(b, c)
  PROVE  Kept(a, c)
  BY DEF Kept, SlotKept

LEMMA RetireKept ==
  ASSUME NEW sl \in [SlotIds -> Slot], NEW S
  PROVE  Kept(sl, SlotsRetired(sl, S))
<1> SUFFICES ASSUME NEW i \in SlotIds PROVE SlotKept(sl[i], SlotsRetired(sl, S)[i])
  BY DEF Kept
<1>1. sl[i] \in Slot
  OBVIOUS
<1>2. SlotKept(sl[i], RetiredSlot(sl[i])) /\ SlotKept(sl[i], sl[i])
  BY <1>1 DEF SlotKept, RetiredSlot, Slot
<1> QED
  BY <1>2 DEF SlotsRetired

(* acquire() reassigns only a slot that has no use outstanding.            *)
LEMMA PlaceKept ==
  ASSUME NEW as, NEW sl \in [SlotIds -> Slot], NEW fr \in [SlotIds -> Nat], slotCount \in Nat,
         PoolShape(sl, slotCount, fr), NEW i \in SlotIds, Placeable(fr, i), NEW view, NEW kind
  PROVE  Kept(sl, Placed(as, sl, i, view, kind))
<1>1. sl[i].in_flight = 0
  <2>1. CASE fr[i] > 0
    BY <2>1 DEF PoolShape
  <2>2. CASE ~(fr[i] > 0)
    <3>1. i = slotCount
      BY <2>2 DEF Placeable
    <3> QED
      BY <3>1 DEF PoolShape
  <2> QED
    BY <2>1, <2>2
<1> DEFINE new == [UnusedSlot EXCEPT
       !.generation = sl[i].generation, !.active = TRUE, !.kind = kind, !.view = view,
       !.representation_epoch = as[view.allocation].representation_epoch]
<1>2. new.in_flight = 0
  BY DEF UnusedSlot
<1> HIDE DEF new
<1>3. Placed(as, sl, i, view, kind) = [sl EXCEPT ![i] = new]
  BY DEF Placed, new
<1> QED
  BY <1>1, <1>2, <1>3 DEF Kept, SlotKept

(* Such a step keeps the counts and the uses outstanding.                  *)
LEMMA KeptKeepsFacetInv ==
  ASSUME FacetInv, HoldTypeOK, Kept(slots, slots'), UNCHANGED <<heldFacets, guard>>
  PROVE  FacetInv'
<1>1. UsesCounted(slots', heldFacets, guard)
  BY DEF FacetInv, UsesCounted, Kept, SlotKept
<1>2. ASSUME NEW ref \in FacetRefs, Outstanding(slots, ref), slots[ref.index].in_flight # 0
      PROVE  Outstanding(slots', ref)
  <2>1. ref.index \in SlotIds
    BY DEF FacetRefs
  <2> QED
    BY <1>2, <2>1 DEF Kept, SlotKept, Outstanding
<1>3. ASSUME NEW ref \in FacetRefs, Outstanding(slots, ref) PROVE slots[ref.index].in_flight # 0
  BY <1>3 DEF Outstanding
<1>4. UsesOutstanding(slots', heldFacets, guard)
  BY <1>2, <1>3 DEF FacetInv, UsesOutstanding, HoldTypeOK
<1>5. UsesCurrent(slots')
  BY DEF FacetInv, UsesCurrent, Kept, SlotKept
<1> QED
  BY <1>1, <1>4, <1>5 DEF FacetInv

FacetsStable ==
  \A h \in Holds : \A ref \in heldFacets[h] \cap heldFacets'[h] :
     \A field \in {"view", "kind", "representation_epoch"} :
        slots'[ref.index][field] = slots[ref.index][field]

LEMMA KeptIsStable ==
  ASSUME TypeOK, FacetInv, Kept(slots, slots')
  PROVE  FacetsStable
<1> SUFFICES ASSUME NEW h \in Holds, NEW ref \in heldFacets[h]
             PROVE  /\ slots'[ref.index].view = slots[ref.index].view
                    /\ slots'[ref.index].kind = slots[ref.index].kind
                    /\ slots'[ref.index].representation_epoch = slots[ref.index].representation_epoch
  BY DEF FacetsStable
<1>1. ref.index \in SlotIds /\ slots[ref.index].in_flight > 0
  BY DEF TypeOK, FacetRefs, FacetInv, UsesOutstanding, Outstanding
<1> QED
  BY <1>1 DEF Kept, SlotKept

(* What begin_gpu_use() of an active facet does to the slots.              *)
LEMMA BeginEffect ==
  ASSUME PoolTypeOK, UsesCurrent(slots), NEW ref \in FacetRefs, BeginGpuUse(ref)
  PROVE  /\ slots'[ref.index].in_flight = slots[ref.index].in_flight + 1
         /\ \A i \in SlotIds : i # ref.index => slots'[i] = slots[i]
         /\ \A r \in FacetRefs : Outstanding(slots, r) => Outstanding(slots', r)
         /\ \A r \in FacetRefs : Outstanding(slots, r) /\ r.index = ref.index => r = ref
         /\ Outstanding(slots', ref)
         /\ UsesCurrent(slots')
         /\ \A i \in SlotIds : /\ slots'[i].view = slots[i].view /\ slots'[i].kind = slots[i].kind
                                /\ slots'[i].representation_epoch = slots[i].representation_epoch
<1> DEFINE k == ref.index
           uses == slots[k].in_flight + 1
<1>0. k \in SlotIds /\ slots[k] \in Slot /\ slots \in [SlotIds -> Slot]
  BY DEF FacetRefs, PoolTypeOK
<1>1. slots[k].active /\ slots[k].generation = ref.generation
  BY DEF BeginGpuUse, Resolves
<1>2. /\ slots'[k] = [slots[k] EXCEPT !.in_flight = @ + 1, !.in_flight_generation = slots[k].generation]
      /\ \A i \in SlotIds : i # k => slots'[i] = slots[i]
  BY <1>0 DEF BeginGpuUse, UsesBegun
<1>3. /\ slots'[k].in_flight = slots[k].in_flight + 1
      /\ slots'[k].in_flight_generation = ref.generation
      /\ slots'[k].generation = slots[k].generation
      /\ slots'[k].view = slots[k].view /\ slots'[k].kind = slots[k].kind
      /\ slots'[k].representation_epoch = slots[k].representation_epoch
  BY <1>0, <1>1, <1>2 DEF Slot
<1>4. slots[k].in_flight \in Nat
  BY <1>0 DEF Slot
<1>5. ASSUME NEW r \in FacetRefs, Outstanding(slots, r), r.index = k PROVE r = ref
  <2>1. slots[k].in_flight # 0 /\ slots[k].in_flight_generation = r.generation
    BY <1>5 DEF Outstanding
  <2>2. r.generation = ref.generation
    BY <1>0, <1>1, <2>1 DEF UsesCurrent
  <2> QED
    BY <1>5, <2>2 DEF FacetRefs
<1>6. Outstanding(slots', ref)
  BY <1>3, <1>4 DEF Outstanding
<1>7. ASSUME NEW r \in FacetRefs, Outstanding(slots, r) PROVE Outstanding(slots', r)
  <2>1. CASE r.index = k
    BY <1>5, <1>6, <1>7, <2>1
  <2>2. CASE r.index # k
    <3>1. r.index \in SlotIds
      BY DEF FacetRefs
    <3>2. slots'[r.index] = slots[r.index]
      BY <1>2, <2>2, <3>1
    <3> QED
      BY <1>7, <3>2 DEF Outstanding
  <2> QED
    BY <2>1, <2>2
<1>8. UsesCurrent(slots')
  <2> SUFFICES ASSUME NEW i \in SlotIds, slots'[i].active, slots'[i].in_flight # 0
               PROVE  slots'[i].in_flight_generation = slots'[i].generation
    BY DEF UsesCurrent
  <2>1. CASE i = k
    BY <1>1, <1>3, <2>1
  <2>2. CASE i # k
    <3>1. slots'[i] = slots[i]
      BY <1>2, <2>2
    <3> QED
      BY <3>1 DEF UsesCurrent
  <2> QED
    BY <2>1, <2>2
<1>9. ASSUME NEW i \in SlotIds
      PROVE  /\ slots'[i].view = slots[i].view /\ slots'[i].kind = slots[i].kind
             /\ slots'[i].representation_epoch = slots[i].representation_epoch
  BY <1>2, <1>3
<1> QED
  BY <1>2, <1>3, <1>5, <1>6, <1>7, <1>8, <1>9

(* A hold begins a use of a facet it does not use yet.                     *)
LEMMA HoldBeginKeeps ==
  ASSUME TypeOK, FacetInv, NEW h \in Holds, NEW ref \in FacetRefs, ref \notin heldFacets[h],
         BeginGpuUse(ref), heldFacets' = [heldFacets EXCEPT ![h] = @ \cup {ref}], guard' = guard
  PROVE  FacetInv'
<1> DEFINE k == ref.index
<1>0. /\ PoolTypeOK /\ heldFacets \in [Holds -> SUBSET FacetRefs] /\ k \in SlotIds
      /\ guard \in [Scopes -> FacetRefs \cup {NoFacet}]
  BY DEF TypeOK, FacetRefs
<1>1. /\ slots'[k].in_flight = slots[k].in_flight + 1
      /\ \A i \in SlotIds : i # k => slots'[i] = slots[i]
      /\ \A r \in FacetRefs : Outstanding(slots, r) => Outstanding(slots', r)
      /\ \A r \in FacetRefs : Outstanding(slots, r) /\ r.index = k => r = ref
      /\ Outstanding(slots', ref)
      /\ UsesCurrent(slots')
  BY <1>0, BeginEffect DEF FacetInv
<1>2. h \notin FacetHolders(heldFacets, k)
  BY <1>0, <1>1 DEF FacetInv, UsesOutstanding, FacetHolders
<1>3. FacetHolders(heldFacets', k) = FacetHolders(heldFacets, k) \cup {h}
  BY <1>0 DEF FacetHolders
<1>4. \A i \in SlotIds : i # k => FacetHolders(heldFacets', i) = FacetHolders(heldFacets, i)
  BY <1>0 DEF FacetHolders
<1>5. Cardinality(FacetHolders(heldFacets', k)) = Cardinality(FacetHolders(heldFacets, k)) + 1
  BY <1>2, <1>3, HoldersFinite, FS_AddElement
<1>6. UsesCounted(slots', heldFacets', guard')
  <2> SUFFICES ASSUME NEW i \in SlotIds
               PROVE  slots'[i].in_flight = Cardinality(FacetHolders(heldFacets', i))
                                            + Cardinality(FacetGuards(guard, i))
    BY DEF UsesCounted
  <2>1. slots[i].in_flight = Cardinality(FacetHolders(heldFacets, i)) + Cardinality(FacetGuards(guard, i))
    BY DEF FacetInv, UsesCounted
  <2>2. Cardinality(FacetHolders(heldFacets, i)) \in Nat /\ Cardinality(FacetGuards(guard, i)) \in Nat
    BY HoldersFinite
  <2>3. CASE i = k
    BY <1>1, <1>5, <2>1, <2>2, <2>3
  <2>4. CASE i # k
    BY <1>1, <1>4, <2>1, <2>4
  <2> QED
    BY <2>3, <2>4
<1>7. UsesOutstanding(slots', heldFacets', guard')
  BY <1>0, <1>1 DEF FacetInv, UsesOutstanding
<1> QED
  BY <1>1, <1>6, <1>7 DEF FacetInv

(* A guard begins a use.                                                   *)
LEMMA GuardBeginKeeps ==
  ASSUME TypeOK, FacetInv, NEW s \in Scopes, NEW ref \in FacetRefs, guard[s] = NoFacet,
         BeginGpuUse(ref), guard' = [guard EXCEPT ![s] = ref], heldFacets' = heldFacets
  PROVE  FacetInv'
<1> DEFINE k == ref.index
<1>0. /\ PoolTypeOK /\ heldFacets \in [Holds -> SUBSET FacetRefs] /\ k \in SlotIds
      /\ guard \in [Scopes -> FacetRefs \cup {NoFacet}] /\ ref # NoFacet
  BY HoldAssumption DEF TypeOK, FacetRefs
<1>1. /\ slots'[k].in_flight = slots[k].in_flight + 1
      /\ \A i \in SlotIds : i # k => slots'[i] = slots[i]
      /\ \A r \in FacetRefs : Outstanding(slots, r) => Outstanding(slots', r)
      /\ Outstanding(slots', ref)
      /\ UsesCurrent(slots')
  BY <1>0, BeginEffect DEF FacetInv
<1>2. s \notin FacetGuards(guard, k)
  BY DEF FacetGuards
<1>3. FacetGuards(guard', k) = FacetGuards(guard, k) \cup {s}
  BY <1>0 DEF FacetGuards
<1>4. \A i \in SlotIds : i # k => FacetGuards(guard', i) = FacetGuards(guard, i)
  BY <1>0 DEF FacetGuards
<1>5. Cardinality(FacetGuards(guard', k)) = Cardinality(FacetGuards(guard, k)) + 1
  BY <1>2, <1>3, HoldersFinite, FS_AddElement
<1>6. UsesCounted(slots', heldFacets', guard')
  <2> SUFFICES ASSUME NEW i \in SlotIds
               PROVE  slots'[i].in_flight = Cardinality(FacetHolders(heldFacets, i))
                                            + Cardinality(FacetGuards(guard', i))
    BY DEF UsesCounted
  <2>1. slots[i].in_flight = Cardinality(FacetHolders(heldFacets, i)) + Cardinality(FacetGuards(guard, i))
    BY DEF FacetInv, UsesCounted
  <2>2. Cardinality(FacetHolders(heldFacets, i)) \in Nat /\ Cardinality(FacetGuards(guard, i)) \in Nat
    BY HoldersFinite
  <2>3. CASE i = k
    BY <1>1, <1>5, <2>1, <2>2, <2>3
  <2>4. CASE i # k
    BY <1>1, <1>4, <2>1, <2>4
  <2> QED
    BY <2>3, <2>4
<1>7. UsesOutstanding(slots', heldFacets', guard')
  BY <1>0, <1>1 DEF FacetInv, UsesOutstanding
<1> QED
  BY <1>1, <1>6, <1>7 DEF FacetInv

(* What end_gpu_use() of outstanding uses does to the slots.               *)
LEMMA EndEffect ==
  ASSUME PoolTypeOK, NEW S \in SUBSET FacetRefs, \A ref \in S : Outstanding(slots, ref),
         EndGpuUse(S)
  PROVE  \A i \in SlotIds :
           /\ slots'[i].in_flight = IF \E ref \in S : ref.index = i
                                    THEN slots[i].in_flight - 1 ELSE slots[i].in_flight
           /\ slots'[i].in_flight_generation = slots[i].in_flight_generation
           /\ slots'[i].active = slots[i].active /\ slots'[i].generation = slots[i].generation
           /\ slots'[i].view = slots[i].view /\ slots'[i].kind = slots[i].kind
           /\ slots'[i].representation_epoch = slots[i].representation_epoch
<1> SUFFICES ASSUME NEW i \in SlotIds
             PROVE  /\ slots'[i].in_flight = IF \E ref \in S : ref.index = i
                                             THEN slots[i].in_flight - 1 ELSE slots[i].in_flight
                    /\ slots'[i].in_flight_generation = slots[i].in_flight_generation
                    /\ slots'[i].active = slots[i].active
                    /\ slots'[i].generation = slots[i].generation
                    /\ slots'[i].view = slots[i].view /\ slots'[i].kind = slots[i].kind
                    /\ slots'[i].representation_epoch = slots[i].representation_epoch
  OBVIOUS
<1>1. slots[i] \in Slot
  BY DEF PoolTypeOK
<1>2. i \in EndingAt(slots, S) <=> \E ref \in S : ref.index = i
  BY DEF EndingAt
<1>3. slots'[i] = IF i \in EndingAt(slots, S) THEN [slots[i] EXCEPT !.in_flight = @ - 1] ELSE slots[i]
  BY DEF EndGpuUse, UsesEnded
<1>4. CASE i \in EndingAt(slots, S)
  <2>1. slots'[i] = [slots[i] EXCEPT !.in_flight = @ - 1]
    BY <1>3, <1>4
  <2> QED
    BY <1>1, <1>2, <1>4, <2>1 DEF Slot
<1>5. CASE i \notin EndingAt(slots, S)
  BY <1>2, <1>3, <1>5
<1> QED
  BY <1>4, <1>5

(* A use that is still counted is still found.                             *)
LEMMA CountedIsOutstanding ==
  ASSUME NEW new, NEW held \in [Holds -> SUBSET FacetRefs], NEW g \in [Scopes -> FacetRefs \cup {NoFacet}],
         UsesCounted(new, held, g),
         \A h \in Holds : \A ref \in held[h] : new[ref.index].in_flight_generation = ref.generation,
         \A k \in Scopes : g[k] # NoFacet => new[g[k].index].in_flight_generation = g[k].generation
  PROVE  UsesOutstanding(new, held, g)
<1>1. ASSUME NEW i \in SlotIds, FacetHolders(held, i) # {} \/ FacetGuards(g, i) # {}
      PROVE  new[i].in_flight > 0
  <2>1. Cardinality(FacetHolders(held, i)) # 0 \/ Cardinality(FacetGuards(g, i)) # 0
    BY <1>1, HoldersFinite, FS_EmptySet
  <2>2. new[i].in_flight = Cardinality(FacetHolders(held, i)) + Cardinality(FacetGuards(g, i))
    BY DEF UsesCounted
  <2>3. Cardinality(FacetHolders(held, i)) \in Nat /\ Cardinality(FacetGuards(g, i)) \in Nat
    BY HoldersFinite
  <2> QED
    BY <2>1, <2>2, <2>3
<1>2. ASSUME NEW h \in Holds, NEW ref \in held[h] PROVE Outstanding(new, ref)
  <2>1. ref.index \in SlotIds /\ h \in FacetHolders(held, ref.index)
    BY DEF FacetHolders, FacetRefs
  <2> QED
    BY <1>1, <2>1 DEF Outstanding
<1>3. ASSUME NEW k \in Scopes, g[k] # NoFacet PROVE Outstanding(new, g[k])
  <2>1. g[k].index \in SlotIds /\ k \in FacetGuards(g, g[k].index)
    BY <1>3 DEF FacetGuards, FacetRefs
  <2> QED
    BY <1>1, <1>3, <2>1 DEF Outstanding
<1> QED
  BY <1>2, <1>3 DEF UsesOutstanding

(* Once the counts are right, ending uses that were outstanding leaves the *)
(* remaining ones found and the facets as they were.                       *)
LEMMA EndKeepsRest ==
  ASSUME TypeOK, FacetInv, NEW S \in SUBSET FacetRefs, \A ref \in S : Outstanding(slots, ref),
         EndGpuUse(S), NEW held \in [Holds -> SUBSET FacetRefs],
         NEW g \in [Scopes -> FacetRefs \cup {NoFacet}],
         \A h \in Holds : held[h] \subseteq heldFacets[h],
         \A k \in Scopes : g[k] # NoFacet => g[k] = guard[k],
         UsesCounted(slots', held, g)
  PROVE  UsesOutstanding(slots', held, g) /\ UsesCurrent(slots') /\ FacetsStable
<1>0. /\ PoolTypeOK /\ heldFacets \in [Holds -> SUBSET FacetRefs]
      /\ guard \in [Scopes -> FacetRefs \cup {NoFacet}]
  BY DEF TypeOK
<1>1. \A i \in SlotIds :
        /\ slots'[i].in_flight = IF \E ref \in S : ref.index = i
                                 THEN slots[i].in_flight - 1 ELSE slots[i].in_flight
        /\ slots'[i].in_flight_generation = slots[i].in_flight_generation
        /\ slots'[i].active = slots[i].active /\ slots'[i].generation = slots[i].generation
        /\ slots'[i].view = slots[i].view /\ slots'[i].kind = slots[i].kind
        /\ slots'[i].representation_epoch = slots[i].representation_epoch
  BY <1>0, EndEffect
<1>2. UsesOutstanding(slots', held, g)
  <2>1. \A h \in Holds : \A ref \in held[h] : slots'[ref.index].in_flight_generation = ref.generation
    <3> SUFFICES ASSUME NEW h \in Holds, NEW ref \in heldFacets[h]
                 PROVE  slots'[ref.index].in_flight_generation = ref.generation
      OBVIOUS
    <3>1. ref.index \in SlotIds /\ Outstanding(slots, ref)
      BY <1>0 DEF FacetRefs, FacetInv, UsesOutstanding
    <3> QED
      BY <1>1, <3>1 DEF Outstanding
  <2>2. ASSUME NEW k \in Scopes, g[k] # NoFacet
        PROVE  slots'[g[k].index].in_flight_generation = g[k].generation
    <3>1. g[k] = guard[k] /\ g[k].index \in SlotIds /\ Outstanding(slots, g[k])
      BY <1>0, <2>2 DEF FacetRefs, FacetInv, UsesOutstanding
    <3> QED
      BY <1>1, <3>1 DEF Outstanding
  <2> QED
    BY <2>1, <2>2, CountedIsOutstanding
<1>3. UsesCurrent(slots')
  <2> SUFFICES ASSUME NEW i \in SlotIds, slots'[i].active, slots'[i].in_flight # 0
               PROVE  slots'[i].in_flight_generation = slots'[i].generation
    BY DEF UsesCurrent
  <2>1. slots[i].in_flight # 0
    BY <1>1 DEF Outstanding
  <2> QED
    BY <1>1, <2>1 DEF FacetInv, UsesCurrent
<1>4. FacetsStable
  <2>1. \A g_ \in Holds : \A ref \in heldFacets[g_] : ref.index \in SlotIds
    BY <1>0 DEF FacetRefs
  <2> QED
    BY <1>1, <2>1 DEF FacetsStable
<1> QED
  BY <1>2, <1>3, <1>4

(* release() ends each use of a hold exactly once.                         *)
LEMMA HoldEndKeeps ==
  ASSUME TypeOK, FacetInv, NEW h \in Holds, EndGpuUse(heldFacets[h])
  PROVE  LET held == [heldFacets EXCEPT ![h] = {}] IN
         /\ UsesCounted(slots', held, guard)
         /\ UsesOutstanding(slots', held, guard)
         /\ UsesCurrent(slots')
         /\ FacetsStable
<1> DEFINE held == [heldFacets EXCEPT ![h] = {}]
<1>0. /\ PoolTypeOK /\ heldFacets \in [Holds -> SUBSET FacetRefs]
      /\ guard \in [Scopes -> FacetRefs \cup {NoFacet}]
  BY DEF TypeOK
<1>1. \A ref \in heldFacets[h] : Outstanding(slots, ref)
  BY DEF FacetInv, UsesOutstanding
<1>2. \A i \in SlotIds :
        /\ slots'[i].in_flight = IF \E ref \in heldFacets[h] : ref.index = i
                                 THEN slots[i].in_flight - 1 ELSE slots[i].in_flight
        /\ slots'[i].in_flight_generation = slots[i].in_flight_generation
        /\ slots'[i].active = slots[i].active /\ slots'[i].generation = slots[i].generation
        /\ slots'[i].view = slots[i].view /\ slots'[i].kind = slots[i].kind
        /\ slots'[i].representation_epoch = slots[i].representation_epoch
  BY <1>0, <1>1, EndEffect
<1>3. UsesCounted(slots', held, guard)
  <2> SUFFICES ASSUME NEW i \in SlotIds
               PROVE  slots'[i].in_flight = Cardinality(FacetHolders(held, i))
                                            + Cardinality(FacetGuards(guard, i))
    BY DEF UsesCounted
  <2>1. slots[i].in_flight = Cardinality(FacetHolders(heldFacets, i)) + Cardinality(FacetGuards(guard, i))
    BY DEF FacetInv, UsesCounted
  <2>2. Cardinality(FacetHolders(heldFacets, i)) \in Nat /\ Cardinality(FacetGuards(guard, i)) \in Nat
    BY HoldersFinite
  <2>3. CASE h \in FacetHolders(heldFacets, i)
    <3>1. slots'[i].in_flight = slots[i].in_flight - 1
      BY <1>2, <2>3 DEF FacetHolders
    <3>2. FacetHolders(held, i) = FacetHolders(heldFacets, i) \ {h}
      BY <1>0 DEF FacetHolders
    <3>3. Cardinality(FacetHolders(held, i)) = Cardinality(FacetHolders(heldFacets, i)) - 1
      BY <2>3, <3>2, HoldersFinite, FS_RemoveElement
    <3> HIDE DEF held
    <3> QED
      BY <2>1, <2>2, <3>1, <3>3
  <2>4. CASE h \notin FacetHolders(heldFacets, i)
    <3>1. slots'[i].in_flight = slots[i].in_flight
      BY <1>2, <2>4 DEF FacetHolders
    <3>2. FacetHolders(held, i) = FacetHolders(heldFacets, i)
      BY <1>0, <2>4 DEF FacetHolders
    <3> QED
      BY <2>1, <3>1, <3>2
  <2> QED
    BY <2>3, <2>4
<1>4. held \in [Holds -> SUBSET FacetRefs] /\ \A g \in Holds : held[g] \subseteq heldFacets[g]
  BY <1>0
<1> HIDE DEF held
<1>5. heldFacets[h] \in SUBSET FacetRefs
  BY <1>0
<1>6. UsesOutstanding(slots', held, guard) /\ UsesCurrent(slots') /\ FacetsStable
  BY <1>0, <1>1, <1>3, <1>4, <1>5, EndKeepsRest
<1> QED
  BY <1>3, <1>6 DEF held

(* The end of a guard's scope ends its use exactly once.                   *)
LEMMA GuardEndKeeps ==
  ASSUME TypeOK, FacetInv, NEW k \in Scopes, guard[k] # NoFacet, EndGpuUse({guard[k]}),
         guard' = [guard EXCEPT ![k] = NoFacet], heldFacets' = heldFacets
  PROVE  FacetInv' /\ FacetsStable
<1>0. /\ PoolTypeOK /\ heldFacets \in [Holds -> SUBSET FacetRefs]
      /\ guard \in [Scopes -> FacetRefs \cup {NoFacet}] /\ guard[k] \in FacetRefs
  BY DEF TypeOK
<1>1. Outstanding(slots, guard[k])
  BY DEF FacetInv, UsesOutstanding
<1>2. \A i \in SlotIds :
        slots'[i].in_flight = IF guard[k].index = i THEN slots[i].in_flight - 1 ELSE slots[i].in_flight
  BY <1>0, <1>1, EndEffect
<1>3. UsesCounted(slots', heldFacets, guard')
  <2> SUFFICES ASSUME NEW i \in SlotIds
               PROVE  slots'[i].in_flight = Cardinality(FacetHolders(heldFacets, i))
                                            + Cardinality(FacetGuards(guard', i))
    BY DEF UsesCounted
  <2>1. slots[i].in_flight = Cardinality(FacetHolders(heldFacets, i)) + Cardinality(FacetGuards(guard, i))
    BY DEF FacetInv, UsesCounted
  <2>2. Cardinality(FacetHolders(heldFacets, i)) \in Nat /\ Cardinality(FacetGuards(guard, i)) \in Nat
    BY HoldersFinite
  <2>3. CASE guard[k].index = i
    <3>1. k \in FacetGuards(guard, i)
      BY <2>3 DEF FacetGuards
    <3>2. FacetGuards(guard', i) = FacetGuards(guard, i) \ {k}
      BY <1>0 DEF FacetGuards
    <3>3. Cardinality(FacetGuards(guard', i)) = Cardinality(FacetGuards(guard, i)) - 1
      BY <3>1, <3>2, HoldersFinite, FS_RemoveElement
    <3>4. slots'[i].in_flight = slots[i].in_flight - 1
      BY <1>2, <2>3
    <3> QED
      BY <2>1, <2>2, <3>3, <3>4
  <2>4. CASE guard[k].index # i
    <3>1. FacetGuards(guard', i) = FacetGuards(guard, i)
      BY <1>0, <2>4 DEF FacetGuards
    <3>2. slots'[i].in_flight = slots[i].in_flight
      BY <1>2, <2>4
    <3> QED
      BY <2>1, <3>1, <3>2
  <2> QED
    BY <2>3, <2>4
<1>4. /\ guard' \in [Scopes -> FacetRefs \cup {NoFacet}]
      /\ \A s \in Scopes : guard'[s] # NoFacet => guard'[s] = guard[s]
  BY <1>0
<1>5. {guard[k]} \in SUBSET FacetRefs /\ \A ref \in {guard[k]} : Outstanding(slots, ref)
  BY <1>0, <1>1
<1>6. UsesOutstanding(slots', heldFacets, guard') /\ UsesCurrent(slots') /\ FacetsStable
  BY <1>0, <1>3, <1>4, <1>5, EndKeepsRest
<1> QED
  BY <1>3, <1>6 DEF FacetInv

(* A move hands the uses over and drops none.                              *)
LEMMA MoveKeepsUses ==
  ASSUME NEW sl, NEW held \in [Holds -> SUBSET FacetRefs], UsesCounted(sl, held, guard),
         UsesOutstanding(sl, held, guard),
         NEW src \in Holds, NEW dst \in Holds, src # dst, held[dst] = {}
  PROVE  LET moved == Moved(held, src, dst, {}) IN
         UsesCounted(sl, moved, guard) /\ UsesOutstanding(sl, moved, guard)
<1> DEFINE moved == Moved(held, src, dst, {})
<1>1. /\ moved[dst] = held[src] /\ moved[src] = {}
      /\ \A g \in Holds : g # src /\ g # dst => moved[g] = held[g]
  BY DEF Moved
<1>2. ASSUME NEW i \in SlotIds
      PROVE  Cardinality(FacetHolders(moved, i)) = Cardinality(FacetHolders(held, i))
  <2>0. IsFiniteSet(FacetHolders(held, i))
    BY HoldersFinite
  <2>1. IsFiniteSet(FacetHolders(held, i)) /\ dst \notin FacetHolders(held, i)
    BY <2>0 DEF FacetHolders
  <2>2. CASE src \in FacetHolders(held, i)
    <3>1. FacetHolders(moved, i) = (FacetHolders(held, i) \ {src}) \cup {dst}
      BY <1>1, <2>1, <2>2 DEF FacetHolders
    <3>2. IsFiniteSet(FacetHolders(held, i) \ {src}) /\ dst \notin FacetHolders(held, i) \ {src}
      BY <2>1, FS_RemoveElement
    <3>3. Cardinality(FacetHolders(moved, i)) = Cardinality(FacetHolders(held, i) \ {src}) + 1
      BY <3>1, <3>2, FS_AddElement
    <3>4. Cardinality(FacetHolders(held, i) \ {src}) = Cardinality(FacetHolders(held, i)) - 1
      BY <2>1, <2>2, FS_RemoveElement
    <3>5. Cardinality(FacetHolders(held, i)) \in Nat
      BY <2>1, FS_CardinalityType
    <3> QED
      BY <3>3, <3>4, <3>5
  <2>3. CASE src \notin FacetHolders(held, i)
    <3>1. FacetHolders(moved, i) = FacetHolders(held, i)
      BY <1>1, <2>1, <2>3 DEF FacetHolders
    <3> QED
      BY <3>1
  <2> QED
    BY <2>2, <2>3
<1>3. UsesCounted(sl, moved, guard)
  BY <1>2 DEF UsesCounted
<1>4. UsesOutstanding(sl, moved, guard)
  BY <1>1 DEF UsesOutstanding
<1> QED
  BY <1>3, <1>4


(* A begun use changes nothing a holder of another use relies on.          *)
LEMMA BeginIsStable ==
  ASSUME TypeOK, FacetInv, NEW ref \in FacetRefs, BeginGpuUse(ref)
  PROVE  FacetsStable
<1>0. /\ PoolTypeOK /\ heldFacets \in [Holds -> SUBSET FacetRefs] /\ UsesCurrent(slots)
  BY DEF TypeOK, FacetInv
<1>1. \A i \in SlotIds : /\ slots'[i].view = slots[i].view /\ slots'[i].kind = slots[i].kind
                          /\ slots'[i].representation_epoch = slots[i].representation_epoch
  BY <1>0, BeginEffect
<1>2. \A g \in Holds : \A r \in heldFacets[g] : r.index \in SlotIds
  BY <1>0 DEF FacetRefs
<1> QED
  BY <1>1, <1>2 DEF FacetsStable

(* The calls of the pool, and the commit of a plan item, begin and end no  *)
(* use.                                                                    *)
LEMMA PoolCallKept ==
  ASSUME TypeOK, Shape, PoolNext
  PROVE  Kept(slots, slots')
<1>0. slots \in [SlotIds -> Slot] /\ freeList \in [SlotIds -> Nat] /\ slotCount \in Nat
  BY DEF TypeOK, PoolTypeOK
<1>1. ASSUME NEW view \in LiveRefs(allocations), NEW kind \in Kinds, NEW i \in SlotIds,
             AcquireFacet(view, kind, i)
      PROVE  Kept(slots, slots')
  BY <1>0, <1>1, PlaceKept DEF AcquireFacet, Shape
<1>2. ASSUME NEW ref \in ActiveTokens, RetireFacet(ref) PROVE Kept(slots, slots')
  BY <1>0, <1>2, RetireKept DEF RetireFacet
<1>3. CASE RetireStale
  BY <1>0, <1>3, RetireKept DEF RetireStale
<1> QED
  BY <1>1, <1>2, <1>3 DEF PoolNext

LEMMA PublishKept ==
  ASSUME TypeOK, Shape, NEW item \in Items, NEW i \in SlotIds, PublishEpoch(item, i)
  PROVE  Kept(slots, slots')
<1> DEFINE as == [allocations EXCEPT ![item.view.allocation] = Transformed(@)]
           S  == StaleSlots(as, slots)
           sl == SlotsRetired(slots, S)
           fr == FreeAfterRetire(slots, freeList, S)
<1>0. slots \in [SlotIds -> Slot] /\ freeList \in [SlotIds -> Nat] /\ slotCount \in Nat
  BY DEF TypeOK, PoolTypeOK
<1>1. sl \in [SlotIds -> Slot] /\ fr \in [SlotIds -> Nat]
  BY <1>0, SlotEffects, FreeListEffects
<1>2. \A j \in S : j \in SlotIds /\ slots[j].active
  BY DEF StaleSlots
<1>3. PoolShape(sl, slotCount, fr)
  BY <1>0, <1>2, RetireKeepsShape DEF Shape
<1>4. Placeable(fr, i) /\ slots' = Placed(as, sl, i, item.view, item.kind)
  BY DEF PublishEpoch
<1>5. Kept(slots, sl)
  BY <1>0, RetireKept
<1> HIDE DEF as, S, sl, fr
<1>6. Kept(sl, slots')
  BY <1>0, <1>1, <1>3, <1>4, PlaceKept
<1> QED
  BY <1>5, <1>6, KeptTransitive

LEMMA FacetStep ==
  ASSUME TypeOK, Shape, FacetInv, [Next]_vars
  PROVE  FacetInv' /\ FacetsStable
<1>0. ArenaTypeOK /\ PoolTypeOK /\ HoldTypeOK
  BY TypeParts
<1> DEFINE Goal == FacetInv' /\ FacetsStable
<1>1. ASSUME Kept(slots, slots'), UNCHANGED <<heldFacets, guard>> PROVE Goal
  BY <1>0, <1>1, KeptKeepsFacetInv, KeptIsStable
<1>2. ASSUME slots' = slots PROVE Kept(slots, slots')
  BY <1>2 DEF Kept, SlotKept
<1>3. ASSUME NEW h \in Holds, EndGpuUse(heldFacets[h]), guard' = guard,
             heldFacets' = [heldFacets EXCEPT ![h] = {}]
      PROVE  Goal
  BY <1>3, HoldEndKeeps DEF FacetInv
<1>4. ASSUME NEW h \in Holds, Submit(h) PROVE Goal
  <2>1. ASSUME NEW i \in SlotIds, FailItem(h, i) \/ CommitItem(h, i) PROVE Goal
    <3>1. /\ NextItem(h) \in Items /\ PublishEpoch(NextItem(h), i)
          /\ UNCHANGED <<heldFacets, guard>>
      BY <2>1, NextItemTyped DEF FailItem, CommitItem
    <3> QED
      BY <1>1, <3>1, PublishKept
  <2>2. ASSUME NEW ref \in FinalFacets(h), AcquireFacetUse(h, ref) PROVE Goal
    <3>1. /\ ref \in FacetRefs /\ ref \notin heldFacets[h] /\ BeginGpuUse(ref)
          /\ heldFacets' = [heldFacets EXCEPT ![h] = @ \cup {ref}] /\ guard' = guard
      BY <2>2, FinalTyped DEF AcquireFacetUse
    <3> QED
      BY <3>1, HoldBeginKeeps, BeginIsStable
  <2>3. CASE RollBackAcquire(h) \/ Release(h) \/ Destroy(h)
    BY <1>3, <2>3 DEF RollBackAcquire, Release, Destroy, ReleaseAll
  <2>4. CASE \/ \E touched \in UpTo(MaxUses, LiveRefs(allocations)),
                  facets \in UpTo(MaxUses, PlannableFacets), items \in ItemLists :
                    Assemble(h, touched, facets, items)
             \/ Prepare(h) \/ BeginCommit(h) \/ RefuseItem(h) \/ FinishCommit(h)
             \/ BeginAcquire(h) \/ FinishAcquire(h)
             \/ \E ref \in FinalAllocations(h) : AcquireAllocation(h, ref)
    <3>1. UNCHANGED <<slots, heldFacets, guard>>
      BY <2>4 DEF Assemble, Prepare, BeginCommit, RefuseItem, FinishCommit, BeginAcquire,
                  FinishAcquire, AcquireAllocation, poolVars
    <3> QED
      BY <1>1, <1>2, <3>1
  <2> QED
    BY <1>4, <2>1, <2>2, <2>3, <2>4 DEF Submit
<1>5. ASSUME NEW src \in Holds, NEW dst \in Holds, Move(src, dst) PROVE Goal
  <2> DEFINE mid == [heldFacets EXCEPT ![dst] = {}]
  <2>1. /\ EndGpuUse(heldFacets[dst]) /\ guard' = guard
        /\ src # dst /\ heldFacets' = Moved(heldFacets, src, dst, {})
    BY <1>5 DEF Move, ReleaseAll
  <2>2. /\ UsesCounted(slots', mid, guard) /\ UsesOutstanding(slots', mid, guard)
        /\ UsesCurrent(slots') /\ FacetsStable
    BY <2>1, HoldEndKeeps
  <2>3. mid \in [Holds -> SUBSET FacetRefs] /\ mid[dst] = {}
    BY <1>0 DEF HoldTypeOK
  <2>4. heldFacets' = Moved(mid, src, dst, {})
    BY <1>0, <2>1 DEF Moved, HoldTypeOK
  <2> HIDE DEF mid
  <2>5. UsesCounted(slots', heldFacets', guard) /\ UsesOutstanding(slots', heldFacets', guard)
    BY <2>1, <2>2, <2>3, <2>4, MoveKeepsUses
  <2> QED
    BY <2>1, <2>2, <2>5 DEF FacetInv
<1>6. ASSUME NEW k \in Scopes, EndGuard(k) PROVE Goal
  BY <1>6, GuardEndKeeps DEF EndGuard
<1>7. ASSUME NEW k \in Scopes, NEW ref \in ActiveTokens, BeginGuard(k, ref) PROVE Goal
  <2>1. ref \in FacetRefs
    BY <1>0 DEF ActiveTokens, TokenOf, FacetRefs, PoolTypeOK, Slot
  <2>2. /\ BeginGpuUse(ref) /\ guard[k] = NoFacet
        /\ guard' = [guard EXCEPT ![k] = ref] /\ heldFacets' = heldFacets
    BY <1>7 DEF BeginGuard
  <2> QED
    BY <2>1, <2>2, GuardBeginKeeps, BeginIsStable
<1>8. CASE CallPool
  <2>1. PoolNext /\ UNCHANGED <<heldFacets, guard>>
    BY <1>8 DEF CallPool, holdVars
  <2> QED
    BY <1>1, <2>1, PoolCallKept
<1>9. CASE CallArena \/ UNCHANGED vars
  <2>1. UNCHANGED <<slots, heldFacets, guard>>
    BY <1>9 DEF CallArena, vars, poolVars, holdVars
  <2> QED
    BY <1>1, <1>2, <2>1
<1> QED
  BY <1>4, <1>5, <1>6, <1>7, <1>8, <1>9 DEF Next

LEMMA InitFacetInv == Init => FacetInv
<1> SUFFICES ASSUME Init PROVE FacetInv
  OBVIOUS
<1>1. ASSUME NEW i \in SlotIds
      PROVE  FacetHolders(heldFacets, i) = {} /\ FacetGuards(guard, i) = {}
  BY DEF Init, FacetHolders, FacetGuards
<1>2. Cardinality({}) = 0
  BY FS_EmptySet
<1>3. \A i \in SlotIds : slots[i].in_flight = 0
  BY DEF Init, PoolInit, UnusedSlot
<1>4. UsesCounted(slots, heldFacets, guard)
  <2> SUFFICES ASSUME NEW i \in SlotIds
               PROVE  slots[i].in_flight = Cardinality(FacetHolders(heldFacets, i))
                                           + Cardinality(FacetGuards(guard, i))
    BY DEF UsesCounted
  <2>1. /\ Cardinality(FacetHolders(heldFacets, i)) = 0
        /\ Cardinality(FacetGuards(guard, i)) = 0
    BY <1>1, <1>2
  <2> QED
    BY <1>3, <2>1
<1> QED
  BY <1>4 DEF FacetInv, UsesOutstanding, UsesCurrent, Init, PoolInit, UnusedSlot

----------------------------------------------------------------------------
(* The theorems.  The invariant is the type invariant, the shape of the    *)
(* pool, and what the arena, the pool, the holds and the guards say of     *)
(* each other.                                                             *)
HoldInv == TypeOK /\ Shape /\ ArenaInv /\ FacetInv

LEMMA HoldInvStep ==
  ASSUME HoldInv, [Next]_vars
  PROVE  HoldInv' /\ AllocationsStable /\ FacetsStable
  BY NextTyped, ShapePreserved, ArenaStep, FacetStep DEF HoldInv

LEMMA HoldInvariant == Spec => []HoldInv
<1>1. Init => HoldInv
  BY InitTyped, InitShape, InitArenaInv, InitFacetInv DEF HoldInv
<1>2. HoldInv /\ [Next]_vars => HoldInv'
  BY HoldInvStep
<1> QED
  BY <1>1, <1>2, PTL DEF Spec

(* The in-flight counts of the arena and of the pool are exactly the holds *)
(* and guards outstanding, however acquisitions, rollbacks, releases,      *)
(* moves and destructions of any number of submissions interleave          *)
(* (SubmissionLifetimeHold in device_hal.cpp).                             *)
THEOREM CountsConserved == Spec => []Conservation
<1>1. HoldInv => Conservation
  BY DEF HoldInv, ArenaInv, Counted, FacetInv, UsesCounted, FacetHolders, FacetGuards,
         Conservation, AllocationHolders, HoldsUsing, GuardsUsing
<1> QED
  BY <1>1, HoldInvariant, PTL

(* No release() of a hold and no end of a guard's scope ever finds its     *)
(* allocation gone or its facet use unknown, so that the ignored results   *)
(* of Arena::release and FacetPool::end_gpu_use hide nothing.              *)
THEOREM HoldsReleasable == Spec => []HeldIsReleasable
<1>1. HoldInv => HeldIsReleasable
  BY DEF HoldInv, ArenaInv, HeldLive, FacetInv, UsesOutstanding, HeldIsReleasable
<1> QED
  BY <1>1, HoldInvariant, PTL

(* While a submission holds an allocation or a facet, no step of any       *)
(* caller changes what it relies on: Arena::transform, retire and the two  *)
(* consumes refuse what is in flight, and a retired slot in use is not     *)
(* given to another facet.                                                 *)
THEOREM HoldsStable == Spec => HeldBackingStable
<1>1. HoldInv /\ [Next]_vars =>
        [\A h \in Holds :
           /\ \A ref \in HeldAfter(h) :
                \A field \in {"generation", "state", "representation_epoch", "backed"} :
                   allocations'[ref.allocation][field] = allocations[ref.allocation][field]
           /\ \A ref \in heldFacets[h] \cap heldFacets'[h] :
                \A field \in {"view", "kind", "representation_epoch"} :
                   slots'[ref.index][field] = slots[ref.index][field]]_vars
  BY HoldInvStep DEF AllocationsStable, FacetsStable
<1> QED
  BY <1>1, HoldInvariant, PTL DEF Spec, HeldBackingStable
=============================================================================
