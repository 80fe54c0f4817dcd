----------------------------- MODULE FacetPool -----------------------------
(***************************************************************************)
(* The device-owned facet slot pool of src/core/facet.{h,cpp}.  A FacetRef *)
(* is a pair of a slot index and the generation the slot had when it was   *)
(* acquired; a slot that is retired while a GPU use is outstanding is      *)
(* withheld from the free list until the last use ends.                    *)
(*                                                                         *)
(* A view is abstracted to the allocation it names.  The free list is kept *)
(* as a bag (how often each index stands in free_list_), so that an index  *)
(* pushed twice is visible; which free index an acquisition pops is left   *)
(* open, where the code pops the last one pushed.                          *)
(***************************************************************************)
EXTENDS Arena

CONSTANTS
  MaxSlots,        \* bound on slots_.size()
  MaxTokens,       \* bound on the generations retire() may reach on one slot
  Kinds            \* FacetKind

SlotIds == 0..(MaxSlots - 1)

FacetRefs == [index : SlotIds, generation : Nat \ {0}]

ASSUME PoolAssumption ==
  /\ MaxSlots \in Nat \ {0}
  /\ MaxTokens \in Nat
  /\ Kinds # {}

VARIABLES
  slots,      \* slots_, an unused slot at an index not below slotCount
  slotCount,  \* slots_.size()
  freeList    \* free_list_, as the number of times each index occurs in it

poolVars == <<slots, slotCount, freeList>>

Slot ==
  [generation : Nat \ {0}, active : BOOLEAN, kind : Kinds, view : PointerRefs,
   representation_epoch : Nat, in_flight : Nat, in_flight_generation : Nat]

UnusedSlot ==
  [generation |-> 1, active |-> FALSE, kind |-> CHOOSE k \in Kinds : TRUE,
   view |-> [allocation |-> 1, generation |-> 1], representation_epoch |-> 0,
   in_flight |-> 0, in_flight_generation |-> 0]

TokenOf(sl, i) == [index |-> i, generation |-> sl[i].generation]

----------------------------------------------------------------------------
(* What the pool's queries answer, over given slots and allocations.       *)

Current(as, slot) == AtEpoch(as, slot.view, slot.representation_epoch)

Resolves(as, sl, ref) ==
  /\ ref.index < slotCount
  /\ sl[ref.index].active
  /\ sl[ref.index].generation = ref.generation
  /\ Current(as, sl[ref.index])

References(sl, ref, epoch) ==
  \E i \in SlotIds :
     /\ i < slotCount
     /\ sl[i].view = ref
     /\ sl[i].representation_epoch = epoch
     /\ sl[i].active \/ sl[i].in_flight > 0

ActiveTokens == {TokenOf(slots, i) : i \in {j \in SlotIds : slots[j].active}}

(* The uses that end_gpu_use() accepts: matched against the generation the *)
(* use began under, not against the slot's current one.                    *)

(* Mutant: matched against the slot's current generation.                  *)
OutstandingNow(sl, ref) ==
  /\ sl[ref.index].in_flight > 0
  /\ sl[ref.index].generation = ref.generation

Outstanding(sl, ref) ==
  /\ sl[ref.index].in_flight > 0
  /\ sl[ref.index].in_flight_generation = ref.generation

----------------------------------------------------------------------------
(* The effect of each operation on the slots and on the free list.         *)

(* Mutant: the generation is not advanced.                                 *)
RetiredSlotSameToken(slot) == [slot EXCEPT !.active = FALSE]

RetiredSlot(slot) == [slot EXCEPT !.active = FALSE, !.generation = @ + 1]

SlotsRetired(sl, S) == [i \in SlotIds |-> IF i \in S THEN RetiredSlot(sl[i]) ELSE sl[i]]

(* Mutant: the index is freed at once, an outstanding use or not.          *)
FreedAtOnce(sl, fr, S) == [i \in SlotIds |-> IF i \in S THEN fr[i] + 1 ELSE fr[i]]

FreeAfterRetire(sl, fr, S) ==
  [i \in SlotIds |-> IF i \in S /\ sl[i].in_flight = 0 THEN fr[i] + 1 ELSE fr[i]]

(* Mutant: the staleness condition is dropped.                             *)
AllActiveSlots(as, sl) == {i \in SlotIds : sl[i].active}

StaleSlots(as, sl) == {i \in SlotIds : sl[i].active /\ ~Current(as, sl[i])}

(* The index acquire() may place a new facet at: a free one if there is    *)
(* one, else a slot appended to the vector.                                *)
Placeable(fr, i) == IF \E j \in SlotIds : fr[j] > 0 THEN fr[i] > 0 ELSE i = slotCount

Placed(as, sl, i, view, kind) ==
  [sl EXCEPT ![i] = [UnusedSlot EXCEPT
       !.generation = sl[i].generation, !.active = TRUE, !.kind = kind, !.view = view,
       !.representation_epoch = as[view.allocation].representation_epoch]]

(* Mutant: pops without looking whether the list is empty.                 *)
FreeAfterBlindPop(fr, i) == [fr EXCEPT ![i] = @ - 1]

FreeAfterPlace(fr, i) == [fr EXCEPT ![i] = IF @ > 0 THEN @ - 1 ELSE @]

CountAfterPlace(fr, i) == IF fr[i] > 0 THEN slotCount ELSE slotCount + 1

UsesBegun(sl, S) ==
  [i \in SlotIds |->
     IF \E ref \in S : ref.index = i
     THEN [sl[i] EXCEPT !.in_flight = @ + 1, !.in_flight_generation = sl[i].generation]
     ELSE sl[i]]

EndingAt(sl, S) == {i \in SlotIds : \E ref \in S : ref.index = i /\ Outstanding(sl, ref)}

UsesEnded(sl, S) ==
  [i \in SlotIds |-> IF i \in EndingAt(sl, S) THEN [sl[i] EXCEPT !.in_flight = @ - 1] ELSE sl[i]]

FreeAfterEnd(sl, fr, S) ==
  [i \in SlotIds |->
     IF i \in EndingAt(sl, S) /\ sl[i].in_flight = 1 /\ ~sl[i].active THEN fr[i] + 1 ELSE fr[i]]

----------------------------------------------------------------------------
(* The operations.  None of them changes the arena.                        *)

PoolInit ==
  /\ slots = [i \in SlotIds |-> UnusedSlot]
  /\ slotCount = 0
  /\ freeList = [i \in SlotIds |-> 0]

AcquireFacet(view, kind, i) ==
  /\ Live(allocations, view)
  /\ Placeable(freeList, i)
  /\ slots' = Placed(allocations, slots, i, view, kind)
  /\ freeList' = FreeAfterPlace(freeList, i)
  /\ slotCount' = CountAfterPlace(freeList, i)

RetireFacet(ref) ==
  /\ ref.index < slotCount
  /\ slots[ref.index].active
  /\ slots[ref.index].generation = ref.generation
  /\ ref.generation < MaxTokens
  /\ slots' = SlotsRetired(slots, {ref.index})
  /\ freeList' = FreeAfterRetire(slots, freeList, {ref.index})
  /\ UNCHANGED slotCount

RetireStale ==
  LET S == StaleSlots(allocations, slots) IN
  /\ S # {}
  /\ slots' = SlotsRetired(slots, S)
  /\ freeList' = FreeAfterRetire(slots, freeList, S)
  /\ UNCHANGED slotCount

BeginGpuUse(ref) ==
  /\ Resolves(allocations, slots, ref)
  /\ slots' = UsesBegun(slots, {ref})
  /\ UNCHANGED <<slotCount, freeList>>

EndGpuUse(S) ==
  /\ slots' = UsesEnded(slots, S)
  /\ freeList' = FreeAfterEnd(slots, freeList, S)
  /\ UNCHANGED slotCount

PoolNext ==
  \/ \E view \in LiveRefs(allocations), kind \in Kinds, i \in SlotIds : AcquireFacet(view, kind, i)
  \/ \E ref \in ActiveTokens : RetireFacet(ref)
  \/ RetireStale

PoolTypeOK ==
  /\ slots \in [SlotIds -> Slot]
  /\ slotCount \in 0..MaxSlots
  /\ freeList \in [SlotIds -> Nat]
=============================================================================
