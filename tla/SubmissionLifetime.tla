------------------------- MODULE SubmissionLifetime -------------------------
(***************************************************************************)
(* What one submission does to the arena and the facet pool: the frozen    *)
(* representation plan is committed item by item                           *)
(* (commit_representation_operations), then SubmissionLifetimeHold retains *)
(* every allocation and facet the sealed plan names, until completion      *)
(* (src/backends/device_hal.cpp).                                          *)
(*                                                                         *)
(* Several holds overlap: a hold is a movable object that outlives the     *)
(* submit call once it is handed to a completion.  The arena and the pool  *)
(* have no lock and one host thread calls them, so while a call with       *)
(* several steps runs ("caller") nothing else does.                        *)
(***************************************************************************)
EXTENDS FacetPool, Sequences

CONSTANTS
  Holds,      \* the hold objects (one submission each)
  Scopes,     \* the FacetUseGuards of the backends
  NoHold,     \* no multi-step call is running
  NoFacet,    \* a guard that holds nothing
  MaxUses,    \* bound on the allocations, and on the facets, one plan names
  MaxItems    \* bound on the representation requests of one plan

ASSUME HoldAssumption ==
  /\ NoHold \notin Holds
  /\ NoFacet \notin FacetRefs
  /\ MaxUses \in Nat
  /\ MaxItems \in Nat
  /\ IsFiniteSet(Holds)
  /\ IsFiniteSet(Scopes)

FacetUses == [ref : FacetRefs, kind : Kinds]

(* RepresentationSemanticPlanItem; its target epoch is source + 1.         *)
Items == [view : PointerRefs, kind : Kinds, consume_input : BOOLEAN, source : Nat]

(* The sealed lifetime facts of an ExecutionPlan.                          *)
Plans == [touched : SUBSET PointerRefs, facets : SUBSET FacetUses,
          items : Seq(Items), graph_epoch : Nat]

NoPlan == [touched |-> {}, facets |-> {}, items |-> <<>>, graph_epoch |-> 0]

Phases == {"unplanned", "planned", "prepared", "committing", "committed", "acquiring", "held"}

VARIABLES
  caller,           \* the hold whose multi-step call is running, or NoHold
  phase,            \* where each submission stands
  plan,             \* its sealed plan
  inventory,        \* allocation_inventory_
  committed,        \* how many plan items commit_representation_operations has done
  produced,         \* representation_facets with their kinds
  heldAllocations,  \* acquired_allocations_
  heldFacets,       \* acquired_facets_
  guard             \* the FacetRef each FacetUseGuard holds, or NoFacet

holdVars == <<caller, phase, plan, inventory, committed, produced, heldAllocations, heldFacets, guard>>

vars == <<arenaVars, poolVars, holdVars>>

----------------------------------------------------------------------------
(* Planning: what the assembler may freeze from the current arena and pool *)

PlannableItems ==
  {item \in [view : LiveRefs(allocations), kind : Kinds, consume_input : BOOLEAN,
             source : {allocations[id].representation_epoch : id \in AllocationIds}] :
     /\ item.source < MaxEpoch
     /\ AtEpoch(allocations, item.view, item.source)
     /\ item.consume_input => ~References(slots, item.view, item.source)}

(* One submission must not race two transforms of a single allocation.     *)
OneTransformEach(items) ==
  \A m, n \in DOMAIN items :
     m # n => items[m].view.allocation # items[n].view.allocation

ItemLists ==
  {items \in UNION {[1..n -> PlannableItems] : n \in 0..MaxItems} : OneTransformEach(items)}

PlannableFacets ==
  {[ref |-> TokenOf(slots, i), kind |-> slots[i].kind] :
     i \in {j \in SlotIds : Resolves(allocations, slots, TokenOf(slots, j))}}

UpTo(n, S) == {T \in SUBSET S : Cardinality(T) <= n}

(* A plan may be made long before it is submitted, and is kept to be       *)
(* submitted again.                                                        *)
Assemble(h, touched, facets, items) ==
  /\ caller = NoHold
  /\ phase[h] \in {"unplanned", "planned"}
  /\ plan' = [plan EXCEPT ![h] = [touched |-> touched, facets |-> facets, items |-> items,
                                  graph_epoch |-> topologyEpoch]]
  /\ phase' = [phase EXCEPT ![h] = "planned"]
  /\ UNCHANGED <<arenaVars, poolVars, caller, inventory, committed, produced,
                 heldAllocations, heldFacets, guard>>

----------------------------------------------------------------------------
(* prepare(): read-only checks, and the inventory.                         *)

ItemViews(p) == {p.items[n].view : n \in DOMAIN p.items}

Backings(uses) == {slots[use.ref.index].view : use \in uses}

(* Mutant: only the slot's kind is compared.                               *)
UsableByKind(use) == slots[use.ref.index].kind = use.kind

Usable(use) ==
  /\ Resolves(allocations, slots, use.ref)
  /\ slots[use.ref.index].kind = use.kind

Prepare(h) ==
  LET p == plan[h]
      needed == p.touched \cup ItemViews(p) \cup Backings(p.facets) IN
  /\ caller = NoHold
  /\ phase[h] = "planned"
  /\ \A use \in p.facets : Usable(use)
  /\ Backings(p.facets) \cap ItemViews(p) = {}
  /\ \A ref \in needed : Live(allocations, ref)
  /\ inventory' = [inventory EXCEPT ![h] = needed]
  /\ phase' = [phase EXCEPT ![h] = "prepared"]
  /\ UNCHANGED <<arenaVars, poolVars, caller, plan, committed, produced,
                 heldAllocations, heldFacets, guard>>

----------------------------------------------------------------------------
(* commit_representation_operations(): one step per plan item.  An item    *)
(* that fails after its transform leaves the new epoch, the retired facets *)
(* and its own target facet behind; the submission reports nothing of it.  *)

NextItem(h) == plan[h].items[committed[h] + 1]

Room == Cardinality({i \in SlotIds : freeList[i] > 0 \/ i >= slotCount})

BeginCommit(h) ==
  /\ caller = NoHold
  /\ phase[h] = "prepared"
  /\ Room >= Len(plan[h].items)
  /\ representationClock + 2 * Len(plan[h].items) <= MaxClock
  /\ phase' = [phase EXCEPT ![h] = "committing"]
  /\ caller' = h
  /\ committed' = [committed EXCEPT ![h] = 0]
  /\ produced' = [produced EXCEPT ![h] = {}]
  /\ UNCHANGED <<arenaVars, poolVars, plan, inventory, heldAllocations, heldFacets, guard>>

(* Mutant: asked as if retire_stale() had already run, when the tokens are *)
(* gone and only outstanding uses are seen.                                *)
AdmissibleAfterRetirement(item) ==
  /\ AtEpoch(allocations, item.view, item.source)
  /\ item.consume_input =>
       ~References([i \in SlotIds |-> [slots[i] EXCEPT !.active = FALSE]], item.view, item.source)
  /\ CanTransform(allocations, item.view)

Admissible(item) ==
  /\ AtEpoch(allocations, item.view, item.source)
  /\ item.consume_input => ~References(slots, item.view, item.source)
  /\ CanTransform(allocations, item.view)

(* The submission ends and destroys its hold, which has acquired nothing.  *)
AbandonCommit(h) ==
  /\ phase' = [phase EXCEPT ![h] = "planned"]
  /\ caller' = NoHold
  /\ committed' = [committed EXCEPT ![h] = 0]
  /\ produced' = [produced EXCEPT ![h] = {}]
  /\ inventory' = [inventory EXCEPT ![h] = {}]

RefuseItem(h) ==
  /\ phase[h] = "committing"
  /\ committed[h] < Len(plan[h].items)
  /\ ~Admissible(NextItem(h))
  /\ AbandonCommit(h)
  /\ UNCHANGED <<arenaVars, poolVars, plan, heldAllocations, heldFacets, guard>>

(* transform(), retire_stale() and acquire() of the target facet at slot i *)
PublishEpoch(item, i) ==
  LET as == [allocations EXCEPT ![item.view.allocation] = Transformed(@)]
      S  == StaleSlots(as, slots)
      sl == SlotsRetired(slots, S)
      fr == FreeAfterRetire(slots, freeList, S) IN
  /\ Placeable(fr, i)
  /\ slots' = Placed(as, sl, i, item.view, item.kind)
  /\ freeList' = FreeAfterPlace(fr, i)
  /\ slotCount' = CountAfterPlace(fr, i)
  /\ UNCHANGED <<nextId, topologyEpoch>>

(* The physical step failed, or it produced no backing distinct from the   *)
(* one a ConsumeInput would release.                                       *)
FailItem(h, i) ==
  LET item == NextItem(h) IN
  /\ phase[h] = "committing"
  /\ committed[h] < Len(plan[h].items)
  /\ Admissible(item)
  /\ PublishEpoch(item, i)
  /\ allocations' = [allocations EXCEPT ![item.view.allocation] = Transformed(@)]
  /\ representationClock' = representationClock + 1
  /\ AbandonCommit(h)
  /\ UNCHANGED <<plan, heldAllocations, heldFacets, guard>>

CommitItem(h, i) ==
  LET item == NextItem(h) IN
  /\ phase[h] = "committing"
  /\ committed[h] < Len(plan[h].items)
  /\ Admissible(item)
  /\ PublishEpoch(item, i)
  /\ IF item.consume_input
     THEN /\ allocations' = [allocations EXCEPT ![item.view.allocation] =
                               RepresentationConsumed(Transformed(@))]
          /\ representationClock' = representationClock + 2
     ELSE /\ allocations' = [allocations EXCEPT ![item.view.allocation] = Transformed(@)]
          /\ representationClock' = representationClock + 1
  /\ committed' = [committed EXCEPT ![h] = @ + 1]
  /\ produced' = [produced EXCEPT ![h] = @ \cup {[ref |-> TokenOf(slots', i), kind |-> item.kind]}]
  /\ UNCHANGED <<caller, phase, plan, inventory, heldAllocations, heldFacets, guard>>

FinishCommit(h) ==
  /\ phase[h] = "committing"
  /\ committed[h] = Len(plan[h].items)
  /\ phase' = [phase EXCEPT ![h] = "committed"]
  /\ caller' = NoHold
  /\ UNCHANGED <<arenaVars, poolVars, plan, inventory, committed, produced,
                 heldAllocations, heldFacets, guard>>

----------------------------------------------------------------------------
(* acquire(): the final facets are looked up again, then the allocations   *)
(* are acquired one by one in PointerRef order, then the facets.           *)

FinalUses(h) == plan[h].facets \cup produced[h]

FinalAllocations(h) == inventory[h] \cup Backings(FinalUses(h))

FinalFacets(h) == {use.ref : use \in FinalUses(h)}

FirstPending(ref, pending) ==
  /\ ref \in pending
  /\ \A other \in pending :
        \/ ref.allocation < other.allocation
        \/ ref.allocation = other.allocation /\ ref.generation <= other.generation

BeginAcquire(h) ==
  /\ caller = NoHold
  /\ phase[h] = "committed"
  /\ \A use \in FinalUses(h) : Usable(use)
  /\ phase' = [phase EXCEPT ![h] = "acquiring"]
  /\ caller' = h
  /\ UNCHANGED <<arenaVars, poolVars, plan, inventory, committed, produced,
                 heldAllocations, heldFacets, guard>>

AcquireAllocation(h, ref) ==
  /\ phase[h] = "acquiring"
  /\ FirstPending(ref, FinalAllocations(h) \ heldAllocations[h])
  /\ Live(allocations, ref)
  /\ allocations' = [allocations EXCEPT ![ref.allocation] = Acquired(@)]
  /\ heldAllocations' = [heldAllocations EXCEPT ![h] = @ \cup {ref}]
  /\ UNCHANGED <<nextId, topologyEpoch, representationClock, poolVars,
                 caller, phase, plan, inventory, committed, produced, heldFacets, guard>>

(* begin_gpu_use() cannot fail here: the same lookup succeeded when this   *)
(* call began, and acquiring allocations changes no answer of a lookup.    *)
AcquireFacetUse(h, ref) ==
  /\ phase[h] = "acquiring"
  /\ FinalAllocations(h) = heldAllocations[h]
  /\ ref \in FinalFacets(h) \ heldFacets[h]
  /\ BeginGpuUse(ref)
  /\ heldFacets' = [heldFacets EXCEPT ![h] = @ \cup {ref}]
  /\ UNCHANGED <<arenaVars, caller, phase, plan, inventory, committed, produced,
                 heldAllocations, guard>>

FinishAcquire(h) ==
  /\ phase[h] = "acquiring"
  /\ FinalAllocations(h) = heldAllocations[h]
  /\ FinalFacets(h) = heldFacets[h]
  /\ phase' = [phase EXCEPT ![h] = "held"]
  /\ caller' = NoHold
  /\ UNCHANGED <<arenaVars, poolVars, plan, inventory, committed, produced,
                 heldAllocations, heldFacets, guard>>

----------------------------------------------------------------------------
(* release(): every facet use is ended and every allocation released; the  *)
(* results of the individual calls are ignored.                            *)

AllocationsReleased(refs) ==
  [id \in AllocationIds |->
     IF \E ref \in refs : ref.allocation = id /\ Releasable(allocations, ref)
     THEN Released(allocations[id])
     ELSE allocations[id]]

ReleaseAll(h) ==
  /\ EndGpuUse(heldFacets[h])
  /\ allocations' = AllocationsReleased(heldAllocations[h])
  /\ UNCHANGED <<nextId, topologyEpoch, representationClock>>

(* Mutant: the rollback forgets what it has acquired so far.               *)
RollBackWithoutRelease(h) ==
  /\ phase[h] = "acquiring"
  /\ \E ref \in FinalAllocations(h) :
        /\ FirstPending(ref, FinalAllocations(h) \ heldAllocations[h])
        /\ ~Live(allocations, ref)
  /\ heldAllocations' = [heldAllocations EXCEPT ![h] = {}]
  /\ heldFacets' = [heldFacets EXCEPT ![h] = {}]
  /\ phase' = [phase EXCEPT ![h] = "committed"]
  /\ caller' = NoHold
  /\ UNCHANGED <<arenaVars, poolVars, plan, inventory, committed, produced, guard>>

(* An inventory entry went stale after prepare(): acquire() rolls back.    *)
RollBackAcquire(h) ==
  /\ phase[h] = "acquiring"
  /\ \E ref \in FinalAllocations(h) :
        /\ FirstPending(ref, FinalAllocations(h) \ heldAllocations[h])
        /\ ~Live(allocations, ref)
  /\ ReleaseAll(h)
  /\ heldAllocations' = [heldAllocations EXCEPT ![h] = {}]
  /\ heldFacets' = [heldFacets EXCEPT ![h] = {}]
  /\ phase' = [phase EXCEPT ![h] = "committed"]
  /\ caller' = NoHold
  /\ UNCHANGED <<plan, inventory, committed, produced, guard>>

(* The hold keeps its inventory, so that it can acquire again.             *)
Release(h) ==
  /\ caller = NoHold
  /\ phase[h] = "held"
  /\ ReleaseAll(h)
  /\ heldAllocations' = [heldAllocations EXCEPT ![h] = {}]
  /\ heldFacets' = [heldFacets EXCEPT ![h] = {}]
  /\ phase' = [phase EXCEPT ![h] = "committed"]
  /\ UNCHANGED <<caller, plan, inventory, committed, produced, guard>>

(* The destructor; the plan outlives the submission.                       *)
Destroy(h) ==
  /\ caller = NoHold
  /\ phase[h] \in {"prepared", "committed", "held"}
  /\ ReleaseAll(h)
  /\ heldAllocations' = [heldAllocations EXCEPT ![h] = {}]
  /\ heldFacets' = [heldFacets EXCEPT ![h] = {}]
  /\ inventory' = [inventory EXCEPT ![h] = {}]
  /\ produced' = [produced EXCEPT ![h] = {}]
  /\ committed' = [committed EXCEPT ![h] = 0]
  /\ phase' = [phase EXCEPT ![h] = "planned"]
  /\ UNCHANGED <<caller, plan, guard>>

(* Move assignment: the destination releases what it holds, then takes     *)
(* over the source, which is left empty.                                   *)

(* Mutant: the source keeps what it handed over.                           *)
MovedWithoutReset(f, src, dst, empty) == [f EXCEPT ![dst] = f[src]]

Moved(f, src, dst, empty) == [f EXCEPT ![dst] = f[src], ![src] = empty]

Move(src, dst) ==
  /\ caller = NoHold
  /\ src # dst
  /\ phase[src] \in {"prepared", "committed", "held"}
  /\ ReleaseAll(dst)
  /\ phase' = Moved(phase, src, dst, "planned")
  /\ plan' = [plan EXCEPT ![dst] = plan[src]]
  /\ inventory' = Moved(inventory, src, dst, {})
  /\ committed' = Moved(committed, src, dst, 0)
  /\ produced' = Moved(produced, src, dst, {})
  /\ heldAllocations' = Moved(heldAllocations, src, dst, {})
  /\ heldFacets' = Moved(heldFacets, src, dst, {})
  /\ UNCHANGED <<caller, guard>>

----------------------------------------------------------------------------
(* A backend's FacetUseGuard holds one facet use and no allocation.        *)

BeginGuard(k, ref) ==
  /\ caller = NoHold
  /\ guard[k] = NoFacet
  /\ BeginGpuUse(ref)
  /\ guard' = [guard EXCEPT ![k] = ref]
  /\ UNCHANGED <<arenaVars, caller, phase, plan, inventory, committed, produced,
                 heldAllocations, heldFacets>>

EndGuard(k) ==
  /\ caller = NoHold
  /\ guard[k] # NoFacet
  /\ EndGpuUse({guard[k]})
  /\ guard' = [guard EXCEPT ![k] = NoFacet]
  /\ UNCHANGED <<arenaVars, caller, phase, plan, inventory, committed, produced,
                 heldAllocations, heldFacets>>

(* The owner of the device calls the arena and the pool directly.          *)
CallArena ==
  /\ caller = NoHold
  /\ ArenaNext
  /\ UNCHANGED <<poolVars, holdVars>>

CallPool ==
  /\ caller = NoHold
  /\ PoolNext
  /\ UNCHANGED <<arenaVars, holdVars>>

----------------------------------------------------------------------------

Init ==
  /\ ArenaInit
  /\ PoolInit
  /\ caller = NoHold
  /\ phase = [h \in Holds |-> "unplanned"]
  /\ plan = [h \in Holds |-> NoPlan]
  /\ inventory = [h \in Holds |-> {}]
  /\ committed = [h \in Holds |-> 0]
  /\ produced = [h \in Holds |-> {}]
  /\ heldAllocations = [h \in Holds |-> {}]
  /\ heldFacets = [h \in Holds |-> {}]
  /\ guard = [k \in Scopes |-> NoFacet]

Submit(h) ==
  \/ \E touched \in UpTo(MaxUses, LiveRefs(allocations)),
        facets \in UpTo(MaxUses, PlannableFacets), items \in ItemLists : Assemble(h, touched, facets, items)
  \/ Prepare(h)
  \/ BeginCommit(h)
  \/ RefuseItem(h)
  \/ \E i \in SlotIds : FailItem(h, i) \/ CommitItem(h, i)
  \/ FinishCommit(h)
  \/ BeginAcquire(h)
  \/ \E ref \in FinalAllocations(h) : AcquireAllocation(h, ref)
  \/ \E ref \in FinalFacets(h) : AcquireFacetUse(h, ref)
  \/ FinishAcquire(h)
  \/ RollBackAcquire(h)
  \/ Release(h)
  \/ Destroy(h)

Next ==
  \/ \E h \in Holds : Submit(h)
  \/ \E src, dst \in Holds : Move(src, dst)
  \/ \E k \in Scopes : EndGuard(k) \/ \E ref \in ActiveTokens : BeginGuard(k, ref)
  \/ CallArena
  \/ CallPool

Spec == Init /\ [][Next]_vars

----------------------------------------------------------------------------
(* Properties.                                                             *)

(* Every variable stays within the values its C++ type and the code's own  *)
(* bookkeeping allow; in particular no in-flight count of arena.h or       *)
(* facet.h is ever decremented below zero, and an index is popped from     *)
(* free_list_ only when it is there.                                       *)
TypeOK ==
  /\ ArenaTypeOK
  /\ PoolTypeOK
  /\ caller \in Holds \cup {NoHold}
  /\ phase \in [Holds -> Phases]
  /\ plan \in [Holds -> Plans]
  /\ inventory \in [Holds -> SUBSET PointerRefs]
  /\ committed \in [Holds -> Nat]
  /\ produced \in [Holds -> SUBSET FacetUses]
  /\ heldAllocations \in [Holds -> SUBSET PointerRefs]
  /\ heldFacets \in [Holds -> SUBSET FacetRefs]
  /\ guard \in [Scopes -> FacetRefs \cup {NoFacet}]

AllocationHolders(id) == {h \in Holds : \E ref \in heldAllocations[h] : ref.allocation = id}

HoldsUsing(i) == {h \in Holds : \E ref \in heldFacets[h] : ref.index = i}

GuardsUsing(i) == {k \in Scopes : guard[k] # NoFacet /\ guard[k].index = i}

(* The in-flight counts are exactly the holds and guards outstanding: no   *)
(* sequence of acquire, rollback, release, move-assignment and destruction *)
(* loses a count or returns one twice, although release() ignores what     *)
(* Arena::release and FacetPool::end_gpu_use answer (device_hal.cpp).      *)
Conservation ==
  /\ \A id \in AllocationIds :
        allocations[id].in_flight = Cardinality(AllocationHolders(id))
  /\ \A i \in SlotIds :
        slots[i].in_flight = Cardinality(HoldsUsing(i)) + Cardinality(GuardsUsing(i))

(* What a hold or a guard refers to stays releasable: a held allocation is *)
(* live, and a facet use is found by the generation it began under even    *)
(* when its slot was retired meanwhile, so end_gpu_use never misses it.    *)
HeldIsReleasable ==
  /\ \A h \in Holds : \A ref \in heldAllocations[h] : Live(allocations, ref)
  /\ \A h \in Holds : \A ref \in heldFacets[h] : Outstanding(slots, ref)
  /\ \A k \in Scopes : guard[k] # NoFacet => Outstanding(slots, guard[k])

HeldAfter(h) == heldAllocations[h] \cap heldAllocations'[h]

(* While a submission holds an allocation, no step of any caller retires   *)
(* it, bumps its representation epoch or releases its backing; while it    *)
(* holds a facet, the slot behind the token is not given to another facet. *)
HeldBackingStable ==
  [][\A h \in Holds :
       /\ \A ref \in HeldAfter(h) :
            \A field \in {"generation", "state", "representation_epoch", "backed"} :
               allocations'[ref.allocation][field] = allocations[ref.allocation][field]
       /\ \A ref \in heldFacets[h] \cap heldFacets'[h] :
            \A field \in {"view", "kind", "representation_epoch"} :
               slots'[ref.index][field] = slots[ref.index][field]]_vars

(* A facet token, once given out, names one facet for ever: a slot's       *)
(* generation never falls, and an index that is handed out again for       *)
(* another view, kind or epoch carries a larger generation.                *)
TokenNamesOneFacet ==
  [][\A i \in SlotIds :
       /\ slots'[i].generation >= slots[i].generation
       /\ slots[i].active /\ slots'[i].active /\ slots'[i].generation = slots[i].generation =>
            \A field \in {"view", "kind", "representation_epoch"} :
               slots'[i][field] = slots[i][field]
       /\ slots[i].active /\ ~slots'[i].active => slots'[i].generation > slots[i].generation
       /\ slots[i].in_flight > 0 /\ slots'[i].in_flight > 0 =>
            slots'[i].in_flight_generation = slots[i].in_flight_generation]_vars

(* An index stands in free_list_ exactly when its slot may be reassigned:  *)
(* once if the slot is retired and unused, never while it is active or a   *)
(* use is outstanding.  retire_slot() and end_gpu_use() decide this        *)
(* between them, in whichever order they run.                              *)
FreeListExact ==
  \A i \in SlotIds :
     freeList[i] = IF i < slotCount /\ ~slots[i].active /\ slots[i].in_flight = 0 THEN 1 ELSE 0

(* A commit that releases an allocation's backing found no facet, neither  *)
(* a token nor an outstanding use, on the representation it supersedes,    *)
(* although retire_stale() has erased the tokens by the time the backing   *)
(* goes.                                                                   *)
ConsumeLeavesNoReader ==
  [][caller # NoHold =>
       \A id \in AllocationIds :
          allocations[id].backed /\ ~allocations'[id].backed =>
            \A i \in SlotIds :
               slots[i].active \/ slots[i].in_flight > 0 =>
                 ~ /\ slots[i].view = [allocation |-> id, generation |-> allocations[id].generation]
                   /\ slots[i].representation_epoch = allocations[id].representation_epoch]_vars

(* A plan whose graph_epoch still equals the arena's topology epoch names  *)
(* only live allocations, so the one comparison of epochs stands in for    *)
(* re-validating every pointer of the plan (execution_plan.cpp).           *)
EpochMatchImpliesLive ==
  \A h \in Holds :
     plan[h].graph_epoch = topologyEpoch =>
       \A ref \in plan[h].touched \cup ItemViews(plan[h]) : Live(allocations, ref)

(* Until the commit loop ends, every facet it has already produced still   *)
(* resolves: no later item of the same plan invalidates an earlier one's   *)
(* target, so add_facet and acquire find what the report names.            *)
ProducedFacetsCurrent ==
  \A h \in Holds :
     phase[h] = "committing" =>
       \A use \in produced[h] : Usable(use)

(* The failure branch of begin_gpu_use inside acquire() is dead code: once *)
(* the lookups at the start of acquire() succeeded and every allocation is *)
(* held, every final facet still resolves.                                 *)
FacetUsesCannotFail ==
  \A h \in Holds :
     phase[h] = "acquiring" => \A ref \in FinalFacets(h) : Resolves(allocations, slots, ref)

(* The hold protocol implements the lease of ReaderLease: a hold is a      *)
(* reader of the allocations it acquired, a representation a version.      *)
Lease ==
  INSTANCE ReaderLease WITH
    Objects  <- AllocationIds,
    Readers  <- Holds,
    Versions <- (0..MaxEpoch) \X BOOLEAN,
    life     <- [id \in AllocationIds |-> allocations[id].state],
    version  <- [id \in AllocationIds |->
                   <<allocations[id].representation_epoch, allocations[id].backed>>],
    readers  <- [id \in AllocationIds |-> AllocationHolders(id)]

ImplementsReaderLease == Lease!Spec
=============================================================================
