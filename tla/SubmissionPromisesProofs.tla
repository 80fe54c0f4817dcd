----------------------- MODULE SubmissionPromisesProofs -----------------------
(* What the submissions promise of tokens, plans and commits, for every    *)
(* value of the constants, and that the hold protocol implements the lease *)
(* of ReaderLease.  The invariants extend HoldInv of SubmissionLifetimeProofs *)
(* by what a plan and a running call may rely on.                          *)
EXTENDS SubmissionLifetimeProofs

----------------------------------------------------------------------------
(* Tokens.  What every step does to one slot: the generation never falls,  *)
(* the facet behind an active generation stays, and retiring it advances   *)
(* the generation.                                                         *)
TokenStep(s, t) ==
  /\ t.generation >= s.generation
  /\ s.active /\ t.active /\ t.generation = s.generation =>
       /\ t.view = s.view /\ t.kind = s.kind
       /\ t.representation_epoch = s.representation_epoch
  /\ s.active /\ ~t.active => t.generation > s.generation

(* The use that a slot counts keeps its generation while it is counted.    *)
UseStep(s, t) ==
  s.in_flight > 0 /\ t.in_flight > 0 => t.in_flight_generation = s.in_flight_generation

TokenSteps(sl, next) == \A i \in SlotIds : TokenStep(sl[i], next[i])

UseSteps(sl, next) == \A i \in SlotIds : UseStep(sl[i], next[i])

LEMMA TokenStepsTransitive ==
  ASSUME NEW a \in [SlotIds -> Slot], NEW b \in [SlotIds -> Slot], NEW c \in [SlotIds -> Slot],
         TokenSteps(a, b), TokenSteps(b, c)
  PROVE  TokenSteps(a, c)
<1> SUFFICES ASSUME NEW i \in SlotIds PROVE TokenStep(a[i], c[i])
  BY DEF TokenSteps
<1>1. a[i].generation \in Nat /\ b[i].generation \in Nat /\ c[i].generation \in Nat
  BY DEF Slot
<1>2. TokenStep(a[i], b[i]) /\ TokenStep(b[i], c[i])
  BY DEF TokenSteps
<1> QED
  BY <1>1, <1>2 DEF TokenStep

(* retire_slot() advances the generation with the retirement.              *)
LEMMA RetireTokens ==
  ASSUME NEW sl \in [SlotIds -> Slot], NEW S
  PROVE  TokenSteps(sl, SlotsRetired(sl, S))
<1> SUFFICES ASSUME NEW i \in SlotIds PROVE TokenStep(sl[i], SlotsRetired(sl, S)[i])
  BY DEF TokenSteps
<1>1. sl[i] \in Slot /\ sl[i].generation \in Nat
  BY DEF Slot
<1>2. RetiredSlot(sl[i]).generation = sl[i].generation + 1 /\ ~RetiredSlot(sl[i]).active
  BY <1>1 DEF RetiredSlot, Slot
<1>3. TokenStep(sl[i], RetiredSlot(sl[i])) /\ TokenStep(sl[i], sl[i])
  BY <1>1, <1>2 DEF TokenStep
<1> QED
  BY <1>3 DEF SlotsRetired

(* An index that acquire() may place a facet at has no active facet.       *)
LEMMA PlaceableIsVacant ==
  ASSUME NEW sl, NEW fr \in [SlotIds -> Nat], slotCount \in Nat, PoolShape(sl, slotCount, fr),
         NEW i \in SlotIds, Placeable(fr, i)
  PROVE  ~sl[i].active /\ sl[i].in_flight = 0
<1>1. CASE fr[i] > 0
  BY <1>1 DEF PoolShape
<1>2. CASE ~(fr[i] > 0)
  <2>1. i = slotCount
    BY <1>2 DEF Placeable
  <2> QED
    BY <2>1 DEF PoolShape
<1> QED
  BY <1>1, <1>2

(* What acquire() leaves: the slot of the new facet, and the other slots.  *)
PlacedAt(sl, next, i, view, kind, epoch) ==
  /\ next[i].active /\ next[i].generation = sl[i].generation
  /\ next[i].view = view /\ next[i].kind = kind
  /\ next[i].representation_epoch = epoch
  /\ next[i].in_flight = 0
  /\ \A j \in SlotIds : j # i => next[j] = sl[j]

LEMMA PlacedSlot ==
  ASSUME NEW arena, NEW sl \in [SlotIds -> Slot], NEW i \in SlotIds, NEW view, NEW kind
  PROVE  PlacedAt(sl, Placed(arena, sl, i, view, kind), i, view, kind,
                  arena[view.allocation].representation_epoch)
<1> DEFINE gen == sl[i].generation
           epoch == arena[view.allocation].representation_epoch
           at == [UnusedSlot EXCEPT !.generation = gen, !.active = TRUE, !.kind = kind,
                    !.view = view, !.representation_epoch = epoch]
<1> HIDE DEF gen, epoch
<1>1. /\ at.active /\ at.generation = gen /\ at.view = view /\ at.kind = kind
      /\ at.representation_epoch = epoch /\ at.in_flight = 0
  BY DEF UnusedSlot
<1> HIDE DEF at
<1>2. PlacedAt(sl, [sl EXCEPT ![i] = at], i, view, kind, epoch)
  BY <1>1 DEF PlacedAt, gen
<1>3. Placed(arena, sl, i, view, kind) = [sl EXCEPT ![i] = at]
  BY DEF Placed, at, gen, epoch
<1> QED
  BY <1>2, <1>3 DEF epoch

LEMMA PlaceTokens ==
  ASSUME NEW sl \in [SlotIds -> Slot], NEW fr \in [SlotIds -> Nat], slotCount \in Nat,
         PoolShape(sl, slotCount, fr), NEW i \in SlotIds, Placeable(fr, i),
         NEW next \in [SlotIds -> Slot], NEW view, NEW kind, NEW epoch,
         PlacedAt(sl, next, i, view, kind, epoch)
  PROVE  TokenSteps(sl, next)
<1>1. ~sl[i].active
  BY PlaceableIsVacant
<1>2. ASSUME NEW j \in SlotIds PROVE TokenStep(sl[j], next[j])
  <2>1. sl[j].generation \in Nat
    BY DEF Slot
  <2>2. CASE j = i
    BY <1>1, <2>1, <2>2 DEF TokenStep, PlacedAt
  <2>3. CASE j # i
    BY <2>1, <2>3 DEF TokenStep, PlacedAt
  <2> QED
    BY <2>2, <2>3
<1> QED
  BY <1>2 DEF TokenSteps

LEMMA KeptUses ==
  ASSUME NEW sl, NEW next, Kept(sl, next), \A i \in SlotIds : sl[i].in_flight \in Nat
  PROVE  UseSteps(sl, next)
  BY DEF Kept, SlotKept, UseSteps, UseStep

(* begin_gpu_use() and end_gpu_use() leave a token what it was, and a use  *)
(* begun beside another one is begun under the same generation.            *)
LEMMA UseTokens ==
  ASSUME PoolTypeOK, UsesCurrent(slots),
         \/ \E ref \in FacetRefs : BeginGpuUse(ref)
         \/ \E S : EndGpuUse(S)
  PROVE  TokenSteps(slots, slots') /\ UseSteps(slots, slots')
<1> SUFFICES ASSUME NEW i \in SlotIds
             PROVE  TokenStep(slots[i], slots'[i]) /\ UseStep(slots[i], slots'[i])
  BY DEF TokenSteps, UseSteps
<1> DEFINE s == slots[i]
<1>1. s \in Slot /\ s.generation \in Nat /\ s.in_flight \in Nat
  BY DEF PoolTypeOK, Slot
<1>2. TokenStep(s, s) /\ UseStep(s, s)
  BY <1>1 DEF TokenStep, UseStep
<1>3. ASSUME NEW ref \in FacetRefs, BeginGpuUse(ref)
      PROVE  TokenStep(s, slots'[i]) /\ UseStep(s, slots'[i])
  <2>1. CASE ref.index = i
    <3> DEFINE uses == s.in_flight + 1
               current == s.generation
    <3>1. slots'[i] = [s EXCEPT !.in_flight = uses, !.in_flight_generation = current]
      BY <1>3, <2>1 DEF BeginGpuUse, UsesBegun
    <3>2. s.active
      BY <1>3, <2>1 DEF BeginGpuUse, Resolves
    <3> HIDE DEF uses, current
    <3>3. /\ slots'[i].active = s.active /\ slots'[i].generation = s.generation
          /\ slots'[i].view = s.view /\ slots'[i].kind = s.kind
          /\ slots'[i].representation_epoch = s.representation_epoch
          /\ slots'[i].in_flight_generation = current
      BY <1>1, <3>1 DEF Slot
    <3>4. s.in_flight # 0 => s.in_flight_generation = current
      BY <3>2 DEF UsesCurrent, current
    <3> QED
      BY <1>1, <3>3, <3>4 DEF TokenStep, UseStep
  <2>2. CASE ref.index # i
    <3>1. slots'[i] = s
      BY <1>3, <2>2 DEF BeginGpuUse, UsesBegun
    <3> QED
      BY <1>2, <3>1
  <2> QED
    BY <2>1, <2>2
<1>4. ASSUME NEW S, EndGpuUse(S)
      PROVE  TokenStep(s, slots'[i]) /\ UseStep(s, slots'[i])
  <2>1. slots'[i] = s \/ slots'[i] = [s EXCEPT !.in_flight = @ - 1]
    BY <1>4 DEF EndGpuUse, UsesEnded
  <2> HIDE DEF s
  <2>2. /\ slots'[i].active = s.active /\ slots'[i].generation = s.generation
        /\ slots'[i].view = s.view /\ slots'[i].kind = s.kind
        /\ slots'[i].representation_epoch = s.representation_epoch
        /\ slots'[i].in_flight_generation = s.in_flight_generation
    BY <1>1, <2>1 DEF Slot
  <2> QED
    BY <1>1, <2>2 DEF TokenStep, UseStep
<1> QED
  BY <1>3, <1>4

(* What a commit's pool operations compose to, named for the proofs below. *)
LEMMA PublishParts ==
  ASSUME TypeOK, Shape, NEW item \in Items, NEW i \in SlotIds, PublishEpoch(item, i)
  PROVE  LET arena == [allocations EXCEPT ![item.view.allocation] = Transformed(@)]
             S  == StaleSlots(arena, slots)
             sl == SlotsRetired(slots, S)
             fr == FreeAfterRetire(slots, freeList, S) IN
         /\ sl \in [SlotIds -> Slot] /\ fr \in [SlotIds -> Nat]
         /\ PoolShape(sl, slotCount, fr) /\ Placeable(fr, i)
         /\ slots' = Placed(arena, sl, i, item.view, item.kind)
<1>0. slots \in [SlotIds -> Slot] /\ freeList \in [SlotIds -> Nat] /\ slotCount \in Nat
  BY DEF TypeOK, PoolTypeOK
<1> DEFINE arena == [allocations EXCEPT ![item.view.allocation] = Transformed(@)]
           S  == StaleSlots(arena, slots)
           sl == SlotsRetired(slots, S)
           fr == FreeAfterRetire(slots, freeList, S)
<1>1. sl \in [SlotIds -> Slot] /\ fr \in [SlotIds -> Nat]
  BY <1>0, SlotEffects, FreeListEffects
<1>2. \A j \in S : j \in SlotIds /\ slots[j].active
  BY DEF StaleSlots
<1>3. PoolShape(sl, slotCount, fr)
  BY <1>0, <1>2, RetireKeepsShape DEF Shape
<1>4. Placeable(fr, i) /\ slots' = Placed(arena, sl, i, item.view, item.kind)
  BY DEF PublishEpoch
<1> QED
  BY <1>1, <1>3, <1>4

LEMMA TokenStepLemma ==
  ASSUME HoldInv, [Next]_vars
  PROVE  TokenSteps(slots, slots') /\ UseSteps(slots, slots')
<1>0. /\ TypeOK /\ Shape /\ PoolTypeOK /\ UsesCurrent(slots)
      /\ slots \in [SlotIds -> Slot] /\ slots' \in [SlotIds -> Slot] /\ freeList \in [SlotIds -> Nat] /\ slotCount \in Nat
      /\ \A i \in SlotIds : slots[i].in_flight \in Nat
  BY NextTyped DEF HoldInv, FacetInv, TypeOK, PoolTypeOK, Slot
<1>1. CASE UNCHANGED poolVars
  <2>1. slots' = slots
    BY <1>1 DEF poolVars
  <2>2. ASSUME NEW i \in SlotIds PROVE TokenStep(slots[i], slots[i]) /\ UseStep(slots[i], slots[i])
    <3>1. slots[i].generation \in Nat
      BY <1>0 DEF Slot
    <3> QED
      BY <3>1 DEF TokenStep, UseStep
  <2> QED
    BY <2>1, <2>2 DEF TokenSteps, UseSteps
<1>2. CASE PoolNext
  <2>1. UseSteps(slots, slots')
    BY <1>0, <1>2, PoolCallKept, KeptUses
  <2>2. ASSUME NEW view \in LiveRefs(allocations), NEW kind \in Kinds, NEW i \in SlotIds,
               AcquireFacet(view, kind, i)
        PROVE  TokenSteps(slots, slots')
    BY <1>0, <2>2, PlacedSlot, PlaceTokens DEF AcquireFacet, Shape
  <2>3. ASSUME NEW ref \in ActiveTokens, RetireFacet(ref) PROVE TokenSteps(slots, slots')
    BY <1>0, <2>3, RetireTokens DEF RetireFacet
  <2>4. RetireStale => TokenSteps(slots, slots')
    BY <1>0, RetireTokens DEF RetireStale
  <2> QED
    BY <1>2, <2>1, <2>2, <2>3, <2>4 DEF PoolNext
<1>3. CASE \/ \E ref \in FacetRefs : BeginGpuUse(ref)
           \/ \E S : EndGpuUse(S)
  BY <1>0, <1>3, UseTokens
<1>4. ASSUME NEW item \in Items, NEW i \in SlotIds, PublishEpoch(item, i)
      PROVE  TokenSteps(slots, slots') /\ UseSteps(slots, slots')
  <2>1. UseSteps(slots, slots')
    BY <1>0, <1>4, PublishKept, KeptUses
  <2> DEFINE arena == [allocations EXCEPT ![item.view.allocation] = Transformed(@)]
             S  == StaleSlots(arena, slots)
             sl == SlotsRetired(slots, S)
             fr == FreeAfterRetire(slots, freeList, S)
  <2>2. /\ sl \in [SlotIds -> Slot] /\ fr \in [SlotIds -> Nat]
        /\ PoolShape(sl, slotCount, fr) /\ Placeable(fr, i)
        /\ slots' = Placed(arena, sl, i, item.view, item.kind)
    BY <1>0, <1>4, PublishParts
  <2>3. TokenSteps(slots, sl)
    BY <1>0, RetireTokens
  <2> HIDE DEF arena, S, sl, fr
  <2>4. TokenSteps(sl, slots')
    BY <1>0, <2>2, PlacedSlot, PlaceTokens
  <2> QED
    BY <1>0, <2>1, <2>2, <2>3, <2>4, TokenStepsTransitive
<1> QED
  BY <1>0, <1>1, <1>2, <1>3, <1>4, PoolSteps

(* A FacetRef of facet.h names one facet for ever: no sequence of acquire, *)
(* retire and GPU uses, in any pool, lets an old token resolve to another  *)
(* view, kind or epoch, and a use keeps the generation it began under.     *)
THEOREM TokensNameOneFacet == Spec => TokenNamesOneFacet
<1>1. HoldInv /\ [Next]_vars =>
        [\A i \in SlotIds :
           /\ slots'[i].generation >= slots[i].generation
           /\ slots[i].active /\ slots'[i].active /\ slots'[i].generation = slots[i].generation =>
                \A field \in {"view", "kind", "representation_epoch"} :
                   slots'[i][field] = slots[i][field]
           /\ slots[i].active /\ ~slots'[i].active => slots'[i].generation > slots[i].generation
           /\ slots[i].in_flight > 0 /\ slots'[i].in_flight > 0 =>
                slots'[i].in_flight_generation = slots[i].in_flight_generation]_vars
  BY TokenStepLemma DEF TokenSteps, TokenStep, UseSteps, UseStep
<1> QED
  BY <1>1, HoldInvariant, PTL DEF Spec, TokenNamesOneFacet

----------------------------------------------------------------------------
(* The calls with several steps.  A submission inside one has the thread.  *)
InCall(h) == phase[h] \in {"committing", "acquiring"}

CallerInv == \A h \in Holds : InCall(h) => caller = h

LEMMA NobodyInCall ==
  ASSUME CallerInv, caller = NoHold
  PROVE  \A h \in Holds : ~InCall(h)
  BY HoldAssumption DEF CallerInv

LEMMA CallerStep ==
  ASSUME HoldTypeOK, CallerInv, [Next]_vars
  PROVE  CallerInv'
<1>0. phase \in [Holds -> Phases]
  BY DEF HoldTypeOK
<1>1. UNCHANGED <<phase, caller>> => CallerInv'
  BY DEF CallerInv, InCall
<1>2. ASSUME NEW h \in Holds, Submit(h) PROVE CallerInv'
  <2>1. CASE \/ \E touched \in UpTo(MaxUses, LiveRefs(allocations)),
                  facets \in UpTo(MaxUses, PlannableFacets), items \in ItemLists :
                    Assemble(h, touched, facets, items)
             \/ Prepare(h) \/ Release(h) \/ Destroy(h)
    <3>1. /\ caller = NoHold /\ caller' = caller
          /\ \E p \in {"planned", "prepared", "committed"} : phase' = [phase EXCEPT ![h] = p]
      BY <2>1 DEF Assemble, Prepare, Release, Destroy
    <3> QED
      BY <1>0, <3>1, NobodyInCall DEF CallerInv, InCall
  <2>2. CASE BeginCommit(h) \/ BeginAcquire(h)
    <3>1. /\ caller = NoHold /\ caller' = h
          /\ \E p \in Phases : phase' = [phase EXCEPT ![h] = p]
      BY <2>2 DEF BeginCommit, BeginAcquire, Phases
    <3> QED
      BY <1>0, <3>1, NobodyInCall DEF CallerInv, InCall
  <2>3. CASE \/ RefuseItem(h) \/ FinishCommit(h) \/ FinishAcquire(h) \/ RollBackAcquire(h)
             \/ \E i \in SlotIds : FailItem(h, i)
    <3>1. /\ InCall(h) /\ caller' = NoHold
          /\ \E p \in {"planned", "committed", "held"} : phase' = [phase EXCEPT ![h] = p]
      BY <2>3 DEF RefuseItem, FinishCommit, FinishAcquire, RollBackAcquire, FailItem,
                  AbandonCommit, InCall
    <3> QED
      BY <1>0, <3>1 DEF CallerInv, InCall
  <2>4. CASE \/ \E i \in SlotIds : CommitItem(h, i)
             \/ \E ref \in FinalAllocations(h) : AcquireAllocation(h, ref)
             \/ \E ref \in FinalFacets(h) : AcquireFacetUse(h, ref)
    BY <1>1, <2>4 DEF CommitItem, AcquireAllocation, AcquireFacetUse
  <2> QED
    BY <1>2, <2>1, <2>2, <2>3, <2>4 DEF Submit
<1>3. ASSUME NEW src \in Holds, NEW dst \in Holds, Move(src, dst) PROVE CallerInv'
  <2>1. /\ caller = NoHold /\ caller' = caller
        /\ phase' = [phase EXCEPT ![dst] = phase[src], ![src] = "planned"]
    BY <1>3 DEF Move, Moved
  <2> QED
    BY <1>0, <2>1, NobodyInCall DEF CallerInv, InCall
<1>4. CASE \/ \E k \in Scopes : EndGuard(k) \/ \E ref \in ActiveTokens : BeginGuard(k, ref)
           \/ CallArena \/ CallPool \/ UNCHANGED vars
  BY <1>1, <1>4 DEF EndGuard, BeginGuard, CallArena, CallPool, holdVars, vars
<1> QED
  BY <1>2, <1>3, <1>4 DEF Next

(* A submission acts only when it has the thread, or nobody is in a call.  *)
LEMMA SubmitAlone ==
  ASSUME HoldTypeOK, CallerInv, NEW g \in Holds, Submit(g)
  PROVE  /\ caller = NoHold \/ caller = g
         /\ \A h \in Holds : h # g => phase'[h] = phase[h]
<1>1. caller = NoHold \/ caller = g
  BY DEF Submit, Assemble, Prepare, BeginCommit, RefuseItem, FailItem, CommitItem,
         FinishCommit, BeginAcquire, AcquireAllocation, AcquireFacetUse, FinishAcquire,
         RollBackAcquire, Release, Destroy, CallerInv, InCall
<1>2. phase' = phase \/ \E p : phase' = [phase EXCEPT ![g] = p]
  BY DEF Submit, Assemble, Prepare, BeginCommit, RefuseItem, FailItem, CommitItem,
         AbandonCommit, FinishCommit, BeginAcquire, AcquireAllocation, AcquireFacetUse,
         FinishAcquire, RollBackAcquire, Release, Destroy
<1> QED
  BY <1>1, <1>2 DEF HoldTypeOK

(* Inside acquire() of a hold, only that call takes steps.                 *)
LEMMA AcquiringSteps ==
  ASSUME HoldTypeOK, CallerInv, [Next]_vars, NEW h \in Holds, phase'[h] = "acquiring"
  PROVE  \/ BeginAcquire(h)
         \/ /\ phase[h] = "acquiring"
            /\ \/ \E ref \in FinalAllocations(h) : AcquireAllocation(h, ref)
               \/ \E ref \in FinalFacets(h) : AcquireFacetUse(h, ref)
               \/ UNCHANGED vars
<1> DEFINE Goal == \/ BeginAcquire(h)
                   \/ /\ phase[h] = "acquiring"
                      /\ \/ \E ref \in FinalAllocations(h) : AcquireAllocation(h, ref)
                         \/ \E ref \in FinalFacets(h) : AcquireFacetUse(h, ref)
                         \/ UNCHANGED vars
<1>0. phase \in [Holds -> Phases]
  BY DEF HoldTypeOK
<1>1. phase[h] # "acquiring" \/ caller = h
  BY DEF CallerInv, InCall
<1>2. caller = NoHold => phase[h] # "acquiring"
  BY <1>1, HoldAssumption
<1>3. ASSUME NEW g \in Holds, Submit(g) PROVE Goal
  <2>1. CASE g = h
    <3>1. CASE \/ \E touched \in UpTo(MaxUses, LiveRefs(allocations)),
                    facets \in UpTo(MaxUses, PlannableFacets), items \in ItemLists :
                      Assemble(h, touched, facets, items)
               \/ Prepare(h) \/ BeginCommit(h) \/ RefuseItem(h)
               \/ \E i \in SlotIds : FailItem(h, i)
               \/ FinishCommit(h) \/ FinishAcquire(h) \/ RollBackAcquire(h)
               \/ Release(h) \/ Destroy(h)
      <4>1. \E p \in Phases \ {"acquiring"} : phase' = [phase EXCEPT ![h] = p]
        BY <3>1 DEF Assemble, Prepare, BeginCommit, RefuseItem, FailItem, AbandonCommit,
             FinishCommit, FinishAcquire, RollBackAcquire, Release, Destroy, Phases
      <4> QED
        BY <1>0, <4>1
    <3>2. ASSUME NEW i \in SlotIds, CommitItem(h, i) PROVE phase'[h] = "committing"
      BY <3>2 DEF CommitItem
    <3>3. CASE \/ \E ref \in FinalAllocations(h) : AcquireAllocation(h, ref)
               \/ \E ref \in FinalFacets(h) : AcquireFacetUse(h, ref)
      BY <3>3 DEF AcquireAllocation, AcquireFacetUse
    <3> QED
      BY <1>3, <2>1, <3>1, <3>2, <3>3 DEF Submit
  <2>2. CASE g # h
    BY <1>1, <1>2, <1>3, <2>2, SubmitAlone
  <2> QED
    BY <2>1, <2>2
<1>4. ASSUME NEW src \in Holds, NEW dst \in Holds, Move(src, dst) PROVE Goal
  BY <1>0, <1>2, <1>4 DEF Move, Moved
<1>5. CASE \/ \E k \in Scopes : EndGuard(k) \/ \E ref \in ActiveTokens : BeginGuard(k, ref)
           \/ CallArena \/ CallPool
  BY <1>2, <1>5 DEF EndGuard, BeginGuard, CallArena, CallPool, holdVars
<1>6. CASE UNCHANGED vars
  BY <1>6 DEF vars, holdVars
<1> QED
  BY <1>3, <1>4, <1>5, <1>6 DEF Next

(* Inside commit_representation_operations() likewise.                     *)
LEMMA CommittingSteps ==
  ASSUME HoldTypeOK, CallerInv, [Next]_vars, NEW h \in Holds, phase'[h] = "committing"
  PROVE  \/ BeginCommit(h)
         \/ /\ phase[h] = "committing"
            /\ \/ \E i \in SlotIds : CommitItem(h, i)
               \/ UNCHANGED vars
<1> DEFINE Goal == \/ BeginCommit(h)
                   \/ /\ phase[h] = "committing"
                      /\ \/ \E i \in SlotIds : CommitItem(h, i)
                         \/ UNCHANGED vars
<1>0. phase \in [Holds -> Phases]
  BY DEF HoldTypeOK
<1>1. phase[h] # "committing" \/ caller = h
  BY DEF CallerInv, InCall
<1>2. caller = NoHold => phase[h] # "committing"
  BY <1>1, HoldAssumption
<1>3. ASSUME NEW g \in Holds, Submit(g) PROVE Goal
  <2>1. CASE g = h
    <3>1. CASE \/ \E touched \in UpTo(MaxUses, LiveRefs(allocations)),
                    facets \in UpTo(MaxUses, PlannableFacets), items \in ItemLists :
                      Assemble(h, touched, facets, items)
               \/ Prepare(h) \/ RefuseItem(h) \/ \E i \in SlotIds : FailItem(h, i)
               \/ FinishCommit(h) \/ BeginAcquire(h) \/ FinishAcquire(h)
               \/ RollBackAcquire(h) \/ Release(h) \/ Destroy(h)
      <4>1. \E p \in Phases \ {"committing"} : phase' = [phase EXCEPT ![h] = p]
        BY <3>1 DEF Assemble, Prepare, RefuseItem, FailItem, AbandonCommit, FinishCommit,
             BeginAcquire, FinishAcquire, RollBackAcquire, Release, Destroy, Phases
      <4> QED
        BY <1>0, <4>1
    <3>2. CASE \/ \E ref \in FinalAllocations(h) : AcquireAllocation(h, ref)
               \/ \E ref \in FinalFacets(h) : AcquireFacetUse(h, ref)
      <4>1. phase'[h] = "acquiring"
        BY <3>2 DEF AcquireAllocation, AcquireFacetUse
      <4> QED
        BY <4>1
    <3>3. ASSUME NEW i \in SlotIds, CommitItem(h, i) PROVE phase[h] = "committing"
      BY <3>3 DEF CommitItem
    <3> QED
      BY <1>3, <2>1, <3>1, <3>2, <3>3 DEF Submit
  <2>2. CASE g # h
    BY <1>1, <1>2, <1>3, <2>2, SubmitAlone
  <2> QED
    BY <2>1, <2>2
<1>4. ASSUME NEW src \in Holds, NEW dst \in Holds, Move(src, dst) PROVE Goal
  BY <1>0, <1>2, <1>4 DEF Move, Moved
<1>5. CASE \/ \E k \in Scopes : EndGuard(k) \/ \E ref \in ActiveTokens : BeginGuard(k, ref)
           \/ CallArena \/ CallPool
  BY <1>2, <1>5 DEF EndGuard, BeginGuard, CallArena, CallPool, holdVars
<1>6. CASE UNCHANGED vars
  BY <1>6 DEF vars, holdVars
<1> QED
  BY <1>3, <1>4, <1>5, <1>6 DEF Next

----------------------------------------------------------------------------
(* A lookup keeps its answer when the facet's slot keeps its token and the *)
(* allocation behind it its life and epoch.                                *)
LEMMA ResolvesKept ==
  ASSUME PoolTypeOK, NEW ref \in FacetRefs, Resolves(allocations, slots, ref),
         slotCount' \in Nat, slotCount' >= slotCount,
         slots'[ref.index].active, slots'[ref.index].generation = slots[ref.index].generation,
         slots'[ref.index].view = slots[ref.index].view,
         slots'[ref.index].representation_epoch = slots[ref.index].representation_epoch,
         LET id == slots[ref.index].view.allocation IN
           /\ allocations'[id].state = allocations[id].state
           /\ allocations'[id].generation = allocations[id].generation
           /\ allocations'[id].representation_epoch = allocations[id].representation_epoch
  PROVE  Resolves(allocations, slots, ref)'
<1>1. /\ ref.index < slotCount /\ slots[ref.index].generation = ref.generation
      /\ Current(allocations, slots[ref.index])
  BY DEF Resolves
<1>2. ref.index \in Nat /\ slotCount \in Nat
  BY DEF SlotIds, FacetRefs, PoolTypeOK
<1>3. ref.index < slotCount'
  BY <1>1, <1>2
<1>4. Current(allocations, slots[ref.index])'
  BY <1>1 DEF Current, AtEpoch, Live
<1> QED
  BY <1>1, <1>3, <1>4 DEF Resolves

(* acquire() of an allocation leaves what a lookup asks of it.             *)
LEMMA AcquiredAnswers ==
  ASSUME ArenaTypeOK, NEW ref \in PointerRefs,
         allocations' = [allocations EXCEPT ![ref.allocation] = Acquired(@)]
  PROVE  \A id \in AllocationIds :
           /\ allocations'[id].state = allocations[id].state
           /\ allocations'[id].generation = allocations[id].generation
           /\ allocations'[id].representation_epoch = allocations[id].representation_epoch
           /\ allocations'[id].backed = allocations[id].backed
<1> SUFFICES ASSUME NEW id \in AllocationIds
             PROVE  /\ allocations'[id].state = allocations[id].state
                    /\ allocations'[id].generation = allocations[id].generation
                    /\ allocations'[id].representation_epoch = allocations[id].representation_epoch
                    /\ allocations'[id].backed = allocations[id].backed
  OBVIOUS
<1>1. allocations[id] \in Allocation
  BY DEF ArenaTypeOK
<1>2. allocations'[id] = allocations[id] \/ allocations'[id] = Acquired(allocations[id])
  BY DEF ArenaTypeOK
<1> QED
  BY <1>1, <1>2 DEF Acquired, Allocation

(* begin_gpu_use() leaves every token of the pool as it was.               *)
LEMMA BegunTokens ==
  ASSUME PoolTypeOK, NEW ref, BeginGpuUse(ref)
  PROVE  \A i \in SlotIds :
           /\ slots'[i].active = slots[i].active
           /\ slots'[i].generation = slots[i].generation
           /\ slots'[i].view = slots[i].view
           /\ slots'[i].kind = slots[i].kind
           /\ slots'[i].representation_epoch = slots[i].representation_epoch
<1> SUFFICES ASSUME NEW i \in SlotIds
             PROVE  /\ slots'[i].active = slots[i].active
                    /\ slots'[i].generation = slots[i].generation
                    /\ slots'[i].view = slots[i].view
                    /\ slots'[i].kind = slots[i].kind
                    /\ slots'[i].representation_epoch = slots[i].representation_epoch
  OBVIOUS
<1> DEFINE uses == slots[i].in_flight + 1
           current == slots[i].generation
<1>1. slots[i] \in Slot
  BY DEF PoolTypeOK
<1>2. \/ slots'[i] = slots[i]
      \/ slots'[i] = [slots[i] EXCEPT !.in_flight = uses, !.in_flight_generation = current]
  BY DEF BeginGpuUse, UsesBegun
<1> HIDE DEF uses, current
<1> QED
  BY <1>1, <1>2 DEF Slot

LEMMA FacetUsesStep ==
  ASSUME TypeOK, CallerInv, FacetUsesCannotFail, [Next]_vars
  PROVE  FacetUsesCannotFail'
<1> SUFFICES ASSUME NEW h \in Holds, phase'[h] = "acquiring", NEW ref \in FinalFacets(h)'
             PROVE  Resolves(allocations, slots, ref)'
  BY DEF FacetUsesCannotFail
<1>0. ArenaTypeOK /\ PoolTypeOK /\ HoldTypeOK /\ TypeOK'
  BY TypeParts, NextTyped
<1>1. CASE BeginAcquire(h)
  <2>1. FinalFacets(h)' = FinalFacets(h) /\ UNCHANGED <<allocations, slots, slotCount>>
    BY <1>1 DEF BeginAcquire, FinalFacets, FinalUses, arenaVars, poolVars
  <2>2. PICK use \in FinalUses(h) : ref = use.ref
    BY <2>1 DEF FinalFacets
  <2>3. Usable(use)
    BY <1>1 DEF BeginAcquire
  <2> QED
    BY <2>1, <2>2, <2>3 DEF Usable, Resolves
<1>2. ASSUME phase[h] = "acquiring", FinalFacets(h)' = FinalFacets(h)
      PROVE  Resolves(allocations, slots, ref) /\ ref \in FacetRefs
  BY <1>2, FinalTyped DEF FacetUsesCannotFail
<1>3. ASSUME phase[h] = "acquiring", NEW r \in FinalAllocations(h), AcquireAllocation(h, r)
      PROVE  Resolves(allocations, slots, ref)'
  <2>1. /\ FinalFacets(h)' = FinalFacets(h) /\ UNCHANGED <<slots, slotCount>>
        /\ allocations' = [allocations EXCEPT ![r.allocation] = Acquired(@)]
    BY <1>3 DEF AcquireAllocation, FinalFacets, FinalUses, poolVars
  <2>2. r \in PointerRefs /\ Resolves(allocations, slots, ref) /\ ref \in FacetRefs
    BY <1>2, <1>3, <2>1, FinalTyped
  <2>3. slots[ref.index] \in Slot
    BY <1>0, <2>2 DEF PoolTypeOK, FacetRefs
  <2>4. slots[ref.index].view.allocation \in AllocationIds
    BY <2>3 DEF Slot, PointerRefs
  <2>5. slotCount' \in Nat /\ slotCount' >= slotCount /\ slots[ref.index].active
    BY <1>0, <2>1, <2>2 DEF TypeOK, PoolTypeOK, Resolves
  <2>6. LET id == slots[ref.index].view.allocation IN
           /\ allocations'[id].state = allocations[id].state
           /\ allocations'[id].generation = allocations[id].generation
           /\ allocations'[id].representation_epoch = allocations[id].representation_epoch
    BY <1>0, <2>1, <2>2, <2>4, AcquiredAnswers
  <2> QED
    BY <1>0, <2>1, <2>2, <2>5, <2>6, ResolvesKept
<1>4. ASSUME phase[h] = "acquiring", NEW r \in FinalFacets(h), AcquireFacetUse(h, r)
      PROVE  Resolves(allocations, slots, ref)'
  <2>1. /\ FinalFacets(h)' = FinalFacets(h) /\ allocations' = allocations
        /\ BeginGpuUse(r) /\ slotCount' = slotCount
    BY <1>4 DEF AcquireFacetUse, BeginGpuUse, FinalFacets, FinalUses, arenaVars
  <2>2. Resolves(allocations, slots, ref) /\ ref \in FacetRefs /\ ref.index \in SlotIds
    BY <1>2, <1>4, <2>1 DEF FacetRefs
  <2>3. slotCount' \in Nat /\ slotCount' >= slotCount /\ slots[ref.index].active
    BY <1>0, <2>1, <2>2 DEF PoolTypeOK, Resolves
  <2> QED
    BY <1>0, <2>1, <2>2, <2>3, BegunTokens, ResolvesKept
<1>5. CASE phase[h] = "acquiring" /\ UNCHANGED vars
  <2>1. FinalFacets(h)' = FinalFacets(h) /\ UNCHANGED <<allocations, slots, slotCount>>
    BY <1>5 DEF vars, holdVars, arenaVars, poolVars, FinalFacets, FinalUses
  <2> QED
    BY <1>2, <1>5, <2>1 DEF Resolves
<1> QED
  BY <1>0, <1>1, <1>3, <1>4, <1>5, AcquiringSteps

LEMMA CallInvariant == Spec => [](CallerInv /\ FacetUsesCannotFail)
<1>1. Init => CallerInv /\ FacetUsesCannotFail
  BY DEF Init, CallerInv, InCall, FacetUsesCannotFail
<1>2. /\ TypeOK /\ CallerInv /\ FacetUsesCannotFail /\ [Next]_vars
      => (CallerInv /\ FacetUsesCannotFail)'
  BY CallerStep, FacetUsesStep, TypeParts
<1> QED
  BY <1>1, <1>2, TypeCorrect, PTL DEF Spec

(* The failure branch of begin_gpu_use inside acquire() is dead code for   *)
(* any number of facets and allocations: the lookups at the start of the   *)
(* call are still right when the last use begins (device_hal.cpp).         *)
THEOREM FacetUsesSucceed == Spec => []FacetUsesCannotFail
  BY CallInvariant, PTL

----------------------------------------------------------------------------
(* What transform() and consume_representation() leave of an allocation.   *)
LEMMA TransformedFields ==
  ASSUME NEW a \in Allocation
  PROVE  /\ Transformed(a).state = a.state /\ Transformed(a).generation = a.generation
         /\ Transformed(a).backed = a.backed /\ Transformed(a).in_flight = a.in_flight
         /\ Transformed(a).representation_epoch = a.representation_epoch + 1
<1> DEFINE epoch == a.representation_epoch + 1
           live == a.live_representations + 1
<1> HIDE DEF epoch, live
<1> DEFINE b == [a EXCEPT !.representation_epoch = epoch, !.live_representations = live]
<1>1. /\ b.state = a.state /\ b.generation = a.generation /\ b.backed = a.backed
      /\ b.in_flight = a.in_flight /\ b.representation_epoch = epoch
  BY DEF Allocation
<1> QED
  BY <1>1 DEF Transformed, epoch, live

LEMMA ConsumedFields ==
  ASSUME NEW a \in Allocation
  PROVE  /\ RepresentationConsumed(a).state = a.state
         /\ RepresentationConsumed(a).generation = a.generation
         /\ RepresentationConsumed(a).in_flight = a.in_flight
         /\ RepresentationConsumed(a).representation_epoch = a.representation_epoch
  BY DEF RepresentationConsumed, Allocation

(* ConsumeInput.  No step inside a call releases a backing but the commit  *)
(* of an item that asked for it.                                           *)
LEMMA OnlyConsumeReleases ==
  ASSUME TypeOK, CallerInv, [Next]_vars, caller # NoHold, NEW id \in AllocationIds,
         allocations[id].backed, ~allocations'[id].backed
  PROVE  \E h \in Holds, i \in SlotIds :
           /\ CommitItem(h, i) /\ NextItem(h).consume_input
           /\ NextItem(h).view.allocation = id
<1>0. /\ ArenaTypeOK /\ PoolTypeOK /\ HoldTypeOK
      /\ allocations \in [AllocationIds -> Allocation] /\ allocations[id] \in Allocation
  BY TypeParts DEF ArenaTypeOK
<1>1. allocations' # allocations
  OBVIOUS
<1>2. Transformed(allocations[id]).backed = allocations[id].backed
  BY <1>0, TransformedFields
<1>3. ASSUME NEW h \in Holds, NEW i \in SlotIds, FailItem(h, i) \/ CommitItem(h, i)
      PROVE  CommitItem(h, i) /\ NextItem(h).consume_input /\ NextItem(h).view.allocation = id
  <2>1. NextItem(h).view.allocation \in AllocationIds
    BY <1>3, NextItemTyped DEF FailItem, CommitItem, Items, PointerRefs
  <2>2. allocations' # [allocations EXCEPT ![NextItem(h).view.allocation] = Transformed(@)]
    BY <1>0, <1>2, <2>1
  <2>3. CommitItem(h, i) /\ NextItem(h).consume_input
    BY <1>3, <2>2 DEF FailItem, CommitItem
  <2>4. NextItem(h).view.allocation = id
    BY <1>0, <2>1, <2>3 DEF CommitItem
  <2> QED
    BY <2>3, <2>4
<1>4. ASSUME NEW h \in Holds, NEW ref \in FinalAllocations(h), AcquireAllocation(h, ref) PROVE FALSE
  <2>1. /\ ref \in PointerRefs
        /\ allocations' = [allocations EXCEPT ![ref.allocation] = Acquired(@)]
    BY <1>4, FinalTyped DEF AcquireAllocation
  <2> QED
    BY <1>0, <2>1, AcquiredAnswers
<1>5. ASSUME NEW h \in Holds, RollBackAcquire(h) PROVE FALSE
  <2>1. allocations'[id] = allocations[id] \/ allocations'[id] = Released(allocations[id])
    BY <1>5 DEF RollBackAcquire, ReleaseAll, AllocationsReleased
  <2> QED
    BY <1>0, <2>1 DEF Released, Allocation
<1>6. ASSUME NEW h \in Holds, Submit(h),
             ~\E i \in SlotIds : FailItem(h, i) \/ CommitItem(h, i)
      PROVE  FALSE
  BY <1>1, <1>4, <1>5, <1>6 DEF Submit, Assemble, Prepare, BeginCommit, RefuseItem, FinishCommit,
     BeginAcquire, AcquireFacetUse, FinishAcquire, Release, Destroy, arenaVars
<1> QED
  BY <1>1, <1>3, <1>6
     DEF Next, Move, EndGuard, BeginGuard, CallArena, CallPool, vars, arenaVars

LEMMA ConsumeStep ==
  ASSUME HoldInv, CallerInv, [Next]_vars, caller # NoHold, NEW id \in AllocationIds,
         allocations[id].backed, ~allocations'[id].backed,
         NEW j \in SlotIds, slots[j].active \/ slots[j].in_flight > 0
  PROVE  ~ /\ slots[j].view = [allocation |-> id, generation |-> allocations[id].generation]
           /\ slots[j].representation_epoch = allocations[id].representation_epoch
<1>0. TypeOK /\ Shape /\ j \in Nat /\ slotCount \in Nat
  BY SlotIdsAreNat DEF HoldInv, TypeOK, PoolTypeOK
<1>1. PICK h \in Holds, i \in SlotIds :
         /\ CommitItem(h, i) /\ NextItem(h).consume_input /\ NextItem(h).view.allocation = id
  BY <1>0, OnlyConsumeReleases
<1> DEFINE item == NextItem(h)
<1>2. item \in Items /\ AtEpoch(allocations, item.view, item.source)
      /\ ~References(slots, item.view, item.source)
  BY <1>0, <1>1, NextItemTyped DEF CommitItem, Admissible
<1>3. item.view = [allocation |-> id, generation |-> allocations[id].generation]
  BY <1>1, <1>2 DEF AtEpoch, Live, Items, PointerRefs
<1>4. item.source = allocations[id].representation_epoch
  BY <1>1, <1>2 DEF AtEpoch
<1>5. j < slotCount
  BY <1>0 DEF Shape, PoolShape
<1> HIDE DEF item
<1> QED
  BY <1>2, <1>3, <1>4, <1>5 DEF References

(* A commit that releases a backing left no facet, token or outstanding    *)
(* use, on the representation it superseded, whatever the plan's items and *)
(* the state of the pool (commit_representation_operations).               *)
THEOREM ConsumeIsExclusive == Spec => ConsumeLeavesNoReader
<1>1. HoldInv /\ CallerInv /\ [Next]_vars =>
        [caller # NoHold =>
           \A id \in AllocationIds :
              allocations[id].backed /\ ~allocations'[id].backed =>
                \A i \in SlotIds :
                   slots[i].active \/ slots[i].in_flight > 0 =>
                     ~ /\ slots[i].view = [allocation |-> id, generation |-> allocations[id].generation]
                       /\ slots[i].representation_epoch = allocations[id].representation_epoch]_vars
  BY ConsumeStep
<1> QED
  BY <1>1, HoldInvariant, CallInvariant, PTL DEF Spec, ConsumeLeavesNoReader

----------------------------------------------------------------------------
(* Plans.  What a plan may rely on: no two of its items transform one      *)
(* allocation, the epochs it freezes can still be advanced, and an epoch   *)
(* comparison stands in for asking after every pointer.                    *)
LivesKept ==
  \A id \in AllocationIds :
     /\ allocations'[id].state = allocations[id].state
     /\ allocations'[id].generation = allocations[id].generation

LEMMA ReleasedLives ==
  ASSUME ArenaTypeOK, NEW refs, allocations' = AllocationsReleased(refs)
  PROVE  \A id \in AllocationIds :
           /\ allocations'[id].state = allocations[id].state
           /\ allocations'[id].generation = allocations[id].generation
           /\ allocations'[id].representation_epoch = allocations[id].representation_epoch
           /\ allocations'[id].backed = allocations[id].backed
<1> SUFFICES ASSUME NEW id \in AllocationIds
             PROVE  /\ allocations'[id].state = allocations[id].state
                    /\ allocations'[id].generation = allocations[id].generation
                    /\ allocations'[id].representation_epoch = allocations[id].representation_epoch
                    /\ allocations'[id].backed = allocations[id].backed
  OBVIOUS
<1>1. allocations[id] \in Allocation
  BY DEF ArenaTypeOK
<1>2. allocations'[id] = allocations[id] \/ allocations'[id] = Released(allocations[id])
  BY DEF AllocationsReleased
<1> QED
  BY <1>1, <1>2 DEF Released, Allocation

(* One allocation is replaced by one with the same life.                   *)
LEMMA ReplacedLives ==
  ASSUME ArenaTypeOK, NEW id \in AllocationIds, NEW b,
         allocations' = [allocations EXCEPT ![id] = b],
         b.state = allocations[id].state, b.generation = allocations[id].generation
  PROVE  LivesKept
  BY DEF ArenaTypeOK, LivesKept

(* A call of the arena that ends or begins a life ticks topology_epoch_.   *)
LEMMA ArenaTopology ==
  ASSUME ArenaTypeOK, ArenaNext
  PROVE  \/ topologyEpoch' = topologyEpoch + 1
         \/ topologyEpoch' = topologyEpoch /\ LivesKept
<1>1. CASE Allocate \/ \E i \in Imports : ImportAllocation(i)
  BY <1>1 DEF Allocate, ImportAllocation
<1>2. ASSUME NEW ref \in LiveRefs(allocations), Retire(ref) \/ Consume(ref)
      PROVE  topologyEpoch' = topologyEpoch + 1
  BY <1>2 DEF Retire, Consume
<1>3. ASSUME NEW ref \in LiveRefs(allocations),
             Transform(ref) \/ ReleaseRepresentation(ref) \/ ConsumeRepresentation(ref)
      PROVE  topologyEpoch' = topologyEpoch /\ LivesKept
  <2> DEFINE id == ref.allocation
             a  == allocations[id]
             fewer == a.live_representations - 1
  <2>1. id \in AllocationIds /\ a \in Allocation
    BY LiveRefsTyped DEF ArenaTypeOK, PointerRefs
  <2> HIDE DEF fewer
  <2>2. /\ [a EXCEPT !.live_representations = fewer].state = a.state
        /\ [a EXCEPT !.live_representations = fewer].generation = a.generation
    BY <2>1 DEF Allocation
  <2>3. CASE Transform(ref)
    BY <2>1, <2>3, TransformedFields, ReplacedLives DEF Transform
  <2>4. CASE ConsumeRepresentation(ref)
    BY <2>1, <2>4, ConsumedFields, ReplacedLives DEF ConsumeRepresentation
  <2>5. CASE ReleaseRepresentation(ref)
    <3>1. allocations' = [allocations EXCEPT ![id] = [a EXCEPT !.live_representations = fewer]]
      BY <2>1, <2>5 DEF ReleaseRepresentation, ArenaTypeOK, fewer
    <3>2. LivesKept
      BY <2>1, <2>2, <3>1, ReplacedLives
    <3> QED
      BY <2>5, <3>2 DEF ReleaseRepresentation
  <2> QED
    BY <1>3, <2>3, <2>4, <2>5 DEF Transform, ConsumeRepresentation
<1> QED
  BY <1>1, <1>2, <1>3 DEF ArenaNext

LEMMA TopologyStep ==
  ASSUME TypeOK, [Next]_vars
  PROVE  \/ topologyEpoch' = topologyEpoch + 1
         \/ topologyEpoch' = topologyEpoch /\ LivesKept
<1>0. ArenaTypeOK /\ PoolTypeOK /\ HoldTypeOK
  BY TypeParts
<1> DEFINE Goal == topologyEpoch' = topologyEpoch /\ LivesKept
<1>1. UNCHANGED arenaVars => Goal
  BY DEF arenaVars, LivesKept
<1>2. ASSUME NEW h, ReleaseAll(h) PROVE Goal
  BY <1>0, <1>2, ReleasedLives DEF ReleaseAll, LivesKept
<1>3. ASSUME NEW h \in Holds, NEW i \in SlotIds, FailItem(h, i) \/ CommitItem(h, i) PROVE Goal
  <2> DEFINE id == NextItem(h).view.allocation
             a  == allocations[id]
  <2>1. id \in AllocationIds
    BY <1>3, NextItemTyped DEF FailItem, CommitItem, Items, PointerRefs
  <2>2. a \in Allocation /\ Transformed(a) \in Allocation
    BY <1>0, <2>1, AllocationEffects DEF ArenaTypeOK
  <2>3. \/ allocations' = [allocations EXCEPT ![id] = Transformed(a)]
        \/ allocations' = [allocations EXCEPT ![id] = RepresentationConsumed(Transformed(a))]
    BY <1>3 DEF FailItem, CommitItem
  <2>4. /\ Transformed(a).state = a.state /\ Transformed(a).generation = a.generation
        /\ RepresentationConsumed(Transformed(a)).state = a.state
        /\ RepresentationConsumed(Transformed(a)).generation = a.generation
    BY <2>2, TransformedFields, ConsumedFields
  <2>5. LivesKept
    BY <1>0, <2>1, <2>3, <2>4, ReplacedLives
  <2> QED
    BY <1>3, <2>5 DEF FailItem, CommitItem, PublishEpoch
<1>4. ASSUME NEW h \in Holds, NEW ref \in FinalAllocations(h), AcquireAllocation(h, ref) PROVE Goal
  <2>1. ref \in PointerRefs
    BY FinalTyped
  <2> QED
    BY <1>0, <1>4, <2>1, AcquiredAnswers DEF AcquireAllocation, LivesKept
<1>5. ASSUME NEW h \in Holds, Submit(h) PROVE Goal
  BY <1>1, <1>2, <1>3, <1>4, <1>5 DEF Submit, Assemble, Prepare, BeginCommit, RefuseItem,
     FinishCommit, BeginAcquire, AcquireFacetUse, FinishAcquire, RollBackAcquire, Release, Destroy
<1>6. CASE \E src, dst \in Holds : Move(src, dst)
  BY <1>2, <1>6 DEF Move
<1>7. CASE CallArena
  BY <1>0, <1>7, ArenaTopology DEF CallArena
<1> QED
  BY <1>1, <1>5, <1>6, <1>7 DEF Next, EndGuard, BeginGuard, CallPool, vars

(* Where a plan comes from: the assembler, or a hold it moved from.        *)
LEMMA PlanSource ==
  ASSUME HoldTypeOK, [Next]_vars, NEW h \in Holds
  PROVE  \/ \E g \in Holds : plan'[h] = plan[g]
         \/ \E touched \in UpTo(MaxUses, LiveRefs(allocations)),
               facets \in UpTo(MaxUses, PlannableFacets), items \in ItemLists :
                 Assemble(h, touched, facets, items)
<1>0. plan \in [Holds -> Plans]
  BY DEF HoldTypeOK
<1>1. ASSUME NEW g \in Holds, Submit(g),
             ~\E touched \in UpTo(MaxUses, LiveRefs(allocations)),
                 facets \in UpTo(MaxUses, PlannableFacets), items \in ItemLists :
                   Assemble(g, touched, facets, items)
      PROVE  plan' = plan
  BY <1>1 DEF Submit, Prepare, BeginCommit, RefuseItem, FailItem, CommitItem, FinishCommit,
     BeginAcquire, AcquireAllocation, AcquireFacetUse, FinishAcquire, RollBackAcquire, Release, Destroy
<1>2. ASSUME NEW g \in Holds, g # h, NEW touched, NEW facets, NEW items,
             Assemble(g, touched, facets, items)
      PROVE  plan'[h] = plan[h]
  BY <1>0, <1>2 DEF Assemble
<1>3. ASSUME NEW src \in Holds, NEW dst \in Holds, Move(src, dst)
      PROVE  \E g \in Holds : plan'[h] = plan[g]
  BY <1>0, <1>3 DEF Move
<1>4. CASE \/ \E k \in Scopes : EndGuard(k) \/ \E ref \in ActiveTokens : BeginGuard(k, ref)
           \/ CallArena \/ CallPool \/ UNCHANGED vars
  <2>1. plan' = plan
    BY <1>4 DEF EndGuard, BeginGuard, CallArena, CallPool, holdVars, vars
  <2> QED
    BY <2>1
<1> QED
  BY <1>1, <1>2, <1>3, <1>4 DEF Next

PlanOK(p) ==
  /\ OneTransformEach(p.items)
  /\ \A n \in DOMAIN p.items : p.items[n].source < MaxEpoch
  /\ p.graph_epoch <= topologyEpoch
  /\ p.graph_epoch = topologyEpoch =>
       \A ref \in p.touched \cup ItemViews(p) : Live(allocations, ref)

PlanInv == \A h \in Holds : PlanOK(plan[h])

(* What the assembler froze of the arena is right when it froze it.        *)
LEMMA AssembledOK ==
  ASSUME ArenaTypeOK, NEW touched \in UpTo(MaxUses, LiveRefs(allocations)),
         NEW facets, NEW items \in ItemLists
  PROVE  PlanOK([touched |-> touched, facets |-> facets, items |-> items,
                 graph_epoch |-> topologyEpoch])
<1> DEFINE p == [touched |-> touched, facets |-> facets, items |-> items,
                 graph_epoch |-> topologyEpoch]
<1>1. OneTransformEach(items)
  BY DEF ItemLists
<1>2. ASSUME NEW n \in DOMAIN items PROVE items[n] \in PlannableItems
  BY DEF ItemLists
<1>3. \A n \in DOMAIN items : items[n].source < MaxEpoch /\ Live(allocations, items[n].view)
  BY <1>2 DEF PlannableItems, AtEpoch
<1>4. \A ref \in touched : Live(allocations, ref)
  BY DEF UpTo, LiveRefs, Live
<1>5. \A ref \in ItemViews(p) : Live(allocations, ref)
  BY <1>3 DEF ItemViews
<1>6. topologyEpoch <= topologyEpoch
  BY DEF ArenaTypeOK
<1> QED
  BY <1>1, <1>3, <1>4, <1>5, <1>6 DEF PlanOK

LEMMA PlanStep ==
  ASSUME TypeOK, PlanInv, [Next]_vars
  PROVE  PlanInv'
<1>0. ArenaTypeOK /\ PoolTypeOK /\ HoldTypeOK /\ topologyEpoch \in Nat
  BY TypeParts DEF ArenaTypeOK
<1> SUFFICES ASSUME NEW h \in Holds PROVE PlanOK(plan[h])'
  BY DEF PlanInv
<1>1. ASSUME NEW p \in Plans, PlanOK(p) PROVE PlanOK(p)'
  <2>1. p.graph_epoch \in Nat /\ p.touched \subseteq PointerRefs /\ p.items \in Seq(Items)
    BY DEF Plans
  <2>2. \A ref \in p.touched \cup ItemViews(p) : ref.allocation \in AllocationIds
    <3>1. \A n \in DOMAIN p.items : p.items[n] \in Items
      BY <2>1
    <3> QED
      BY <2>1, <3>1 DEF ItemViews, Items, PointerRefs
  <2>3. CASE topologyEpoch' = topologyEpoch + 1
    <3>1. p.graph_epoch <= topologyEpoch' /\ p.graph_epoch # topologyEpoch'
      BY <1>0, <1>1, <2>1, <2>3 DEF PlanOK
    <3> QED
      BY <1>1, <3>1 DEF PlanOK
  <2>4. CASE topologyEpoch' = topologyEpoch /\ LivesKept
    <3>1. \A ref \in p.touched \cup ItemViews(p) : Live(allocations, ref) => Live(allocations, ref)'
      BY <2>2, <2>4 DEF Live, LivesKept
    <3> QED
      BY <1>1, <2>4, <3>1 DEF PlanOK
  <2> QED
    BY <2>3, <2>4, TopologyStep
<1>2. ASSUME NEW g \in Holds, plan'[h] = plan[g] PROVE PlanOK(plan[h])'
  <2>1. \E p \in Plans : PlanOK(p) /\ plan'[h] = p
    BY <1>0, <1>2 DEF HoldTypeOK, PlanInv
  <2>2. PICK p \in Plans : PlanOK(p) /\ plan'[h] = p
    BY <2>1
  <2>3. PlanOK(p)'
    BY <1>1, <2>2
  <2> QED
    BY <2>2, <2>3 DEF PlanOK, ItemViews
<1>3. ASSUME NEW touched \in UpTo(MaxUses, LiveRefs(allocations)),
             NEW facets \in UpTo(MaxUses, PlannableFacets), NEW items \in ItemLists,
             Assemble(h, touched, facets, items)
      PROVE  PlanOK(plan[h])'
  <2> DEFINE p == [touched |-> touched, facets |-> facets, items |-> items,
                   graph_epoch |-> topologyEpoch]
  <2>1. plan'[h] = p /\ UNCHANGED <<allocations, topologyEpoch>>
    BY <1>0, <1>3 DEF Assemble, HoldTypeOK, arenaVars
  <2>2. PlanOK(p)
    BY <1>0, AssembledOK
  <2> HIDE DEF p
  <2> QED
    BY <2>1, <2>2 DEF PlanOK, Live
<1> QED
  BY <1>0, <1>2, <1>3, PlanSource

LEMMA PlanInvariant == Spec => []PlanInv
<1>1. Init => PlanInv
  BY DEF Init, ArenaInit, PlanInv, PlanOK, NoPlan, OneTransformEach, ItemViews
<1> QED
  BY <1>1, PlanStep, TypeCorrect, PTL DEF Spec

(* One comparison of a plan's graph_epoch with topology_epoch_ stands in   *)
(* for asking whether every pointer of the plan is live, for plans of any  *)
(* length and any number of allocations (execution_plan.cpp).              *)
THEOREM EpochStandsForLiveness == Spec => []EpochMatchImpliesLive
<1>1. PlanInv => EpochMatchImpliesLive
  BY DEF PlanInv, PlanOK, EpochMatchImpliesLive
<1> QED
  BY <1>1, PlanInvariant, PTL

----------------------------------------------------------------------------
(* The commit loop.  Each facet it has produced so far is usable, and      *)
(* stands for an item it has done: later items are about other             *)
(* allocations, so their epochs retire no earlier target.                  *)
TargetDone(h, use) ==
  /\ Usable(use)
  /\ \E n \in DOMAIN plan[h].items :
       n <= committed[h] /\ plan[h].items[n].view = slots[use.ref.index].view

CommitInv ==
  \A h \in Holds : phase[h] = "committing" => \A use \in produced[h] : TargetDone(h, use)

(* What one item does to the arena: its allocation alone, by one epoch.    *)
LEMMA ItemArena ==
  ASSUME TypeOK, NEW h \in Holds, NEW i \in SlotIds, FailItem(h, i) \/ CommitItem(h, i)
  PROVE  LET item == NextItem(h)
             id   == item.view.allocation IN
         /\ item \in Items /\ PublishEpoch(item, i) /\ id \in AllocationIds
         /\ AtEpoch(allocations, item.view, item.source)
         /\ allocations[id].in_flight = 0
         /\ allocations'[id].state = allocations[id].state
         /\ allocations'[id].generation = allocations[id].generation
         /\ allocations'[id].representation_epoch = allocations[id].representation_epoch + 1
         /\ \A other \in AllocationIds : other # id => allocations'[other] = allocations[other]
<1> DEFINE item == NextItem(h)
           id   == item.view.allocation
           a    == allocations[id]
<1>1. /\ item \in Items /\ PublishEpoch(item, i)
      /\ AtEpoch(allocations, item.view, item.source) /\ a.in_flight = 0
  BY NextItemTyped DEF FailItem, CommitItem, Admissible, CanTransform
<1>2. id \in AllocationIds
  BY <1>1 DEF Items, PointerRefs
<1>3. a \in Allocation /\ Transformed(a) \in Allocation /\ DOMAIN allocations = AllocationIds
  BY <1>2, AllocationEffects DEF TypeOK, ArenaTypeOK
<1>4. \/ allocations' = [allocations EXCEPT ![id] = Transformed(a)]
      \/ allocations' = [allocations EXCEPT ![id] = RepresentationConsumed(Transformed(a))]
  BY DEF FailItem, CommitItem
<1>5. /\ Transformed(a).state = a.state /\ Transformed(a).generation = a.generation
      /\ Transformed(a).representation_epoch = a.representation_epoch + 1
      /\ RepresentationConsumed(Transformed(a)).state = a.state
      /\ RepresentationConsumed(Transformed(a)).generation = a.generation
      /\ RepresentationConsumed(Transformed(a)).representation_epoch = a.representation_epoch + 1
  BY <1>3, TransformedFields, ConsumedFields
<1> HIDE DEF item
<1>6. /\ allocations'[id].state = a.state /\ allocations'[id].generation = a.generation
      /\ allocations'[id].representation_epoch = a.representation_epoch + 1
      /\ \A other \in AllocationIds : other # id => allocations'[other] = allocations[other]
  BY <1>2, <1>3, <1>4, <1>5
<1> QED
  BY <1>1, <1>2, <1>6 DEF item

(* An active facet of another allocation survives the item untouched.      *)
LEMMA PublishSpares ==
  ASSUME TypeOK, Shape, NEW item \in Items, NEW i \in SlotIds, PublishEpoch(item, i),
         NEW j \in SlotIds, slots[j].active, Current(allocations, slots[j]),
         slots[j].view.allocation # item.view.allocation
  PROVE  j # i /\ slots'[j] = slots[j]
<1> DEFINE arena == [allocations EXCEPT ![item.view.allocation] = Transformed(@)]
           S  == StaleSlots(arena, slots)
           sl == SlotsRetired(slots, S)
           fr == FreeAfterRetire(slots, freeList, S)
<1>0. slotCount \in Nat /\ slots[j] \in Slot
  BY DEF TypeOK, PoolTypeOK
<1>1. /\ sl \in [SlotIds -> Slot] /\ fr \in [SlotIds -> Nat]
      /\ PoolShape(sl, slotCount, fr) /\ Placeable(fr, i)
      /\ slots' = Placed(arena, sl, i, item.view, item.kind)
  BY PublishParts
<1>2. arena[slots[j].view.allocation] = allocations[slots[j].view.allocation]
  <2>1. slots[j].view.allocation \in AllocationIds /\ DOMAIN allocations = AllocationIds
    BY <1>0 DEF Slot, PointerRefs, TypeOK, ArenaTypeOK
  <2> QED
    BY <2>1
<1>3. j \notin S
  BY <1>2 DEF StaleSlots, Current, AtEpoch, Live
<1>4. sl[j] = slots[j]
  BY <1>3 DEF SlotsRetired
<1> HIDE DEF arena, S, sl, fr
<1>5. j # i
  BY <1>0, <1>1, <1>4, PlaceableIsVacant
<1>6. PlacedAt(sl, slots', i, item.view, item.kind, arena[item.view.allocation].representation_epoch)
  BY <1>1, PlacedSlot
<1> QED
  BY <1>4, <1>5, <1>6 DEF PlacedAt

(* The item's own target is placed for its view at the epoch it reached.   *)
LEMMA PublishTarget ==
  ASSUME TypeOK, Shape, NEW h \in Holds, NEW i \in SlotIds, CommitItem(h, i)
  PROVE  /\ slots'[i].active /\ slots'[i].view = NextItem(h).view
         /\ slots'[i].kind = NextItem(h).kind
         /\ slots'[i].representation_epoch =
              allocations'[NextItem(h).view.allocation].representation_epoch
<1> DEFINE item == NextItem(h)
           id == item.view.allocation
           arena == [allocations EXCEPT ![id] = Transformed(@)]
           S  == StaleSlots(arena, slots)
           sl == SlotsRetired(slots, S)
           fr == FreeAfterRetire(slots, freeList, S)
<1>1. /\ item \in Items /\ PublishEpoch(item, i) /\ id \in AllocationIds
      /\ allocations'[id].representation_epoch = allocations[id].representation_epoch + 1
  BY ItemArena
<1>2. allocations[id] \in Allocation /\ DOMAIN allocations = AllocationIds
  BY <1>1 DEF TypeOK, ArenaTypeOK
<1>3. arena[id].representation_epoch = allocations[id].representation_epoch + 1
  BY <1>1, <1>2, TransformedFields
<1>4. sl \in [SlotIds -> Slot] /\ slots' = Placed(arena, sl, i, item.view, item.kind)
  BY <1>1, PublishParts
<1> HIDE DEF item, arena, S, sl, fr
<1>5. PlacedAt(sl, slots', i, item.view, item.kind, arena[id].representation_epoch)
  BY <1>4, PlacedSlot
<1> QED
  BY <1>1, <1>3, <1>5 DEF PlacedAt, item

LEMMA PublishGrows ==
  ASSUME TypeOK, NEW item, NEW i \in SlotIds, PublishEpoch(item, i)
  PROVE  slotCount' \in Nat /\ slotCount' >= slotCount
  BY DEF PublishEpoch, CountAfterPlace, TypeOK, PoolTypeOK

LEMMA CommitItemStep ==
  ASSUME HoldInv, PlanInv, CommitInv, [Next]_vars, NEW h \in Holds, phase[h] = "committing",
         NEW i \in SlotIds, CommitItem(h, i), NEW use \in produced'[h]
  PROVE  TargetDone(h, use)'
<1> DEFINE item == NextItem(h)
           id   == item.view.allocation
           c    == committed[h]
<1>0. /\ TypeOK /\ Shape /\ TypeOK' /\ Shape' /\ PoolTypeOK
      /\ c \in Nat /\ plan[h].items \in Seq(Items) /\ produced[h] \subseteq FacetUses
      /\ produced \in [Holds -> SUBSET FacetUses] /\ committed \in [Holds -> Nat]
  BY HoldInvStep DEF HoldInv, TypeOK, Plans
<1>1. /\ c < Len(plan[h].items) /\ plan' = plan /\ committed'[h] = c + 1
      /\ produced'[h] = produced[h] \cup {[ref |-> TokenOf(slots', i), kind |-> item.kind]}
      /\ item = plan[h].items[c + 1]
  BY <1>0 DEF CommitItem, NextItem
<1>2. /\ item \in Items /\ PublishEpoch(item, i) /\ id \in AllocationIds
      /\ AtEpoch(allocations, item.view, item.source)
      /\ allocations'[id].state = allocations[id].state
      /\ allocations'[id].generation = allocations[id].generation
      /\ \A other \in AllocationIds : other # id => allocations'[other] = allocations[other]
  BY <1>0, ItemArena
<1>3. c + 1 \in DOMAIN plan[h].items
  BY <1>0, <1>1
<1> HIDE DEF item
<1>4. CASE use \in produced[h]
  <2> DEFINE j == use.ref.index
  <2>1. PICK n \in DOMAIN plan[h].items : n <= c /\ plan[h].items[n].view = slots[j].view
    BY <1>4 DEF CommitInv, TargetDone
  <2>2. Usable(use) /\ use.ref \in FacetRefs /\ j \in SlotIds
    BY <1>0, <1>4 DEF CommitInv, TargetDone, FacetUses, FacetRefs
  <2>3. slots[j].active /\ Current(allocations, slots[j]) /\ slots[j] \in Slot
    BY <1>0, <2>2 DEF Usable, Resolves, PoolTypeOK
  <2>4. slots[j].view.allocation # id /\ slots[j].view.allocation \in AllocationIds
    <3>1. n # c + 1
      BY <1>0, <2>1
    <3>2. OneTransformEach(plan[h].items)
      BY DEF PlanInv, PlanOK
    <3>3. plan[h].items[n].view.allocation # plan[h].items[c + 1].view.allocation
      BY <1>3, <3>1, <3>2 DEF OneTransformEach
    <3> QED
      BY <1>1, <2>1, <2>3, <3>3 DEF Slot, PointerRefs
  <2>5. slots'[j] = slots[j]
    BY <1>0, <1>2, <2>2, <2>3, <2>4, PublishSpares
  <2>6. slotCount' \in Nat /\ slotCount' >= slotCount
    BY <1>0, <1>2, PublishGrows
  <2>7. LET k == slots[j].view.allocation IN
           /\ allocations'[k].state = allocations[k].state
           /\ allocations'[k].generation = allocations[k].generation
           /\ allocations'[k].representation_epoch = allocations[k].representation_epoch
    BY <1>2, <2>4
  <2>8. Resolves(allocations, slots, use.ref)
    BY <2>2 DEF Usable
  <2>9. Resolves(allocations, slots, use.ref)'
    BY <1>0, <2>2, <2>3, <2>5, <2>6, <2>7, <2>8, ResolvesKept
  <2>10. Usable(use)'
    BY <2>2, <2>5, <2>9 DEF Usable
  <2>11. n <= committed'[h] /\ plan'[h].items[n].view = slots'[j].view
    BY <1>0, <1>1, <2>1, <2>5
  <2> QED
    BY <1>1, <2>1, <2>10, <2>11 DEF TargetDone
<1>5. CASE use = [ref |-> TokenOf(slots', i), kind |-> item.kind]
  <2>1. use.ref.index = i /\ use.ref.generation = slots'[i].generation /\ use.kind = item.kind
    BY <1>5 DEF TokenOf
  <2>2. /\ slots'[i].active /\ slots'[i].view = item.view /\ slots'[i].kind = item.kind
        /\ slots'[i].representation_epoch = allocations'[id].representation_epoch
    BY <1>0, PublishTarget DEF item
  <2>3. i < slotCount'
    <3>1. i \in Nat /\ slotCount' \in Nat
      BY <1>0, SlotIdsAreNat DEF TypeOK, PoolTypeOK
    <3> QED
      BY <1>0, <2>2, <3>1 DEF Shape, PoolShape
  <2>4. Current(allocations, slots[i])'
    BY <1>2, <2>2 DEF Current, AtEpoch, Live
  <2>5. Usable(use)'
    BY <2>1, <2>2, <2>3, <2>4 DEF Usable, Resolves
  <2>6. c + 1 <= committed'[h] /\ plan'[h].items[c + 1].view = slots'[i].view
    BY <1>0, <1>1, <2>2
  <2> QED
    BY <1>1, <1>3, <2>1, <2>5, <2>6 DEF TargetDone
<1> QED
  BY <1>1, <1>4, <1>5

LEMMA CommitStep ==
  ASSUME HoldInv, CallerInv, PlanInv, CommitInv, [Next]_vars
  PROVE  CommitInv'
<1> SUFFICES ASSUME NEW h \in Holds, phase'[h] = "committing", NEW use \in produced'[h]
             PROVE  TargetDone(h, use)'
  BY DEF CommitInv
<1>0. HoldTypeOK
  BY TypeParts DEF HoldInv
<1>1. CASE BeginCommit(h)
  <2>1. produced'[h] = {}
    BY <1>0, <1>1 DEF BeginCommit, HoldTypeOK
  <2> QED
    BY <2>1
<1>2. ASSUME phase[h] = "committing", NEW i \in SlotIds, CommitItem(h, i)
      PROVE  TargetDone(h, use)'
  BY <1>2, CommitItemStep
<1>3. CASE phase[h] = "committing" /\ UNCHANGED vars
  <2>1. TargetDone(h, use)
    BY <1>3 DEF CommitInv, vars, holdVars
  <2> QED
    BY <1>3, <2>1 DEF TargetDone, Usable, Resolves, vars, arenaVars, poolVars, holdVars
<1> QED
  BY <1>0, <1>1, <1>2, <1>3, CommittingSteps

LEMMA CommitInvariant == Spec => []CommitInv
<1>1. Init => CommitInv
  BY DEF Init, CommitInv
<1> QED
  BY <1>1, CommitStep, HoldInvariant, CallInvariant, PlanInvariant, PTL DEF Spec

(* Until the commit loop ends, every facet it has produced resolves: no    *)
(* later item invalidates an earlier target, however many items there are. *)
THEOREM ProducedStayCurrent == Spec => []ProducedFacetsCurrent
<1>1. CommitInv => ProducedFacetsCurrent
  BY DEF CommitInv, TargetDone, ProducedFacetsCurrent
<1> QED
  BY <1>1, CommitInvariant, PTL

----------------------------------------------------------------------------
(* The lease.  To ReaderLease an allocation is its state, its epoch and    *)
(* whether it is backed; a step leaves these of every allocation, or       *)
(* changes them of one that nobody has in flight.                          *)
EpochsBounded == \A id \in AllocationIds : allocations[id].representation_epoch <= MaxEpoch

ObjectsKept ==
  \A id \in AllocationIds :
     /\ allocations'[id].state = allocations[id].state
     /\ allocations'[id].representation_epoch = allocations[id].representation_epoch
     /\ allocations'[id].backed = allocations[id].backed

ObjectChanged(id, b) ==
  /\ allocations[id].in_flight = 0
  /\ allocations' = [allocations EXCEPT ![id] = b]
  /\ b.representation_epoch \in 0..MaxEpoch /\ b.backed \in BOOLEAN
  /\ \/ allocations[id].state = "Absent" /\ b.state \in {"Active", "Retired"}
     \/ allocations[id].state = "Active" /\ b.state \in {"Active", "Retired"}

ObjectStep == ObjectsKept \/ \E id \in AllocationIds : \E b : ObjectChanged(id, b)

LEMMA RetiredFields ==
  ASSUME NEW a \in Allocation
  PROVE  /\ Retired(a).state = "Retired" /\ ObjectConsumed(a).state = "Retired"
         /\ Retired(a).representation_epoch = a.representation_epoch
         /\ ObjectConsumed(a).representation_epoch = a.representation_epoch
         /\ Retired(a).backed = a.backed /\ ObjectConsumed(a).backed = FALSE
<1> DEFINE generation == a.generation + 1
<1> HIDE DEF generation
<1> DEFINE r == [a EXCEPT !.state = "Retired", !.generation = generation]
           c == [a EXCEPT !.state = "Retired", !.generation = generation,
                          !.live_representations = 0, !.backed = FALSE]
<1>1. /\ r.state = "Retired" /\ r.representation_epoch = a.representation_epoch
      /\ r.backed = a.backed
  BY DEF Allocation
<1>2. /\ c.state = "Retired" /\ c.representation_epoch = a.representation_epoch
      /\ c.backed = FALSE
  BY DEF Allocation
<1> QED
  BY <1>1, <1>2 DEF Retired, ObjectConsumed, generation

LEMMA ArenaObjectStep ==
  ASSUME ArenaTypeOK, ArenaInv, EpochsBounded, ArenaNext
  PROVE  ObjectStep
<1>0. /\ allocations \in [AllocationIds -> Allocation] /\ nextId \in Nat \ {0}
  BY DEF ArenaTypeOK
<1>1. CASE Allocate
  <2>1. nextId \in AllocationIds
    BY <1>0, <1>1 DEF Allocate, AllocationIds
  <2>2. allocations[nextId].state = "Absent" /\ allocations[nextId].in_flight = 0
    <3>1. allocations[nextId].state = "Absent"
      BY <1>0, <2>1 DEF ArenaInv
    <3> QED
      BY <2>1, <3>1, OnlyLiveInFlight DEF ArenaInv
  <2>3. ObjectChanged(nextId, FreshAllocation)
    BY <1>1, <2>2, ArenaAssumption DEF ObjectChanged, Allocate, FreshAllocation
  <2> QED
    BY <2>1, <2>3 DEF ObjectStep
<1>2. ASSUME NEW i \in Imports, ImportAllocation(i) PROVE ObjectStep
  <2>1. /\ i.allocation \in AllocationIds /\ i.representation_epoch \in 0..MaxEpoch
        /\ i.state \in {"Active", "Retired"}
    BY ArenaAssumption
  <2>2. allocations[i.allocation].state = "Absent" /\ allocations[i.allocation].in_flight = 0
    <3>1. allocations[i.allocation].state = "Absent"
      BY <1>2 DEF ImportAllocation
    <3> QED
      BY <2>1, <3>1, OnlyLiveInFlight DEF ArenaInv
  <2> DEFINE b == [FreshAllocation EXCEPT !.generation = i.generation,
                    !.representation_epoch = i.representation_epoch, !.state = i.state]
  <2>3. b.state = i.state /\ b.representation_epoch = i.representation_epoch /\ b.backed = TRUE
    BY DEF FreshAllocation
  <2> HIDE DEF b
  <2>4. allocations' = [allocations EXCEPT ![i.allocation] = b]
    BY <1>2 DEF ImportAllocation, b
  <2>5. ObjectChanged(i.allocation, b)
    BY <2>1, <2>2, <2>3, <2>4 DEF ObjectChanged
  <2> QED
    BY <2>1, <2>5 DEF ObjectStep
<1>3. ASSUME NEW ref \in LiveRefs(allocations),
             \/ Retire(ref) \/ Transform(ref) \/ ReleaseRepresentation(ref)
             \/ ConsumeRepresentation(ref) \/ Consume(ref)
      PROVE  ObjectStep
  <2> DEFINE id == ref.allocation
             a  == allocations[id]
             fewer == a.live_representations - 1
  <2>1. /\ id \in AllocationIds /\ a \in Allocation
        /\ a.representation_epoch \in 0..MaxEpoch /\ a.backed \in BOOLEAN
    <3>1. id \in AllocationIds /\ a \in Allocation
      BY <1>0, LiveRefsTyped DEF PointerRefs
    <3>2. a.representation_epoch \in Nat /\ a.backed \in BOOLEAN
      BY <3>1 DEF Allocation
    <3> QED
      BY <3>1, <3>2 DEF EpochsBounded
  <2>2. a.state = "Active"
    BY <1>3 DEF Retire, Transform, ReleaseRepresentation, ConsumeRepresentation, Consume,
                CanTransform, Live
  <2> HIDE DEF fewer
  <2>3. CASE ReleaseRepresentation(ref)
    <3>1. allocations' = [allocations EXCEPT ![id] = [a EXCEPT !.live_representations = fewer]]
      BY <1>0, <2>1, <2>3 DEF ReleaseRepresentation, fewer
    <3> DEFINE b == [a EXCEPT !.live_representations = fewer]
    <3>2. /\ b.state = a.state /\ b.backed = a.backed
          /\ b.representation_epoch = a.representation_epoch
      BY <2>1 DEF Allocation
    <3> HIDE DEF b
    <3>3. allocations' = [allocations EXCEPT ![id] = b]
      BY <3>1 DEF b
    <3>4. ObjectsKept
      BY <1>0, <2>1, <3>2, <3>3 DEF ObjectsKept
    <3> QED
      BY <3>4 DEF ObjectStep
  <2>4. ASSUME NEW b, a.in_flight = 0, allocations' = [allocations EXCEPT ![id] = b],
               b.representation_epoch \in 0..MaxEpoch, b.backed \in BOOLEAN,
               b.state \in {"Active", "Retired"}
        PROVE  ObjectStep
    <3>1. ObjectChanged(id, b)
      BY <2>2, <2>4 DEF ObjectChanged
    <3> QED
      BY <2>1, <3>1 DEF ObjectStep
  <2>5. CASE Retire(ref)
    <3>1. a.in_flight = 0 /\ allocations' = [allocations EXCEPT ![id] = Retired(a)]
      BY <2>5 DEF Retire
    <3> QED
      BY <2>1, <2>4, <3>1, RetiredFields
  <2>6. CASE Consume(ref)
    <3>1. a.in_flight = 0 /\ allocations' = [allocations EXCEPT ![id] = ObjectConsumed(a)]
      BY <2>6 DEF Consume
    <3> QED
      BY <2>1, <2>4, <3>1, RetiredFields
  <2>7. CASE Transform(ref)
    <3>1. /\ a.in_flight = 0 /\ allocations' = [allocations EXCEPT ![id] = Transformed(a)]
          /\ a.representation_epoch < MaxEpoch
      BY <2>7 DEF Transform, CanTransform
    <3>2. a.representation_epoch + 1 \in 0..MaxEpoch
      BY <2>1, <3>1, ArenaAssumption
    <3> QED
      BY <2>1, <2>2, <2>4, <3>1, <3>2, TransformedFields
  <2>8. CASE ConsumeRepresentation(ref)
    <3>1. a.in_flight = 0 /\ allocations' = [allocations EXCEPT ![id] = RepresentationConsumed(a)]
      BY <2>8 DEF ConsumeRepresentation
    <3>2. RepresentationConsumed(a).backed = FALSE
      BY <2>1 DEF RepresentationConsumed, Allocation
    <3> QED
      BY <2>1, <2>2, <2>4, <3>1, <3>2, ConsumedFields
  <2> QED
    BY <1>3, <2>3, <2>5, <2>6, <2>7, <2>8
<1> QED
  BY <1>1, <1>2, <1>3 DEF ArenaNext

(* An item's epoch is below the bound, because its plan froze it so.       *)
LEMMA CommitObjectStep ==
  ASSUME TypeOK, PlanInv, EpochsBounded, NEW h \in Holds, NEW i \in SlotIds,
         FailItem(h, i) \/ CommitItem(h, i)
  PROVE  ObjectStep
<1> DEFINE item == NextItem(h)
           id == item.view.allocation
           a  == allocations[id]
<1>1. /\ item \in Items /\ id \in AllocationIds /\ a.in_flight = 0
      /\ AtEpoch(allocations, item.view, item.source)
  BY ItemArena
<1>2. a \in Allocation /\ Transformed(a) \in Allocation
  BY <1>1, AllocationEffects DEF TypeOK, ArenaTypeOK
<1>3. item.source < MaxEpoch /\ item.source \in Nat
  <2>1. plan[h].items \in Seq(Items) /\ committed[h] \in Nat /\ committed[h] < Len(plan[h].items)
    BY DEF TypeOK, Plans, FailItem, CommitItem
  <2>2. committed[h] + 1 \in DOMAIN plan[h].items
    BY <2>1
  <2>3. item.source < MaxEpoch
    BY <2>2 DEF PlanInv, PlanOK, NextItem
  <2> QED
    BY <1>1, <2>3 DEF Items
<1>4. a.state = "Active" /\ a.representation_epoch = item.source
  BY <1>1 DEF AtEpoch, Live
<1>5. a.representation_epoch + 1 \in 0..MaxEpoch
  BY <1>3, <1>4, ArenaAssumption
<1> DEFINE t == Transformed(a)
           c == RepresentationConsumed(t)
<1>6. /\ t.state = "Active" /\ t.representation_epoch = a.representation_epoch + 1
      /\ t.backed = a.backed /\ a.backed \in BOOLEAN
  BY <1>2, <1>4, TransformedFields DEF Allocation
<1>7. /\ c.state = "Active" /\ c.representation_epoch = a.representation_epoch + 1
  BY <1>2, <1>6, ConsumedFields
<1>8. c.backed = FALSE
  BY <1>2 DEF RepresentationConsumed, Allocation
<1>9. allocations' = [allocations EXCEPT ![id] = t] \/ allocations' = [allocations EXCEPT ![id] = c]
  BY DEF FailItem, CommitItem
<1> HIDE DEF t, c, item
<1>10. ObjectChanged(id, t) \/ ObjectChanged(id, c)
  BY <1>1, <1>4, <1>5, <1>6, <1>7, <1>8, <1>9 DEF ObjectChanged
<1> QED
  BY <1>1, <1>10 DEF ObjectStep

(* How the readers move with such a step: an object changes only while the *)
(* holds stay, and a hold takes, drops or hands over its leases while the  *)
(* objects stay.                                                           *)
TakeStep ==
  \E h \in Holds, ref \in PointerRefs :
    /\ Live(allocations, ref) /\ ref \notin heldAllocations[h]
    /\ heldAllocations' = [heldAllocations EXCEPT ![h] = @ \cup {ref}]

DropStep == \E h \in Holds : heldAllocations' = [heldAllocations EXCEPT ![h] = {}]

TransferStep ==
  \E src, dst \in Holds :
    src # dst /\ heldAllocations' = Moved(heldAllocations, src, dst, {})

LEMMA LeaseSteps ==
  ASSUME HoldInv, PlanInv, EpochsBounded, [Next]_vars
  PROVE  \/ ObjectStep /\ heldAllocations' = heldAllocations
         \/ ObjectsKept /\ (TakeStep \/ DropStep \/ TransferStep)
<1>0. TypeOK /\ ArenaTypeOK /\ PoolTypeOK /\ HoldTypeOK /\ ArenaInv
  BY TypeParts DEF HoldInv
<1> DEFINE Goal == \/ ObjectStep /\ heldAllocations' = heldAllocations
                   \/ ObjectsKept /\ (TakeStep \/ DropStep \/ TransferStep)
<1>1. ASSUME UNCHANGED <<allocations, heldAllocations>> PROVE Goal
  BY <1>1 DEF ObjectStep, ObjectsKept
<1>2. ASSUME NEW h, ReleaseAll(h) PROVE ObjectsKept
  BY <1>0, <1>2, ReleasedLives DEF ReleaseAll, ObjectsKept
<1>3. ASSUME NEW h \in Holds, NEW i \in SlotIds, FailItem(h, i) \/ CommitItem(h, i) PROVE Goal
  <2>1. heldAllocations' = heldAllocations
    BY <1>3 DEF FailItem, CommitItem
  <2> QED
    BY <1>0, <1>3, <2>1, CommitObjectStep
<1>4. ASSUME NEW h \in Holds, NEW ref \in FinalAllocations(h), AcquireAllocation(h, ref) PROVE Goal
  <2>1. ref \in PointerRefs
    BY <1>0, FinalTyped
  <2>2. ObjectsKept
    BY <1>0, <1>4, <2>1, AcquiredAnswers DEF AcquireAllocation, ObjectsKept
  <2>3. TakeStep
    BY <1>4, <2>1 DEF AcquireAllocation, FirstPending, TakeStep
  <2> QED
    BY <2>2, <2>3
<1>5. ASSUME NEW h \in Holds, RollBackAcquire(h) \/ Release(h) \/ Destroy(h) PROVE Goal
  BY <1>2, <1>5 DEF RollBackAcquire, Release, Destroy, DropStep
<1>6. ASSUME NEW h \in Holds, Submit(h) PROVE Goal
  BY <1>1, <1>3, <1>4, <1>5, <1>6 DEF Submit, Assemble, Prepare, BeginCommit, RefuseItem,
     FinishCommit, BeginAcquire, AcquireFacetUse, FinishAcquire, arenaVars
<1>7. ASSUME NEW src \in Holds, NEW dst \in Holds, Move(src, dst) PROVE Goal
  BY <1>2, <1>7 DEF Move, TransferStep
<1>8. CASE CallArena
  BY <1>0, <1>8, ArenaObjectStep DEF CallArena, holdVars
<1>9. CASE \/ \E k \in Scopes : EndGuard(k) \/ \E ref \in ActiveTokens : BeginGuard(k, ref)
           \/ CallPool \/ UNCHANGED vars
  <2>1. UNCHANGED <<allocations, heldAllocations>>
    BY <1>9 DEF EndGuard, BeginGuard, CallPool, arenaVars, holdVars, vars
  <2> QED
    BY <1>1, <2>1
<1> QED
  BY <1>6, <1>7, <1>8, <1>9 DEF Next

LEMMA EpochsStep ==
  ASSUME HoldInv, PlanInv, EpochsBounded, [Next]_vars
  PROVE  EpochsBounded'
<1>0. allocations \in [AllocationIds -> Allocation]
  BY DEF HoldInv, TypeOK, ArenaTypeOK
<1>1. ObjectsKept => EpochsBounded'
  BY DEF ObjectsKept, EpochsBounded
<1>2. ASSUME NEW id \in AllocationIds, NEW b, ObjectChanged(id, b) PROVE EpochsBounded'
  BY <1>0, <1>2 DEF ObjectChanged, EpochsBounded
<1> QED
  BY <1>1, <1>2, LeaseSteps DEF ObjectStep

LEMMA EpochsInvariant == Spec => []EpochsBounded
<1>1. Init => EpochsBounded
  BY ArenaAssumption DEF Init, ArenaInit, NoAllocation, EpochsBounded
<1> QED
  BY <1>1, EpochsStep, HoldInvariant, PlanInvariant, PTL DEF Spec

(* The mapped variables of the lease.                                      *)
LifeMap == [id \in AllocationIds |-> allocations[id].state]

VersionMap ==
  [id \in AllocationIds |-> <<allocations[id].representation_epoch, allocations[id].backed>>]

ReaderMap == [id \in AllocationIds |-> AllocationHolders(id)]

LeaseVersions == (0..MaxEpoch) \X BOOLEAN

LEMMA LeaseOfMaps ==
  /\ Lease!leaseVars = <<LifeMap, VersionMap, ReaderMap>>
  /\ Lease!LeaseInit <=> /\ LifeMap = [id \in AllocationIds |-> "Absent"]
                         /\ VersionMap \in [AllocationIds -> LeaseVersions]
                         /\ ReaderMap = [id \in AllocationIds |-> {}]
  BY DEF Lease!leaseVars, Lease!LeaseInit, LifeMap, VersionMap, ReaderMap, LeaseVersions

LEMMA KeptMaps ==
  ASSUME ObjectsKept
  PROVE  LifeMap' = LifeMap /\ VersionMap' = VersionMap
  BY DEF ObjectsKept, LifeMap, VersionMap

LEMMA KeptReaders ==
  ASSUME heldAllocations' = heldAllocations
  PROVE  ReaderMap' = ReaderMap
  BY DEF ReaderMap, AllocationHolders

(* A change of one object creates, revises or ends it, unread.             *)
LEMMA ObjectIsLeaseStep ==
  ASSUME ArenaTypeOK, ArenaInv, heldAllocations' = heldAllocations,
         NEW id \in AllocationIds, NEW b, ObjectChanged(id, b)
  PROVE  Lease!LeaseNext
<1> DEFINE v == <<b.representation_epoch, b.backed>>
           s == b.state
<1>1. /\ allocations' = [allocations EXCEPT ![id] = b] /\ v \in LeaseVersions
      /\ allocations \in [AllocationIds -> Allocation]
  BY DEF ObjectChanged, LeaseVersions, ArenaTypeOK
<1>2. LifeMap' = [LifeMap EXCEPT ![id] = s] /\ VersionMap' = [VersionMap EXCEPT ![id] = v]
  BY <1>1 DEF LifeMap, VersionMap
<1>3. ReaderMap' = ReaderMap
  BY KeptReaders
<1>4. ReaderMap[id] = {}
  <2>1. \A h \in Holds : \A ref \in heldAllocations[h] : ref.allocation # id
    BY NotHeld DEF ObjectChanged, ArenaInv
  <2> QED
    BY <2>1 DEF ReaderMap, AllocationHolders
<1> HIDE DEF v, s
<1>5. CASE LifeMap[id] = "Absent" /\ s \in {"Active", "Retired"}
  <2>1. Lease!Create(id, s, v)
    BY <1>2, <1>3, <1>5 DEF Lease!Create, LifeMap, VersionMap, ReaderMap
  <2> QED
    BY <1>1, <1>5, <2>1 DEF Lease!LeaseNext, LeaseVersions
<1>6. CASE LifeMap[id] = "Active" /\ s = "Active"
  <2>1. LifeMap' = LifeMap
    BY <1>2, <1>6 DEF LifeMap
  <2>2. Lease!Revise(id, v)
    BY <1>2, <1>3, <1>4, <1>6, <2>1 DEF Lease!Revise, LifeMap, VersionMap, ReaderMap
  <2> QED
    BY <1>1, <2>2 DEF Lease!LeaseNext, LeaseVersions
<1>7. CASE LifeMap[id] = "Active" /\ s = "Retired"
  <2>1. Lease!Die(id, v)
    BY <1>2, <1>3, <1>4, <1>7 DEF Lease!Die, LifeMap, VersionMap, ReaderMap
  <2> QED
    BY <1>1, <2>1 DEF Lease!LeaseNext, LeaseVersions
<1>8. \/ LifeMap[id] = "Absent" /\ s \in {"Active", "Retired"}
      \/ LifeMap[id] = "Active" /\ s \in {"Active", "Retired"}
  BY DEF ObjectChanged, LifeMap, s
<1> QED
  BY <1>5, <1>6, <1>7, <1>8

(* acquire() of an allocation, by a hold that does not read it yet: what   *)
(* it held would be live under the same generation, and the same pointer.  *)
LEMMA TakeIsLeaseStep ==
  ASSUME HoldTypeOK, ArenaInv, ObjectsKept, TakeStep
  PROVE  Lease!LeaseNext
<1>0. heldAllocations \in [Holds -> SUBSET PointerRefs]
  BY DEF HoldTypeOK
<1>1. PICK h \in Holds, ref \in PointerRefs :
         /\ Live(allocations, ref) /\ ref \notin heldAllocations[h]
         /\ heldAllocations' = [heldAllocations EXCEPT ![h] = @ \cup {ref}]
  BY DEF TakeStep
<1> DEFINE id == ref.allocation
<1>2. id \in AllocationIds /\ LifeMap[id] = "Active"
  BY <1>1 DEF PointerRefs, Live, LifeMap
<1>3. h \notin ReaderMap[id]
  <2>1. ASSUME NEW r \in heldAllocations[h], r.allocation = id PROVE FALSE
    <3>1. r \in PointerRefs /\ Live(allocations, r)
      BY <1>0 DEF ArenaInv, HeldLive
    <3>2. r.generation = ref.generation
      BY <1>1, <2>1, <3>1 DEF Live
    <3>3. r = ref
      BY <1>1, <2>1, <3>1, <3>2 DEF PointerRefs
    <3> QED
      BY <1>1, <2>1, <3>3
  <2> QED
    BY <1>2, <2>1 DEF ReaderMap, AllocationHolders
<1>4. ReaderMap' = [ReaderMap EXCEPT ![id] = @ \cup {h}]
  <2>1. ASSUME NEW i \in AllocationIds
        PROVE  AllocationHolders(i)' = IF i = id THEN AllocationHolders(i) \cup {h}
                                                 ELSE AllocationHolders(i)
    BY <1>0, <1>1 DEF AllocationHolders
  <2> QED
    BY <1>2, <2>1 DEF ReaderMap
<1>5. Lease!Take(h, id)
  BY <1>2, <1>3, <1>4, KeptMaps DEF Lease!Take, LifeMap, VersionMap, ReaderMap
<1> QED
  BY <1>2, <1>5 DEF Lease!LeaseNext

LEMMA DropIsLeaseStep ==
  ASSUME HoldTypeOK, ObjectsKept, DropStep
  PROVE  Lease!LeaseNext
<1>0. heldAllocations \in [Holds -> SUBSET PointerRefs]
  BY DEF HoldTypeOK
<1>1. PICK h \in Holds : heldAllocations' = [heldAllocations EXCEPT ![h] = {}]
  BY DEF DropStep
<1>2. \A i \in AllocationIds : AllocationHolders(i)' = AllocationHolders(i) \ {h}
  BY <1>0, <1>1 DEF AllocationHolders
<1>3. ReaderMap' = [i \in AllocationIds |-> ReaderMap[i] \ {h}]
  BY <1>2 DEF ReaderMap
<1>4. Lease!Drop(h)
  BY <1>3, KeptMaps DEF Lease!Drop, LifeMap, VersionMap, ReaderMap
<1> QED
  BY <1>4 DEF Lease!LeaseNext

LEMMA TransferIsLeaseStep ==
  ASSUME HoldTypeOK, ObjectsKept, TransferStep
  PROVE  Lease!LeaseNext
<1>0. heldAllocations \in [Holds -> SUBSET PointerRefs]
  BY DEF HoldTypeOK
<1>1. PICK src \in Holds, dst \in Holds :
         src # dst /\ heldAllocations' = Moved(heldAllocations, src, dst, {})
  BY DEF TransferStep
<1>2. /\ heldAllocations'[dst] = heldAllocations[src] /\ heldAllocations'[src] = {}
      /\ \A h \in Holds : h # src /\ h # dst => heldAllocations'[h] = heldAllocations[h]
  BY <1>0, <1>1 DEF Moved
<1>3. ASSUME NEW i \in AllocationIds
      PROVE  AllocationHolders(i)' = IF src \in AllocationHolders(i)
                                     THEN (AllocationHolders(i) \ {src}) \cup {dst}
                                     ELSE AllocationHolders(i) \ {dst}
  BY <1>1, <1>2 DEF AllocationHolders
<1>4. ReaderMap' = [i \in AllocationIds |->
                      IF src \in ReaderMap[i] THEN (ReaderMap[i] \ {src}) \cup {dst}
                                              ELSE ReaderMap[i] \ {dst}]
  BY <1>3 DEF ReaderMap
<1>5. Lease!Transfer(src, dst)
  BY <1>4, KeptMaps DEF Lease!Transfer, LifeMap, VersionMap, ReaderMap
<1> QED
  BY <1>1, <1>5 DEF Lease!LeaseNext

LEMMA LeaseInitially == Init => Lease!LeaseInit
<1> SUFFICES ASSUME Init PROVE Lease!LeaseInit
  OBVIOUS
<1>1. \A id \in AllocationIds : allocations[id] = NoAllocation
  BY DEF Init, ArenaInit
<1>2. LifeMap = [id \in AllocationIds |-> "Absent"]
  BY <1>1 DEF LifeMap, NoAllocation
<1>3. VersionMap \in [AllocationIds -> LeaseVersions]
  <2>1. 0 \in 0..MaxEpoch
    BY ArenaAssumption
  <2>2. NoAllocation.representation_epoch = 0 /\ NoAllocation.backed = FALSE
    BY DEF NoAllocation
  <2>3. <<0, FALSE>> \in LeaseVersions
    BY <2>1 DEF LeaseVersions
  <2>4. VersionMap = [id \in AllocationIds |-> <<0, FALSE>>]
    BY <1>1, <2>2 DEF VersionMap
  <2> QED
    BY <2>3, <2>4
<1>4. \A id \in AllocationIds : AllocationHolders(id) = {}
  BY DEF Init, AllocationHolders
<1>5. ReaderMap = [id \in AllocationIds |-> {}]
  BY <1>4 DEF ReaderMap
<1> QED
  BY <1>2, <1>3, <1>5, LeaseOfMaps

LEMMA LeaseStep ==
  ASSUME HoldInv, PlanInv, EpochsBounded, [Next]_vars
  PROVE  [Lease!LeaseNext]_(Lease!leaseVars)
<1>0. ArenaTypeOK /\ HoldTypeOK /\ ArenaInv
  BY TypeParts DEF HoldInv
<1>1. CASE ObjectsKept /\ heldAllocations' = heldAllocations
  <2>1. LifeMap' = LifeMap /\ VersionMap' = VersionMap /\ ReaderMap' = ReaderMap
    BY <1>1, KeptMaps, KeptReaders
  <2> QED
    BY <2>1 DEF Lease!leaseVars, LifeMap, VersionMap, ReaderMap
<1>2. ASSUME NEW id \in AllocationIds, NEW b, ObjectChanged(id, b),
             heldAllocations' = heldAllocations
      PROVE  Lease!LeaseNext
  BY <1>0, <1>2, ObjectIsLeaseStep
<1>3. CASE ObjectsKept /\ (TakeStep \/ DropStep \/ TransferStep)
  BY <1>0, <1>3, TakeIsLeaseStep, DropIsLeaseStep, TransferIsLeaseStep
<1> QED
  BY <1>1, <1>2, <1>3, LeaseSteps DEF ObjectStep

(* Every behaviour of the submissions is, seen through the allocations and *)
(* their holders, a behaviour of ReaderLease: SubmissionLifetimeHold over  *)
(* counters, phases, plans, rollbacks and moves promises what a lease      *)
(* does, that neither life nor version changes under a reader.             *)
THEOREM HoldsAreLeases == Spec => ImplementsReaderLease
<1>1. HoldInv /\ PlanInv /\ EpochsBounded /\ [Next]_vars => [Lease!LeaseNext]_(Lease!leaseVars)
  BY LeaseStep
<1> QED
  BY <1>1, LeaseInitially, HoldInvariant, PlanInvariant, EpochsInvariant, PTL
     DEF Spec, ImplementsReaderLease, Lease!Spec
=============================================================================
