# vg core: TLA+ specifications and proofs

This directory models the portable core of vg (`src/core`, the part of
`src/backends` every backend shares, and the submit call of the three devices),
the resources the Vulkan and Metal backends keep, and the handles of the C ABI
(`src/api`). TLC checks the models on small instances, and the most important
results are proved with TLAPS for every value of the constants. `PROJECT.json` is the index: it maps each definition to the lines
it stands for and lists the runs, the mutants, the hazards and the theorems. A
path below is relative to the repository.

## 1. The system

A client allocates memory in an **arena**, gives views of it tokens in a **facet
pool**, records **tasks** in a task graph, lets an assembler freeze all of it
into an **execution plan**, compiles the plan and **submits** it to a device. The
device checks that the plan is still current, commits the plan's representation
changes, retains what the plan names in a **lifetime hold**, publishes the tasks
and runs them component by component and wave by wave.

| component (source) | state it keeps | operations | talks to |
|---|---|---|---|
| allocation arena (`core/arena`) | allocations with generation, life, representation epoch, in-flight count, live representations, backing; two clocks | allocate, import, retire, transform, acquire/release, release_representation, consume_representation, consume | everything below |
| facet pool (`core/facet`) | slots with generation, use count and its generation; free list | acquire, retire, retire_stale, begin/end_gpu_use | arena (validates views) |
| submission lifetime hold (`backends/device_hal`) | inventory, acquired allocations and facets | prepare, acquire with rollback, release, move, destroy | arena, pool |
| representation commit (`backends/device_hal`) | the produced facets of one submission | one pass over the plan's items | arena, pool |
| execution plan (`core/execution_plan`) | frozen facts and the graph epoch they were read at | assemble, seal, validate, epoch comparison | arena, pool, schedule |
| publication ring (`core/task_graph`) | slots with an atomic state; a slot counter | reserve, write, publish, acquire, consume, abort, publish_task | task graph builder |
| task graph and effect graph (`core/task_graph`, `core/effect_graph`) | tasks, edges, effects, quotas, sealed flag | append, add_effect, set_effects, seal, deterministic_order | ring, assembler |
| execution schedule (`core/execution_schedule`) | none (a function) | components, waves, transitions | assembler, devices |
| device submission (`backends/reference`, `metal`, `vulkan`) | timeline, continuation table | submit: admission, hold, publication, execution, signal | all of the above |
| envelope and continuations (`core/envelope`, `backends/envelope_stage`) | leftover by token; timeline value | mint, lookup, take, apply; signal, validate_wait | device submission |
| physical resources (`backends/vulkan`, `backends/metal`) | a buffer for each allocation, an image for each facet, pipelines, pools | ensure and destroy each, upload, transform, consume, draw, tear down | device submission, arena, pool |
| node table (`core/node`) | entries under a mutex; a process-wide token | create, destroy, snapshot, contains | assembler, C ABI |
| handle registry and C ABI (`api`) | live handles per kind; each child's device | create, destroy, check, forward | every core object |
| access certificates and discovery (`core/access`, `core/pointer_graph`) | none | cover a witness, walk pointers | plan, device |
| pipeline classification, canonical IR, shader generation, rasteriser, capture | none or files | pure functions, formats | - |

**What is hard.** (1) An arena and a pool have no lock and one host thread calls
them, but a hold outlives its submit call, so several submissions, direct calls
and backend use guards interleave between calls. (2) Every check happens before
the use it protects: the inventory in `prepare` and the acquisition after the
commit, the facet lookups and `begin_gpu_use`, the graph epoch and the pointers
it stands for, the reader check and the release of a superseded backing. (3)
Almost every operation can fail half way, and some failures leave changes behind
on purpose. (4) The publication ring is lock-free and its consumers copy before
they claim. (5) A submission may be split over two submits by a token the device
keeps. (6) The bytes of an allocation, its buffer and its images are three copies
written by different calls, and after a consume an image is the only one. (7) A
Vulkan call makes a dozen objects by hand, and each driver call may fail. (8) A
handle is an address, which the next object of its kind may get.

**What makes each component correct.** Arena and pool: counts equal the uses
outstanding; a token names one facet for ever; an index is free exactly when
nothing can still reach its slot. Hold: it can always give back what it took,
and nothing it holds changes. Commit: items of one plan do not invalidate each
other, and a released backing has no reader. Plan: an equal epoch means live
pointers. Ring: no torn, doubled, lost or stuck record. Schedule: a partition
into topologically ordered waves. Device: a task runs only after everything it
depends on succeeded, the fault reported does not depend on the execution order,
a leftover is drained once. Resources: no call leaves an object behind, no use
reads an old copy, the only copy is kept. Handles: no use of a destroyed object,
no node of one device in another's submission.

## 2. The modules

    ReaderLease            abstract: what a hold promises
        ^ refined by
    SubmissionLifetime --EXTENDS--> FacetPool --EXTENDS--> Arena
        ^ MCSubmissionLifetime (TLC)
        ^ SubmissionLifetimeProofs <- SubmissionPromisesProofs
    PublicationRing
        ^ PublicationRingProofs
    TaskGraph --EXTENDS--> ExecutionSchedule (functions)
        ^ MCTaskGraph (TLC)                ^ TaskGraphProofs
    GraphRun               abstract: what running a graph promises
        ^ refined by
    DeviceSubmit
        ^ MCDeviceSubmit (TLC; plans checked against ExecutionSchedule)  ^ DeviceSubmitProofs
    VulkanObjects --EXTENDS--> VulkanPipelines --EXTENDS--> VulkanCalls (sequences of steps)
        ^ VulkanObjectsProofs
    FacetImages
        ^ FacetImagesProofs
    Handles
        ^ HandlesProofs

**Arena** and **FacetPool**. One action per public operation, as `Arena` and
`FacetPool` have them, guards in the order of the early returns. A refused call
changes nothing and is not a step. An allocation is a record of the counters of
`Allocation`; an id is an index (ids are never reused, `next_id_`). `Live` and
`AtEpoch` are the two `lookup` overloads. A slot's `in_flight_generation` is
kept apart from `generation`, as in the code, because `end_gpu_use` must find a
use whose slot was retired meanwhile. Abstractions: byte contents and
`content_epoch` are left to FacetImages; a facet's canonical view is the allocation it
names; `free_list_` is a bag (`freeList[i]` counts the entries of index `i`), so
the model may pop any free index where the code pops the last one, and a doubled
entry would be visible.

**SubmissionLifetime**. One `SubmissionLifetimeHold` per member of `Holds`, with
its plan. `Assemble` freezes facts of the current arena and pool; `Prepare`,
`BeginCommit` ... `FinishCommit` (one step per plan item, `CommitItem`,
`RefuseItem` for a guard that fails, `FailItem` for a physical step that fails
after the epoch was published), `BeginAcquire` ... `FinishAcquire` (one step per
allocation and per facet, `RollBackAcquire` when one refuses), `Release`,
`Destroy` and `Move` are the hold's life. `caller` says that a call of several
steps is running: nothing else happens until it returns, as on the one host
thread. Between calls, any arena or pool operation, any other submission and the
backends' `FacetUseGuard` may run. Two places are deliberately wider than the
code: a plan may name any live allocation and resolving facet, whatever the
assembler would have derived from tasks, and `Prepare` does not ask for the
graph epoch first (`submit` does), so the hold is checked without that help.

**ReaderLease** is the promise: an object has a life, a version and a set of
readers, and neither life nor version changes while anybody reads it. The
refinement mapping takes an allocation's state for its life, its epoch and
backing for its version, and the submissions that hold it for its readers.

**PublicationRing**. Producers run `publish_task` (`BeginPublish`, the scan as
`Reserve`/`TryNext`/`Overflow`, one step per written word, `Publish` or `Abort`);
consumers run `append_published` (`Acquire`, one step per copied word, `Append`
or `RefuseAppend`, `Consume` or `ConsumeTooLate`). Each access to a slot's atomic
state is a step. A write step is the moment a word becomes visible to other
threads, so the release order of `publish` is the guard `Visible`; a relaxed
publication would be that guard dropped, which is one of the mutants. The slot
counter wraps at `CounterSize` and the sum `start + i` wraps with it, as 32-bit
arithmetic does. The backends use a ring they own alone and call `consume`
directly after `publish_task`; that is the sequential special case.

**ExecutionSchedule** has no state: the effect graph's conflict, reachability,
happens-before and cycle tests, the edges the assembler infers
(`SealedEdges`), the deterministic order, and `derive_execution_schedule`
(components, waves, transitions). Queues and visited arrays are sets; the loops
over indices that decide an outcome (which ready task is next, which pair gets
an edge first) are recursive functions over the same indices. An effect is a
region and an access; regions do not overlap each other partly.

**TaskGraph** is the builder as a client drives it: `AppendTask`,
`AddDependency`, `AddEffect`, `SetEffects` (which keeps a prefix when it
fails), `SealGraph`, `PublishGraph`, and then `Assemble`, which replaces the
declared effects by those of the tasks and derives the schedule or refuses.

**DeviceSubmit** is `submit` of the three devices, one at a time, chosen in
`Init`. The stages are those of the code: `RefuseTimeline` (what may be refused
there differs), `Admit` (`apply_envelope_continuation`: whole, split at the
quota, or resumed by a token), `Hold` or `FailHold` (prepare, commit and
acquire, which SubmissionLifetime has in full), and then the device's own order.
Reference and Metal publish, run task by task (`RunTask`, `FailTask`, with
`cancel_descendants`) and answer (`ReportFailures`, `Complete`, `RefuseSignal`,
the last on Reference only). Vulkan collects compute tasks (`PrepareDispatch`),
dispatches them before the next raster task and at the end (`FlushBatch`), draws
(`RunRaster`), signals (`SignalMarker`) and publishes last (`Record`); every
driver call may fail. Memory is, for each region, the task that wrote it last;
Vulkan has a second copy (`mirror`), filled and copied back where the code does
it. Which tasks fail, and whether they had written before, is chosen with the
submission (`faults`), so that the result can be compared with what a run in
another order would report. Abstractions: task bodies are the regions they read
and write; a refusal that changes nothing (a stale plan, a malformed or unknown
token) is no step.

**GraphRun** is the promise: a task takes effect after all it depends on, what
depends on a failed task never does, and nothing is decided twice. The
refinement mapping reads each task's outcome from `done`, `failures` and
`cancelled`; a step of Vulkan may decide several tasks at once.

**VulkanCalls**, **VulkanPipelines** and **VulkanObjects**. A call of the Vulkan
adapter is a sequence of steps: a driver call that makes an object or may fail
otherwise, objects stored in the device state or destroyed, a descriptor set
taken, the pool reset. A step carries what its error path destroys (`undo`) and
what makes the code pass it over (`unless`, the lookup in a cache or the test of a
member). VulkanCalls has the resources, VulkanPipelines the shaders and
pipelines, VulkanObjects the draws and submissions composed of them, the
device's creation, the destructor, and the machine that runs them: `Succeed`,
`Store`, `DestroyObjects`, `PassOver`, `AllocateDescriptorSet`,
`ResetDescriptorPool` and `Complete` go on, `Fail` lets the step at hand fail,
destroys its `undo` and takes what the call still had for lost. One allocation, three
images, one Node and two raster programs stand for all of theirs. What a call
records, copies or reports is left out, barriers and image layouts included.

**FacetImages** follows one allocation on either GPU backend: its bytes (a
version, or gone after a consume), its buffer and the image of each facet with
the version each holds and the content epoch it claims. `content` is the version
a client expects to read. Calls are atomic, because a device has one caller and
waits for what it submits: `CopyInto` (the host), `Compute`, `SampleFacet`,
`DrawInto` and `CommitRepresentation`; physical steps fail before or after their
commands were submitted. Content becomes undefined where the code promises
nothing: after a failure behind a submission, and when a request transforms an
allocation that was consumed before (Metal refuses after the epoch is published,
Vulkan copies from a placeholder of one byte). Facets retired one by one and
submissions that mix compute and raster tasks are left out; DeviceSubmit has the
latter.

**Handles** has a function from addresses to objects for each kind of handle: an
address that was freed may be used again, which is how an old handle comes to be
accepted. Devices carry their node tables, and a variable `created` tells
devices at one address apart. Calls are atomic except `submit`, whose check,
publication, resolution of each task and run are steps, and which two threads
are in at once. The client never destroys what a running call reaches
(vg_api_internal.h:109-124); but a device may go before its children, though the
same comment asks for the contrary, since the calls check for it. `dangling`
becomes true when a call follows an address without an object.

## 3. What is checked

All passing runs together fire every action and every disjunct. Deadlock is
checked in `Submissions`, where a caller can always submit another plan, and not
elsewhere: callers may stop at any time and the bounds end every behaviour.

| run | instance | shows |
|---|---|---|
| OverlappingHolds | 1 allocation, 2 slots, 2 holds with one item each, a use guard, move assignment, representation budget 2 | counts are conserved and uses stay releasable across retirement, the free list is exact, a token names one facet, what is held is stable, `begin_gpu_use` inside `acquire` cannot fail, the hold implements ReaderLease |
| TwoAllocations | 2 allocations (one may be an import, live or retired), 1 slot, 2 holds | an inventory stale between prepare and acquire is rolled back exactly; an equal epoch means live pointers |
| TwoTransforms | 2 allocations, 2 slots, 1 hold with up to 2 items | a later item leaves an earlier item's facet valid; a released backing has no reader |
| Ring | 2 producers, 2 fair consumers, 2 slots, 2 words, 3 tasks (one malformed, one unsupported), quota 1, counter wraps at 2 | one writer per slot, no torn record, one acceptance per slot, nothing consumed that nobody accepted; what is published and supported is consumed; an overflow means the ring is full |
| Graphs | all graphs of up to 4 tasks with up to 2 explicit edges, 3 programs of effects | conflicts are ordered, the order is the least one, waves are longest chains, components are independent, transitions carry every conflicting region; a sealed graph is refused only for a doubled edge |
| Submissions | 3 devices, 9 plans over 5 graphs, 2 regions, 2 tokens | each device implements GraphRun; fault, poison and memory are those of a canonical run; a split order is published once; the timeline advances only over success; every call returns |
| VulkanPoison | Vulkan, 1 token | *violated*: output hidden behind Poisoned (section 6) |
| VulkanStaleMirror | Vulkan, 1 token | *violated*: a raster result overwritten by an older copy (section 6) |
| VulkanObjects | up to 5 calls of 9 kinds between creation and destructor, any step may fail | nothing is left behind but pooled command buffers and the pipes of a glslc that never started; no handle is overwritten; cached records are whole; children go before parents |
| DescriptorPool | up to 6 raster tasks of plans | *violated*: no descriptor set is left (section 6) |
| FacetImages | both GPU backends, 2 facets per epoch, 2 epochs, 2 writes | no use reads an old copy; after a consume the only copy is kept by a facet that resolves; a draw that is admitted has bytes to be read back into |
| Handles | 2 addresses and 2 lives of devices, 2 node handles, one address of each other kind, 2 threads, 2 tasks per builder | no dead device or arena is followed; a table holds exactly its device's nodes; a submission runs only its device's nodes; ids name tasks |

**Bounds and why they are enough.** `MaxAllocations`, `MaxSlots`, `MaxEpoch`,
`MaxTokens` (generations of one slot), `MaxClock` (the topology clock), `MaxUses`
and `MaxItems` (sizes of a plan) cut the counters off, in the guards. The hazards
need two of something at a time: two holds on one allocation (a shared count),
two facets on one slot (a reused index), two items of one plan (a later item
against an earlier one), two allocations (a rollback that has something to
undo). The three runs provide each of these pairs; no run provides all of them at
once, which would not finish, and the theorems of section 4 are not bounded. For
the ring two threads of each side, two slots and two words give every race and
every torn read; a counter that wraps at the capacity makes every scan cross the
wrap. The malformed task brings an abort, the unsupported one a slot no consumer
takes, and a quota below the number of slots a builder without room.

Four tasks give every shape of graph the schedule's algorithms tell apart: a
diamond, two chains side by side, a chain longer than a wave apart, a third task
that orders two. The plans of `Submissions` are chosen by what their order does:
two chains whose steps are not in canonical order, with the first failure in
either; one chain through both domains; a raster task over mapped memory; a
raster task first; compute tasks only. `MaxTokens` bounds the orders split in one
behaviour: with two, a leftover may be resumed by another plan while a second is
waiting. Quotas of 0, 1, 2 and of exactly the number of tasks are among them.
Every combination of tasks that fail, before or after they have written, is
tried on Reference and Metal. `MCDeviceSubmit` writes the plans' orders out, and
an ASSUME compares them with what ExecutionSchedule computes.

`MaxCalls` lets a Vulkan call meet what four others left: a cache filled or half
filled, an image of an old epoch, a pool of sets in use; the theorems of section 4
have no such bound. `MaxWrites` and `MaxEpoch`
of FacetImages give two stale copies of different age and a second transform of
what the first one consumed. In Handles `MaxDevices` and `LastToken` let an address
be used twice while nodes, code objects, graphs and envelopes of its first owner
live on, and token exhaustion is reached. Two kinds of state are bounded by one
object: each kind but devices and nodes has a single address, and the properties
relate an object to its device, not two objects of a kind to each other.

**Fairness.** `Ring` assumes weak fairness of each consumer, and strong fairness of
its turning to each slot it may acquire. It is
justified because a consumer takes no lock and waits for nobody, and because
every caller in the repository passes each slot that `publish_task` returned on
to a consumer; the second part says that a consumer does not try one refused slot
for ever while another waits. Producers owe nothing, and a record no builder
supports is refused for ever: `PublishedIsConsumed` speaks of the others. `Submissions` assumes weak fairness of
`Proceed`, the steps of a submit call that has been admitted: the call runs on
one thread and waits only for the driver, which is taken to answer. Nobody owes a
submission (`Admit` is not fair). Nothing else in the modelled code promises
progress: a hold is released whenever its owner does so.

## 4. What is proved

Every safety property of the passing runs, and both refinements, are theorems:
they hold for every value of the constants, from the assumptions the modules
state about them. The inductive invariants hold in TLC's runs on the bounds of
section 3 as well (`CountInv` with a counter as wide as its theorem asks; not
`EnvelopeInv`, which quantifies over all naturals, nor the part `Follows` of
`ObjectsInv`, which asks for a sequence of sets).

### Holds, facets and commits

For any number of allocations, slots, holds, guards, kinds and any plan sizes,
from `ArenaAssumption`, `PoolAssumption` and `HoldAssumption` (constants are
natural numbers and finite sets; the two null values are outside the sets; an
import's epoch is within `MaxEpoch`):

| theorem | statement |
|---|---|
| `SubmissionLifetimeProofs!TypeCorrect` | `Spec => []TypeOK`; in particular no in-flight count is decremented below zero |
| `SubmissionLifetimeProofs!FreeListCorrect` | `Spec => []FreeListExact` |
| `SubmissionLifetimeProofs!CountsConserved` | `Spec => []Conservation` |
| `SubmissionLifetimeProofs!HoldsReleasable` | `Spec => []HeldIsReleasable` |
| `SubmissionLifetimeProofs!HoldsStable` | `Spec => HeldBackingStable` (an action property) |
| `SubmissionPromisesProofs!TokensNameOneFacet` | `Spec => TokenNamesOneFacet` (an action property) |
| `SubmissionPromisesProofs!FacetUsesSucceed` | `Spec => []FacetUsesCannotFail` |
| `SubmissionPromisesProofs!ConsumeIsExclusive` | `Spec => ConsumeLeavesNoReader` (an action property) |
| `SubmissionPromisesProofs!EpochStandsForLiveness` | `Spec => []EpochMatchImpliesLive` |
| `SubmissionPromisesProofs!ProducedStayCurrent` | `Spec => []ProducedFacetsCurrent` |
| `SubmissionPromisesProofs!HoldsAreLeases` | `Spec => ImplementsReaderLease` (the refinement) |

The argument. None of the properties is inductive. `HoldInv` is the conjunction
of four parts. `TypeOK`. `Shape`: every index below `slotCount` is in the free
list once if its slot is inactive and unused and not at all otherwise, and slots
above are untouched; this part needs no other. `ArenaInv`: each in-flight count
is the number of holds on the allocation, and every held reference is live; a
count of zero then means that nobody holds the allocation (`NotHeld`), which is
what the guards of `transform`, `retire`, `consume` and
`consume_representation` test, so no step takes a held allocation away. `FacetInv`:
each use count is the number of holds and guards on the slot, every use is
recorded under the generation it began with, and on an active slot that is the
current generation. It rests on `Shape`, because a slot in use is not in the free
list and so is not given away. `HoldInvStep` shows that a step keeps all four and
changes nothing held.

What the code promises across the steps of one call, or between assembly and
submission, needs three more. `CallerInv`: only the hold whose call is running is
half way through it, so what its first check found (that every facet of the
inventory resolves) is still so at its last step. `PlanInv`: a plan is never of a
topology epoch to come, and while its `graph_epoch` is that of the arena every
pointer it names is live, because each operation that ends a life moves that
clock; and its items transform different allocations. `CommitInv`: each facet a
commit has produced resolves and stands on the allocation of an item already
passed, which no later item can be about. The refinement
adds `EpochsBounded`, which keeps a version within those of ReaderLease.

### The publication ring

For any number of producers, consumers, slots, words and tasks and any counter
size, from `RingAssumption`:

| theorem | statement |
|---|---|
| `PublicationRingProofs!RingTyped` | `Spec => []TypeOK`; no index leaves the slots, wrapped or not |
| `PublicationRingProofs!OneWriter` | `Spec => []WriterExclusive` |
| `PublicationRingProofs!RecordsWhole` | `Spec => []NoTornRecord` |
| `PublicationRingProofs!SlotAcceptedOnce` | `Spec => []AcceptedOnce` |
| `PublicationRingProofs!NothingLost` | `Spec => []ConsumedWasAccepted` |
| `PublicationRingProofs!OverflowIsFull` | `Spec => OverflowMeansFull`, if the capacity divides the counter size or the counter is wide |

`RingInv` adds what the properties need: the words a producer has written are in
its slot and no two producers share one (`OwnersInv`), a slot that was published
holds one whole task (`RecordsInv`), what a consumer has copied is what the slot
holds (`CopiesInv`), and so is what it appended (`AppendedInv`). The key lemma is
`PublishedStays`: a published slot never changes again. It is true only because
consumed slots are not reused. A ring that returned them to Empty, as ADR-004
draws it, would let a slow second consumer copy half of one task and half of the
next; `acquire` does not claim the slot.

`OverflowIsFull` has a hypothesis because it is false without (section 6). Where the
capacity divides the counter size, a wrapped scan visits the slots an unwrapped
one would, and `TriedInv` (until a slot is aborted, what a scan has tried is not
free again) is enough. Where it does not, `CounterIsWide` asks that twice the
capacity and a slot for each producer fit in the counter; `CountInv` then shows
that the counter has not wrapped while a slot is free: it has counted the scans
under way and the slots taken, and no more.

### Graphs, plans and schedules

For any number of tasks, any set of programs (what a task reads and writes) and
any explicit edges, from `TaskGraphAssumption`:

| theorem | statement |
|---|---|
| `TaskGraphProofs!RefusedForDoubles` | `Spec => []RefusedOnlyWhenDoubled` |
| `TaskGraphProofs!ConflictsAreOrdered` | `Spec => []ConflictsOrdered` |
| `TaskGraphProofs!SchedulesAreTight` | `Spec => []ScheduleIsTight` |
| `TaskGraphProofs!TransitionsAreComplete` | `Spec => []TransitionsComplete` |
| `TaskGraphProofs!OrdersAreLeast` | `Spec => []OrderIsLeast` |
| `TaskGraphProofs!SealedPlansCanBeSubmitted` | `Spec => []CanBeSubmitted`: a sealed plan is one that DeviceSubmit may assume |

`GraphInv` is inductive: what the builder has is a graph over its tasks, without
a cycle once sealed, and a plan is what the assembler makes of it (`SealedPlan`) or
was refused for a doubled edge. The work is in the functions. Recursion over
numbers is reasoned about through sets: `Induction` says that a set of naturals
that has 0 and, with each number, the next has all up to n, and follows from the
well-foundedness of <; `Recursion` gives a recursive function its equations.
With them `ReachesIsClosure` shows that `Reaches` is the least transitive
relation over the edges, and `OneMoreEdge` what an edge adds to it. From that,
`SealedEdgesOrder`: the loop over pairs that adds an inferred edge only where
there is no path yet leaves no cycle and no unordered conflict.
`ComponentsHoldTogether` and `SeedsSplit` make the components a partition no edge
leaves and no smaller one would do; `WavesAre` gives each task the length of the
longest chain before it. `OrderIsGreedy` and `OrderLists` say that the order takes
the least ready task each time and all tasks once; `OrdersAreLeast` follows at the
first position where another order differs. `StepsList` carries it over to the
component by component, wave by wave order the devices run.

### The devices

For any plans, regions, failures and number of tokens, from `SubmitAssumption`:
both orders of a plan list its tasks once and respect what depends on what
(`below`), which composes; of two tasks that conflict, the later in canonical
order depends on the earlier; a signal, where there is one, is above the wait. The first two are what
`SealedPlansCanBeSubmitted` shows of every plan the assembler seals, and
the third is checked when the envelope is sealed (execution_plan.cpp:1250).

| theorem | statement |
|---|---|
| `DeviceSubmitProofs!OutputReported` | `Spec => []NoHiddenOutput`: on Reference and Metal, a submission that fails after anything was written is reported as PartiallyProduced |
| `DeviceSubmitProofs!TimelineIsForward` | `Spec => TimelineAdvances` (an action property) |
| `DeviceSubmitProofs!SubmissionsAreGraphRuns` | `Spec => ImplementsGraphRun` (the refinement, on each device) |
| `DeviceSubmitProofs!FirstFaultIsReported` | `Spec => []FaultIsCanonical` |
| `DeviceSubmitProofs!SplitOrdersArePublishedOnce` | `Spec => []EnvelopePublishedOnce` |
| `DeviceSubmitProofs!MemoryIsAsInOrder` | `Spec => []MemoryUnlessDrawnOver` |

`NoHiddenOutput` speaks of the end only. `OutputInv` adds that nothing is written
before the execution stage and that `produced` is set with the first byte that
differs. The theorem is stated for the two devices it is true of; `VulkanPoison`
shows that it is false of the third.

`RunInv` says how far a submission is. `TaskInv`, for Reference and Metal: a task
was started only after all it needs are done, and the cancelled are exactly what
lies below a failure. `BatchInv`, for Vulkan: the tasks done are a prefix of the
steps, and the batch is the compute tasks right after it. The refinement, and the
timeline, follow step by step. `ReportInv` adds that at the end nothing remains, so
that the first failure in canonical order is the first fault any order would
meet. `EnvelopeInv` keeps the books of each split order (`Accounted`): what was
published, what the submission at hand is taking and what is left under the token
are consecutive parts of it. `MemInv` compares memory with that of a run in
canonical order: `RanInOrder` says that each region holds what the last of the
tasks done, in canonical order, wrote to it, and that each task done found what
the last writer before it left; since conflicting tasks are in that order in any
order that respects `below`, a step keeps it. Vulkan's second copy agrees with the first on all that is mapped, as
long as no raster task writes what is mapped.

### Vulkan objects

For any sequence of calls, of any length, any of whose steps may fail, from
`CallsAssumption` (the calls are those that VulkanObjects composes):

| theorem | statement |
|---|---|
| `VulkanObjectsProofs!NothingIsLost` | `VulkanSpec => []NothingLost` |
| `VulkanObjectsProofs!TeardownIsInOrder` | `VulkanSpec => []TeardownInOrder` |
| `VulkanObjectsProofs!RecordsAreWhole` | `VulkanSpec => []RecordsWhole` |
| `VulkanObjectsProofs!CallsLeave` | each of the nine calls, begun on any whole device, ends on a whole device with nothing local; wherever it fails, the device is whole and what the error path forgets is a pooled command buffer or a pipe of glslc |
| `VulkanObjectsProofs!ObjectsInvariant` | `VulkanSpec => []ObjectsInv` |
| `VulkanObjectsProofs!SetsLastWithoutPlans` | `VulkanSpec => []SetIsLeft`, if no call draws a plan |

The proof does not execute the calls: it follows the way the code composes them. A
device is `Whole` when it has its instance and device, every record is complete or
absent, and every cached pipeline has what it was made from; this is all a call may
rely on, since it does not know which calls came before. `Leads(s, C, l, E, m, R, N)`
says that the steps `s`, from every whole device that owns `C` and nothing of `N`
and with `l` local, go to a whole one that owns `E`, with `m` local; and that
every step that may fail destroys nothing the device owns, leaves it whole, and
frees what is local but for the leftovers and `R`, which the caller frees.
`Stores` is the same for steps that put a new record into the device, which may be
broken only until their end. There is a lemma for each way of composing: `Then` and
`ThenStores` (one after the other), `UndoingLeads` (an error path of the caller
frees what is in `R`), `UnlessLeads` (a cache lookup: what is skipped when the
record is there) and one for each kind of step (`MakeLeads`, `AttemptLeads`,
`KeepStores`, `DropLeads`). On them stands one lemma for each function of the
backend, `CreateRawBufferLeads` to `SubmitPlanRasterStepLeads`, in the order of the
modules. `RecordStorable` and `RecordDroppable` say what a record has to do with
the others: a new one may be stored at any time, and a buffer or an image, of which
no pipeline is made, may be dropped.

`ObjectsInv` is about the machine. Between two calls the device is absent or whole.
In a call, the rest of its steps leads to a whole device (`Follows`), which the
lemma of the call shows at its first step and each step hands on. A creation has
made what its steps up to `at` make, and owns nothing before the last. In the
destructor all that is still owned has its step ahead of it, the device and the
instance in the last two, and so has the command pool if command buffers were
left. `TeardownInOrder` needs the last part: what was left by earlier failures is
destroyed with its pool.

`SetIsLeft` is false (`DescriptorPool`, section 6). `SetsLastWithoutPlans` leaves out
the calls that draw plans and so names the cause: in every other call a set is
taken right after the pool was reset (`FreshSets`), however the calls before it
ended.

### Images

For both backends and any number of facets, epochs and writes, from
`ImagesAssumption`:

| theorem | statement |
|---|---|
| `FacetImagesProofs!UsesReadWhatWasWritten` | `Spec => []SampledFresh` |
| `FacetImagesProofs!ConsumeLeavesACopy` | `Spec => []OnlyCopyKept` |
| `FacetImagesProofs!AdmittedDrawsHaveBytes` | `Spec => []DrawHasBytes` |

`CacheInv` is what the epoch comparison of the code stands for: the bytes, where
there are any, are the content (`BytesCurrent`); a buffer that passes for current
is (`MirrorTrue`); an image that claims the content epoch of the allocation has
its content, and where the bytes are gone every image of the present
representation has it (`ImagesTrue`); a planned draw whose facet is of the present
representation has its bytes (`PlansBacked`).

### Handles

For any number of addresses, threads, tokens, tasks and lives of devices, from
`HandleAssumption` (the bounds are natural numbers; `Free` is no object):

| theorem | statement |
|---|---|
| `HandlesProofs!NoDanglingHolds` | `Spec => []NoDangling` |
| `HandlesProofs!TableIsExactHolds` | `Spec => []TableIsExact` |
| `HandlesProofs!RunsOwnNodesHolds` | `Spec => []RunsOwnNodes` |
| `HandlesProofs!IdsNameTasksHold` | `Spec => []IdsNameTasks` |

`HandleInv` strengthens them. `Distinct`: live devices differ in `id`, and two
NodeRefs with one token are one, since tokens come from a counter of the process.
`NodesOwned`: a node handle's address is that of its device as long as this
device lives, so that destroying the handle later removes nothing from another
device's table. `TasksKnown`: tasks name NodeRefs that were given out. With
`TableIsExact`, a token found in a table is then one of that very device's nodes,
and `CallsAlive` (what a submission reaches exists, what it has resolved is its
device's own) is kept. `IdsCount`: the next id is the number of tasks.

### Only model-checked

- Liveness: `PublishedIsConsumed` and `SubmitReturns`. Liveness under fairness and
  ENABLED are out of the prover's reach.
- That `Submissions` has no deadlock, and that every action can happen at all.

## 5. Mutants

Every property of every passing run has a mutant in `PROJECT.json`: a definition
and a changed form of it, defined just before it in the module and marked
"Mutant", that is the bug the property is there for (a rollback that keeps a
count, a move that does not reset its source, a stale token that is freed at
once, a relaxed publication, a state that is loaded and stored instead of
exchanged). No specification uses the changed forms.

## 6. Findings

- **Hidden output on Vulkan** (`VulkanPoison`, `code_bug`). A failure to prepare a
  compute task says Poisoned whatever has been executed before.
- **A stale copy on Vulkan** (`VulkanStaleMirror`, `code_bug`). All buffers mapped
  so far are copied over the arena after each batch and at the end, also over a
  region a raster task has written since. `MemoryUnlessDrawnOver` shows that
  nothing else goes wrong.
- **Descriptor sets run out on Vulkan** (`DescriptorPool`, `code_bug`). The raster
  tasks of plans take their sets from a pool of four and never reset it
  (vulkan_plan_raster.cpp:328), although the pool is sized "with headroom, since
  the pool is reset before each use rather than grown" (vulkan_resources.cpp:782).
  Only `run_raster_pass` resets it; `SetsLastWithoutPlans` shows that nothing but
  these tasks can use the pool up.

Seen while modelling, without a run of their own:

- `seal` may add an inferred edge beside an explicit one between the same tasks,
  as ADR-027 says; `derive_execution_schedule` refuses every graph in which a pair
  occurs twice (execution_schedule.cpp:95), so such a graph can never be
  assembled. The synthetic depth write makes two tasks on one depth attachment
  conflict, so an explicit dependency between them suffices.
  `RefusedOnlyWhenDoubled` shows that this is the only reason for a refusal.
- Metal and Vulkan check the wait and the signal before they take the
  continuation token; Reference checks the signal after the tasks have run
  (reference_device_hal.cpp:677, `RefuseSignal`), though
  tests/support/mixed_continuation_contract.h:152 says "Timeline refusal must not
  consume a valid continuation or transform data."
- On Metal a transform makes a Private texture whose record says content epoch 0;
  the next use compares it with the allocation's, which is at least 1, and calls
  `replaceRegion` on it (metal_resources.mm:486), which the host may do with
  Shared textures only.
- HandleRegistry's comment says that "a destroyed-then-reused pointer returns
  VG_ERROR_STALE_HANDLE" (vg_api_handle_registry.h:14-15); once an address is used
  again the old handle is the new object's. `TableIsExact` and `RunsOwnNodes` show
  what still holds then.
- Two submits of one unpublished graph both ask, then both publish without a lock
  (vg_api_execution.cpp:177, task_graph.cpp:197): one may be refused with
  VG_ERROR_INVALID_STATE. Devices and arenas have no lock either, though
  ADR-044:77-80 calls submit "fully concurrent" and arena allocation "internally
  synchronized".
- On Vulkan a command buffer is left in the pool until the device goes when a
  readback buffer cannot be made (vulkan_plan_raster.cpp:841) or an indirect
  command list cannot be ended; `compile_glsl_stage` leaves its first pipes open
  when a later one cannot be made. `NothingLost` excepts exactly these. The parent
  writes all of the source to glslc and then reads stdout before stderr
  (vulkan_pipelines.cpp:103-131); with more output than a pipe holds both would
  wait.
- Under a representation budget nothing in the submission path calls
  `release_representation`, so an allocation runs out of representations unless
  its owner calls it (ADR-033 leaves it to the producer).

`PublicationRing::reserve`
reduces `start + i` after the 32-bit sum has wrapped; unless the capacity divides
2^32 the scan then tries one slot twice and leaves another out, and may report an
overflow of a ring that has room. `OverflowMeansFull` is therefore checked with a
counter size the capacity divides. `OverflowIsFull` shows that with 32 bits this
cannot happen before a slot is aborted, unless twice the capacity and a slot for
each producer exceed 2^32; with 3 producers, 3 slots and a counter of 4 values TLC finds it. And ADR-004 draws `Consumed -> Empty`, which
no operation does: a ring serves each slot once, and that is the safer choice
(section 4).

## 7. Not modelled, and why

- Byte contents, formats and hashes (capture, canonical IR, shader text): pure
  data without state. Pipeline classification: a table.
- What the driver does with the commands it is given, image layouts and barriers;
  Metal's encoders and pipelines, which ARC frees. The rasteriser: floating point.
- Of the C ABI: runtimes, adapters, address domains, timelines (a raw pointer into
  the device that the contract alone protects), submissions and their reports,
  allocation pointers, `acquireFacet`, descriptor validation and `vgGetApi`.
- Access certificates, the discovery walk and the working-set budget: planned.

## 8. Plan

In this order:

1. **Access**: certificate coverage and the discovery walk against their
   definitions (the reachable set; every effect inside a certified range).
2. TaskGraph: payload quotas, and an abstract specification of the assembled plan.
3. DeviceSubmit: the working-set budget before admission, several devices of one
   arena.
4. Handles: timelines and allocation pointers, and acquireFacet.
5. **Task ring kernel** (the generated shader's loop with weak exchanges) as a
   second implementation of the ring's producer.
6. Proofs: `MemoryUnlessDrawnOver` composed with the assembled plan; the theorems of
   the modules of items 1 to 5.
