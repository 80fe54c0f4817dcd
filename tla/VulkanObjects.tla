---------------------------- MODULE VulkanObjects ----------------------------
(***************************************************************************)
(* The objects of a Vulkan device (src/src/backends/vulkan/): the draws    *)
(* and submissions composed of the calls of VulkanCalls and                *)
(* VulkanPipelines, the device's creation, its destructor, and what is     *)
(* left after any step of a call failed.                                   *)
(*                                                                         *)
(* One host thread calls; every call waits for the work it submits.  One   *)
(* allocation, three images, one Node and two raster programs stand for    *)
(* all of theirs.                                                          *)
(***************************************************************************)
EXTENDS VulkanPipelines

CONSTANTS Calls, MaxCalls   \* the calls the host makes, and how many of them

ASSUME CallsAssumption ==
  /\ Calls \subseteq {"compile", "compute", "timeline", "commit", "draw", "draw user",
                     "draw tier2", "pass", "kernels"}
  /\ MaxCalls \in Nat

NoCall == "none"
MaxSets == 4                 \* maxSets of the descriptor pool

----------------------------------------------------------------------------
(* The compute tasks of a submission, and their publication *)

ComputeTasks(stale) == Attempt \o EnsureBuffer("a", stale) \o DispatchTaskGraph

PublishTasks ==
  EnsureTaskRingPipeline \o CreateTaskRingBuffers
    \o Undoing(AllRaw(RingBuffers), Attempt \o DispatchTaskRingPublication \o Attempt)
    \o DestroyTaskRingBuffers

----------------------------------------------------------------------------
(* A raster task of a plan *)

ValidateRasterTask == Attempt
RecordPlanTier2DrawConsumer == Attempt

Bindings == AllRaw({"vertices", "tint", "root", "index"})

PreparePlanRasterBindings(d) ==
  Attempt
    \o EnsureFacetImage("target", FALSE, TRUE)
    \o EnsureFacetImage("source", d.stale, TRUE)
    \o When(d.depth, EnsureFacetImage("depth", FALSE, TRUE))
    \o Undoing(Bindings,
               CreateRawBuffer("vertices") \o CreateRawBuffer("tint") \o CreateRawBuffer("root")
                 \o When(d.indexed, Attempt \o CreateRawBuffer("index"))
                 \o EnsureDescriptorPool \o AllocateSet \o EnsureSampler)

RasterPipelineOf(program) ==
  IF program = "user"
    THEN GetOrCompileUserRasterGlsl \o EnsurePlanUserRasterPipeline
    ELSE EnsurePlanRasterPipeline(program)

Readbacks == AllRaw({"readback", "depth readback"})

(* The command buffer is only in the hands of SubmitAndWait *)
RecordAndSubmit(d) ==
  AllocateCommandBuffer("draw")
    \o Undoing(Readbacks,
               CreateRawBuffer("readback") \o When(d.depth, CreateRawBuffer("depth readback"))
                 \o When(d.tier2, RecordPlanTier2DrawConsumer) \o SubmitAndWait("draw"))

SubmitPlanRasterStep(d) ==
  ValidateRasterTask \o EnsurePlanRasterCache \o PreparePlanRasterBindings(d)
    \o Undoing(Bindings, RasterPipelineOf(d.program) \o RecordAndSubmit(d))
    \o Drop(Readbacks \cup Bindings)

(* The buffers of the two Tier-2 kernels; the commands outlive the call *)
Selection == {"selected", "authorized", "counts", "matched", "inputs"}
DrawCommands == Raw("draw commands")

CreateSelectionBuffers ==
  Undoing(AllRaw(Selection) \cup DrawCommands,
          CreateRawBuffer("selected") \o CreateRawBuffer("authorized")
            \o CreateRawBuffer("counts") \o CreateRawBuffer("matched")
            \o CreateRawBuffer("inputs") \o CreateRawBuffer("draw commands"))

(* An error of vkEndCommandBuffer keeps the command buffer *)
RunSelection ==
  Undoing(AllRaw(Selection) \cup DrawCommands,
          AllocateCommandBuffer("tier2") \o Undoing({Commands("tier2")}, Attempt)
            \o Attempt \o SubmitAndWait("tier2"))
    \o Drop(AllRaw(Selection))

ValidatePreAuthorizedSelection == Attempt
SubmitPlanTier2Indirect ==
  Attempt \o ValidatePreAuthorizedSelection \o EnsurePlanIndirectCache
    \o CreateSelectionBuffers \o RunSelection

----------------------------------------------------------------------------
(* The raster pass of the test harness *)

PassBuffers == AllRaw({"pass vertices", "pass tint", "pass readback"})
Multisample == Image("multisample")

RasterPassImages ==
  Attempt \o EnsureFacetImage("target", FALSE, TRUE) \o EnsureFacetImage("source", FALSE, TRUE)

RasterPassBindings ==
  EnsureRasterPipeline \o EnsureSampler \o EnsureDescriptorPool
    \o Undoing(PassBuffers,
               CreateRawBuffer("pass vertices") \o CreateRawBuffer("pass tint")
                 \o ResetSets \o AllocateSet \o CreateRawBuffer("pass readback"))

RunRasterPass ==
  RasterPassImages \o RasterPassBindings
    \o Undoing(Multisample \cup PassBuffers,
               CreateImage("multisample") \o AllocateCommandBuffer("pass") \o SubmitAndWait("pass"))
    \o Drop(Multisample \cup PassBuffers)

----------------------------------------------------------------------------
(* The device *)

Instance == <<"device", "instance">>
Device == <<"device", "device">>

(* By identity or the first, of version 1.2 and with a compute queue *)
ChooseAdapter == Attempt

(* Mutant: a semaphore that fails takes the instance down, not the device *)
CreateImplKeepingDevice ==
  Undoing({Instance, TimelineSemaphore},
          Make(Instance) \o ChooseAdapter \o Make(Device) \o Make(TimelineSemaphore))
    \o Keep({Instance, Device, TimelineSemaphore})

CreateImpl ==
  Undoing({Instance, Device, TimelineSemaphore},
          Make(Instance) \o ChooseAdapter \o Make(Device) \o Make(TimelineSemaphore))
    \o Keep({Instance, Device, TimelineSemaphore})

DestroyPlanRasterCache ==
  Drop({<<"builtin", "pipeline">>, <<"user", "pipeline">>})
    \o Drop(UserModules) \o Drop(PlanRasterCache \cup {<<"user", "program">>})
DestroyPlanIndirectCache == Drop(PlanIndirectCache)

(* ~DeviceState, in the order of the destructor *)
DestroyDeviceState ==
  DestroyPlanRasterCache \o DestroyPlanIndirectCache
    \o Drop(Raw("a")) \o Drop({CommandPool})
    \o Drop(ComputePipeline("node")) \o Drop(ComputePipeline("ring"))
    \o Drop({TimelineSemaphore})
    \o RetireStaleFacetImages({"target", "source", "depth"})
    \o Drop({Sampler})
    \o Drop(Part("sample", {"plain", "checked"})) \o Drop(Part("storage", {"pipeline", "module"}))
    \o Drop({<<"raster", "pipeline">>})
    \o Drop(Part("raster", {"fragment", "vertex", "layout", "set layout"}))
    \o Drop(Part("storage", {"layout", "set layout"}))
    \o Drop(Part("sample", {"module", "layout", "set layout"}))
    \o Drop({DescriptorPool}) \o Drop({Device}) \o Drop({Instance})

----------------------------------------------------------------------------
(* What the adapter is asked for *)

Plain == [program |-> "builtin", depth |-> FALSE, indexed |-> FALSE, stale |-> FALSE, tier2 |-> FALSE]

StepsOf(c) ==
  CASE c = "create" -> CreateImpl
    [] c = "compile" -> EnsurePipeline("node") \o CompilePlanRasterPackage("user")
    [] c = "compute" -> ComputeTasks(FALSE) \o PublishTasks
    [] c = "timeline" -> SubmitTimelineMarker \o ComputeTasks(TRUE) \o SubmitTimelineMarker
    [] c = "commit" ->
         TransformRepresentation("a", "target") \o RetireStaleFacetImages({"source"}) \o ConsumeInput("a")
    [] c = "draw" -> SubmitPlanRasterStep([Plain EXCEPT !.stale = TRUE])
    [] c = "draw user" ->
         SubmitPlanRasterStep([Plain EXCEPT !.program = "user", !.depth = TRUE, !.indexed = TRUE])
    [] c = "draw tier2" ->
         SubmitPlanTier2Indirect
           \o Undoing(DrawCommands, SubmitPlanRasterStep([Plain EXCEPT !.tier2 = TRUE]))
           \o Drop(DrawCommands)
    [] c = "pass" -> RunRasterPass
    [] c = "kernels" ->
         EnsureSampleFacetPipeline("plain") \o EnsureSampleFacetPipeline("checked")
           \o EnsureStorageFacetPipeline
    [] c = "destroy" -> DestroyDeviceState

Steps == [c \in Calls \cup {"create", "destroy"} |-> StepsOf(c)]

----------------------------------------------------------------------------
VARIABLES
  owned,    \* reachable from the DeviceState
  local,    \* made by the running call and not stored yet
  lost,     \* nobody will destroy them
  sets,     \* descriptor sets allocated from the pool
  call, at, \* the running call, and its next step
  calls     \* how many were made

vars == <<owned, local, lost, sets, call, at, calls>>

Idle == call = NoCall
Current == Steps[call][at]
Running == ~Idle /\ at <= Len(Steps[call])
Due == Running /\ Current.unless \cap owned = {}

(* A command buffer goes with its pool *)
WithPool(objects) ==
  IF CommandPool \in objects THEN {o \in lost : o[2] = "commands"} ELSE {}

VulkanInit ==
  /\ owned = {} /\ local = {} /\ lost = {}
  /\ sets = 0 /\ call = NoCall /\ at = 1 /\ calls = 0

Begin(c) ==
  /\ Idle /\ calls < MaxCalls
  /\ IF c = "create" THEN owned = {} ELSE Device \in owned
  /\ call' = c /\ at' = 1 /\ calls' = calls + 1
  /\ UNCHANGED <<owned, local, lost, sets>>

Advance == at' = at + 1 /\ UNCHANGED <<call, calls>>

PassOver == Running /\ ~Due /\ Advance /\ UNCHANGED <<owned, local, lost, sets>>

Succeed ==
  /\ Due /\ Current.op \in {"make", "attempt"}
  /\ local' = local \cup Current.objects
  /\ Advance /\ UNCHANGED <<owned, lost, sets>>

Store ==
  /\ Due /\ Current.op = "keep"
  /\ owned' = owned \cup Current.objects
  /\ local' = local \ Current.objects
  /\ Advance /\ UNCHANGED <<lost, sets>>

DestroyObjects ==
  /\ Due /\ Current.op = "drop"
  /\ owned' = owned \ Current.objects
  /\ local' = local \ Current.objects
  /\ lost' = lost \ WithPool(Current.objects)
  /\ sets' = IF DescriptorPool \in Current.objects THEN 0 ELSE sets
  /\ Advance

AllocateDescriptorSet ==
  /\ Due /\ Current.op = "set" /\ sets < MaxSets
  /\ sets' = sets + 1
  /\ Advance /\ UNCHANGED <<owned, local, lost>>

ResetDescriptorPool ==
  /\ Due /\ Current.op = "reset"
  /\ sets' = 0
  /\ Advance /\ UNCHANGED <<owned, local, lost>>

Fail ==
  /\ Due /\ Current.op \in {"make", "attempt", "set"}
  /\ owned' = owned \ Current.undo
  /\ lost' = lost \cup (local \ Current.undo)
  /\ local' = {}
  /\ call' = NoCall /\ at' = 1
  /\ UNCHANGED <<sets, calls>>

Complete ==
  /\ ~Idle /\ at > Len(Steps[call])
  /\ lost' = lost \cup local
  /\ local' = {}
  /\ call' = NoCall /\ at' = 1
  /\ UNCHANGED <<owned, sets, calls>>

VulkanNext ==
  \/ \E c \in DOMAIN Steps : Begin(c)
  \/ PassOver \/ Succeed \/ Store \/ DestroyObjects
  \/ AllocateDescriptorSet \/ ResetDescriptorPool
  \/ Fail \/ Complete

VulkanSpec == VulkanInit /\ [][VulkanNext]_vars

----------------------------------------------------------------------------
(* Properties *)

(* Whatever step of whatever call fails, the call leaves nothing behind    *)
(* that nobody destroys, but for two kinds of things: a command buffer the *)
(* pool still knows, and the pipes of a glslc that was never started       *)
(* (each error path of vulkan_*.cpp frees what came before it).  Nor is a  *)
(* handle overwritten while its object exists: what a call makes, neither  *)
(* it nor the device state holds.                                          *)
NothingLost ==
  /\ \A o \in lost : o[2] = "commands" \/ o \in Pipes
  /\ Due /\ Current.op = "make" => Current.objects \cap (owned \cup local) = {}

(* What is made on the device or the instance is gone when they are        *)
(* destroyed, by the destructor or by a creation that fails, as            *)
(* vkDestroyDevice and vkDestroyInstance require; and once the destructor  *)
(* has run, nothing is left (~DeviceState, vulkan_resources.cpp:881).      *)
TeardownInOrder ==
  LET alive == (owned \cup local \cup lost) \ Pipes IN
  /\ Instance \notin alive => alive = {}
  /\ Device \notin alive => alive \subseteq {Instance}
  /\ Idle /\ Device \notin owned => owned = {}

(* Between calls a record is complete or absent, and a cached pipeline has *)
(* the layout, set layout and modules it was made from.                    *)
Records ==
  {Raw("a"), ComputePipeline("node"), ComputePipeline("ring"), PlanRasterCache, UserModules,
   PlanIndirectCache} \cup {Image(f) : f \in {"target", "source", "depth"}}
MadeFrom ==
  {<<<<"user", "pipeline">>, UserModules \cup PlanRasterCache>>,
   <<<<"builtin", "pipeline">>, PlanRasterCache>>,
   <<<<"raster", "pipeline">>, Part("raster", {"set layout", "layout", "vertex", "fragment"})>>,
   <<<<"sample", "checked">>, Part("sample", {"set layout", "layout", "module"})>>,
   <<<<"storage", "pipeline">>, Part("storage", {"set layout", "layout", "module"})>>}
RecordsWhole ==
  Idle => /\ \A r \in Records : r \cap owned \in {{}, r}
          /\ \A m \in MadeFrom : m[1] \in owned => m[2] \subseteq owned

(* ensure_descriptor_pool (vulkan_resources.cpp:780): "the pool is reset   *)
(* before each use rather than grown", so a set can always be allocated.   *)
SetIsLeft == Due /\ Current.op = "set" => sets < MaxSets
=============================================================================
