----------------------------- MODULE VulkanCalls -----------------------------
(***************************************************************************)
(* The calls of the Vulkan adapter that make and destroy device objects    *)
(* (src/src/backends/vulkan/vulkan_resources.cpp, vulkan_encoding.cpp), as *)
(* sequences of steps.  What the adapter does about an error is in the     *)
(* steps: a step that fails destroys the objects of its "undo" and ends    *)
(* the call, whatever else the call had made stays where it was.           *)
(*                                                                         *)
(* An object is a pair <<owner, part>>.  What a call records, copies or    *)
(* reports is left out.                                                    *)
(***************************************************************************)
EXTENDS Naturals, Sequences, FiniteSets

----------------------------------------------------------------------------
(* Steps.  unless: the step is passed over while one of these is reachable *)
(* from the device state.                                                  *)

Step(op, objects) == <<[op |-> op, objects |-> objects, undo |-> {}, unless |-> {}]>>

Make(o) == Step("make", {o})           \* a driver call that makes o, and may fail
Attempt == Step("attempt", {})         \* a check or a driver call that may fail
Keep(objects) == Step("keep", objects) \* locals are stored in the device state
Drop(objects) == Step("drop", objects) \* destroyed, where they exist
AllocateSet == Step("set", {})         \* vkAllocateDescriptorSets
ResetSets == Step("reset", {})         \* vkResetDescriptorPool

Undoing(objects, steps) ==
  [i \in DOMAIN steps |-> [steps[i] EXCEPT !.undo = @ \cup objects]]
Unless(o, steps) ==
  [i \in DOMAIN steps |-> [steps[i] EXCEPT !.unless = @ \cup {o}]]
When(condition, steps) == IF condition THEN steps ELSE <<>>

(* A member made when it is first needed, and kept whatever follows *)
Member(o) == Unless(o, Make(o) \o Keep({o}))

----------------------------------------------------------------------------
(* Buffers *)

Raw(b) == {<<b, "buffer">>, <<b, "memory">>}
AllRaw(names) == UNION {Raw(b) : b \in names}

FindMemoryType == Attempt

(* The last attempt stands for bind and map *)
CreateRawBuffer(b) ==
  Undoing(Raw(b), Make(<<b, "buffer">>) \o FindMemoryType \o Make(<<b, "memory">>) \o Attempt)

DestroyRawBuffer(b) == Drop(Raw(b))

(* The buffer of an allocation; stale: it is of another generation, or too small *)
EnsureBuffer(a, stale) ==
  When(stale, Drop(Raw(a))) \o Unless(<<a, "buffer">>, CreateRawBuffer(a) \o Keep(Raw(a)))

RingBuffers == {"state", "fields", "inputs"}

(* Mutant: when the second buffer fails, the first is forgotten *)
CreateTaskRingBuffersForgetful ==
  CreateRawBuffer("state") \o CreateRawBuffer("fields")
    \o Undoing(AllRaw({"state", "fields"}), CreateRawBuffer("inputs"))

CreateTaskRingBuffers ==
  CreateRawBuffer("state")
    \o Undoing(Raw("state"), CreateRawBuffer("fields"))
    \o Undoing(AllRaw({"state", "fields"}), CreateRawBuffer("inputs"))
DestroyTaskRingBuffers == Drop(AllRaw(RingBuffers))

----------------------------------------------------------------------------
(* Command buffers, and the one way they are run *)

CommandPool == <<"device", "command pool">>
Commands(c) == <<c, "commands">>

EnsureCommandPool == Member(CommandPool)
AllocateCommandBuffer(c) == EnsureCommandPool \o Make(Commands(c))

SubmitAndWait(c) ==
  LET fence == <<c, "fence">> IN
  Undoing({fence, Commands(c)}, Make(fence) \o Attempt \o Attempt)
    \o Drop({fence, Commands(c)})

DispatchTaskGraph ==
  AllocateCommandBuffer("dispatch")
    \o Undoing({Commands("dispatch")}, Attempt \o Attempt)
    \o SubmitAndWait("dispatch")

DispatchTaskRingPublication ==
  AllocateCommandBuffer("publication")
    \o Undoing({Commands("publication")}, Attempt \o Attempt)
    \o SubmitAndWait("publication")

SubmitTimelineMarker ==
  AllocateCommandBuffer("marker")
    \o Undoing({Commands("marker")}, Attempt)
    \o SubmitAndWait("marker")

TimelineSemaphore == <<"device", "timeline">>
EnsureTimelineSemaphore == Member(TimelineSemaphore)

----------------------------------------------------------------------------
(* Facet images *)

Image(f) == {<<f, "image">>, <<f, "image memory">>, <<f, "view">>}

(* The image, its memory and its view; a failure destroys what there is *)
CreateImage(f) ==
  Undoing(Image(f), Make(<<f, "image">>) \o FindMemoryType \o Make(<<f, "image memory">>)
                      \o Attempt \o Make(<<f, "view">>))

(* Fills the image from a staging buffer, or from a buffer of the caller *)
UploadImage(f, staged) ==
  Undoing(Image(f) \cup Raw("staging"),
          When(staged, Attempt \o CreateRawBuffer("staging"))
            \o AllocateCommandBuffer("upload") \o SubmitAndWait("upload"))
    \o Drop(Raw("staging"))

(* The image is cached once it is filled; stale: its content epoch is old  *)
EnsureFacetImage(f, stale, staged) ==
  Attempt \o When(stale, Drop(Image(f)))
    \o Unless(<<f, "image">>, CreateImage(f) \o UploadImage(f, staged) \o Keep(Image(f)))

RetireStaleFacetImages(facets) == Drop(UNION {Image(f) : f \in facets})

(* Copies the allocation's buffer into the image of its new facet *)
TransformRepresentation(a, f) ==
  Attempt \o EnsureBuffer(a, FALSE) \o EnsureFacetImage(f, FALSE, FALSE)

(* A consumed allocation loses its buffer *)
ConsumeInput(a) == DestroyRawBuffer(a)

----------------------------------------------------------------------------
(* Samplers and descriptors *)

Sampler == <<"device", "sampler">>
EnsureSampler == Member(Sampler)

DescriptorPool == <<"device", "descriptor pool">>
EnsureDescriptorPool == Member(DescriptorPool)
=============================================================================
