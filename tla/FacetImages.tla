----------------------------- MODULE FacetImages -----------------------------
(***************************************************************************)
(* What the two GPU backends keep of one allocation beside its bytes: a    *)
(* linear buffer, and an image for each facet in use                       *)
(* (src/src/backends/vulkan/vulkan_resources.cpp,                          *)
(* src/src/backends/metal/metal_resources.mm and metal_representation.mm). *)
(* Each copy is brought up to date when it is next used, by comparing      *)
(* content epochs; a ConsumeInput leaves an image as the only copy.        *)
(*                                                                         *)
(* Contents are versions: every write makes a new one.  A write that fails *)
(* after its commands were submitted leaves the content undefined.  Calls  *)
(* are atomic: a device has one caller and waits for what it submits.      *)
(* Submissions use the allocation by compute tasks or by raster tasks, not *)
(* both: DeviceSubmit has the mixed ones.                                  *)
(***************************************************************************)
EXTENDS Integers, FiniteSets

CONSTANTS
  Backends,       \* the devices to consider
  None,           \* no copy
  MaxWrites,      \* bound on the versions made
  MaxEpoch        \* bound on the representation epochs

Kinds == {"Sample", "Attachment"}
Versions == 0..MaxWrites
Undefined == -1      \* not a version: no one promises anything
PrivateWrite == -2   \* what is left where the host wrote and could not
Gone == -3           \* no bytes: a consume has released them

Tokens == [kind : Kinds, epoch : 0..MaxEpoch]
Copies == [value : Versions \cup {Undefined, PrivateWrite},
           epoch : 0..MaxWrites + 1,
           storage : {"Shared", "Private"}]

ASSUME ImagesAssumption ==
  /\ MaxWrites \in Nat
  /\ MaxEpoch \in Nat
  /\ None \notin Copies

VARIABLES
  backend,        \* which device runs; never changes
  epoch,          \* Allocation::representation_epoch
  bytes,          \* Allocation::bytes, a version or Gone
  contentEpoch,   \* Allocation::content_epoch
  tokens,         \* the facets acquired and not retired
  planned,        \* the facets some plan, assembled earlier, draws into
  mirror,         \* allocation_map, a copy or None
  images,         \* the facet cache, for each token a copy or None
  writes,         \* the number of versions made
  content,        \* the version the last write made, or Undefined
  sampled         \* what the last use read, and what it should have read

host == <<bytes, contentEpoch, writes, content>>
vars == <<backend, epoch, tokens, planned, mirror, images, sampled, host>>

Resolves(t) == t \in tokens /\ t.epoch = epoch

Init ==
  /\ backend \in Backends
  /\ epoch = 0 /\ contentEpoch = 1
  /\ bytes = 0 /\ content = 0 /\ writes = 0
  /\ tokens = {} /\ planned = {}
  /\ mirror = None /\ images = [t \in Tokens |-> None]
  /\ sampled = [got |-> Undefined, want |-> Undefined]

----------------------------------------------------------------------------
(* The copies *)

(* Mutant: a new version does not outdate the copies of the one before *)
MarkNothing == contentEpoch
MarkContentModified == contentEpoch + 1

CopyOfBytes(storage) ==
  [value |-> bytes, epoch |-> contentEpoch, storage |-> storage]

(* Always copied, and of one byte for an allocation that has none *)
VulkanBuffer ==
  IF bytes = Gone
    THEN [value |-> Undefined, epoch |-> 0, storage |-> "Shared"]
    ELSE CopyOfBytes("Shared")

(* None for an allocation without bytes; copied where the epochs differ *)
MetalBuffer ==
  CASE bytes = Gone -> None
    [] bytes # Gone /\ mirror # None /\ mirror.epoch = contentEpoch -> mirror
    [] OTHER -> CopyOfBytes("Shared")

Buffer == IF backend = "Metal" THEN MetalBuffer ELSE VulkanBuffer

(* What making an image can come to.  It may always fail, and does when    *)
(* the allocation has fewer bytes than the view.                           *)
Uploads(image) == IF bytes = Gone THEN {None} ELSE {None, image}

(* Mutant: an image is dropped, although there is nothing else, when the   *)
(* epochs differ                                                           *)
VulkanImageByEpoch(i) ==
  IF i # None /\ bytes # Gone /\ i.epoch = contentEpoch
    THEN {i}
    ELSE Uploads(CopyOfBytes("Private"))

(* A cached image is taken while the content is that of the image, or      *)
(* there are no bytes that could differ; else it is made again             *)
VulkanImage(i) ==
  IF i # None /\ (bytes = Gone \/ i.epoch = contentEpoch)
    THEN {i}
    ELSE Uploads(CopyOfBytes("Private"))

(* The host may write a Shared texture; a transform makes a Private one *)
UploadViewSubresources(i) ==
  [i EXCEPT !.epoch = contentEpoch,
            !.value = IF i.storage = "Shared" THEN bytes ELSE PrivateWrite]

(* A cached texture is kept, and the new bytes are written into it *)
MetalImage(i) ==
  CASE i = None -> Uploads(CopyOfBytes("Shared"))
    [] i # None /\ bytes # Gone /\ i.epoch # contentEpoch -> {UploadViewSubresources(i)}
    [] OTHER -> {i}

(* The images a use of the facet may get *)
EnsureImage(t) ==
  IF backend = "Metal" THEN MetalImage(images[t]) ELSE VulkanImage(images[t])

----------------------------------------------------------------------------
(* The host *)

(* Arena::copy_into, which reaches no byte of an allocation without any *)
CopyInto ==
  /\ bytes # Gone /\ writes < MaxWrites
  /\ writes' = writes + 1
  /\ bytes' = writes + 1
  /\ content' = writes + 1
  /\ contentEpoch' = MarkContentModified
  /\ UNCHANGED <<backend, epoch, tokens, planned, mirror, images, sampled>>

AcquireFacet(kind) ==
  /\ tokens' = tokens \cup {[kind |-> kind, epoch |-> epoch]}
  /\ tokens' # tokens
  /\ UNCHANGED <<backend, epoch, planned, mirror, images, sampled, host>>

(* Mutant: the bytes are not asked for *)
AssembleDrawUnchecked(t) ==
  /\ Resolves(t) /\ t.kind = "Attachment"
  /\ planned' = planned \cup {t}
  /\ UNCHANGED <<backend, epoch, tokens, mirror, images, sampled, host>>

(* The effect of a draw must lie within the bytes when its plan is made *)
AssembleDraw(t) ==
  /\ Resolves(t) /\ t.kind = "Attachment" /\ bytes # Gone
  /\ planned' = planned \cup {t}
  /\ UNCHANGED <<backend, epoch, tokens, mirror, images, sampled, host>>

----------------------------------------------------------------------------
(* Uses by a device *)

(* A draw that samples this allocation and writes another one *)
SampleFacet(t) ==
  /\ Resolves(t) /\ t.kind = "Sample"
  /\ \E image \in EnsureImage(t) :
       /\ images' = [images EXCEPT ![t] = image]
       /\ sampled' = IF image = None THEN sampled
                       ELSE [got |-> image.value, want |-> content]
  /\ UNCHANGED <<backend, epoch, tokens, planned, mirror, host>>

(* Commands that were submitted and then failed: the copy they wrote keeps *)
(* its content epoch                                                       *)
Spoilt(copy) == [copy EXCEPT !.value = Undefined]

Lost ==
  /\ content' = Undefined
  /\ UNCHANGED <<bytes, contentEpoch, writes>>

Stamped(copy) == [copy EXCEPT !.value = writes + 1, !.epoch = MarkContentModified]

(* What is written also reaches the bytes *)
WriteBack ==
  /\ writes' = writes + 1 /\ content' = writes + 1
  /\ bytes' = IF bytes = Gone THEN Gone ELSE writes + 1
  /\ contentEpoch' = MarkContentModified

(* A raster task, up to the commands, in them, or to their end.  (Metal    *)
(* writes the bytes without asking whether they are there: DrawHasBytes.)  *)
Raster(t, image) ==
  \/ images' = [images EXCEPT ![t] = image] /\ UNCHANGED host
  \/ image # None /\ images' = [images EXCEPT ![t] = Spoilt(image)] /\ Lost
  \/ image # None /\ images' = [images EXCEPT ![t] = Stamped(image)] /\ WriteBack

(* A draw of a plan into this allocation: the lifetime hold has seen that  *)
(* the facet still resolves                                                *)
DrawInto(t) ==
  /\ t \in planned /\ Resolves(t) /\ writes < MaxWrites
  /\ \E image \in EnsureImage(t) : Raster(t, image)
  /\ UNCHANGED <<backend, epoch, tokens, planned, mirror, sampled>>

(* A compute task that reads and writes the allocation through its buffer. *)
(* Vulkan runs it over an allocation without bytes, too; what it writes is *)
(* nowhere then.                                                           *)
Compute ==
  /\ writes < MaxWrites
  /\ \/ mirror' = Buffer /\ UNCHANGED <<sampled, host>>
     \/ /\ Buffer # None
        /\ mirror' = Spoilt(Buffer) /\ Lost
        /\ sampled' = [got |-> Buffer.value, want |-> IF bytes = Gone THEN Undefined ELSE content]
     \/ /\ Buffer # None /\ bytes # Gone
        /\ mirror' = Stamped(Buffer) /\ WriteBack
        /\ sampled' = [got |-> Buffer.value, want |-> content]
  /\ UNCHANGED <<backend, epoch, tokens, planned, images>>

----------------------------------------------------------------------------
(* Stage 5: a representation request of a submission *)

Referenced == \E t \in tokens : t.epoch = epoch

(* The image is copied on the device from the buffer, whatever that holds *)
VulkanTransform ==
  {None, [value |-> Buffer.value, epoch |-> contentEpoch, storage |-> "Private"]}

(* Refused when the bytes are gone; its record gets no content epoch *)
MetalTransform ==
  IF Buffer = None
    THEN {None}
    ELSE {None, [value |-> Buffer.value, epoch |-> 0, storage |-> "Private"]}

TransformedImages == IF backend = "Metal" THEN MetalTransform ELSE VulkanTransform

(* The images of tokens that no longer resolve are destroyed *)
RetireStaleImages(cache, held) == [t \in Tokens |-> IF t \in held THEN cache[t] ELSE None]

(* A consume needs that no token names the old epoch; the new epoch is     *)
(* published and the old tokens retired before the device does anything.   *)
(* When the transform, or another request after it, fails, nothing is      *)
(* reclaimed and the caller is not told the target facet.                  *)
CommitRepresentation(kind, consume) ==
  /\ epoch < MaxEpoch
  /\ ~(consume /\ Referenced)
  /\ epoch' = epoch + 1
  /\ LET target == [kind |-> kind, epoch |-> epoch + 1] IN
     /\ tokens' = {target}
     /\ \E image \in TransformedImages, later \in {"succeed", "fail"} :
          LET cache == [images EXCEPT ![target] = image]
              reclaim == image # None /\ later = "succeed"
          IN
          /\ bytes' = IF consume /\ image # None THEN Gone ELSE bytes
          /\ images' = IF reclaim THEN RetireStaleImages(cache, {target}) ELSE cache
          /\ mirror' = IF reclaim /\ bytes' = Gone THEN None ELSE Buffer
          /\ content' = IF bytes = Gone THEN Undefined ELSE content
  /\ UNCHANGED <<backend, contentEpoch, planned, writes, sampled>>

----------------------------------------------------------------------------

Next ==
  \/ CopyInto
  \/ \E kind \in Kinds : AcquireFacet(kind)
  \/ \E t \in tokens : AssembleDraw(t) \/ SampleFacet(t) \/ DrawInto(t)
  \/ Compute
  \/ \E kind \in Kinds, consume \in BOOLEAN : CommitRepresentation(kind, consume)

Spec == Init /\ [][Next]_vars

----------------------------------------------------------------------------

(* A use, through the buffer or through an image, reads what was last      *)
(* written, by whichever way: the epochs in vulkan_resources.cpp:483-490   *)
(* and metal_resources.mm:265 and 486 notice every write.                  *)
SampledFresh ==
  sampled.want # Undefined => sampled.got \in {sampled.want, PrivateWrite}

(* When the bytes have been consumed, the image of a facet that still      *)
(* resolves has the content: every check on the way to it asks the cache   *)
(* before the bytes (metal_resources.mm:473-480).                          *)
OnlyCopyKept ==
  bytes = Gone /\ content # Undefined =>
    \E t \in Tokens :
      /\ Resolves(t) /\ images[t] # None
      /\ images[t].value = content

(* A draw that was planned and is still admitted has bytes to be read back *)
(* into: Metal writes them without asking (metal_raster.mm:313-327).       *)
DrawHasBytes ==
  \A t \in planned : Resolves(t) => bytes # Gone

=============================================================================
