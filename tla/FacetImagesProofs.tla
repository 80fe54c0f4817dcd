-------------------------- MODULE FacetImagesProofs --------------------------
(***************************************************************************)
(* Proofs about FacetImages, for any bounds and any set of backends: no    *)
(* use of an allocation reads anything but what was last written, the      *)
(* image that a consume leaves as the only copy is kept, and a draw that   *)
(* is still admitted has bytes to be read back into.                       *)
(*                                                                         *)
(* The three hold together by CacheInv.  That the copies which carry the   *)
(* present content epoch have the content is not enough: once the bytes    *)
(* are gone the epochs are no longer compared, so then every image of the  *)
(* present representation must have it, and none may be left over there    *)
(* from an earlier one.                                                    *)
(***************************************************************************)
EXTENDS FacetImages, TLAPS

CacheTypeOK ==
  /\ epoch \in 0..MaxEpoch
  /\ bytes \in Versions \cup {Gone}
  /\ writes \in Versions
  /\ contentEpoch = writes + 1
  /\ content \in Versions \cup {Undefined}
  /\ tokens \subseteq Tokens
  /\ planned \subseteq Tokens
  /\ mirror \in Copies \cup {None}
  /\ images \in [Tokens -> Copies \cup {None}]

(* The bytes are never behind what the devices have.                       *)
BytesCurrent == bytes # Gone /\ content # Undefined => bytes = content

(* No linear buffer is of a content epoch to come, and one of the present  *)
(* epoch has the content.                                                  *)
MirrorTrue ==
  mirror # None =>
    /\ mirror.epoch <= contentEpoch
    /\ mirror.epoch = contentEpoch /\ content # Undefined => mirror.value = content

(* So has an image, where the host could write it.                         *)
ImageTrue(t) ==
  images[t] # None /\ images[t].epoch = contentEpoch /\ content # Undefined =>
    images[t].value \in {content, PrivateWrite}

(* No image is of a content epoch to come, nor waiting at a representation *)
(* that is not yet committed.                                              *)
ImageKnown(t) ==
  images[t] # None => images[t].epoch <= contentEpoch /\ t.epoch <= epoch

(* Without bytes, an image counts whatever its content epoch is.           *)
ImageStandsIn(t) ==
  bytes = Gone /\ content # Undefined /\ t.epoch = epoch /\ images[t] # None =>
    images[t].value = content

ImagesTrue == \A t \in Tokens : ImageTrue(t) /\ ImageKnown(t) /\ ImageStandsIn(t)

(* No plan names a representation to come, and none that was consumed.     *)
PlansBacked ==
  \A t \in planned : t.epoch <= epoch /\ (t.epoch = epoch => bytes # Gone)

CacheInv ==
  /\ CacheTypeOK
  /\ BytesCurrent
  /\ MirrorTrue
  /\ ImagesTrue
  /\ PlansBacked
  /\ OnlyCopyKept
  /\ SampledFresh

-----------------------------------------------------------------------------
(* The copies *)

LEMMA EpochsAreNumbers ==
  ASSUME CacheTypeOK
  PROVE  /\ writes \in Nat /\ contentEpoch \in 1..MaxWrites + 1 /\ epoch \in Nat
         /\ content \in Int /\ bytes \in Int
  BY ImagesAssumption DEF CacheTypeOK, Versions, Undefined, Gone

(* A new linear copy of the bytes, of either storage.                      *)
LEMMA CopiesOfBytes ==
  ASSUME CacheTypeOK, BytesCurrent, bytes # Gone, NEW storage \in {"Shared", "Private"}
  PROVE  /\ CopyOfBytes(storage) \in Copies
         /\ CopyOfBytes(storage) # None
         /\ CopyOfBytes(storage).epoch = contentEpoch
         /\ content # Undefined => CopyOfBytes(storage).value = content
<1>1. bytes \in Versions /\ contentEpoch \in 0..MaxWrites + 1
  BY EpochsAreNumbers DEF CacheTypeOK
<1>2. CopyOfBytes(storage) \in Copies
  BY <1>1 DEF Copies, CopyOfBytes
<1>3. CopyOfBytes(storage) # None
  BY <1>2, ImagesAssumption
<1> QED
  BY <1>2, <1>3 DEF CopyOfBytes, BytesCurrent

(* Whichever way a device makes or keeps its linear buffer, it has the     *)
(* content while there are bytes, and no present epoch when there are none.*)
BufferTrue ==
  /\ Buffer \in Copies \cup {None}
  /\ bytes # Gone => /\ Buffer # None
                     /\ Buffer.epoch = contentEpoch
                     /\ content # Undefined => Buffer.value = content
  /\ bytes = Gone /\ Buffer # None => Buffer.epoch = 0

LEMMA BuffersAreTrue ==
  ASSUME CacheTypeOK, BytesCurrent, MirrorTrue
  PROVE  BufferTrue
<1>1. CASE bytes = Gone
  <2> DEFINE void == [value |-> Undefined, epoch |-> 0, storage |-> "Shared"]
  <2>1. 0 \in 0..MaxWrites + 1
    BY ImagesAssumption
  <2>2. void \in Copies /\ void.epoch = 0
    BY <2>1 DEF Copies
  <2>3. VulkanBuffer = void /\ MetalBuffer = None
    BY <1>1 DEF VulkanBuffer, MetalBuffer
  <2> HIDE DEF void
  <2> QED
    BY <1>1, <2>2, <2>3 DEF Buffer, BufferTrue
<1>2. CASE bytes # Gone
  <2>1. VulkanBuffer = CopyOfBytes("Shared")
    BY <1>2 DEF VulkanBuffer
  <2>2. MetalBuffer \in {mirror, CopyOfBytes("Shared")} /\
        (MetalBuffer # CopyOfBytes("Shared") =>
           MetalBuffer = mirror /\ mirror # None /\ mirror.epoch = contentEpoch)
    BY <1>2 DEF MetalBuffer
  <2>3. mirror \in Copies \cup {None}
    BY DEF CacheTypeOK
  <2> QED
    BY <1>2, <2>1, <2>2, <2>3, CopiesOfBytes DEF Buffer, BufferTrue, MirrorTrue
<1> QED
  BY <1>1, <1>2

(* An image a use of the facet t may get: what is written into a cached    *)
(* texture, or uploaded, is the content; and without bytes the cached      *)
(* image, or none, is all there is.                                        *)
ImageUsable(t, image) ==
  /\ image \in Copies \cup {None}
  /\ image # None /\ image.epoch = contentEpoch /\ content # Undefined =>
       image.value \in {content, PrivateWrite}
  /\ bytes # Gone /\ image # None => image.epoch = contentEpoch
  /\ bytes = Gone => image = images[t]

LEMMA ImagesAreUsable ==
  ASSUME CacheTypeOK, BytesCurrent, NEW t \in Tokens, ImageTrue(t),
         NEW image \in EnsureImage(t)
  PROVE  ImageUsable(t, image)
<1>0. images[t] \in Copies \cup {None}
  BY DEF CacheTypeOK
<1>1. ASSUME image = images[t], image = None \/ bytes = Gone \/ image.epoch = contentEpoch
      PROVE  ImageUsable(t, image)
  BY <1>0, <1>1 DEF ImageUsable, ImageTrue
<1>2. ASSUME image = None, images[t] = None
      PROVE  ImageUsable(t, image)
  BY <1>0, <1>1, <1>2
<1>3. ASSUME bytes # Gone, image = None
      PROVE  ImageUsable(t, image)
  BY <1>3 DEF ImageUsable
<1>4. ASSUME bytes # Gone, NEW storage \in {"Shared", "Private"}, image = CopyOfBytes(storage)
      PROVE  ImageUsable(t, image)
  BY <1>4, CopiesOfBytes DEF ImageUsable
<1>5. ASSUME bytes # Gone, images[t] # None, image = UploadViewSubresources(images[t])
      PROVE  ImageUsable(t, image)
  <2>1. images[t] \in Copies
    BY <1>0, <1>5
  <2>2. bytes \in Versions /\ contentEpoch \in 0..MaxWrites + 1
    BY <1>5, EpochsAreNumbers DEF CacheTypeOK
  <2>3. /\ image.epoch = contentEpoch /\ image.value \in {bytes, PrivateWrite}
        /\ image \in Copies
    BY <1>5, <2>1, <2>2 DEF Copies, UploadViewSubresources
  <2> QED
    BY <1>5, <2>3 DEF ImageUsable, BytesCurrent
<1>6. CASE backend = "Metal"
  <2>1. image \in MetalImage(images[t])
    BY <1>6 DEF EnsureImage
  <2> QED
    BY <1>1, <1>2, <1>3, <1>4, <1>5, <2>1 DEF MetalImage, Uploads
<1>7. CASE backend # "Metal"
  <2>1. image \in VulkanImage(images[t])
    BY <1>7 DEF EnsureImage
  <2> QED
    BY <1>1, <1>2, <1>3, <1>4, <2>1 DEF VulkanImage, Uploads
<1> QED
  BY <1>6, <1>7

-----------------------------------------------------------------------------
(* The invariant, call by call *)

LEMMA CacheInitially == Init => CacheInv
<1> SUFFICES ASSUME Init PROVE CacheInv
  OBVIOUS
<1>1. bytes = 0 /\ bytes # Gone /\ \A t \in Tokens : images[t] = None
  BY DEF Init, Gone
<1>2. CacheTypeOK
  BY ImagesAssumption DEF Init, CacheTypeOK, Versions
<1> QED
  BY <1>1, <1>2
     DEF Init, CacheInv, BytesCurrent, MirrorTrue, ImagesTrue, ImageTrue, ImageKnown,
         ImageStandsIn, PlansBacked, OnlyCopyKept, SampledFresh

(* A write outdates every copy that was made before it.                    *)
LEMMA OldMirror ==
  ASSUME CacheTypeOK, MirrorTrue, mirror' = mirror, contentEpoch < contentEpoch',
         contentEpoch' \in Nat
  PROVE  MirrorTrue'
<1>1. mirror # None => mirror.epoch \in Nat
  BY DEF CacheTypeOK, Copies
<1> QED
  BY <1>1, EpochsAreNumbers DEF MirrorTrue

LEMMA OldImage ==
  ASSUME CacheTypeOK, NEW t \in Tokens, ImageKnown(t), images'[t] = images[t],
         contentEpoch < contentEpoch', contentEpoch' \in Nat,
         epoch' = epoch, bytes' # Gone
  PROVE  ImageTrue(t)' /\ ImageKnown(t)' /\ ImageStandsIn(t)'
<1>1. images[t] # None => images[t].epoch \in Nat
  BY DEF CacheTypeOK, Copies
<1> QED
  BY <1>1, EpochsAreNumbers DEF ImageTrue, ImageKnown, ImageStandsIn

LEMMA CopyIntoKeeps ==
  ASSUME CacheInv, CopyInto
  PROVE  CacheInv'
<1>0. CacheTypeOK
  BY DEF CacheInv
<1>1. /\ writes' = writes + 1 /\ bytes' = writes + 1 /\ content' = writes + 1
      /\ contentEpoch' = contentEpoch + 1 /\ writes < MaxWrites /\ bytes # Gone
      /\ UNCHANGED <<backend, epoch, tokens, planned, mirror, images, sampled>>
  BY DEF CopyInto, MarkContentModified
<1>2. writes' \in Versions /\ contentEpoch' = writes' + 1 /\ bytes' # Gone
      /\ contentEpoch < contentEpoch' /\ contentEpoch' \in Nat
  BY <1>0, <1>1, EpochsAreNumbers, ImagesAssumption DEF CacheTypeOK, Versions, Gone
<1>3. CacheTypeOK'
  BY <1>0, <1>1, <1>2 DEF CacheTypeOK
<1>4. BytesCurrent' /\ OnlyCopyKept' /\ SampledFresh'
  BY <1>1, <1>2 DEF CacheInv, BytesCurrent, OnlyCopyKept, SampledFresh
<1>5. MirrorTrue'
  BY <1>0, <1>1, <1>2, OldMirror DEF CacheInv
<1>6. ImagesTrue'
  BY <1>0, <1>1, <1>2, OldImage DEF CacheInv, ImagesTrue
<1>7. PlansBacked'
  BY <1>1, <1>2 DEF CacheInv, PlansBacked
<1> QED
  BY <1>3, <1>4, <1>5, <1>6, <1>7 DEF CacheInv

LEMMA AcquireFacetKeeps ==
  ASSUME CacheInv, NEW kind \in Kinds, AcquireFacet(kind)
  PROVE  CacheInv'
<1>1. /\ tokens' = tokens \cup {[kind |-> kind, epoch |-> epoch]}
      /\ UNCHANGED <<backend, epoch, planned, mirror, images, sampled, host>>
  BY DEF AcquireFacet
<1>2. UNCHANGED <<bytes, contentEpoch, writes, content>>
  BY <1>1 DEF host
<1>3. tokens' \subseteq Tokens
  BY <1>1 DEF CacheInv, CacheTypeOK, Tokens
<1>4. OnlyCopyKept'
  BY <1>1, <1>2 DEF CacheInv, OnlyCopyKept, Resolves
<1> QED
  BY <1>1, <1>2, <1>3, <1>4
     DEF CacheInv, CacheTypeOK, BytesCurrent, MirrorTrue, ImagesTrue, ImageTrue, ImageKnown,
         ImageStandsIn, PlansBacked, SampledFresh

LEMMA AssembleDrawKeeps ==
  ASSUME CacheInv, NEW t \in tokens, AssembleDraw(t)
  PROVE  CacheInv'
<1>1. /\ t.epoch = epoch /\ bytes # Gone /\ planned' = planned \cup {t}
      /\ UNCHANGED <<backend, epoch, tokens, mirror, images, sampled, host>>
  BY DEF AssembleDraw, Resolves
<1>2. UNCHANGED <<bytes, contentEpoch, writes, content>>
  BY <1>1 DEF host
<1>3. t \in Tokens /\ epoch \in Nat
  BY EpochsAreNumbers DEF CacheInv, CacheTypeOK
<1>4. PlansBacked' /\ planned' \subseteq Tokens
  BY <1>1, <1>2, <1>3 DEF CacheInv, CacheTypeOK, PlansBacked
<1> QED
  BY <1>1, <1>2, <1>4
     DEF CacheInv, CacheTypeOK, BytesCurrent, MirrorTrue, ImagesTrue, ImageTrue, ImageKnown,
         ImageStandsIn, OnlyCopyKept, Resolves, SampledFresh

(* A use that only reads: the image it got stays cached.  Without bytes it *)
(* is the one that was cached.                                             *)
LEMMA CachedImageKeeps ==
  ASSUME CacheInv, NEW t \in Tokens, t.epoch = epoch, NEW image, ImageUsable(t, image),
         images' = [images EXCEPT ![t] = image],
         UNCHANGED <<epoch, tokens, host>>
  PROVE  ImagesTrue' /\ OnlyCopyKept' /\ images' \in [Tokens -> Copies \cup {None}]
<1>0. /\ CacheTypeOK /\ ImagesTrue /\ OnlyCopyKept
      /\ UNCHANGED <<bytes, contentEpoch, writes, content>>
  BY DEF CacheInv, host
<1>1. /\ images' \in [Tokens -> Copies \cup {None}]
      /\ images'[t] = image
      /\ \A u \in Tokens : u # t => images'[u] = images[u]
  BY <1>0 DEF CacheTypeOK, ImageUsable
<1>2. bytes = Gone => images' = images
  BY <1>0, <1>1 DEF CacheTypeOK, ImageUsable
<1>3. ImageTrue(t)' /\ ImageKnown(t)' /\ ImageStandsIn(t)'
  BY <1>0, <1>1, <1>2, EpochsAreNumbers
     DEF ImageUsable, ImageTrue, ImageKnown, ImageStandsIn, ImagesTrue
<1>4. \A u \in Tokens : u # t => ImageTrue(u)' /\ ImageKnown(u)' /\ ImageStandsIn(u)'
  BY <1>0, <1>1 DEF ImagesTrue, ImageTrue, ImageKnown, ImageStandsIn
<1>5. OnlyCopyKept'
  BY <1>0, <1>2 DEF OnlyCopyKept, Resolves
<1> QED
  BY <1>1, <1>3, <1>4, <1>5 DEF ImagesTrue

LEMMA SampleFacetKeeps ==
  ASSUME CacheInv, NEW t \in tokens, SampleFacet(t)
  PROVE  CacheInv'
<1>1. PICK image \in EnsureImage(t) :
        /\ images' = [images EXCEPT ![t] = image]
        /\ sampled' = IF image = None THEN sampled
                        ELSE [got |-> image.value, want |-> content]
  BY DEF SampleFacet
<1>2. /\ t.epoch = epoch /\ t \in Tokens
      /\ UNCHANGED <<backend, epoch, tokens, planned, mirror, host>>
  BY DEF SampleFacet, Resolves, CacheInv, CacheTypeOK
<1>3. ImageUsable(t, image) /\ ImageStandsIn(t)
  BY <1>2, ImagesAreUsable DEF CacheInv, ImagesTrue
<1>4. ImagesTrue' /\ OnlyCopyKept' /\ images' \in [Tokens -> Copies \cup {None}]
  BY <1>1, <1>2, <1>3, CachedImageKeeps
<1>5. SampledFresh'
  <2>1. image # None /\ content # Undefined => image.value \in {content, PrivateWrite}
    BY <1>2, <1>3 DEF ImageUsable, ImageStandsIn
  <2> QED
    BY <1>1, <2>1 DEF CacheInv, SampledFresh
<1> QED
  BY <1>2, <1>4, <1>5
     DEF CacheInv, CacheTypeOK, BytesCurrent, MirrorTrue, PlansBacked, host

(* A copy that a failed use has spoilt counts for nothing, as the content  *)
(* is undefined with it.                                                   *)
LEMMA SpoiltCopy ==
  ASSUME NEW copy \in Copies
  PROVE  Spoilt(copy) \in Copies /\ Spoilt(copy) # None /\ Spoilt(copy).epoch = copy.epoch
<1>1. Spoilt(copy) \in Copies /\ Spoilt(copy).epoch = copy.epoch
  BY DEF Spoilt, Copies
<1> QED
  BY <1>1, ImagesAssumption

(* A use that succeeds leaves the new version, of the new content epoch,   *)
(* in the copy that it wrote and in the bytes.                             *)
LEMMA StampedCopy ==
  ASSUME CacheTypeOK, writes < MaxWrites, bytes # Gone, NEW copy \in Copies, WriteBack
  PROVE  /\ Stamped(copy) \in Copies /\ Stamped(copy) # None
         /\ Stamped(copy).epoch = contentEpoch' /\ Stamped(copy).value = content'
         /\ contentEpoch < contentEpoch' /\ contentEpoch' \in Nat
         /\ writes' \in Versions /\ contentEpoch' = writes' + 1
         /\ bytes' = writes' /\ content' = writes' /\ bytes' # Gone
<1>1. /\ writes' = writes + 1 /\ content' = writes + 1 /\ bytes' = writes + 1
      /\ contentEpoch' = contentEpoch + 1
  BY DEF WriteBack, MarkContentModified
<1>2. writes + 1 \in Versions /\ contentEpoch + 1 \in 0..MaxWrites + 1 /\ writes + 1 # Gone
      /\ contentEpoch < contentEpoch + 1 /\ contentEpoch + 1 \in Nat
      /\ contentEpoch + 1 = writes + 2
  BY EpochsAreNumbers, ImagesAssumption DEF CacheTypeOK, Versions, Gone
<1>3. Stamped(copy) \in Copies
  BY <1>2 DEF Stamped, Copies, MarkContentModified
<1>4. Stamped(copy).epoch = contentEpoch + 1 /\ Stamped(copy).value = writes + 1
  BY DEF Stamped, Copies, MarkContentModified
<1>5. (writes + 1) + 1 = writes + 2
  BY EpochsAreNumbers
<1> QED
  BY <1>1, <1>2, <1>3, <1>4, <1>5, ImagesAssumption

(* A content that is lost is promised by no one.                           *)
LEMMA LostContent ==
  ASSUME Lost
  PROVE  /\ content' = Undefined
         /\ UNCHANGED <<bytes, contentEpoch, writes>>
         /\ BytesCurrent' /\ OnlyCopyKept'
  BY DEF Lost, BytesCurrent, OnlyCopyKept

LEMMA DrawIntoKeeps ==
  ASSUME CacheInv, NEW t \in tokens, DrawInto(t)
  PROVE  CacheInv'
<1>0. CacheTypeOK /\ BytesCurrent /\ MirrorTrue /\ ImagesTrue /\ PlansBacked /\ SampledFresh
  BY DEF CacheInv
<1>1. PICK image \in EnsureImage(t) : Raster(t, image)
  BY DEF DrawInto
<1>2. /\ t \in planned /\ t.epoch = epoch /\ t \in Tokens /\ writes < MaxWrites
      /\ UNCHANGED <<backend, epoch, tokens, planned, mirror, sampled>>
  BY <1>0 DEF DrawInto, Resolves, CacheTypeOK
<1>3. ImageUsable(t, image) /\ bytes # Gone /\ SampledFresh'
  BY <1>0, <1>2, ImagesAreUsable DEF ImagesTrue, PlansBacked, SampledFresh
<1>4. CASE images' = [images EXCEPT ![t] = image] /\ UNCHANGED host
  <2>1. ImagesTrue' /\ OnlyCopyKept' /\ images' \in [Tokens -> Copies \cup {None}]
    BY <1>2, <1>3, <1>4, CachedImageKeeps
  <2> QED
    BY <1>0, <1>2, <1>3, <1>4, <2>1
       DEF CacheInv, CacheTypeOK, BytesCurrent, MirrorTrue, PlansBacked, host
<1>5. CASE image # None /\ images' = [images EXCEPT ![t] = Spoilt(image)] /\ Lost
  <2>1. image \in Copies /\ image.epoch = contentEpoch
    BY <1>3, <1>5 DEF ImageUsable
  <2>2. /\ images' \in [Tokens -> Copies \cup {None}]
        /\ images'[t] = Spoilt(image)
        /\ \A u \in Tokens : u # t => images'[u] = images[u]
    BY <1>0, <1>2, <1>5, <2>1, SpoiltCopy DEF CacheTypeOK
  <2>3. CacheTypeOK' /\ MirrorTrue' /\ PlansBacked'
    BY <1>0, <1>2, <1>5, <2>2, LostContent DEF CacheTypeOK, MirrorTrue, PlansBacked
  <2>4. ASSUME NEW u \in Tokens PROVE ImageTrue(u)' /\ ImageKnown(u)' /\ ImageStandsIn(u)'
    <3>1. ImageTrue(u)' /\ ImageStandsIn(u)'
      BY <1>5, LostContent DEF ImageTrue, ImageStandsIn
    <3>2. CASE u = t
      BY <1>0, <1>2, <1>5, <2>1, <2>2, <3>1, <3>2, SpoiltCopy, LostContent, EpochsAreNumbers
         DEF ImageKnown
    <3>3. CASE u # t
      BY <1>0, <1>2, <1>5, <2>2, <3>1, <3>3, LostContent DEF ImagesTrue, ImageKnown
    <3> QED
      BY <3>1, <3>2, <3>3
  <2> QED
    BY <1>3, <1>5, <2>3, <2>4, LostContent DEF CacheInv, ImagesTrue
<1>6. CASE image # None /\ images' = [images EXCEPT ![t] = Stamped(image)] /\ WriteBack
  <2>1. image \in Copies
    BY <1>3, <1>6 DEF ImageUsable
  <2>2. /\ Stamped(image) \in Copies /\ Stamped(image) # None
        /\ Stamped(image).epoch = contentEpoch' /\ Stamped(image).value = content'
        /\ contentEpoch < contentEpoch' /\ contentEpoch' \in Nat
        /\ writes' \in Versions /\ contentEpoch' = writes' + 1
        /\ bytes' = writes' /\ content' = writes' /\ bytes' # Gone
    BY <1>0, <1>2, <1>3, <1>6, <2>1, StampedCopy
  <2>3. /\ images' \in [Tokens -> Copies \cup {None}]
        /\ images'[t] = Stamped(image)
        /\ \A u \in Tokens : u # t => images'[u] = images[u]
    BY <1>0, <1>2, <1>6, <2>2 DEF CacheTypeOK
  <2>4. CacheTypeOK' /\ BytesCurrent' /\ OnlyCopyKept' /\ PlansBacked'
    BY <1>0, <1>2, <2>2, <2>3 DEF CacheTypeOK, BytesCurrent, OnlyCopyKept, PlansBacked
  <2>5. MirrorTrue'
    BY <1>0, <1>2, <2>2, OldMirror
  <2>6. ASSUME NEW u \in Tokens PROVE ImageTrue(u)' /\ ImageKnown(u)' /\ ImageStandsIn(u)'
    <3>1. CASE u = t
      BY <1>0, <1>2, <2>2, <2>3, <3>1, EpochsAreNumbers DEF ImageTrue, ImageKnown, ImageStandsIn
    <3>2. CASE u # t
      BY <1>0, <1>2, <2>2, <2>3, <3>2, OldImage DEF ImagesTrue
    <3> QED
      BY <3>1, <3>2
  <2> QED
    BY <1>3, <2>4, <2>5, <2>6 DEF CacheInv, ImagesTrue
<1> QED
  BY <1>1, <1>4, <1>5, <1>6 DEF Raster

LEMMA ComputeKeeps ==
  ASSUME CacheInv, Compute
  PROVE  CacheInv'
<1>0. CacheTypeOK /\ BytesCurrent /\ MirrorTrue /\ ImagesTrue /\ PlansBacked
      /\ OnlyCopyKept /\ SampledFresh
  BY DEF CacheInv
<1>1. writes < MaxWrites /\ UNCHANGED <<backend, epoch, tokens, planned, images>>
  BY DEF Compute
<1>2. /\ Buffer \in Copies \cup {None}
      /\ bytes # Gone => /\ Buffer # None
                         /\ Buffer.epoch = contentEpoch
                         /\ content # Undefined => Buffer.value = content
      /\ bytes = Gone /\ Buffer # None => Buffer.epoch = 0
  BY <1>0, BuffersAreTrue DEF BufferTrue
<1> DEFINE b == Buffer
<1> HIDE DEF b
<1>3. Buffer = b
  BY DEF b
<1>4. CASE mirror' = b /\ UNCHANGED <<sampled, host>>
  <2>1. UNCHANGED <<bytes, contentEpoch, writes, content>>
    BY <1>4 DEF host
  <2>2. CacheTypeOK' /\ MirrorTrue'
    BY <1>0, <1>1, <1>2, <1>3, <1>4, <2>1, EpochsAreNumbers DEF CacheTypeOK, MirrorTrue
  <2> QED
    BY <1>0, <1>1, <1>4, <2>1, <2>2
       DEF CacheInv, BytesCurrent, ImagesTrue, ImageTrue, ImageKnown, ImageStandsIn,
           PlansBacked, OnlyCopyKept, Resolves, SampledFresh
<1>5. CASE /\ b # None
           /\ mirror' = Spoilt(b) /\ Lost
           /\ sampled' = [got |-> b.value, want |-> IF bytes = Gone THEN Undefined ELSE content]
  <2>1. b \in Copies /\ b.epoch \in {0, contentEpoch}
    BY <1>2, <1>3, <1>5
  <2>2. CacheTypeOK' /\ MirrorTrue'
    BY <1>0, <1>1, <1>5, <2>1, SpoiltCopy, LostContent, EpochsAreNumbers
       DEF CacheTypeOK, MirrorTrue
  <2>3. SampledFresh'
    BY <1>2, <1>3, <1>5 DEF SampledFresh
  <2>4. ImagesTrue' /\ PlansBacked'
    BY <1>0, <1>1, <1>5, LostContent
       DEF ImagesTrue, ImageTrue, ImageKnown, ImageStandsIn, PlansBacked
  <2> QED
    BY <1>5, <2>2, <2>3, <2>4, LostContent DEF CacheInv
<1>6. CASE /\ b # None /\ bytes # Gone
           /\ mirror' = Stamped(b) /\ WriteBack
           /\ sampled' = [got |-> b.value, want |-> content]
  <2>1. /\ Stamped(b) \in Copies /\ Stamped(b) # None
        /\ Stamped(b).epoch = contentEpoch' /\ Stamped(b).value = content'
        /\ contentEpoch < contentEpoch' /\ contentEpoch' \in Nat
        /\ writes' \in Versions /\ contentEpoch' = writes' + 1
        /\ bytes' = writes' /\ content' = writes' /\ bytes' # Gone
    BY <1>0, <1>1, <1>2, <1>3, <1>6, StampedCopy
  <2>2. CacheTypeOK' /\ BytesCurrent' /\ OnlyCopyKept' /\ PlansBacked' /\ MirrorTrue'
    BY <1>0, <1>1, <1>6, <2>1
       DEF CacheTypeOK, BytesCurrent, OnlyCopyKept, PlansBacked, MirrorTrue
  <2>3. SampledFresh'
    BY <1>2, <1>3, <1>6 DEF SampledFresh
  <2>4. ImagesTrue'
    BY <1>0, <1>1, <2>1, OldImage DEF ImagesTrue
  <2> QED
    BY <2>2, <2>3, <2>4 DEF CacheInv
<1> QED
  BY <1>3, <1>4, <1>5, <1>6 DEF Compute

(* What a transform can leave at the target facet.  Metal's has no content *)
(* epoch; its value is that of the buffer either way.                      *)
LEMMA TransformsAreTrue ==
  ASSUME CacheTypeOK, BytesCurrent, MirrorTrue, NEW image \in TransformedImages
  PROVE  /\ image \in Copies \cup {None}
         /\ image # None => /\ image.epoch \in {0, contentEpoch}
                            /\ bytes # Gone /\ content # Undefined => image.value = content
<1>1. /\ Buffer \in Copies \cup {None}
      /\ bytes # Gone /\ content # Undefined => Buffer # None /\ Buffer.value = content
  BY BuffersAreTrue DEF BufferTrue
<1> DEFINE b == Buffer
           made(e) == [value |-> b.value, epoch |-> e, storage |-> "Private"]
<1>2. 0 \in 0..MaxWrites + 1 /\ contentEpoch \in 0..MaxWrites + 1
  BY EpochsAreNumbers, ImagesAssumption
<1>3. CASE b # None /\ image \in {None, made(0), made(contentEpoch)}
  <2> HIDE DEF b
  <2>1. b \in Copies
    BY <1>1, <1>3 DEF b
  <2>2. made(0) \in Copies /\ made(contentEpoch) \in Copies
    BY <1>2, <2>1 DEF Copies
  <2> QED
    BY <1>1, <1>3, <2>2, ImagesAssumption DEF b
<1>4. CASE image = None
  BY <1>4
<1>5. backend # "Metal" => b # None
  <2>1. ASSUME bytes = Gone
        PROVE  [value |-> Undefined, epoch |-> 0, storage |-> "Shared"] \in Copies
    BY <1>2 DEF Copies
  <2>2. VulkanBuffer # None
    BY <2>1, CopiesOfBytes, ImagesAssumption DEF VulkanBuffer
  <2> QED
    BY <2>2 DEF Buffer
<1>6. /\ backend = "Metal" => image = None \/ (b # None /\ image = made(0))
      /\ backend # "Metal" => image \in {None, made(contentEpoch)}
  BY DEF TransformedImages, MetalTransform, VulkanTransform
<1>7. image = None \/ (b # None /\ image \in {None, made(0), made(contentEpoch)})
  <2> HIDE DEF b, made
  <2> QED
    BY <1>5, <1>6
<1> QED
  BY <1>3, <1>4, <1>7

LEMMA CommitKeeps ==
  ASSUME CacheInv, NEW kind \in Kinds, NEW consume \in BOOLEAN,
         CommitRepresentation(kind, consume)
  PROVE  CacheInv'
<1>0. CacheTypeOK /\ BytesCurrent /\ MirrorTrue /\ ImagesTrue /\ PlansBacked /\ SampledFresh
  BY DEF CacheInv
<1> DEFINE target == [kind |-> kind, epoch |-> epoch + 1]
<1>1. /\ epoch < MaxEpoch /\ epoch' = epoch + 1 /\ tokens' = {target}
      /\ UNCHANGED <<backend, contentEpoch, planned, writes, sampled>>
  BY DEF CommitRepresentation
<1>2. PICK image \in TransformedImages, later \in {"succeed", "fail"} :
        /\ bytes' = IF consume /\ image # None THEN Gone ELSE bytes
        /\ images' = IF image # None /\ later = "succeed"
                       THEN RetireStaleImages([images EXCEPT ![target] = image], {target})
                       ELSE [images EXCEPT ![target] = image]
        /\ mirror' = IF image # None /\ later = "succeed" /\ bytes' = Gone THEN None ELSE Buffer
        /\ content' = IF bytes = Gone THEN Undefined ELSE content
  BY DEF CommitRepresentation
<1>3. target \in Tokens /\ target.epoch = epoch'
  BY <1>0, <1>1, EpochsAreNumbers, ImagesAssumption DEF Tokens, CacheTypeOK
<1> HIDE DEF target
<1>4. /\ image \in Copies \cup {None}
      /\ image # None => /\ image.epoch \in {0, contentEpoch}
                         /\ bytes # Gone /\ content # Undefined => image.value = content
  BY <1>0, TransformsAreTrue
<1>5. /\ images' \in [Tokens -> Copies \cup {None}]
      /\ images'[target] = image
      /\ \A u \in Tokens : u # target => images'[u] \in {images[u], None}
  BY <1>0, <1>2, <1>3, <1>4 DEF RetireStaleImages, CacheTypeOK
<1>6. /\ mirror' \in Copies \cup {None}
      /\ mirror' # None => /\ mirror'.epoch \in {0, contentEpoch}
                           /\ content' # Undefined => mirror'.value = content'
  BY <1>0, <1>2, BuffersAreTrue DEF BufferTrue
<1>7. CacheTypeOK'
  <2>1. epoch' \in 0..MaxEpoch
    BY <1>0, <1>1, EpochsAreNumbers, ImagesAssumption
  <2>2. bytes' \in Versions \cup {Gone} /\ content' \in Versions \cup {Undefined}
    BY <1>0, <1>2 DEF CacheTypeOK
  <2>3. tokens' \subseteq Tokens
    BY <1>1, <1>3
  <2> QED
    BY <1>0, <1>1, <1>5, <1>6, <2>1, <2>2, <2>3 DEF CacheTypeOK
<1>8. BytesCurrent' /\ MirrorTrue' /\ SampledFresh'
  BY <1>0, <1>1, <1>2, <1>6, EpochsAreNumbers DEF BytesCurrent, MirrorTrue, SampledFresh
<1>9. ImagesTrue'
  <2>1. ASSUME NEW u \in Tokens PROVE ImageTrue(u)' /\ ImageKnown(u)' /\ ImageStandsIn(u)'
    <3>1. CASE u = target
      <4>1. images'[u] = image /\ contentEpoch' = contentEpoch
        BY <1>1, <1>5, <3>1
      <4>2. contentEpoch \in Nat /\ u.epoch <= epoch'
        BY <1>0, <1>1, <1>3, <3>1, EpochsAreNumbers
      <4>3. image # None => image.epoch <= contentEpoch
        BY <1>4, <4>2
      <4>4. image # None /\ content' # Undefined => image.value = content'
        BY <1>2, <1>4
      <4> QED
        BY <4>1, <4>2, <4>3, <4>4 DEF ImageTrue, ImageKnown, ImageStandsIn
    <3>2. CASE u # target
      <4>1. ImageTrue(u) /\ ImageKnown(u) /\ images'[u] \in {images[u], None}
        BY <1>0, <1>5, <3>2 DEF ImagesTrue
      <4>2. u.epoch \in Nat
        BY DEF Tokens
      <4>3. images'[u] # None => u.epoch # epoch' /\ u.epoch <= epoch'
        BY <1>1, <4>1, <4>2, EpochsAreNumbers, <1>0 DEF ImageKnown
      <4> QED
        BY <1>1, <1>2, <4>1, <4>3 DEF ImageTrue, ImageKnown, ImageStandsIn
    <3> QED
      BY <3>1, <3>2
  <2> QED
    BY <2>1 DEF ImagesTrue
<1>10. PlansBacked'
  <2>1. ASSUME NEW t \in planned PROVE t.epoch <= epoch' /\ t.epoch # epoch'
    <3>1. t.epoch <= epoch /\ t.epoch \in Nat
      BY <1>0 DEF PlansBacked, CacheTypeOK, Tokens
    <3> QED
      BY <1>0, <1>1, <3>1, EpochsAreNumbers
  <2> QED
    BY <1>1, <2>1 DEF PlansBacked
<1>11. OnlyCopyKept'
  <2>1. ASSUME bytes' = Gone, content' # Undefined
        PROVE  image # None /\ image.value = content'
    BY <1>2, <1>4, <2>1
  <2> QED
    BY <1>1, <1>3, <1>5, <2>1 DEF OnlyCopyKept, Resolves
<1> QED
  BY <1>7, <1>8, <1>9, <1>10, <1>11 DEF CacheInv

LEMMA CacheStep == CacheInv /\ [Next]_vars => CacheInv'
<1> SUFFICES ASSUME CacheInv, [Next]_vars PROVE CacheInv'
  OBVIOUS
<1>1. CASE \E t \in tokens : AssembleDraw(t) \/ SampleFacet(t) \/ DrawInto(t)
  BY <1>1, AssembleDrawKeeps, SampleFacetKeeps, DrawIntoKeeps
<1>2. CASE UNCHANGED vars
  BY <1>2
     DEF vars, host, CacheInv, CacheTypeOK, BytesCurrent, MirrorTrue, ImagesTrue, ImageTrue,
         ImageKnown, ImageStandsIn, PlansBacked, OnlyCopyKept, Resolves, SampledFresh
<1> QED
  BY <1>1, <1>2, CopyIntoKeeps, AcquireFacetKeeps, ComputeKeeps, CommitKeeps DEF Next

LEMMA CacheInvariant == Spec => []CacheInv
  BY CacheInitially, CacheStep, PTL DEF Spec

-----------------------------------------------------------------------------
(* What follows *)

(* On either backend, whatever the order of host writes, draws, compute    *)
(* tasks and representation commits, failed ones included, and however     *)
(* long it goes on: a use reads the last version written, or bytes that    *)
(* the host could not write, or there was nothing defined to read.         *)
THEOREM UsesReadWhatWasWritten == Spec => []SampledFresh
<1>1. CacheInv => SampledFresh
  BY DEF CacheInv
<1> QED
  BY <1>1, CacheInvariant, PTL

(* After a consume has released the bytes, the image at the facet it left  *)
(* has the content, through later uses, failed transforms and reclaims.    *)
THEOREM ConsumeLeavesACopy == Spec => []OnlyCopyKept
<1>1. CacheInv => OnlyCopyKept
  BY DEF CacheInv
<1> QED
  BY <1>1, CacheInvariant, PTL

(* A draw whose plan was made while there were bytes, and whose facet      *)
(* still resolves, finds them there.                                       *)
THEOREM AdmittedDrawsHaveBytes == Spec => []DrawHasBytes
<1>1. CacheInv => DrawHasBytes
  BY DEF CacheInv, PlansBacked, DrawHasBytes, Resolves
<1> QED
  BY <1>1, CacheInvariant, PTL
=============================================================================
