------------------------------- MODULE Arena -------------------------------
(***************************************************************************)
(* The allocation arena of src/core/arena.{h,cpp}: allocation identity     *)
(* (id, generation), its representation epoch, the count of submissions    *)
(* that hold it in flight, and the two arena-wide clocks that other        *)
(* components compare against.                                             *)
(*                                                                         *)
(* A call the code refuses changes nothing, so only the accepted calls are *)
(* actions here; the refusals are the guards.  The bytes of an allocation  *)
(* are abstracted to whether its backing is still there.                   *)
(***************************************************************************)
EXTENDS Integers, FiniteSets

CONSTANTS
  MaxAllocations,  \* bound on next_id_: how many ids the arena hands out
  MaxEpoch,        \* bound on an allocation's representation_epoch
  MaxClock,        \* bound on representation_clock_
  Budget,          \* max_in_flight_representations_, 0 for unbounded
  Imports          \* the allocation snapshots a capture replay may import

AllocationIds == 1..MaxAllocations

PointerRefs == [allocation : AllocationIds, generation : Nat]

ASSUME ArenaAssumption ==
  /\ MaxAllocations \in Nat \ {0}
  /\ MaxEpoch \in Nat
  /\ MaxClock \in Nat
  /\ Budget \in Nat
  /\ Imports \subseteq [allocation : AllocationIds, generation : Nat \ {0},
                        representation_epoch : 0..MaxEpoch,
                        state : {"Active", "Retired"}]

VARIABLES
  allocations,          \* allocations_, with NoAllocation for an id not in the map
  nextId,               \* next_id_
  topologyEpoch,        \* topology_epoch_
  representationClock   \* representation_clock_

arenaVars == <<allocations, nextId, topologyEpoch, representationClock>>

Allocation ==
  [generation : Nat, state : {"Absent", "Active", "Retired"},
   representation_epoch : Nat, in_flight : Nat,
   live_representations : Nat, backed : BOOLEAN]

NoAllocation ==
  [generation |-> 0, state |-> "Absent", representation_epoch |-> 0,
   in_flight |-> 0, live_representations |-> 0, backed |-> FALSE]

FreshAllocation ==
  [generation |-> 1, state |-> "Active", representation_epoch |-> 0,
   in_flight |-> 0, live_representations |-> 1, backed |-> TRUE]

----------------------------------------------------------------------------
(* Lookups and the effect of each operation on one allocation.  They are   *)
(* operators of the map so that a caller that performs several operations  *)
(* in one step can compose them.                                           *)

Live(as, ref) ==
  /\ as[ref.allocation].state = "Active"
  /\ as[ref.allocation].generation = ref.generation

AtEpoch(as, ref, epoch) ==
  Live(as, ref) /\ as[ref.allocation].representation_epoch = epoch

LiveRefs(as) ==
  {[allocation |-> id, generation |-> as[id].generation] :
     id \in {i \in AllocationIds : as[i].state = "Active"}}

Acquired(a) == [a EXCEPT !.in_flight = @ + 1]

Releasable(as, ref) == Live(as, ref) /\ as[ref.allocation].in_flight > 0

Released(a) == [a EXCEPT !.in_flight = @ - 1]

(* Mutant: the refusal of an allocation in flight is forgotten.            *)
CanTransformInFlight(as, ref) ==
  Live(as, ref) /\ (Budget # 0 => as[ref.allocation].live_representations < Budget)

CanTransform(as, ref) ==
  /\ Live(as, ref)
  /\ as[ref.allocation].in_flight = 0
  /\ Budget # 0 => as[ref.allocation].live_representations < Budget

Transformed(a) ==
  [a EXCEPT !.representation_epoch = @ + 1, !.live_representations = @ + 1]

RepresentationConsumed(a) ==
  [a EXCEPT !.backed = FALSE, !.live_representations = 1]

ObjectConsumed(a) ==
  [a EXCEPT !.state = "Retired", !.generation = @ + 1,
            !.live_representations = 0, !.backed = FALSE]

Retired(a) == [a EXCEPT !.state = "Retired", !.generation = @ + 1]

----------------------------------------------------------------------------
(* The operations.                                                         *)

ArenaInit ==
  /\ allocations = [id \in AllocationIds |-> NoAllocation]
  /\ nextId = 1
  /\ topologyEpoch = 0
  /\ representationClock = 0

Allocate ==
  /\ nextId <= MaxAllocations
  /\ allocations' = [allocations EXCEPT ![nextId] = FreshAllocation]
  /\ nextId' = nextId + 1
  /\ topologyEpoch' = topologyEpoch + 1
  /\ UNCHANGED representationClock

(* A replay re-creates a captured allocation under its own id.             *)
ImportAllocation(i) ==
  /\ allocations[i.allocation].state = "Absent"
  /\ allocations' = [allocations EXCEPT ![i.allocation] =
       [FreshAllocation EXCEPT !.generation = i.generation,
                               !.representation_epoch = i.representation_epoch,
                               !.state = i.state]]
  /\ nextId' = IF nextId > i.allocation THEN nextId ELSE i.allocation + 1
  /\ topologyEpoch' = topologyEpoch + 1
  /\ UNCHANGED representationClock

(* Mutant: retirement does not look at in_flight.                          *)
RetireInFlight(ref) ==
  /\ Live(allocations, ref)
  /\ allocations' = [allocations EXCEPT ![ref.allocation] = Retired(@)]
  /\ topologyEpoch' = topologyEpoch + 1
  /\ UNCHANGED <<nextId, representationClock>>

(* Mutant: retirement does not tick the topology epoch.                    *)
RetireQuietly(ref) ==
  /\ Live(allocations, ref)
  /\ allocations[ref.allocation].in_flight = 0
  /\ allocations' = [allocations EXCEPT ![ref.allocation] = Retired(@)]
  /\ UNCHANGED <<nextId, topologyEpoch, representationClock>>

Retire(ref) ==
  /\ Live(allocations, ref)
  /\ allocations[ref.allocation].in_flight = 0
  /\ allocations' = [allocations EXCEPT ![ref.allocation] = Retired(@)]
  /\ topologyEpoch' = topologyEpoch + 1
  /\ UNCHANGED <<nextId, representationClock>>

Transform(ref) ==
  /\ CanTransform(allocations, ref)
  /\ allocations[ref.allocation].representation_epoch < MaxEpoch
  /\ representationClock < MaxClock
  /\ allocations' = [allocations EXCEPT ![ref.allocation] = Transformed(@)]
  /\ representationClock' = representationClock + 1
  /\ UNCHANGED <<nextId, topologyEpoch>>

ReleaseRepresentation(ref) ==
  /\ Live(allocations, ref)
  /\ allocations[ref.allocation].live_representations > 1
  /\ representationClock < MaxClock
  /\ allocations' = [allocations EXCEPT ![ref.allocation].live_representations = @ - 1]
  /\ representationClock' = representationClock + 1
  /\ UNCHANGED <<nextId, topologyEpoch>>

(* Releases the bytes and keeps the object.  The caller attests the four   *)
(* obligations of ConsumeProof here as well.                               *)
ConsumeRepresentation(ref) ==
  /\ Live(allocations, ref)
  /\ allocations[ref.allocation].in_flight = 0
  /\ representationClock < MaxClock
  /\ allocations' = [allocations EXCEPT ![ref.allocation] = RepresentationConsumed(@)]
  /\ representationClock' = representationClock + 1
  /\ UNCHANGED <<nextId, topologyEpoch>>

(* Retires the object; the caller attests the four obligations of          *)
(* ConsumeProof, none of which the arena can see.                          *)
Consume(ref) ==
  /\ Live(allocations, ref)
  /\ allocations[ref.allocation].in_flight = 0
  /\ representationClock < MaxClock
  /\ allocations' = [allocations EXCEPT ![ref.allocation] = ObjectConsumed(@)]
  /\ topologyEpoch' = topologyEpoch + 1
  /\ representationClock' = representationClock + 1
  /\ UNCHANGED nextId

ArenaNext ==
  \/ Allocate
  \/ \E i \in Imports : ImportAllocation(i)
  \/ \E ref \in LiveRefs(allocations) :
        \/ Retire(ref)
        \/ Transform(ref)
        \/ ReleaseRepresentation(ref)
        \/ ConsumeRepresentation(ref)
        \/ Consume(ref)

ArenaTypeOK ==
  /\ allocations \in [AllocationIds -> Allocation]
  /\ nextId \in Nat \ {0}
  /\ topologyEpoch \in Nat
  /\ representationClock \in Nat
=============================================================================
