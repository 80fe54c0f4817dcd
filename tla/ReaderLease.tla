---------------------------- MODULE ReaderLease ----------------------------
(***************************************************************************)
(* What SubmissionLifetimeHold promises, without counters, phases, facets  *)
(* or plans: an object has a version and a set of readers, and neither its *)
(* version nor its life changes while anyone reads it.                     *)
(***************************************************************************)

CONSTANTS
  Objects,   \* the allocations
  Readers,   \* the submissions
  Versions   \* what a reader may rely on: the epoch, and that it is backed

VARIABLES
  life,      \* Absent, Active or Retired
  version,
  readers    \* who reads each object

leaseVars == <<life, version, readers>>

LeaseInit ==
  /\ life = [o \in Objects |-> "Absent"]
  /\ version \in [Objects -> Versions]
  /\ readers = [o \in Objects |-> {}]

(* An object comes to life; a replay may import one that is already dead.  *)
Create(o, state, v) ==
  /\ life[o] = "Absent"
  /\ life' = [life EXCEPT ![o] = state]
  /\ version' = [version EXCEPT ![o] = v]
  /\ UNCHANGED readers

Take(r, o) ==
  /\ life[o] = "Active"
  /\ r \notin readers[o]
  /\ readers' = [readers EXCEPT ![o] = @ \cup {r}]
  /\ UNCHANGED <<life, version>>

(* A reader gives up everything at once.                                   *)
Drop(r) ==
  /\ readers' = [o \in Objects |-> readers[o] \ {r}]
  /\ UNCHANGED <<life, version>>

(* What src read, dst reads instead of what it read itself.                *)
Transfer(src, dst) ==
  /\ readers' = [o \in Objects |->
                   IF src \in readers[o] THEN (readers[o] \ {src}) \cup {dst}
                                         ELSE readers[o] \ {dst}]
  /\ UNCHANGED <<life, version>>

Revise(o, v) ==
  /\ life[o] = "Active"
  /\ readers[o] = {}
  /\ version' = [version EXCEPT ![o] = v]
  /\ UNCHANGED <<life, readers>>

Die(o, v) ==
  /\ life[o] = "Active"
  /\ readers[o] = {}
  /\ life' = [life EXCEPT ![o] = "Retired"]
  /\ version' = [version EXCEPT ![o] = v]
  /\ UNCHANGED readers

LeaseNext ==
  \/ \E o \in Objects, v \in Versions :
        \/ \E state \in {"Active", "Retired"} : Create(o, state, v)
        \/ Revise(o, v)
        \/ Die(o, v)
  \/ \E r \in Readers : Drop(r) \/ \E o \in Objects : Take(r, o)
  \/ \E src, dst \in Readers : src # dst /\ Transfer(src, dst)

Spec == LeaseInit /\ [][LeaseNext]_leaseVars
=============================================================================
