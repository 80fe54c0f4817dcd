-------------------------- MODULE PublicationRing --------------------------
(***************************************************************************)
(* PublicationRing and TaskGraphBuilder::append_published of               *)
(* src/core/task_graph.cpp: producers reserve a slot, write a task into it *)
(* word by word and publish it; consumers copy a published task out, append*)
(* it to their own builder and then consume the slot.                      *)
(*                                                                         *)
(* Every access to a slot's state is one atomic step.  A written word is a *)
(* step of its own, taken when the word becomes visible to other threads;  *)
(* the release order of publish() is the condition that all words are.     *)
(***************************************************************************)
EXTENDS Integers, FiniteSets

CONSTANTS
  Producers,
  Consumers,
  Capacity,     \* slots_.size()
  CounterSize,  \* next_slot_ counts modulo this (2^32 in the code)
  Words,        \* the words of a TaskRecord
  Tasks,        \* the tasks to publish, each once
  Malformed,    \* those with a zero generation, which write() refuses
  Unsupported,  \* those only append() refuses, such as a raster topology
  Quota,        \* max_tasks_ of every builder
  NoTask

Slots == 0..(Capacity - 1)

ASSUME RingAssumption ==
  /\ Capacity \in Nat \ {0}
  /\ CounterSize \in Nat \ {0}
  /\ Malformed \cup Unsupported \subseteq Tasks
  /\ NoTask \notin Tasks
  /\ Quota \in Nat
  /\ Producers \cap Consumers = {}
  /\ Words # {}

States == {"Empty", "Writing", "Published", "Consumed"}

VARIABLES
  state,      \* the state of each slot
  record,     \* the words of each slot other threads see
  nextSlot,   \* next_slot_
  remaining,  \* the tasks no producer has taken up
  pc,         \* where each thread stands
  task,       \* the task a producer publishes
  start,      \* where its reserve() began to scan
  scanned,    \* how many slots it has tried
  slot,       \* the slot a thread works on
  unwritten,  \* the words of that slot not yet visible
  uncopied,   \* the words a consumer still has to copy out
  copied,     \* what it has copied out so far
  appended,   \* the records of each consumer's builder, with their slots
  accepted    \* the slots for which append_published() returned true

producerVars == <<remaining, task, start, scanned, unwritten>>
consumerVars == <<uncopied, copied, appended, accepted>>
vars == <<state, record, nextSlot, pc, slot, producerVars, consumerVars>>

Threads == Producers \cup Consumers

NoRecord == [w \in Words |-> NoTask]

Init ==
  /\ state = [i \in Slots |-> "Empty"]
  /\ record = [i \in Slots |-> NoRecord]
  /\ nextSlot = 0
  /\ remaining = Tasks
  /\ pc = [t \in Threads |-> "idle"]
  /\ task = [p \in Producers |-> NoTask]
  /\ start = [p \in Producers |-> 0]
  /\ scanned = [p \in Producers |-> 0]
  /\ slot = [t \in Threads |-> 0]
  /\ unwritten = [p \in Producers |-> {}]
  /\ uncopied = [c \in Consumers |-> {}]
  /\ copied = [c \in Consumers |-> NoRecord]
  /\ appended = [c \in Consumers |-> {}]
  /\ accepted = [c \in Consumers |-> {}]

----------------------------------------------------------------------------
(* publish_task()                                                          *)

BeginPublish(p, t) ==
  /\ pc[p] = "idle"
  /\ t \in remaining
  /\ remaining' = remaining \ {t}
  /\ task' = [task EXCEPT ![p] = t]
  /\ start' = [start EXCEPT ![p] = nextSlot]
  /\ nextSlot' = (nextSlot + 1) % CounterSize
  /\ scanned' = [scanned EXCEPT ![p] = 0]
  /\ pc' = [pc EXCEPT ![p] = "scanning"]
  /\ UNCHANGED <<state, record, slot, unwritten, consumerVars>>

(* start + i is a sum of 32-bit numbers: it wraps before it is reduced.    *)
ScannedSlot(p) == ((start[p] + scanned[p]) % CounterSize) % Capacity

MoreSlots(p) == scanned[p] < Capacity

(* Mutant: the state is loaded and later stored, not exchanged, so that    *)
(* another producer may have taken the slot in between.                    *)
ClaimableByLoad(p) == state[ScannedSlot(p)] \in {"Empty", "Writing"}

Claimable(p) == state[ScannedSlot(p)] = "Empty"

Reserve(p) ==
  LET i == ScannedSlot(p) IN
  /\ pc[p] = "scanning"
  /\ MoreSlots(p)
  /\ Claimable(p)
  /\ state' = [state EXCEPT ![i] = "Writing"]
  /\ slot' = [slot EXCEPT ![p] = i]
  /\ unwritten' = [unwritten EXCEPT ![p] = Words]
  /\ pc' = [pc EXCEPT ![p] = "writing"]
  /\ UNCHANGED <<record, nextSlot, remaining, task, start, scanned, consumerVars>>

TryNext(p) ==
  /\ pc[p] = "scanning"
  /\ MoreSlots(p)
  /\ ~Claimable(p)
  /\ scanned' = [scanned EXCEPT ![p] = @ + 1]
  /\ UNCHANGED <<state, record, nextSlot, remaining, pc, task, start, slot, unwritten, consumerVars>>

(* Mutant: the last slot is not tried.                                     *)
ScanEndsEarly(p) == scanned[p] >= Capacity - 1

ScanEnds(p) == scanned[p] = Capacity

(* "publication ring quota overflow": the task is dropped.                 *)
Overflow(p) ==
  /\ pc[p] = "scanning"
  /\ ScanEnds(p)
  /\ pc' = [pc EXCEPT ![p] = "idle"]
  /\ UNCHANGED <<state, record, nextSlot, slot, producerVars, consumerVars>>

WriteWord(p, w) ==
  /\ pc[p] = "writing"
  /\ task[p] \notin Malformed
  /\ w \in unwritten[p]
  /\ record' = [record EXCEPT ![slot[p]][w] = task[p]]
  /\ unwritten' = [unwritten EXCEPT ![p] = @ \ {w}]
  /\ UNCHANGED <<state, nextSlot, remaining, pc, task, start, scanned, slot, consumerVars>>

(* write() refuses the task and the slot goes back.                        *)
Abort(p) ==
  /\ pc[p] = "writing"
  /\ task[p] \in Malformed
  /\ state[slot[p]] = "Writing"
  /\ state' = [state EXCEPT ![slot[p]] = "Empty"]
  /\ pc' = [pc EXCEPT ![p] = "idle"]
  /\ UNCHANGED <<record, nextSlot, slot, producerVars, consumerVars>>

(* Mutant: published with a relaxed exchange.                              *)
VisibleRelaxed(p) == TRUE

Visible(p) == unwritten[p] = {}

Publish(p) ==
  /\ pc[p] = "writing"
  /\ task[p] \notin Malformed
  /\ Visible(p)
  /\ state[slot[p]] = "Writing"
  /\ state' = [state EXCEPT ![slot[p]] = "Published"]
  /\ pc' = [pc EXCEPT ![p] = "idle"]
  /\ UNCHANGED <<record, nextSlot, slot, producerVars, consumerVars>>

----------------------------------------------------------------------------
(* append_published(): acquire, append, consume                            *)

Acquire(c, i) ==
  /\ pc[c] = "idle"
  /\ state[i] = "Published"
  /\ slot' = [slot EXCEPT ![c] = i]
  /\ uncopied' = [uncopied EXCEPT ![c] = Words]
  /\ copied' = [copied EXCEPT ![c] = NoRecord]
  /\ pc' = [pc EXCEPT ![c] = "copying"]
  /\ UNCHANGED <<state, record, nextSlot, producerVars, appended, accepted>>

CopyWord(c, w) ==
  /\ pc[c] = "copying"
  /\ w \in uncopied[c]
  /\ uncopied' = [uncopied EXCEPT ![c] = @ \ {w}]
  /\ copied' = [copied EXCEPT ![c][w] = record[slot[c]][w]]
  /\ UNCHANGED <<state, record, nextSlot, pc, slot, producerVars, appended, accepted>>

(* Mutant: the quota is compared with the size after the append.           *)
HasRoomForAnother(c) == Cardinality(appended[c]) + 1 < Quota

HasRoom(c) == Cardinality(appended[c]) < Quota

Appendable(c) == HasRoom(c) /\ \A w \in Words : copied[c][w] \notin Unsupported

Append(c) ==
  /\ pc[c] = "copying"
  /\ uncopied[c] = {}
  /\ Appendable(c)
  /\ appended' = [appended EXCEPT ![c] = @ \cup {[slot |-> slot[c], words |-> copied[c]]}]
  /\ pc' = [pc EXCEPT ![c] = "consuming"]
  /\ UNCHANGED <<state, record, nextSlot, slot, producerVars, uncopied, copied, accepted>>

(* Mutant: the refusal is not returned.                                    *)
StepAfterRefusalIgnored == "consuming"

StepAfterRefusal == "idle"

(* append() fails: the slot stays published.                               *)
RefuseAppend(c) ==
  /\ pc[c] = "copying"
  /\ uncopied[c] = {}
  /\ ~Appendable(c)
  /\ pc' = [pc EXCEPT ![c] = StepAfterRefusal]
  /\ UNCHANGED <<state, record, nextSlot, slot, producerVars, consumerVars>>

(* Mutant: a slot that is already consumed is consumed again.              *)
ConsumableAgain(c) == state[slot[c]] \in {"Published", "Consumed"}

Consumable(c) == state[slot[c]] = "Published"

StateConsumed == "Consumed"

Consume(c) ==
  /\ pc[c] = "consuming"
  /\ Consumable(c)
  /\ state' = [state EXCEPT ![slot[c]] = StateConsumed]
  /\ accepted' = [accepted EXCEPT ![c] = @ \cup {slot[c]}]
  /\ pc' = [pc EXCEPT ![c] = "idle"]
  /\ UNCHANGED <<record, nextSlot, slot, producerVars, uncopied, copied, appended>>

(* Another consumer was faster: append_published() returns false, and the  *)
(* record stays in this builder.                                           *)
ConsumeTooLate(c) ==
  /\ pc[c] = "consuming"
  /\ ~Consumable(c)
  /\ pc' = [pc EXCEPT ![c] = "idle"]
  /\ UNCHANGED <<state, record, nextSlot, slot, producerVars, consumerVars>>

----------------------------------------------------------------------------

Produce(p) ==
  \/ \E t \in Tasks : BeginPublish(p, t)
  \/ Reserve(p)
  \/ TryNext(p)
  \/ Overflow(p)
  \/ \E w \in Words : WriteWord(p, w)
  \/ Abort(p)
  \/ Publish(p)

Take(c) ==
  \/ \E i \in Slots : Acquire(c, i)
  \/ \E w \in Words : CopyWord(c, w)
  \/ Append(c)
  \/ RefuseAppend(c)
  \/ Consume(c)
  \/ ConsumeTooLate(c)

Next ==
  \/ \E p \in Producers : Produce(p)
  \/ \E c \in Consumers : Take(c)

Spec == Init /\ [][Next]_vars

(* Consumers take no lock and are scheduled by the operating system, so    *)
(* none is held up by another.  A caller goes round the slots and hands    *)
(* each published one to append_published(), also when another was refused *)
(* before: a consumer is not always at a given slot, but comes back to it. *)
(* Producers owe nothing.                                                  *)
FairSpec ==
  /\ Spec
  /\ \A c \in Consumers : WF_vars(Take(c)) /\ \A i \in Slots : SF_vars(Acquire(c, i))

----------------------------------------------------------------------------
(* Properties.                                                             *)

TypeOK ==
  /\ state \in [Slots -> States]
  /\ record \in [Slots -> [Words -> Tasks \cup {NoTask}]]
  /\ nextSlot \in 0..(CounterSize - 1)
  /\ remaining \subseteq Tasks
  /\ pc \in [Threads -> {"idle", "scanning", "writing", "copying", "consuming"}]
  /\ task \in [Producers -> Tasks \cup {NoTask}]
  /\ start \in [Producers -> 0..(CounterSize - 1)]
  /\ scanned \in [Producers -> 0..Capacity]
  /\ slot \in [Threads -> Slots]
  /\ unwritten \in [Producers -> SUBSET Words]
  /\ uncopied \in [Consumers -> SUBSET Words]
  /\ copied \in [Consumers -> [Words -> Tasks \cup {NoTask}]]
  /\ appended \in [Consumers -> SUBSET [slot : Slots, words : [Words -> Tasks \cup {NoTask}]]]
  /\ accepted \in [Consumers -> SUBSET Slots]

Writers(i) == {p \in Producers : pc[p] = "writing" /\ slot[p] = i}

(* A slot in Writing has exactly one writer and no other slot has any:     *)
(* write() checks only that the slot is Writing, with a relaxed load, and  *)
(* relies on this; the failure branch of publish() in publish_task() is    *)
(* dead code because of it.                                                *)
WriterExclusive ==
  \A i \in Slots : Cardinality(Writers(i)) = IF state[i] = "Writing" THEN 1 ELSE 0

(* A record a builder accepted is one task, whole and well formed: never   *)
(* part of one task and part of another, however slowly it was copied out. *)
NoTornRecord ==
  \A c \in Consumers : \A r \in appended[c] :
     \E t \in Tasks \ (Malformed \cup Unsupported) : r.words = [w \in Words |-> t]

(* append_published() returns true for a slot to one caller only.          *)
AcceptedOnce ==
  \A c, d \in Consumers : c # d => accepted[c] \cap accepted[d] = {}

(* A consumed slot's record is in the builder of the caller that consumed  *)
(* it, and a refused append leaves the slot published (ADR-010).           *)
ConsumedWasAccepted ==
  \A i \in Slots :
     state[i] = "Consumed" =>
       \E c \in Consumers : i \in accepted[c] /\ \E r \in appended[c] : r.slot = i

(* A malformed task that was taken up and is no longer worked on has been  *)
(* aborted, and its slot emptied behind the back of a scan in progress.    *)
NoneAborted ==
  Malformed \subseteq remaining \cup {task[p] : p \in {q \in Producers : pc[q] # "idle"}}

(* Until a slot is aborted, publish_task() reports an overflow only when   *)
(* no slot is free, wherever its scan began and whatever was published     *)
(* while it went on (PublicationRing::reserve).                            *)
OverflowMeansFull ==
  [][\A p \in Producers :
       pc[p] = "scanning" /\ pc'[p] = "idle" /\ NoneAborted =>
         \A i \in Slots : state[i] # "Empty"]_vars

Supported(i) == \A w \in Words : record[i][w] \notin Unsupported

(* A published task that is supported is consumed in the end, although     *)
(* others are refused for ever, provided every builder has room for each:  *)
(* consumers compete, and the record of a lost race keeps its place in the *)
(* loser's builder.                                                        *)
PublishedIsConsumed ==
  \A i \in Slots : (state[i] = "Published" /\ Supported(i)) ~> state[i] = "Consumed"
=============================================================================
