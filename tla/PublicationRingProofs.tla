----------------------- MODULE PublicationRingProofs -----------------------
(***************************************************************************)
(* A record a builder accepts is whole, a slot has one writer and is handed*)
(* to one consumer: proofs for PublicationRing, for any number of threads, *)
(* slots, words and tasks and whatever value the slot counter wraps at.    *)
(***************************************************************************)
EXTENDS PublicationRing, FiniteSetTheorems, TLAPS

(* A producer in writing owns a Writing slot, alone, and the words it has  *)
(* written are in the slot.                                                *)
OwnersInv ==
  /\ \A p \in Producers :
       pc[p] = "writing" =>
         /\ state[slot[p]] = "Writing"
         /\ task[p] \in Tasks
         /\ \A w \in Words \ unwritten[p] :
              task[p] \notin Malformed => record[slot[p]][w] = task[p]
  /\ \A p, q \in Producers :
       p # q /\ pc[p] = "writing" /\ pc[q] = "writing" => slot[p] # slot[q]
  /\ \A i \in Slots : state[i] = "Writing" => \E p \in Producers : pc[p] = "writing" /\ slot[p] = i
  /\ \A p \in Producers : pc[p] = "scanning" => task[p] \in Tasks

Out == {"Published", "Consumed"}

(* A slot that was published holds one well-formed task.                   *)
RecordsInv ==
  \A i \in Slots : state[i] \in Out => \E t \in Tasks \ Malformed : record[i] = [w \in Words |-> t]

(* A consumer works on a slot that was published, and what it has copied   *)
(* is what the slot holds.                                                 *)
CopiesOf(c) ==
  pc[c] \in {"copying", "consuming"} =>
    /\ state[slot[c]] \in Out
    /\ \A w \in Words \ uncopied[c] : copied[c][w] = record[slot[c]][w]

CopiesInv == \A c \in Consumers : CopiesOf(c)

(* An accepted record is what its slot holds, and stays so.                *)
AppendedOf(c) ==
  /\ \A r \in appended[c] :
       /\ state[r.slot] \in Out
       /\ r.words = record[r.slot]
       /\ \A w \in Words : r.words[w] \notin Unsupported
  /\ pc[c] = "consuming" => \E r \in appended[c] : r.slot = slot[c]

AppendedInv == \A c \in Consumers : AppendedOf(c)

(* A slot is accepted only once it is consumed.                            *)
AcceptedInv ==
  /\ \A c \in Consumers : \A i \in accepted[c] : state[i] = "Consumed"
  /\ AcceptedOnce
  /\ ConsumedWasAccepted

RingInv == TypeOK /\ OwnersInv /\ RecordsInv /\ CopiesInv /\ AppendedInv /\ AcceptedInv

LEMMA ScannedSlotTyped ==
  ASSUME TypeOK, NEW p \in Producers
  PROVE  ScannedSlot(p) \in Slots
<1>1. start[p] \in Nat /\ scanned[p] \in Nat
  BY RingAssumption DEF TypeOK
<1>2. (start[p] + scanned[p]) % CounterSize \in Nat
  BY <1>1, RingAssumption
<1> QED
  BY <1>2, RingAssumption DEF ScannedSlot, Slots

(* Every step keeps the types.                                             *)
LEMMA TypeStep ==
  ASSUME TypeOK, [Next]_vars
  PROVE  TypeOK'
<1> USE RingAssumption DEF TypeOK, producerVars, consumerVars
<1>1. ASSUME NEW p \in Producers, NEW t \in Tasks, BeginPublish(p, t) PROVE TypeOK'
  BY <1>1 DEF BeginPublish, States, Threads, NoRecord
<1>2. ASSUME NEW p \in Producers, Reserve(p) PROVE TypeOK'
  BY <1>2, ScannedSlotTyped DEF Reserve, States, Threads, NoRecord, MoreSlots
<1>3. ASSUME NEW p \in Producers, TryNext(p) PROVE TypeOK'
  BY <1>3 DEF TryNext, States, Threads, NoRecord, MoreSlots
<1>4. ASSUME NEW p \in Producers, Overflow(p) PROVE TypeOK'
  BY <1>4 DEF Overflow, States, Threads, NoRecord
<1>5. ASSUME NEW p \in Producers, NEW w \in Words, WriteWord(p, w) PROVE TypeOK'
  BY <1>5 DEF WriteWord, States, Threads, NoRecord
<1>6. ASSUME NEW p \in Producers, Abort(p) PROVE TypeOK'
  BY <1>6 DEF Abort, States, Threads, NoRecord
<1>7. ASSUME NEW p \in Producers, Publish(p) PROVE TypeOK'
  BY <1>7 DEF Publish, States, Threads, NoRecord
<1>8. ASSUME NEW c \in Consumers, NEW i \in Slots, Acquire(c, i) PROVE TypeOK'
  BY <1>8 DEF Acquire, States, Threads, NoRecord
<1>9. ASSUME NEW c \in Consumers, NEW w \in Words, CopyWord(c, w) PROVE TypeOK'
  BY <1>9 DEF CopyWord, States, Threads, NoRecord
<1>10. ASSUME NEW c \in Consumers, Append(c) PROVE TypeOK'
  BY <1>10 DEF Append, States, Threads, NoRecord
<1>11. ASSUME NEW c \in Consumers, RefuseAppend(c) PROVE TypeOK'
  BY <1>11 DEF RefuseAppend, States, Threads, NoRecord, StepAfterRefusal
<1>12. ASSUME NEW c \in Consumers, Consume(c) PROVE TypeOK'
  BY <1>12 DEF Consume, States, Threads, NoRecord, StateConsumed
<1>13. ASSUME NEW c \in Consumers, ConsumeTooLate(c) PROVE TypeOK'
  BY <1>13 DEF ConsumeTooLate, States, Threads, NoRecord
<1>14. CASE UNCHANGED vars
  BY <1>14 DEF vars, States, Threads, NoRecord
<1> QED
  BY <1>1, <1>2, <1>3, <1>4, <1>5, <1>6, <1>7, <1>8, <1>9, <1>10, <1>11, <1>12, <1>13, <1>14 DEF Next, Produce, Take

(* A slot that was published keeps its record, and is never written again. *)
PublishedKept ==
  \A i \in Slots :
    state[i] \in Out =>
      /\ state'[i] \in Out
      /\ record'[i] = record[i]
      /\ state[i] = "Consumed" => state'[i] = "Consumed"

LEMMA PublishedStays ==
  ASSUME TypeOK, OwnersInv, [Next]_vars
  PROVE  PublishedKept
<1> USE RingAssumption DEF PublishedKept, TypeOK, producerVars, consumerVars
<1>1. ASSUME NEW p \in Producers, NEW t \in Tasks, BeginPublish(p, t) PROVE PublishedKept
  BY <1>1 DEF BeginPublish, Out, States, OwnersInv
<1>2. ASSUME NEW p \in Producers, Reserve(p) PROVE PublishedKept
  BY <1>2, ScannedSlotTyped DEF Reserve, Out, States, OwnersInv, Claimable
<1>3. ASSUME NEW p \in Producers, TryNext(p) PROVE PublishedKept
  BY <1>3 DEF TryNext, Out, States, OwnersInv
<1>4. ASSUME NEW p \in Producers, Overflow(p) PROVE PublishedKept
  BY <1>4 DEF Overflow, Out, States, OwnersInv
<1>5. ASSUME NEW p \in Producers, NEW w \in Words, WriteWord(p, w) PROVE PublishedKept
  BY <1>5 DEF WriteWord, Out, States, OwnersInv
<1>6. ASSUME NEW p \in Producers, Abort(p) PROVE PublishedKept
  BY <1>6 DEF Abort, Out, States, OwnersInv
<1>7. ASSUME NEW p \in Producers, Publish(p) PROVE PublishedKept
  BY <1>7 DEF Publish, Out, States, OwnersInv
<1>8. ASSUME NEW c \in Consumers, NEW i \in Slots, Acquire(c, i) PROVE PublishedKept
  BY <1>8 DEF Acquire, Out, States, OwnersInv
<1>9. ASSUME NEW c \in Consumers, NEW w \in Words, CopyWord(c, w) PROVE PublishedKept
  BY <1>9 DEF CopyWord, Out, States, OwnersInv
<1>10. ASSUME NEW c \in Consumers, Append(c) PROVE PublishedKept
  BY <1>10 DEF Append, Out, States, OwnersInv
<1>11. ASSUME NEW c \in Consumers, RefuseAppend(c) PROVE PublishedKept
  BY <1>11 DEF RefuseAppend, Out, States, OwnersInv
<1>12. ASSUME NEW c \in Consumers, Consume(c) PROVE PublishedKept
  BY <1>12 DEF Consume, Out, States, OwnersInv, StateConsumed
<1>13. ASSUME NEW c \in Consumers, ConsumeTooLate(c) PROVE PublishedKept
  BY <1>13 DEF ConsumeTooLate, Out, States, OwnersInv
<1>14. CASE UNCHANGED vars
  BY <1>14 DEF vars, Out, States, OwnersInv
<1> QED
  BY <1>1, <1>2, <1>3, <1>4, <1>5, <1>6, <1>7, <1>8, <1>9, <1>10, <1>11, <1>12, <1>13, <1>14 DEF Next, Produce, Take

(* reserve() gives a slot to one writer, who keeps it until it publishes   *)
(* or gives it back.                                                       *)
LEMMA OwnersStep ==
  ASSUME TypeOK, TypeOK', OwnersInv, [Next]_vars
  PROVE  OwnersInv'
<1> USE RingAssumption DEF TypeOK, producerVars, consumerVars
<1>1. ASSUME NEW p \in Producers, NEW t \in Tasks, BeginPublish(p, t) PROVE OwnersInv'
  BY <1>1 DEF BeginPublish, OwnersInv, Threads, States
<1>2. ASSUME NEW p \in Producers, Reserve(p) PROVE OwnersInv'
  BY <1>2, ScannedSlotTyped DEF Reserve, OwnersInv, Threads, States, Claimable
<1>3. ASSUME NEW p \in Producers, TryNext(p) PROVE OwnersInv'
  BY <1>3 DEF TryNext, OwnersInv, Threads, States
<1>4. ASSUME NEW p \in Producers, Overflow(p) PROVE OwnersInv'
  BY <1>4 DEF Overflow, OwnersInv, Threads, States
<1>5. ASSUME NEW p \in Producers, NEW w \in Words, WriteWord(p, w) PROVE OwnersInv'
  BY <1>5 DEF WriteWord, OwnersInv, Threads, States
<1>6. ASSUME NEW p \in Producers, Abort(p) PROVE OwnersInv'
  BY <1>6 DEF Abort, OwnersInv, Threads, States
<1>7. ASSUME NEW p \in Producers, Publish(p) PROVE OwnersInv'
  BY <1>7 DEF Publish, OwnersInv, Threads, States
<1>8. ASSUME NEW c \in Consumers, NEW i \in Slots, Acquire(c, i) PROVE OwnersInv'
  BY <1>8 DEF Acquire, OwnersInv, Threads, States
<1>9. ASSUME NEW c \in Consumers, NEW w \in Words, CopyWord(c, w) PROVE OwnersInv'
  BY <1>9 DEF CopyWord, OwnersInv, Threads, States
<1>10. ASSUME NEW c \in Consumers, Append(c) PROVE OwnersInv'
  BY <1>10 DEF Append, OwnersInv, Threads, States
<1>11. ASSUME NEW c \in Consumers, RefuseAppend(c) PROVE OwnersInv'
  BY <1>11 DEF RefuseAppend, OwnersInv, Threads, States
<1>12. ASSUME NEW c \in Consumers, Consume(c) PROVE OwnersInv'
  BY <1>12 DEF Consume, OwnersInv, Threads, States, StateConsumed, Consumable
<1>13. ASSUME NEW c \in Consumers, ConsumeTooLate(c) PROVE OwnersInv'
  BY <1>13 DEF ConsumeTooLate, OwnersInv, Threads, States, Consumable
<1>14. CASE UNCHANGED vars
  BY <1>14 DEF vars, OwnersInv, Threads, States
<1> QED
  BY <1>1, <1>2, <1>3, <1>4, <1>5, <1>6, <1>7, <1>8, <1>9, <1>10, <1>11, <1>12, <1>13, <1>14 DEF Next, Produce, Take

(* publish() finds every word of its task in the slot.                     *)
LEMMA RecordsStep ==
  ASSUME TypeOK, TypeOK', OwnersInv, RecordsInv, [Next]_vars
  PROVE  RecordsInv'
<1>0. PublishedKept
  BY PublishedStays
<1> USE RingAssumption DEF TypeOK, producerVars, consumerVars
<1>1. ASSUME NEW p \in Producers, NEW t \in Tasks, BeginPublish(p, t) PROVE RecordsInv'
  BY <1>1, <1>0 DEF PublishedKept, BeginPublish, OwnersInv, RecordsInv, Out, Threads, States
<1>2. ASSUME NEW p \in Producers, Reserve(p) PROVE RecordsInv'
  BY <1>2, <1>0, ScannedSlotTyped DEF PublishedKept, Reserve, OwnersInv, RecordsInv, Out, Threads, States, Claimable
<1>3. ASSUME NEW p \in Producers, TryNext(p) PROVE RecordsInv'
  BY <1>3, <1>0 DEF PublishedKept, TryNext, OwnersInv, RecordsInv, Out, Threads, States
<1>4. ASSUME NEW p \in Producers, Overflow(p) PROVE RecordsInv'
  BY <1>4, <1>0 DEF PublishedKept, Overflow, OwnersInv, RecordsInv, Out, Threads, States
<1>5. ASSUME NEW p \in Producers, NEW w \in Words, WriteWord(p, w) PROVE RecordsInv'
  <2> SUFFICES ASSUME NEW i \in Slots, state'[i] \in Out
               PROVE  \E t \in Tasks \ Malformed : record'[i] = [v \in Words |-> t]
    BY DEF RecordsInv
  <2>1. state' = state
    BY <1>5 DEF WriteWord
  <2>2. record'[i] = record[i]
    BY <2>1, <1>0 DEF PublishedKept
  <2> QED
    BY <2>1, <2>2 DEF RecordsInv
<1>6. ASSUME NEW p \in Producers, Abort(p) PROVE RecordsInv'
  BY <1>6, <1>0 DEF PublishedKept, Abort, OwnersInv, RecordsInv, Out, Threads, States
<1>7. ASSUME NEW p \in Producers, Publish(p) PROVE RecordsInv'
  BY <1>7, <1>0 DEF PublishedKept, Publish, OwnersInv, RecordsInv, Out, Threads, States, Visible
<1>8. ASSUME NEW c \in Consumers, NEW i \in Slots, Acquire(c, i) PROVE RecordsInv'
  BY <1>8, <1>0 DEF PublishedKept, Acquire, OwnersInv, RecordsInv, Out, Threads, States
<1>9. ASSUME NEW c \in Consumers, NEW w \in Words, CopyWord(c, w) PROVE RecordsInv'
  BY <1>9, <1>0 DEF PublishedKept, CopyWord, OwnersInv, RecordsInv, Out, Threads, States
<1>10. ASSUME NEW c \in Consumers, Append(c) PROVE RecordsInv'
  BY <1>10, <1>0 DEF PublishedKept, Append, OwnersInv, RecordsInv, Out, Threads, States
<1>11. ASSUME NEW c \in Consumers, RefuseAppend(c) PROVE RecordsInv'
  BY <1>11, <1>0 DEF PublishedKept, RefuseAppend, OwnersInv, RecordsInv, Out, Threads, States
<1>12. ASSUME NEW c \in Consumers, Consume(c) PROVE RecordsInv'
  BY <1>12, <1>0 DEF PublishedKept, Consume, OwnersInv, RecordsInv, Out, Threads, States, StateConsumed, Consumable
<1>13. ASSUME NEW c \in Consumers, ConsumeTooLate(c) PROVE RecordsInv'
  BY <1>13, <1>0 DEF PublishedKept, ConsumeTooLate, OwnersInv, RecordsInv, Out, Threads, States
<1>14. CASE UNCHANGED vars
  BY <1>14, <1>0 DEF PublishedKept, vars, OwnersInv, RecordsInv, Out, Threads, States
<1> QED
  BY <1>1, <1>2, <1>3, <1>4, <1>5, <1>6, <1>7, <1>8, <1>9, <1>10, <1>11, <1>12, <1>13, <1>14 DEF Next, Produce, Take

(* What a slow consumer copies is the slot's record, whatever others do.    *)
LEMMA CopiesStep ==
  ASSUME TypeOK, TypeOK', OwnersInv, CopiesInv, [Next]_vars
  PROVE  CopiesInv'
<1>0. PublishedKept
  BY PublishedStays
<1> USE RingAssumption DEF TypeOK, Threads, producerVars, consumerVars
<1> SUFFICES ASSUME NEW d \in Consumers PROVE CopiesOf(d)'
  BY DEF CopiesInv
<1>1. CASE /\ pc'[d] \in {"copying", "consuming"} => pc[d] \in {"copying", "consuming"}
           /\ slot'[d] = slot[d] /\ uncopied'[d] = uncopied[d] /\ copied'[d] = copied[d]
  <2> SUFFICES ASSUME pc'[d] \in {"copying", "consuming"} PROVE CopiesOf(d)'
    BY DEF CopiesOf
  <2>1. slot[d] \in Slots /\ state[slot[d]] \in Out
    BY <1>1 DEF CopiesInv, CopiesOf
  <2>2. state'[slot[d]] \in Out /\ record'[slot[d]] = record[slot[d]]
    BY <2>1, <1>0 DEF PublishedKept
  <2> QED
    BY <1>1, <2>2 DEF CopiesInv, CopiesOf
<1>2. CASE \E i \in Slots : Acquire(d, i)
  BY <1>2 DEF Acquire, Out, CopiesOf
<1>3. CASE \E w \in Words : CopyWord(d, w)
  BY <1>3 DEF CopyWord, CopiesInv, CopiesOf
<1>4. ASSUME NEW p \in Producers, Produce(p)
      PROVE  /\ pc'[d] = pc[d] /\ slot'[d] = slot[d]
             /\ uncopied'[d] = uncopied[d] /\ copied'[d] = copied[d]
  BY <1>4 DEF Produce, BeginPublish, Reserve, TryNext, Overflow, WriteWord, Abort, Publish
<1>5. ASSUME NEW c \in Consumers, c # d, Take(c)
      PROVE  /\ pc'[d] = pc[d] /\ slot'[d] = slot[d]
             /\ uncopied'[d] = uncopied[d] /\ copied'[d] = copied[d]
  BY <1>5 DEF Take, Acquire, CopyWord, Append, RefuseAppend, Consume, ConsumeTooLate
<1>6. CASE Append(d)
  BY <1>6, <1>1 DEF Append
<1>7. CASE RefuseAppend(d) \/ Consume(d) \/ ConsumeTooLate(d)
  BY <1>7 DEF RefuseAppend, StepAfterRefusal, Consume, ConsumeTooLate, CopiesOf
<1>8. CASE UNCHANGED vars
  BY <1>8, <1>1 DEF vars
<1>9. CASE \E p \in Producers : Produce(p)
  BY <1>9, <1>1, <1>4
<1>10. ASSUME NEW c \in Consumers, Take(c), c # d PROVE CopiesOf(d)'
  BY <1>10, <1>1, <1>5
<1>11. CASE Take(d)
  BY <1>11, <1>2, <1>3, <1>6, <1>7 DEF Take
<1> QED
  BY <1>8, <1>9, <1>10, <1>11 DEF Next

(* append() takes a record that is whole and that it supports.             *)
LEMMA AppendedStep ==
  ASSUME TypeOK, TypeOK', OwnersInv, CopiesInv, AppendedInv, [Next]_vars
  PROVE  AppendedInv'
<1>0. PublishedKept
  BY PublishedStays
<1> USE RingAssumption DEF TypeOK, Threads, producerVars, consumerVars
<1> SUFFICES ASSUME NEW d \in Consumers PROVE AppendedOf(d)'
  BY DEF AppendedInv
<1>1. ASSUME NEW r \in appended[d]
      PROVE  /\ state'[r.slot] \in Out
             /\ r.words = record'[r.slot]
             /\ \A w \in Words : r.words[w] \notin Unsupported
  <2>1. r.slot \in Slots
    OBVIOUS
  <2>2. state[r.slot] \in Out /\ r.words = record[r.slot]
        /\ \A w \in Words : r.words[w] \notin Unsupported
    BY DEF AppendedInv, AppendedOf
  <2> QED
    BY <2>1, <2>2, <1>0 DEF PublishedKept
<1>2. CASE appended'[d] = appended[d] /\ pc'[d] # "consuming"
  BY <1>1, <1>2 DEF AppendedOf
<1>3. CASE appended'[d] = appended[d] /\ pc'[d] = pc[d] /\ slot'[d] = slot[d]
  BY <1>1, <1>3 DEF AppendedInv, AppendedOf
<1>4. CASE Append(d)
  <2> DEFINE new == [slot |-> slot[d], words |-> copied[d]]
  <2>1. /\ appended'[d] = appended[d] \cup {new}
        /\ slot' = slot /\ state' = state /\ record' = record
    BY <1>4 DEF Append
  <2>2. new.slot = slot[d] /\ new.words = copied[d]
    OBVIOUS
  <2>3. state[slot[d]] \in Out /\ \A w \in Words : copied[d][w] = record[slot[d]][w]
    BY <1>4 DEF Append, CopiesInv, CopiesOf
  <2>4. copied[d] = record[slot[d]]
    <3>1. copied[d] \in [Words -> Tasks \cup {NoTask}] /\ record[slot[d]] \in [Words -> Tasks \cup {NoTask}]
      OBVIOUS
    <3> QED
      BY <3>1, <2>3
  <2>5. \A w \in Words : copied[d][w] \notin Unsupported
    BY <1>4 DEF Append, Appendable
  <2>6. ASSUME NEW r \in appended'[d]
        PROVE  /\ state'[r.slot] \in Out
               /\ r.words = record'[r.slot]
               /\ \A w \in Words : r.words[w] \notin Unsupported
    <3>1. CASE r \in appended[d]
      BY <3>1, <1>1
    <3>2. CASE r = new
      BY <3>2, <2>1, <2>2, <2>3, <2>4, <2>5
    <3> QED
      BY <3>1, <3>2, <2>1
  <2>7. \E r \in appended'[d] : r.slot = slot'[d]
    <3>1. new \in appended'[d] /\ new.slot = slot'[d]
      BY <2>1, <2>2
    <3> QED
      BY <3>1
  <2> QED
    BY <2>6, <2>7 DEF AppendedOf
<1>5. ASSUME NEW p \in Producers, Produce(p)
      PROVE  appended'[d] = appended[d] /\ pc'[d] = pc[d] /\ slot'[d] = slot[d]
  BY <1>5 DEF Produce, BeginPublish, Reserve, TryNext, Overflow, WriteWord, Abort, Publish
<1>6. ASSUME NEW c \in Consumers, c # d, Take(c)
      PROVE  appended'[d] = appended[d] /\ pc'[d] = pc[d] /\ slot'[d] = slot[d]
  BY <1>6 DEF Take, Acquire, CopyWord, Append, RefuseAppend, Consume, ConsumeTooLate
<1>7. CASE \/ \E i \in Slots : Acquire(d, i)
           \/ \E w \in Words : CopyWord(d, w)
           \/ RefuseAppend(d)
           \/ Consume(d)
           \/ ConsumeTooLate(d)
  <2>1. appended'[d] = appended[d] /\ pc'[d] # "consuming"
    BY <1>7 DEF Acquire, CopyWord, RefuseAppend, StepAfterRefusal, Consume, ConsumeTooLate
  <2> QED
    BY <2>1, <1>2
<1>8. CASE UNCHANGED vars
  BY <1>8, <1>3 DEF vars
<1>9. CASE \E p \in Producers : Produce(p)
  BY <1>9, <1>3, <1>5
<1>10. ASSUME NEW c \in Consumers, Take(c), c # d PROVE AppendedOf(d)'
  BY <1>10, <1>3, <1>6
<1>11. CASE Take(d)
  BY <1>11, <1>4, <1>7 DEF Take
<1> QED
  BY <1>8, <1>9, <1>10, <1>11 DEF Next

(* consume() succeeds for one caller, whose builder has the record.        *)
LEMMA AcceptedStep ==
  ASSUME TypeOK, TypeOK', OwnersInv, AppendedInv, AcceptedInv, [Next]_vars
  PROVE  AcceptedInv'
<1>0. PublishedKept
  BY PublishedStays
<1> USE RingAssumption DEF TypeOK, producerVars, consumerVars
<1>1. ASSUME NEW p \in Producers, NEW t \in Tasks, BeginPublish(p, t) PROVE AcceptedInv'
  BY <1>1, <1>0 DEF PublishedKept, BeginPublish, AppendedInv, AppendedOf, AcceptedInv, AcceptedOnce, ConsumedWasAccepted, Out, Threads
<1>2. ASSUME NEW p \in Producers, Reserve(p) PROVE AcceptedInv'
  BY <1>2, <1>0, ScannedSlotTyped DEF PublishedKept, Reserve, AppendedInv, AppendedOf, AcceptedInv, AcceptedOnce, ConsumedWasAccepted, Out, Threads, Claimable
<1>3. ASSUME NEW p \in Producers, TryNext(p) PROVE AcceptedInv'
  BY <1>3, <1>0 DEF PublishedKept, TryNext, AppendedInv, AppendedOf, AcceptedInv, AcceptedOnce, ConsumedWasAccepted, Out, Threads
<1>4. ASSUME NEW p \in Producers, Overflow(p) PROVE AcceptedInv'
  BY <1>4, <1>0 DEF PublishedKept, Overflow, AppendedInv, AppendedOf, AcceptedInv, AcceptedOnce, ConsumedWasAccepted, Out, Threads
<1>5. ASSUME NEW p \in Producers, NEW w \in Words, WriteWord(p, w) PROVE AcceptedInv'
  BY <1>5, <1>0 DEF PublishedKept, WriteWord, AppendedInv, AppendedOf, AcceptedInv, AcceptedOnce, ConsumedWasAccepted, Out, Threads
<1>6. ASSUME NEW p \in Producers, Abort(p) PROVE AcceptedInv'
  BY <1>6, <1>0 DEF PublishedKept, Abort, AppendedInv, AppendedOf, AcceptedInv, AcceptedOnce, ConsumedWasAccepted, Out, Threads
<1>7. ASSUME NEW p \in Producers, Publish(p) PROVE AcceptedInv'
  BY <1>7, <1>0 DEF PublishedKept, Publish, AppendedInv, AppendedOf, AcceptedInv, AcceptedOnce, ConsumedWasAccepted, Out, Threads
<1>8. ASSUME NEW c \in Consumers, NEW i \in Slots, Acquire(c, i) PROVE AcceptedInv'
  BY <1>8, <1>0 DEF PublishedKept, Acquire, AppendedInv, AppendedOf, AcceptedInv, AcceptedOnce, ConsumedWasAccepted, Out, Threads
<1>9. ASSUME NEW c \in Consumers, NEW w \in Words, CopyWord(c, w) PROVE AcceptedInv'
  BY <1>9, <1>0 DEF PublishedKept, CopyWord, AppendedInv, AppendedOf, AcceptedInv, AcceptedOnce, ConsumedWasAccepted, Out, Threads
<1>10. ASSUME NEW c \in Consumers, Append(c) PROVE AcceptedInv'
  BY <1>10, <1>0 DEF PublishedKept, Append, AppendedInv, AppendedOf, AcceptedInv, AcceptedOnce, ConsumedWasAccepted, Out, Threads
<1>11. ASSUME NEW c \in Consumers, RefuseAppend(c) PROVE AcceptedInv'
  BY <1>11, <1>0 DEF PublishedKept, RefuseAppend, AppendedInv, AppendedOf, AcceptedInv, AcceptedOnce, ConsumedWasAccepted, Out, Threads
<1>12. ASSUME NEW c \in Consumers, Consume(c) PROVE AcceptedInv'
  BY <1>12, <1>0 DEF PublishedKept, Consume, AppendedInv, AppendedOf, AcceptedInv, AcceptedOnce, ConsumedWasAccepted, Out, Threads, StateConsumed, Consumable
<1>13. ASSUME NEW c \in Consumers, ConsumeTooLate(c) PROVE AcceptedInv'
  BY <1>13, <1>0 DEF PublishedKept, ConsumeTooLate, AppendedInv, AppendedOf, AcceptedInv, AcceptedOnce, ConsumedWasAccepted, Out, Threads
<1>14. CASE UNCHANGED vars
  BY <1>14, <1>0 DEF PublishedKept, vars, AppendedInv, AppendedOf, AcceptedInv, AcceptedOnce, ConsumedWasAccepted, Out, Threads
<1> QED
  BY <1>1, <1>2, <1>3, <1>4, <1>5, <1>6, <1>7, <1>8, <1>9, <1>10, <1>11, <1>12, <1>13, <1>14 DEF Next, Produce, Take

LEMMA InitRing == Init => RingInv
  BY RingAssumption
     DEF Init, RingInv, TypeOK, OwnersInv, RecordsInv, CopiesInv, CopiesOf, AppendedInv, AppendedOf, AcceptedInv,
         AcceptedOnce, ConsumedWasAccepted, Out, States, Threads, NoRecord, Slots

LEMMA RingInvStep == RingInv /\ [Next]_vars => RingInv'
  BY TypeStep, OwnersStep, RecordsStep, CopiesStep, AppendedStep, AcceptedStep DEF RingInv

LEMMA RingInvariant == Spec => []RingInv
  BY InitRing, RingInvStep, PTL DEF Spec

(* Every reachable state of the ring and its threads is well typed: no     *)
(* index, wrapped or not, is outside slots_.                               *)
THEOREM RingTyped == Spec => []TypeOK
<1>1. RingInv => TypeOK
  BY DEF RingInv
<1> QED
  BY <1>1, RingInvariant, PTL

(* At every moment each slot in Writing has one writer and the others none:*)
(* the checks of write() and publish() rest on it.                         *)
THEOREM OneWriter == Spec => []WriterExclusive
<1>1. RingInv => WriterExclusive
  <2> SUFFICES ASSUME RingInv, NEW i \in Slots
               PROVE  Cardinality(Writers(i)) = IF state[i] = "Writing" THEN 1 ELSE 0
    BY DEF WriterExclusive
  <2>1. CASE state[i] = "Writing"
    <3>1. PICK p \in Producers : pc[p] = "writing" /\ slot[p] = i
      BY <2>1 DEF RingInv, OwnersInv
    <3>2. Writers(i) = {p}
      BY <3>1 DEF Writers, RingInv, OwnersInv
    <3> QED
      BY <2>1, <3>2, FS_Singleton
  <2>2. CASE state[i] # "Writing"
    <3>1. Writers(i) = {}
      BY <2>2 DEF Writers, RingInv, OwnersInv
    <3> QED
      BY <2>2, <3>1, FS_EmptySet
  <2> QED
    BY <2>1, <2>2
<1> QED
  BY <1>1, RingInvariant, PTL

(* No builder ever holds a record that is torn, malformed or unsupported.  *)
THEOREM RecordsWhole == Spec => []NoTornRecord
<1>1. RingInv => NoTornRecord
  <2> SUFFICES ASSUME RingInv, NEW c \in Consumers, NEW r \in appended[c]
               PROVE  \E t \in Tasks \ (Malformed \cup Unsupported) : r.words = [w \in Words |-> t]
    BY DEF NoTornRecord
  <2>1. /\ r.slot \in Slots /\ state[r.slot] \in Out /\ r.words = record[r.slot]
        /\ \A w \in Words : r.words[w] \notin Unsupported
    BY DEF RingInv, TypeOK, AppendedInv, AppendedOf
  <2>2. PICK t \in Tasks \ Malformed : record[r.slot] = [w \in Words |-> t]
    BY <2>1 DEF RingInv, RecordsInv
  <2>3. t \notin Unsupported
    BY <2>1, <2>2, RingAssumption
  <2> QED
    BY <2>1, <2>2, <2>3
<1> QED
  BY <1>1, RingInvariant, PTL

(* append_published() succeeds at most once for a slot.                    *)
THEOREM SlotAcceptedOnce == Spec => []AcceptedOnce
<1>1. RingInv => AcceptedOnce
  BY DEF RingInv, AcceptedInv
<1> QED
  BY <1>1, RingInvariant, PTL

(* A slot is consumed only after some builder accepted its record.         *)
THEOREM NothingLost == Spec => []ConsumedWasAccepted
<1>1. RingInv => ConsumedWasAccepted
  BY DEF RingInv, AcceptedInv
<1> QED
  BY <1>1, RingInvariant, PTL

----------------------------------------------------------------------------
(* Overflow.  The slots a scan tries, and when they are all of them        *)

LEMMA Remainder ==
  ASSUME NEW c \in Nat \ {0}, NEW x \in Nat
  PROVE  (x % c) \in 0 .. (c - 1) /\ (x \div c) \in Nat /\ x = (x \div c) * c + (x % c)
  OBVIOUS

LEMMA RemainderIs ==
  ASSUME NEW c \in Nat \ {0}, NEW q \in Nat, NEW r \in 0 .. (c - 1)
  PROVE  (q * c + r) % c = r
  OBVIOUS

(* c numbers in a row have every remainder modulo c.                       *)
LEMMA EveryRemainder ==
  ASSUME NEW c \in Nat \ {0}, NEW s \in Nat, NEW i \in 0 .. (c - 1)
  PROVE  \E j \in 0 .. (c - 1) : (s + j) % c = i
<1>1. PICK q \in Nat, r \in 0 .. (c - 1) : s = q * c + r
  BY Remainder
<1>2. CASE i >= r
  <2>1. i - r \in 0 .. (c - 1) /\ s + (i - r) = q * c + i
    BY <1>1, <1>2
  <2> QED
    BY <2>1, RemainderIs
<1>3. CASE i < r
  <2>1. i - r + c \in 0 .. (c - 1) /\ s + (i - r + c) = (q + 1) * c + i /\ q + 1 \in Nat
    BY <1>1, <1>3
  <2> QED
    BY <2>1, RemainderIs
<1> QED
  BY <1>2, <1>3

(* A wrap at a multiple of c does not change the remainder modulo c.       *)
LEMMA WrapKeepsRemainder ==
  ASSUME NEW c \in Nat \ {0}, NEW d \in Nat \ {0}, d % c = 0, NEW x \in Nat
  PROVE  (x % d) % c = x % c
<1>1. PICK k \in Nat : d = k * c
  BY Remainder
<1>2. PICK q \in Nat, r \in Nat : x = q * d + r /\ r = x % d
  <2>1. (x % d) \in 0 .. (d - 1) /\ (x \div d) \in Nat /\ x = (x \div d) * d + (x % d)
    BY Remainder
  <2>2. PICK e \in Nat : e = x % d
    BY <2>1
  <2> QED
    BY <2>1, <2>2
<1>3. PICK v \in Nat, w \in 0 .. (c - 1) : r = v * c + w
  <2>1. (r % c) \in 0 .. (c - 1) /\ (r \div c) \in Nat /\ r = (r \div c) * c + (r % c)
    BY Remainder
  <2> QED
    BY <2>1
<1>4. r % c = w
  BY <1>3, RemainderIs
<1>5. q * d = (q * k) * c
  BY <1>1
<1>6. PICK a \in Nat : a = q * k
  OBVIOUS
<1>7. x = (a + v) * c + w /\ a + v \in Nat
  <2>1. x = a * c + (v * c + w)
    BY <1>2, <1>3, <1>5, <1>6
  <2>2. (a + v) * c = a * c + v * c
    OBVIOUS
  <2> QED
    BY <2>1, <2>2, <1>3
<1>8. x % c = w
  BY <1>7, RemainderIs
<1> QED
  BY <1>2, <1>4, <1>8

(* The slot a scan that began at s tries after j others                    *)
TriedSlot(s, j) == ((s + j) % CounterSize) % Capacity

(* A scan that does not wrap, or wraps at a multiple of the capacity, tries*)
(* every slot.                                                             *)
LEMMA ScanTriesAll ==
  ASSUME NEW s \in Nat, (CounterSize % Capacity = 0) \/ s + Capacity <= CounterSize, NEW i \in Slots
  PROVE  \E j \in 0 .. (Capacity - 1) : TriedSlot(s, j) = i
<1>1. Capacity \in Nat \ {0} /\ CounterSize \in Nat \ {0} /\ i \in 0 .. (Capacity - 1)
  BY RingAssumption DEF Slots
<1>2. PICK j \in 0 .. (Capacity - 1) : (s + j) % Capacity = i
  BY <1>1, EveryRemainder
<1>3. s + j \in Nat
  BY <1>1
<1>4. CASE CounterSize % Capacity = 0
  BY <1>1, <1>2, <1>3, <1>4, WrapKeepsRemainder DEF TriedSlot
<1>5. CASE s + Capacity <= CounterSize
  <2>1. s + j \in 0 .. (CounterSize - 1)
    BY <1>1, <1>5
  <2>2. (0 * CounterSize + (s + j)) % CounterSize = s + j
    BY <1>1, <2>1, RemainderIs
  <2>3. (s + j) % CounterSize = s + j
    BY <1>1, <2>2
  <2> QED
    BY <1>2, <2>3 DEF TriedSlot
<1> QED
  BY <1>4, <1>5

(* A task is worked on by one producer, who has taken it up.               *)
TakenOnce ==
  /\ \A p \in Producers : pc[p] # "idle" => task[p] \in Tasks \ remaining
  /\ \A p, q \in Producers : p # q /\ pc[p] # "idle" /\ pc[q] # "idle" => task[p] # task[q]

(* Until a slot is aborted, none that a scan has tried is free again.      *)
TriedInv ==
  NoneAborted =>
    \A p \in Producers : pc[p] = "scanning" =>
      \A j \in 0 .. (scanned[p] - 1) : state[TriedSlot(start[p], j)] # "Empty"

(* ... and while one is free, the counter has counted the scans under way  *)
(* and those that took a slot, each scan having begun below it.            *)
Full == {i \in Slots : state[i] # "Empty"}
Scanning == {p \in Producers : pc[p] = "scanning"}
CountInv ==
  NoneAborted /\ Full # Slots =>
    /\ nextSlot = Cardinality(Full) + Cardinality(Scanning)
    /\ \A p \in Scanning : start[p] < nextSlot

LEMMA TakenOnceStep ==
  ASSUME TypeOK, TakenOnce, [Next]_vars
  PROVE  TakenOnce'
<1>1. ASSUME NEW p \in Producers, NEW t \in Tasks, BeginPublish(p, t) PROVE TakenOnce'
  BY <1>1 DEF BeginPublish, TakenOnce, TypeOK, Threads
<1>2. ASSUME NEW p \in Producers,
             Reserve(p) \/ TryNext(p) \/ Overflow(p) \/ (\E w \in Words : WriteWord(p, w))
               \/ Abort(p) \/ Publish(p)
      PROVE  TakenOnce'
  <2>1. /\ UNCHANGED <<remaining, task>>
        /\ \A q \in Producers : pc'[q] # "idle" => pc[q] # "idle"
    BY <1>2 DEF Reserve, TryNext, Overflow, WriteWord, Abort, Publish, producerVars, TypeOK, Threads
  <2> QED
    BY <2>1 DEF TakenOnce
<1>3. ASSUME NEW c \in Consumers, Take(c) PROVE TakenOnce'
  <2>1. UNCHANGED <<remaining, task>> /\ \A q \in Producers : pc'[q] = pc[q]
    <3>1. \A q \in Producers : q # c
      BY RingAssumption
    <3> QED
      BY <1>3, <3>1 DEF Take, Acquire, CopyWord, Append, RefuseAppend, Consume, ConsumeTooLate,
         producerVars, consumerVars, TypeOK, Threads
  <2> QED
    BY <2>1 DEF TakenOnce
<1>4. CASE UNCHANGED vars
  BY <1>4 DEF vars, producerVars, TakenOnce
<1> QED
  BY <1>1, <1>2, <1>3, <1>4 DEF Next, Produce

(* The steps of a task that has been taken up leave it taken up.           *)
LEMMA NoneAbortedBefore ==
  ASSUME TypeOK, TakenOnce, [Next]_vars, NoneAborted'
  PROVE  NoneAborted /\ \A p \in Producers : ~Abort(p)
<1>1. ASSUME NEW p \in Producers, NEW t \in Tasks, BeginPublish(p, t) PROVE NoneAborted
  <2>1. /\ pc[p] = "idle" /\ t \in remaining /\ remaining' = remaining \ {t}
        /\ \A q \in Producers \ {p} : task'[q] = task[q] /\ pc'[q] = pc[q]
        /\ task'[p] = t
    BY <1>1 DEF BeginPublish, TypeOK, Threads
  <2> QED
    BY <2>1 DEF NoneAborted
<1>2. ASSUME NEW p \in Producers,
             Reserve(p) \/ TryNext(p) \/ Overflow(p) \/ (\E w \in Words : WriteWord(p, w))
               \/ Abort(p) \/ Publish(p)
      PROVE  NoneAborted
  <2>1. /\ UNCHANGED <<remaining, task>>
        /\ \A q \in Producers : pc'[q] # "idle" => pc[q] # "idle"
    BY <1>2 DEF Reserve, TryNext, Overflow, WriteWord, Abort, Publish, producerVars, TypeOK, Threads
  <2> QED
    BY <2>1 DEF NoneAborted
<1>3. ASSUME NEW c \in Consumers, Take(c) PROVE NoneAborted
  <2>1. UNCHANGED <<remaining, task>> /\ \A q \in Producers : pc'[q] = pc[q]
    <3>1. \A q \in Producers : q # c
      BY RingAssumption
    <3> QED
      BY <1>3, <3>1 DEF Take, Acquire, CopyWord, Append, RefuseAppend, Consume, ConsumeTooLate,
         producerVars, consumerVars, TypeOK, Threads
  <2> QED
    BY <2>1 DEF NoneAborted
<1>4. ASSUME UNCHANGED vars PROVE NoneAborted
  BY <1>4 DEF vars, producerVars, NoneAborted
<1>5. ASSUME NEW p \in Producers, Abort(p) PROVE FALSE
  <2>1. /\ pc[p] = "writing" /\ task[p] \in Malformed /\ UNCHANGED <<remaining, task>>
        /\ pc'[p] = "idle" /\ \A q \in Producers \ {p} : pc'[q] = pc[q]
    BY <1>5 DEF Abort, producerVars, TypeOK, Threads
  <2>2. task[p] \in remaining' \cup {task'[q] : q \in {q \in Producers : pc'[q] # "idle"}}
    BY <2>1 DEF NoneAborted
  <2>3. task[p] \notin remaining'
    BY <2>1 DEF TakenOnce
  <2>4. PICK q \in Producers : pc'[q] # "idle" /\ task'[q] = task[p]
    BY <2>2, <2>3
  <2>5. q # p /\ pc[q] # "idle" /\ task[q] = task[p]
    BY <2>1, <2>4
  <2> QED
    BY <2>1, <2>5 DEF TakenOnce
<1> QED
  BY <1>1, <1>2, <1>3, <1>4, <1>5 DEF Next, Produce

(* The steps that are no scan's: slots stay taken, scans go on.            *)
ScansKept ==
  /\ \A i \in Slots : (state[i] = "Empty") <=> (state'[i] = "Empty")
  /\ \A p \in Producers : (pc[p] = "scanning") <=> (pc'[p] = "scanning")
  /\ UNCHANGED <<nextSlot, start, scanned>>

LEMMA ScanCases ==
  ASSUME TypeOK, TakenOnce, [Next]_vars, NoneAborted'
  PROVE  \/ ScansKept
         \/ \E p \in Producers : \/ \E t \in Tasks : BeginPublish(p, t)
                                 \/ Reserve(p) \/ TryNext(p) \/ Overflow(p)
<1>1. ASSUME NEW p \in Producers, (\E w \in Words : WriteWord(p, w)) \/ Publish(p) PROVE ScansKept
  BY <1>1 DEF WriteWord, Publish, ScansKept, producerVars, TypeOK, Threads
<1>2. ASSUME NEW c \in Consumers, Take(c) PROVE ScansKept
  <2>1. \A p \in Producers : p # c
    BY RingAssumption
  <2> QED
    BY <1>2, <2>1 DEF Take, Acquire, CopyWord, Append, RefuseAppend, Consume, ConsumeTooLate, ScansKept,
       Consumable, StateConsumed, StepAfterRefusal, producerVars, consumerVars, TypeOK, Threads
<1>3. ASSUME UNCHANGED vars PROVE ScansKept
  BY <1>3 DEF vars, producerVars, ScansKept
<1>4. \A p \in Producers : ~Abort(p)
  BY NoneAbortedBefore
<1> QED
  BY <1>1, <1>2, <1>3, <1>4 DEF Next, Produce

LEMMA TriedStep ==
  ASSUME TypeOK, TakenOnce, TriedInv, [Next]_vars
  PROVE  TriedInv'
<1> SUFFICES ASSUME NoneAborted', NEW q \in Producers, pc'[q] = "scanning",
                    NEW j \in 0 .. (scanned'[q] - 1)
             PROVE  state'[TriedSlot(start'[q], j)] # "Empty"
  BY DEF TriedInv
<1>1. \A p \in Producers : pc[p] = "scanning" =>
        \A k \in 0 .. (scanned[p] - 1) : state[TriedSlot(start[p], k)] # "Empty"
  BY NoneAbortedBefore DEF TriedInv
<1>2. \A s, k \in Nat : TriedSlot(s, k) \in Slots
  <2>1. ASSUME NEW s \in Nat, NEW k \in Nat PROVE TriedSlot(s, k) \in Slots
    <3>1. s + k \in Nat /\ CounterSize \in Nat \ {0} /\ Capacity \in Nat \ {0}
      BY RingAssumption
    <3>2. (s + k) % CounterSize \in Nat
      BY <3>1
    <3> QED
      BY <3>1, <3>2 DEF TriedSlot, Slots
  <2> QED
    BY <2>1
<1>3. ASSUME NEW p \in Producers, NEW t \in Tasks, BeginPublish(p, t)
      PROVE  state'[TriedSlot(start'[q], j)] # "Empty"
  <2>1. q # p
    BY <1>3 DEF BeginPublish, TypeOK
  <2> QED
    BY <1>1, <1>3, <2>1 DEF BeginPublish, TypeOK, Threads
<1>4. ASSUME NEW p \in Producers, Reserve(p)
      PROVE  state'[TriedSlot(start'[q], j)] # "Empty"
  <2>1. /\ pc[q] = "scanning" /\ start' = start /\ scanned' = scanned
        /\ \A i \in Slots : state[i] # "Empty" => state'[i] # "Empty"
    BY <1>4 DEF Reserve, producerVars, TypeOK, Threads
  <2>2. TriedSlot(start[q], j) \in Slots
    BY <1>2, <2>1, RingAssumption DEF TypeOK
  <2> QED
    BY <1>1, <2>1, <2>2
<1>5. ASSUME NEW p \in Producers, TryNext(p)
      PROVE  state'[TriedSlot(start'[q], j)] # "Empty"
  <2>1. /\ pc' = pc /\ start' = start /\ state' = state /\ scanned[q] \in Nat
        /\ scanned' = [scanned EXCEPT ![p] = scanned[p] + 1]
        /\ state[TriedSlot(start[p], scanned[p])] # "Empty"
    BY <1>5, RingAssumption DEF TryNext, Claimable, ScannedSlot, TriedSlot, TypeOK
  <2>2. j \in 0 .. (scanned[q] - 1) \/ (q = p /\ j = scanned[q])
    <3>1. scanned'[q] = IF q = p THEN scanned[q] + 1 ELSE scanned[q]
      BY <2>1 DEF TypeOK
    <3> QED
      BY <2>1, <3>1
  <2> QED
    BY <1>1, <2>1, <2>2
<1>6. ASSUME NEW p \in Producers, Overflow(p)
      PROVE  state'[TriedSlot(start'[q], j)] # "Empty"
  BY <1>1, <1>6 DEF Overflow, producerVars, TypeOK, Threads
<1>7. CASE ScansKept
  <2>1. TriedSlot(start[q], j) \in Slots
    BY <1>2, <1>7, RingAssumption DEF ScansKept, TypeOK
  <2> QED
    BY <1>1, <1>7, <2>1 DEF ScansKept
<1> QED
  BY <1>3, <1>4, <1>5, <1>6, <1>7, ScanCases

(* Where every scan tries all the slots, one that ends without a slot has  *)
(* found each of them taken.                                               *)
LEMMA OverflowFull ==
  ASSUME TypeOK, TriedInv, NoneAborted, NEW p \in Producers, Overflow(p),
         (CounterSize % Capacity = 0) \/ start[p] + Capacity <= CounterSize
  PROVE  Full = Slots
<1>1. pc[p] = "scanning" /\ scanned[p] = Capacity
  BY DEF Overflow, ScanEnds
<1>2. \A j \in 0 .. (Capacity - 1) : state[TriedSlot(start[p], j)] # "Empty"
  BY <1>1 DEF TriedInv
<1>3. start[p] \in Nat
  BY RingAssumption DEF TypeOK
<1>4. ASSUME NEW i \in Slots PROVE state[i] # "Empty"
  BY <1>2, <1>3, ScanTriesAll
<1> QED
  BY <1>4 DEF Full

(* The counter cannot have wrapped while a slot is free, if it counts far  *)
(* enough for the slots and the threads.                                   *)
CounterIsWide ==
  IsFiniteSet(Producers) /\ 2 * Capacity + Cardinality(Producers) <= CounterSize

LEMMA NoWrapWhileFree ==
  ASSUME TypeOK, CountInv, CounterIsWide, NoneAborted, Full # Slots
  PROVE  /\ IsFiniteSet(Full) /\ IsFiniteSet(Scanning)
         /\ Cardinality(Full) \in Nat /\ Cardinality(Scanning) \in Nat /\ Cardinality(Producers) \in Nat
         /\ Cardinality(Full) < Capacity /\ Cardinality(Scanning) <= Cardinality(Producers)
         /\ \A p \in Producers : pc[p] = "idle" => Cardinality(Scanning) < Cardinality(Producers)
<1>1. IsFiniteSet(Slots) /\ Cardinality(Slots) = Capacity
  <2>1. 0 \in Int /\ Capacity - 1 \in Int /\ Capacity - 1 - 0 + 1 = Capacity /\ ~(0 > Capacity - 1)
    BY RingAssumption
  <2> QED
    BY <2>1, FS_Interval DEF Slots
<1>2. Full \subseteq Slots /\ Scanning \subseteq Producers /\ IsFiniteSet(Producers)
  BY DEF Full, Scanning, CounterIsWide
<1>3. IsFiniteSet(Full) /\ Cardinality(Full) <= Cardinality(Slots)
      /\ (Cardinality(Slots) = Cardinality(Full) => Slots = Full)
  BY <1>1, <1>2, FS_Subset
<1>4. IsFiniteSet(Scanning) /\ Cardinality(Scanning) <= Cardinality(Producers)
      /\ (Cardinality(Producers) = Cardinality(Scanning) => Producers = Scanning)
  BY <1>2, FS_Subset
<1>5. Cardinality(Full) \in Nat /\ Cardinality(Scanning) \in Nat /\ Cardinality(Producers) \in Nat
  BY <1>2, <1>3, <1>4, FS_CardinalityType
<1>6. Cardinality(Full) < Capacity
  BY <1>1, <1>3, <1>5, RingAssumption
<1>7. ASSUME NEW p \in Producers, pc[p] = "idle" PROVE Cardinality(Scanning) < Cardinality(Producers)
  <2>1. Scanning # Producers
    BY <1>7 DEF Scanning
  <2> QED
    BY <1>4, <1>5, <2>1
<1> QED
  BY <1>3, <1>4, <1>5, <1>6, <1>7

LEMMA CountStep ==
  ASSUME TypeOK, TakenOnce, TriedInv, CountInv, CounterIsWide, [Next]_vars
  PROVE  CountInv'
<1> SUFFICES ASSUME NoneAborted', Full' # Slots
             PROVE  /\ nextSlot' = Cardinality(Full') + Cardinality(Scanning')
                    /\ \A q \in Scanning' : start'[q] < nextSlot'
  BY DEF CountInv, Slots
<1>0. NoneAborted /\ Capacity \in Nat \ {0} /\ CounterSize \in Nat \ {0}
  BY NoneAbortedBefore, RingAssumption
<1>1. Full # Slots =>
        /\ nextSlot = Cardinality(Full) + Cardinality(Scanning)
        /\ \A q \in Scanning : start[q] < nextSlot
        /\ IsFiniteSet(Full) /\ IsFiniteSet(Scanning)
        /\ Cardinality(Full) \in Nat /\ Cardinality(Scanning) \in Nat /\ Cardinality(Producers) \in Nat
        /\ Cardinality(Full) < Capacity /\ Cardinality(Scanning) <= Cardinality(Producers)
        /\ \A p \in Producers : pc[p] = "idle" => Cardinality(Scanning) < Cardinality(Producers)
  BY <1>0, NoWrapWhileFree DEF CountInv
<1>2. CASE ScansKept
  <2>1. Full' = Full /\ Scanning' = Scanning
    BY <1>2 DEF ScansKept, Full, Scanning, Slots
  <2> QED
    BY <1>1, <1>2, <2>1 DEF ScansKept
<1>3. ASSUME NEW p \in Producers, NEW t \in Tasks, BeginPublish(p, t)
      PROVE  /\ nextSlot' = Cardinality(Full') + Cardinality(Scanning')
             /\ \A q \in Scanning' : start'[q] < nextSlot'
  <2>1. /\ pc[p] = "idle" /\ p \notin Scanning
        /\ nextSlot' = (nextSlot + 1) % CounterSize
        /\ start'[p] = nextSlot /\ \A q \in Producers \ {p} : start'[q] = start[q]
    BY <1>3 DEF BeginPublish, Scanning, TypeOK
  <2>2. Full' = Full /\ Scanning' = Scanning \cup {p}
    BY <1>3 DEF BeginPublish, Full, Scanning, Slots, TypeOK, Threads
  <2>3. Cardinality(Scanning') = Cardinality(Scanning) + 1
    BY <1>1, <2>1, <2>2, FS_AddElement
  <2>4. nextSlot \in Nat /\ nextSlot + 1 \in 0 .. (CounterSize - 1)
    BY <1>0, <1>1, <2>1, <2>2 DEF CounterIsWide
  <2>5. nextSlot' = nextSlot + 1
    <3>1. (0 * CounterSize + (nextSlot + 1)) % CounterSize = nextSlot + 1
      BY <1>0, <2>4, RemainderIs
    <3> QED
      BY <1>0, <2>1, <2>4, <3>1
  <2>6. \A q \in Scanning : start[q] < nextSlot /\ start[q] \in Int /\ q \in Producers
    BY <1>1, <2>2 DEF Scanning, TypeOK
  <2>7. \A q \in Scanning' : start'[q] < nextSlot'
    BY <2>1, <2>2, <2>4, <2>5, <2>6
  <2> QED
    BY <1>1, <2>2, <2>3, <2>4, <2>5, <2>7
<1>4. ASSUME NEW p \in Producers, Reserve(p)
      PROVE  /\ nextSlot' = Cardinality(Full') + Cardinality(Scanning')
             /\ \A q \in Scanning' : start'[q] < nextSlot'
  <2>1. PICK i : i = ScannedSlot(p)
    OBVIOUS
  <2>2. /\ i \in Slots \ Full /\ p \in Scanning
        /\ UNCHANGED <<nextSlot, start>>
    BY <1>4, <2>1, ScannedSlotTyped DEF Reserve, Claimable, Full, Scanning, producerVars
  <2>3. Full' = Full \cup {i}
    BY <1>4, <2>1, <2>2 DEF Reserve, Full, Slots, TypeOK
  <2>4. Scanning' = Scanning \ {p}
    BY <1>4 DEF Reserve, Scanning, TypeOK, Threads
  <2>5. Cardinality(Full') = Cardinality(Full) + 1
    BY <1>1, <2>2, <2>3, FS_AddElement
  <2>6. Cardinality(Scanning') = Cardinality(Scanning) - 1
    BY <1>1, <2>2, <2>4, FS_RemoveElement
  <2> QED
    BY <1>1, <2>2, <2>3, <2>4, <2>5, <2>6
<1>5. ASSUME NEW p \in Producers, TryNext(p)
      PROVE  /\ nextSlot' = Cardinality(Full') + Cardinality(Scanning')
             /\ \A q \in Scanning' : start'[q] < nextSlot'
  <2>1. Full' = Full /\ Scanning' = Scanning /\ UNCHANGED <<nextSlot, start>>
    BY <1>5 DEF TryNext, Full, Scanning, Slots
  <2> QED
    BY <1>1, <2>1
<1>6. ASSUME NEW p \in Producers, Overflow(p) PROVE FALSE
  <2>1. Full' = Full
    BY <1>6 DEF Overflow, Full, Slots
  <2>2. p \in Scanning /\ start[p] \in Int
    BY <1>6 DEF Overflow, Scanning, TypeOK
  <2>3. start[p] + Capacity <= CounterSize
    BY <1>0, <1>1, <2>1, <2>2 DEF CounterIsWide
  <2> QED
    BY <1>0, <1>6, <2>1, <2>3, OverflowFull
<1> QED
  BY <1>2, <1>3, <1>4, <1>5, <1>6, ScanCases

LEMMA ScansInvariant ==
  ASSUME (CounterSize % Capacity = 0) \/ CounterIsWide
  PROVE  Spec => [](RingInv /\ TakenOnce /\ TriedInv /\ (CounterIsWide => CountInv))
<1>1. Init => RingInv /\ TakenOnce /\ TriedInv /\ CountInv
  <2> SUFFICES ASSUME Init PROVE RingInv /\ TakenOnce /\ TriedInv /\ CountInv
    OBVIOUS
  <2>1. Full = {} /\ Scanning = {} /\ nextSlot = 0
    BY DEF Init, Full, Scanning, Threads
  <2>2. CountInv
    BY <2>1, FS_EmptySet DEF CountInv
  <2> QED
    BY <2>2, InitRing DEF Init, TakenOnce, TriedInv, Threads
<1>2. RingInv /\ TakenOnce /\ TriedInv /\ (CounterIsWide => CountInv) /\ [Next]_vars
        => (RingInv /\ TakenOnce /\ TriedInv /\ (CounterIsWide => CountInv))'
  <2>1. CounterIsWide' = CounterIsWide
    BY DEF CounterIsWide
  <2> QED
    BY <2>1, RingInvStep, TakenOnceStep, TriedStep, CountStep DEF RingInv
<1> QED
  BY <1>1, <1>2, PTL DEF Spec

(* Until a slot is aborted, publish_task() reports an overflow only of a   *)
(* full ring: whatever the capacity, if the slot counter counts to twice   *)
(* the capacity and a slot for each thread, as 2^32 does; and however far  *)
(* it counts, if the capacity divides that.                                *)
THEOREM OverflowIsFull ==
  ASSUME (CounterSize % Capacity = 0) \/ CounterIsWide
  PROVE  Spec => OverflowMeansFull
<1> DEFINE Inv == RingInv /\ TakenOnce /\ TriedInv /\ (CounterIsWide => CountInv)
           Ends == \A p \in Producers :
                     pc[p] = "scanning" /\ pc'[p] = "idle" /\ NoneAborted =>
                       \A i \in Slots : state[i] # "Empty"
<1>1. Inv /\ [Next]_vars => [Ends]_vars
  <2> SUFFICES ASSUME RingInv, TakenOnce, TriedInv, CounterIsWide => CountInv, Next,
                      NEW p \in Producers, pc[p] = "scanning", pc'[p] = "idle", NoneAborted,
                      NEW i \in Slots
               PROVE  state[i] # "Empty"
    OBVIOUS
  <2>0. TypeOK
    BY DEF RingInv
  <2>1. Overflow(p)
    <3>1. ASSUME NEW q \in Producers, Produce(q) PROVE Overflow(p)
      BY <2>0, <3>1 DEF Produce, BeginPublish, Reserve, TryNext, Overflow, WriteWord, Abort, Publish,
         TypeOK, Threads
    <3>2. ASSUME NEW c \in Consumers, Take(c) PROVE pc'[p] = pc[p]
      <4>1. p # c
        BY RingAssumption
      <4> QED
        BY <2>0, <3>2, <4>1 DEF Take, Acquire, CopyWord, Append, RefuseAppend, Consume, ConsumeTooLate,
           TypeOK, Threads
    <3> QED
      BY <3>1, <3>2 DEF Next
  <2>2. CASE CounterSize % Capacity = 0
    <3>1. Full = Slots
      BY <2>0, <2>1, <2>2, OverflowFull
    <3> QED
      BY <3>1 DEF Full
  <2>3. CASE CounterIsWide
    <3> SUFFICES ASSUME Full # Slots PROVE FALSE
      BY DEF Full
    <3>1. /\ nextSlot = Cardinality(Full) + Cardinality(Scanning) /\ start[p] < nextSlot
          /\ Cardinality(Full) \in Nat /\ Cardinality(Scanning) \in Nat /\ Cardinality(Producers) \in Nat
          /\ Cardinality(Full) < Capacity /\ Cardinality(Scanning) <= Cardinality(Producers)
      BY <2>0, <2>3, NoWrapWhileFree DEF CountInv, Scanning
    <3>2. start[p] \in Int /\ Capacity \in Nat /\ CounterSize \in Nat
      BY <2>0, RingAssumption DEF TypeOK
    <3>3. start[p] + Capacity <= CounterSize
      BY <2>3, <3>1, <3>2 DEF CounterIsWide
    <3> QED
      BY <2>0, <2>1, <3>3, OverflowFull
  <2> QED
    BY <2>2, <2>3
<1> QED
  BY <1>1, ScansInvariant, PTL DEF Spec, OverflowMeansFull
=============================================================================
