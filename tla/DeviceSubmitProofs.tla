------------------------- MODULE DeviceSubmitProofs -------------------------
(***************************************************************************)
(* The submit call of the three devices, for any sealed plans, regions and *)
(* failures: output is never hidden, the timeline moves only forward, each *)
(* submission is a run of its graph, the fault reported is the first in    *)
(* canonical order, split orders are published once, and what is read and  *)
(* left in memory is that of a run in canonical order.                     *)
(***************************************************************************)
EXTENDS DeviceSubmit, TLAPS, WellFoundedInduction, SequenceTheorems

(* Nothing is written before the execution; while it goes on, produced is  *)
(* set before the first byte differs; and the result carries it on.        *)
OutputInv ==
  PerTask =>
    /\ bytes = [r \in Regions |-> bytes[r]]
    /\ stage \in {"Idle", "Admitted", "Publish"} => bytes = Fresh
    /\ produced \/ bytes = Fresh
    /\ stage = "Done" /\ ~result.ok /\ bytes # Fresh => result.poison = "PartiallyProduced"

(* A task that writes nothing leaves the memory as it is. *)
LEMMA StoreNothing ==
  ASSUME NEW t, NEW m, m = [r \in Regions |-> m[r]], Written(t) = {}
  PROVE  Store(m, t) = m
  BY DEF Store

(* Every way to end a submission on Reference and Metal carries the output *)
(* that may show into the poison.                                          *)
LEMMA OutputInvStep == OutputInv /\ [Next]_vars => OutputInv'
<1> SUFFICES ASSUME OutputInv, [Next]_vars
             PROVE  OutputInv'
  OBVIOUS
<1> SUFFICES ASSUME PerTask'
             PROVE  OutputInv'
  BY DEF OutputInv
<1>0. backend' = backend
  BY DEF Next, RefuseTimeline, Admit, Proceed, DriverFails, Hold, FailHold, Publish, FailPublish,
     RunTask, FailTask, ReportFailures, Complete, RefuseSignal, FailWaitMarker, PrepareDispatch,
     FailPrepare, FlushBatch, FailFlush, RunRaster, FailRaster, SignalMarker, FailSignalMarker,
     Record, FailRecord, Return, Stop, End, vars, admission
<1>a. PerTask
  BY <1>0 DEF PerTask
<1>b. /\ bytes = [r \in Regions |-> bytes[r]]
      /\ stage \in {"Idle", "Admitted", "Publish"} => bytes = Fresh
      /\ produced \/ bytes = Fresh
      /\ stage = "Done" /\ ~result.ok /\ bytes # Fresh => result.poison = "PartiallyProduced"
  BY <1>a DEF OutputInv
<1>1. ASSUME NEW p \in Plans, RefuseTimeline(p)
      PROVE  OutputInv'
  BY <1>1, <1>b DEF RefuseTimeline, End, Failed, OutputInv, progress, memory, Fresh
<1>2. ASSUME NEW p \in Plans, Admit(p)
      PROVE  OutputInv'
  BY <1>2, <1>b DEF Admit, OutputInv, progress, memory, Fresh
<1>3. CASE Hold
  BY <1>3, <1>a, <1>b DEF Hold, OutputInv, progress, memory, Fresh
<1>4. CASE Publish
  BY <1>4, <1>b DEF Publish, OutputInv, progress, memory, Fresh
<1>5. CASE RunTask
  <2> DEFINE t == FirstOf(plan.steps, Remaining)
  <2>1. /\ produced' = (produced \/ Written(t) # {})
        /\ bytes' = Store(bytes, t)
        /\ stage = "Execute" /\ stage' = stage
    BY <1>5 DEF RunTask
  <2>2. produced' \/ bytes' = Fresh
    BY <2>1, <1>b, StoreNothing
  <2>3. bytes' = [r \in Regions |-> bytes'[r]]
    BY <2>1 DEF Store
  <2> QED
    BY <2>1, <2>2, <2>3 DEF OutputInv, Fresh
<1>6. CASE FailTask
  <2> DEFINE t == FirstOf(plan.steps, Remaining)
  <2>1. /\ produced' = (produced \/ MayShow(t))
        /\ bytes' = IF faults[t] = "Dirty" THEN Store(bytes, t) ELSE bytes
        /\ stage = "Execute" /\ stage' = stage
    BY <1>6 DEF FailTask
  <2>2. produced' \/ bytes' = Fresh
    BY <2>1, <1>b DEF MayShow
  <2>3. bytes' = [r \in Regions |-> bytes'[r]]
    BY <2>1, <1>b DEF Store
  <2> QED
    BY <2>1, <2>2, <2>3 DEF OutputInv, Fresh
<1>7. CASE ReportFailures
  BY <1>7, <1>b DEF ReportFailures, End, Failed, Poison, OutputInv, progress, memory, Fresh
<1>8. CASE Complete
  BY <1>8, <1>b DEF Complete, End, Ok, OutputInv, progress, memory, Fresh
<1>9. CASE RefuseSignal
  BY <1>9, <1>b DEF RefuseSignal, End, Failed, OutputInv, progress, memory, Fresh
<1>10. CASE PrepareDispatch \/ FlushBatch \/ RunRaster \/ SignalMarker
  BY <1>10, <1>a DEF PrepareDispatch, FlushBatch, FlushNeeded, RunRaster, SignalMarker, Dispatched
<1>11. CASE Record
  BY <1>11, <1>b DEF Record, End, Ok, OutputInv, progress, memory, Fresh
<1>12. CASE Return
  BY <1>12 DEF Return, OutputInv, Fresh
<1>13. CASE FailHold
  BY <1>13, <1>b DEF FailHold, End, Failed, OutputInv, progress, memory, Fresh
<1>14. ASSUME NEW n \in 0 .. Len(publishOrder), FailPublish(n)
       PROVE  OutputInv'
  BY <1>14, <1>b DEF FailPublish, End, Failed, OutputInv, progress, memory, Fresh
<1>15. ASSUME NEW n \in 0 .. Len(publishOrder), FailRecord(n)
       PROVE  OutputInv'
  BY <1>15, <1>b DEF FailRecord, End, Failed, OutputInv, progress, memory, Fresh
<1>16. CASE FailWaitMarker \/ FailPrepare \/ FailRaster \/ FailSignalMarker
  BY <1>16, <1>a DEF FailWaitMarker, FailPrepare, FailRaster, FailSignalMarker, Dispatched
<1>17. ASSUME NEW waited \in BOOLEAN, FailFlush(waited)
       PROVE  OutputInv'
  BY <1>17, <1>a DEF FailFlush, FlushNeeded
<1>18. CASE UNCHANGED vars
  BY <1>18, <1>b DEF vars, OutputInv, progress, memory, Fresh
<1> QED
  BY <1>1, <1>2, <1>3, <1>4, <1>5, <1>6, <1>7, <1>8, <1>9, <1>10, <1>11, <1>12, <1>13, <1>14,
     <1>15, <1>16, <1>17, <1>18 DEF Next, Proceed, DriverFails

(* ADR-054: on Reference and Metal, a submission that fails after anything *)
(* has been written is reported as PartiallyProduced.                      *)
THEOREM OutputReported == Spec => []NoHiddenOutput
<1>1. Init => OutputInv
  BY DEF Init, OutputInv, Fresh
<1>2. OutputInv => NoHiddenOutput
  BY DEF OutputInv, NoHiddenOutput, OutputIsPartiallyProduced, Fresh
<1> QED
  BY <1>1, <1>2, OutputInvStep, PTL DEF Spec

-----------------------------------------------------------------------------
(* The orders a plan is sealed with *)

(* A set of positions has a first one. *)
LEMMA FirstPosition ==
  ASSUME NEW T, T \subseteq Nat, T # {}
  PROVE  \E m \in T : \A k \in T : m <= k
<1>1. PICK m \in T : \A k \in T : ~ (<<k, m>> \in OpToRel(<, Nat))
  BY NatLessThanWellFounded, WFMin
<1>2. ASSUME NEW k \in T PROVE m <= k
  <2>1. ~ (k < m)
    BY <1>1 DEF OpToRel
  <2> QED
    BY <2>1
<1> QED
  BY <1>2

(* Both orders name each task once and go along the edges. *)
Sealed(s, p) ==
  /\ p.tasks # {}
  /\ s \in Seq(p.tasks)
  /\ \A t \in p.tasks : \E i \in DOMAIN s : s[i] = t
  /\ \A i, j \in DOMAIN s : s[i] = s[j] => i = j
  /\ \A t \in p.tasks : \A u \in p.below[t] : Before(s, t, u)

LEMMA OrdersAreSealed ==
  ASSUME NEW p \in Plans
  PROVE  Sealed(p.order, p) /\ Sealed(p.steps, p)
<1>1. p.tasks # {} /\ Linearizes(p.order, p) /\ Linearizes(p.steps, p)
  BY SubmitAssumption
<1> QED
  BY <1>1 DEF Sealed, Linearizes, ToSet, IsInjective

LEMMA BeforeIsOrder ==
  ASSUME NEW p, NEW s, Sealed(s, p)
  PROVE  /\ \A t, u \in p.tasks : t = u \/ Before(s, t, u) \/ Before(s, u, t)
         /\ \A t, u : Before(s, t, u) => t \in p.tasks /\ u \in p.tasks
                                         /\ t # u /\ ~Before(s, u, t)
         /\ \A t, u, v : Before(s, t, u) /\ Before(s, u, v) => Before(s, t, v)
<1>0. DOMAIN s = 1 .. Len(s) /\ Len(s) \in Nat /\ \A i \in DOMAIN s : s[i] \in p.tasks
  BY DEF Sealed
<1>1. ASSUME NEW t \in p.tasks, NEW u \in p.tasks
      PROVE  t = u \/ Before(s, t, u) \/ Before(s, u, t)
  <2>1. PICK i \in DOMAIN s : s[i] = t
    BY DEF Sealed
  <2>2. PICK j \in DOMAIN s : s[j] = u
    BY DEF Sealed
  <2>3. i = j \/ i < j \/ j < i
    BY <1>0
  <2> QED
    BY <2>1, <2>2, <2>3 DEF Before
<1>2. ASSUME NEW t, NEW u, Before(s, t, u)
      PROVE  t \in p.tasks /\ u \in p.tasks /\ t # u /\ ~Before(s, u, t)
  <2>1. PICK i \in DOMAIN s, j \in DOMAIN s : i < j /\ s[i] = t /\ s[j] = u
    BY <1>2 DEF Before
  <2>2. t # u
    BY <1>0, <2>1 DEF Sealed
  <2>3. ASSUME NEW k \in DOMAIN s, NEW l \in DOMAIN s, k < l, s[k] = u, s[l] = t PROVE FALSE
    <3>1. k = j /\ l = i
      BY <2>1, <2>3 DEF Sealed
    <3> QED
      BY <1>0, <2>1, <2>3, <3>1
  <2> QED
    BY <1>0, <2>1, <2>2, <2>3 DEF Before
<1>3. ASSUME NEW t, NEW u, NEW v, Before(s, t, u), Before(s, u, v)
      PROVE  Before(s, t, v)
  <2>1. PICK i \in DOMAIN s, j \in DOMAIN s : i < j /\ s[i] = t /\ s[j] = u
    BY <1>3 DEF Before
  <2>2. PICK k \in DOMAIN s, l \in DOMAIN s : k < l /\ s[k] = u /\ s[l] = v
    BY <1>3 DEF Before
  <2>3. j = k
    BY <2>1, <2>2 DEF Sealed
  <2>4. i < l
    BY <1>0, <2>1, <2>2, <2>3
  <2> QED
    BY <2>1, <2>2, <2>4 DEF Before
<1> QED
  BY <1>1, <1>2, <1>3

LEMMA FirstOfIsFirst ==
  ASSUME NEW p, NEW s, Sealed(s, p), NEW S, S \subseteq p.tasks, S # {}
  PROVE  /\ FirstOf(s, S) \in S
         /\ \A u \in S : u = FirstOf(s, S) \/ Before(s, FirstOf(s, S), u)
<1>0. DOMAIN s = 1 .. Len(s) /\ Len(s) \in Nat /\ \A i \in DOMAIN s : s[i] \in p.tasks
  BY DEF Sealed
<1> DEFINE T == {i \in DOMAIN s : s[i] \in S}
<1>1. T \subseteq Nat /\ T # {}
  BY <1>0 DEF Sealed
<1>2. PICK m \in T : \A k \in T : m <= k
  BY <1>1, FirstPosition
<1>3. ASSUME NEW u \in S \ {s[m]} PROVE Before(s, s[m], u)
  <2>1. PICK k \in DOMAIN s : s[k] = u
    BY DEF Sealed
  <2>2. k \in T /\ m # k
    BY <1>3, <2>1
  <2>3. m < k
    BY <1>0, <1>2, <2>2
  <2> QED
    BY <1>2, <2>1, <2>3 DEF Before
<1>4. \E t \in S : \A u \in S \ {t} : Before(s, t, u)
  BY <1>2, <1>3
<1> QED
  BY <1>4 DEF FirstOf

-----------------------------------------------------------------------------
(* The submission that is running *)

StageInv ==
  /\ stage \in {"Idle", "Admitted", "Publish", "Execute", "Record", "Done"}
  /\ timeline \in Nat
  /\ plan \in Plans \cup {NoPlan}
  /\ stage = "Idle" => plan = NoPlan
  /\ stage \in {"Admitted", "Publish", "Execute", "Record"} => plan \in Plans
  /\ stage \in {"Idle", "Admitted", "Publish"} \/ plan = NoPlan =>
       done = {} /\ failures = {} /\ cancelled = {} /\ position = 1 /\ batch = <<>>
  /\ stage = "Publish" => PerTask
  /\ stage = "Record" => ~PerTask /\ AtEnd /\ batch = <<>>
  /\ ~PerTask /\ stage \in {"Admitted", "Execute"} /\ plan.signal # 0 => plan.signal > timeline

(* Task by task: what has been started came after all it needs, and what   *)
(* was cancelled is what needs a task that failed, all of it.              *)
TaskInv ==
  plan \in Plans /\ PerTask =>
    /\ DOMAIN faults \subseteq plan.tasks
    /\ done \subseteq plan.tasks \ DOMAIN faults
    /\ failures \subseteq DOMAIN faults
    /\ cancelled \subseteq plan.tasks \ Started
    /\ \A t \in Started : \A u \in plan.tasks : t \in plan.below[u] => u \in done
    /\ \A c \in cancelled : \E f \in failures : c \in plan.below[f]
    /\ \A f \in failures : plan.below[f] \subseteq cancelled

(* In batches: the steps before the position are done or in the batch.     *)
BatchInv ==
  plan \in Plans /\ ~PerTask =>
    /\ failures = {} /\ cancelled = {}
    /\ position \in 1 .. Len(plan.steps) + 1
    /\ batch \in Seq(plan.tasks) /\ Len(batch) < position
    /\ \A k \in 1 .. Len(batch) : batch[k] = plan.steps[position - 1 - Len(batch) + k]
                                  /\ batch[k] \notin plan.raster
    /\ done = {plan.steps[i] : i \in 1 .. position - 1 - Len(batch)}

(* Most steps decide nothing about a task. *)
Quiet == UNCHANGED <<backend, plan, faults, done, failures, cancelled, position, batch>>

LEMMA StepCases ==
  ASSUME [Next]_vars
  PROVE  \/ Quiet
         \/ \E p \in Plans : Admit(p)
         \/ RunTask \/ FailTask \/ PrepareDispatch \/ FlushBatch \/ RunRaster \/ Return
<1>1. ASSUME NEW p \in Plans, RefuseTimeline(p) PROVE Quiet
  BY <1>1 DEF RefuseTimeline, Quiet, admission, progress, mapped
<1>2. ASSUME NEW n, FailPublish(n) \/ FailRecord(n) PROVE Quiet
  BY <1>2 DEF FailPublish, FailRecord, Quiet, admission, progress, mapped
<1>3. CASE Hold \/ FailHold \/ Publish \/ ReportFailures \/ Complete \/ RefuseSignal
  BY <1>3 DEF Hold, FailHold, Publish, ReportFailures, Complete, RefuseSignal,
     Quiet, admission, progress, mapped
<1>4. CASE FailWaitMarker \/ FailPrepare \/ FailRaster \/ FailSignalMarker \/ SignalMarker \/ Record
  BY <1>4 DEF FailWaitMarker, FailPrepare, FailRaster, FailSignalMarker, SignalMarker, Record,
     Stop, Quiet, admission, progress, mapped
<1>5. ASSUME NEW waited, FailFlush(waited) PROVE Quiet
  BY <1>5 DEF FailFlush, Stop, Quiet, admission, progress, mapped
<1>6. CASE UNCHANGED vars
  BY <1>6 DEF vars, Quiet, admission, progress, mapped
<1> QED
  BY <1>1, <1>2, <1>3, <1>4, <1>5, <1>6 DEF Next, Proceed, DriverFails

LEMMA NoTaskInReturned ==
  ASSUME Return
  PROVE  TaskInv' /\ BatchInv'
<1>1. plan' \notin Plans
  BY SubmitAssumption DEF Return
<1> QED
  BY <1>1 DEF TaskInv, BatchInv

(* All that the next task needs is done: it was started before, it did not *)
(* fail, or the task would be cancelled, and was not cancelled itself, as  *)
(* what it needs in turn has not failed.                                   *)
LEMMA NextTaskReady ==
  ASSUME TaskInv, plan \in Plans, PerTask, Remaining # {}
  PROVE  /\ FirstOf(plan.steps, Remaining) \in Remaining
         /\ \A u \in plan.tasks : FirstOf(plan.steps, Remaining) \in plan.below[u] => u \in done
<1> DEFINE t == FirstOf(plan.steps, Remaining)
<1>0. Sealed(plan.steps, plan) /\ Remaining \subseteq plan.tasks
  BY OrdersAreSealed DEF Remaining
<1>1. t \in Remaining /\ \A u \in Remaining : u = t \/ Before(plan.steps, t, u)
  BY <1>0, FirstOfIsFirst
<1> HIDE DEF t
<1>2. ASSUME NEW u \in plan.tasks, t \in plan.below[u]
      PROVE  u \in done
  <2>1. Before(plan.steps, u, t)
    BY <1>0, <1>2 DEF Sealed
  <2>2. u \notin Remaining
    BY <1>0, <1>1, <2>1, BeforeIsOrder
  <2>3. u \notin failures
    BY <1>1, <1>2 DEF TaskInv, Remaining
  <2>4. ASSUME u \in cancelled PROVE FALSE
    <3>1. PICK f \in failures : u \in plan.below[f]
      BY <2>4 DEF TaskInv
    <3>2. f \in plan.tasks
      BY <3>1 DEF TaskInv
    <3>3. t \in plan.below[f]
      BY <1>2, <3>1, <3>2, SubmitAssumption
    <3> QED
      BY <1>1, <3>1, <3>3 DEF TaskInv, Remaining
  <2> QED
    BY <1>2, <2>2, <2>3, <2>4 DEF Remaining, Started
<1> QED
  BY <1>1, <1>2 DEF t

LEMMA TaskInvStep ==
  ASSUME StageInv, TaskInv, [Next]_vars
  PROVE  TaskInv'
<1>1. CASE Quiet
  BY <1>1 DEF Quiet, TaskInv, PerTask, Started
<1>2. ASSUME NEW p \in Plans, Admit(p) PROVE TaskInv'
  <2>1. plan' = p /\ done' = {} /\ failures' = {} /\ cancelled' = {} /\ backend' = backend
    BY <1>2 DEF Admit, StageInv, progress
  <2>2. PerTask => DOMAIN faults' \subseteq p.tasks
    BY <1>2 DEF Admit, FaultChoices, Faulty
  <2> QED
    BY <2>1, <2>2 DEF TaskInv, PerTask, Started
<1>3. CASE RunTask
  <2> DEFINE t == FirstOf(plan.steps, Remaining)
  <2>1. /\ stage = "Execute" /\ PerTask /\ Remaining # {}
        /\ t \notin DOMAIN faults
        /\ done' = done \cup {t}
        /\ UNCHANGED <<backend, plan, faults, failures, cancelled>>
    BY <1>3 DEF RunTask, admission
  <2>2. plan \in Plans
    BY <2>1 DEF StageInv
  <2>3. t \in Remaining /\ \A u \in plan.tasks : t \in plan.below[u] => u \in done
    BY <2>1, <2>2, NextTaskReady
  <2> HIDE DEF t
  <2>4. Started' = Started \cup {t} /\ t \in plan.tasks /\ t \notin Started /\ t \notin cancelled
    BY <2>1, <2>3 DEF Started, Remaining
  <2> QED
    BY <2>1, <2>2, <2>3, <2>4 DEF TaskInv, PerTask
<1>4. CASE FailTask
  <2> DEFINE t == FirstOf(plan.steps, Remaining)
  <2>1. /\ stage = "Execute" /\ PerTask /\ Remaining # {}
        /\ t \in DOMAIN faults
        /\ failures' = failures \cup {t}
        /\ cancelled' = cancelled \cup Cancelled(t)
        /\ UNCHANGED <<backend, plan, faults, done>>
    BY <1>4 DEF FailTask, admission
  <2>2. plan \in Plans
    BY <2>1 DEF StageInv
  <2>3. t \in Remaining /\ \A u \in plan.tasks : t \in plan.below[u] => u \in done
    BY <2>1, <2>2, NextTaskReady
  <2> HIDE DEF t
  <2>4. Started' = Started \cup {t} /\ t \in plan.tasks /\ t \notin Started /\ t \notin cancelled
    BY <2>1, <2>3 DEF Started, Remaining
  <2>5. plan.below[t] \subseteq plan.tasks \ {t}
    <3>1. Sealed(plan.steps, plan)
      BY <2>2, OrdersAreSealed
    <3>2. \A u \in plan.below[t] : Before(plan.steps, t, u)
      BY <2>4, <3>1 DEF Sealed
    <3> QED
      BY <3>1, <3>2, BeforeIsOrder
  <2>6. plan.below[t] \cap Started = {}
    BY <2>1, <2>2, <2>4 DEF TaskInv, Started
  <2>7. cancelled' = cancelled \cup plan.below[t]
    BY <2>1, <2>6 DEF Cancelled
  <2> QED
    BY <2>1, <2>2, <2>3, <2>4, <2>5, <2>6, <2>7 DEF TaskInv, PerTask
<1>5. CASE PrepareDispatch \/ FlushBatch \/ RunRaster
  <2>1. ~PerTask /\ backend' = backend
    BY <1>5 DEF PrepareDispatch, FlushBatch, FlushNeeded, RunRaster, admission
  <2> QED
    BY <2>1 DEF TaskInv, PerTask
<1> QED
  BY <1>1, <1>2, <1>3, <1>4, <1>5, StepCases, NoTaskInReturned

(* The next task in a batch or to be drawn: what comes before it in the    *)
(* steps is done or in the batch.                                          *)
LEMMA StepsDone ==
  ASSUME BatchInv, plan \in Plans, ~PerTask
  PROVE  /\ \A i \in 1 .. position - 1 : plan.steps[i] \in done \cup ToSet(batch)
         /\ ToSet(batch) = {plan.steps[i] : i \in position - Len(batch) .. position - 1}
         /\ Len(plan.steps) \in Nat /\ position \in Nat /\ Len(batch) \in Nat
         /\ DOMAIN plan.steps = 1 .. Len(plan.steps) /\ DOMAIN batch = 1 .. Len(batch)
<1>0. Sealed(plan.steps, plan)
  BY OrdersAreSealed
<1>1. Len(plan.steps) \in Nat /\ position \in Nat /\ Len(batch) \in Nat
      /\ DOMAIN plan.steps = 1 .. Len(plan.steps) /\ DOMAIN batch = 1 .. Len(batch)
  BY <1>0 DEF BatchInv, Sealed
<1>2. ToSet(batch) = {plan.steps[i] : i \in position - Len(batch) .. position - 1}
  <2>1. ASSUME NEW k \in 1 .. Len(batch)
        PROVE  \E i \in position - Len(batch) .. position - 1 : batch[k] = plan.steps[i]
    <3>1. position - 1 - Len(batch) + k \in position - Len(batch) .. position - 1
      BY <1>1
    <3> QED
      BY <3>1 DEF BatchInv
  <2>2. ASSUME NEW i \in position - Len(batch) .. position - 1
        PROVE  \E k \in 1 .. Len(batch) : batch[k] = plan.steps[i]
    <3>1. i - (position - 1 - Len(batch)) \in 1 .. Len(batch)
          /\ position - 1 - Len(batch) + (i - (position - 1 - Len(batch))) = i
      BY <1>1
    <3> QED
      BY <3>1 DEF BatchInv
  <2>3. ToSet(batch) = {batch[k] : k \in 1 .. Len(batch)}
    BY <1>1 DEF ToSet
  <2> QED
    BY <2>1, <2>2, <2>3
<1>3. ASSUME NEW i \in 1 .. position - 1
      PROVE  plan.steps[i] \in done \cup ToSet(batch)
  <2>1. i \in 1 .. position - 1 - Len(batch) \/ i \in position - Len(batch) .. position - 1
    BY <1>1
  <2> QED
    BY <1>2, <2>1 DEF BatchInv
<1> QED
  BY <1>1, <1>2, <1>3

LEMMA BatchInvStep ==
  ASSUME StageInv, BatchInv, [Next]_vars
  PROVE  BatchInv'
<1>1. CASE Quiet
  BY <1>1 DEF Quiet, BatchInv, PerTask
<1>2. ASSUME NEW p \in Plans, Admit(p) PROVE BatchInv'
  <2>1. /\ plan' = p /\ done' = {} /\ failures' = {} /\ cancelled' = {}
        /\ position' = 1 /\ batch' = <<>>
    BY <1>2 DEF Admit, StageInv, progress, mapped
  <2>2. Len(p.steps) \in Nat
    BY OrdersAreSealed DEF Sealed
  <2> QED
    BY <2>1, <2>2 DEF BatchInv
<1>3. CASE RunTask \/ FailTask
  <2>1. PerTask /\ backend' = backend
    BY <1>3 DEF RunTask, FailTask, admission
  <2> QED
    BY <2>1 DEF BatchInv, PerTask
<1>4. CASE PrepareDispatch
  <2> DEFINE t == plan.steps[position]
  <2>1. /\ ~PerTask /\ ~AtEnd /\ ~AtRaster /\ stage = "Execute"
        /\ batch' = Append(batch, t) /\ position' = position + 1
        /\ UNCHANGED <<backend, plan, done, failures, cancelled>>
    BY <1>4 DEF PrepareDispatch, admission, progress
  <2>2. plan \in Plans
    BY <2>1 DEF StageInv
  <2>3. /\ Len(plan.steps) \in Nat /\ position \in 1 .. Len(plan.steps) /\ Len(batch) \in Nat
        /\ position \in DOMAIN plan.steps
    BY <2>1, <2>2, StepsDone DEF AtEnd, BatchInv
  <2>4. t \in plan.tasks /\ t \notin plan.raster
    BY <2>1, <2>2, <2>3, OrdersAreSealed DEF Sealed, AtRaster
  <2>5. /\ batch' \in Seq(plan.tasks) /\ Len(batch') = Len(batch) + 1
        /\ batch'[Len(batch) + 1] = t
        /\ \A k \in 1 .. Len(batch) : batch'[k] = batch[k]
    <3>1. batch \in Seq(plan.tasks)
      BY <2>1, <2>2 DEF BatchInv
    <3> HIDE DEF t
    <3> QED
      BY <2>1, <2>4, <3>1
  <2>6. position' - 1 - Len(batch') = position - 1 - Len(batch)
        /\ position - 1 - Len(batch) + (Len(batch) + 1) = position
    BY <2>1, <2>3, <2>5
  <2>7. ASSUME NEW k \in 1 .. Len(batch')
        PROVE  batch'[k] = plan.steps[position' - 1 - Len(batch') + k] /\ batch'[k] \notin plan.raster
    <3>1. k \in 1 .. Len(batch) \/ k = Len(batch) + 1
      BY <2>3, <2>5
    <3> QED
      BY <2>1, <2>2, <2>4, <2>5, <2>6, <3>1 DEF BatchInv
  <2>8. position' \in 1 .. Len(plan.steps) + 1 /\ Len(batch') < position'
    BY <2>1, <2>2, <2>3, <2>5 DEF BatchInv
  <2>9. /\ failures' = {} /\ cancelled' = {}
        /\ done' = {plan.steps[i] : i \in 1 .. position' - 1 - Len(batch')}
    <3>1. failures = {} /\ cancelled = {} /\ done = {plan.steps[i] : i \in 1 .. position - 1 - Len(batch)}
      BY <2>1, <2>2 DEF BatchInv
    <3> QED
      BY <2>1, <2>6, <3>1
  <2> HIDE DEF t
  <2>10. plan' = plan /\ batch' \in Seq(plan.tasks)
    BY <2>1, <2>5
  <2> QED
    BY <2>7, <2>8, <2>9, <2>10 DEF BatchInv
<1>5. CASE FlushBatch
  <2>1. /\ ~PerTask /\ stage = "Execute"
        /\ done' = done \cup ToSet(batch) /\ batch' = <<>>
        /\ UNCHANGED <<backend, plan, failures, cancelled, position>>
    BY <1>5 DEF FlushBatch, FlushNeeded, admission
  <2>2. plan \in Plans
    BY <2>1 DEF StageInv
  <2>3. done' = {plan.steps[i] : i \in 1 .. position - 1}
    <3>1. /\ ToSet(batch) = {plan.steps[i] : i \in position - Len(batch) .. position - 1}
          /\ position \in Nat /\ Len(batch) \in Nat /\ Len(batch) < position
          /\ done = {plan.steps[i] : i \in 1 .. position - 1 - Len(batch)}
      BY <2>1, <2>2, StepsDone DEF BatchInv
    <3>2. 1 .. position - 1 = (1 .. position - 1 - Len(batch)) \cup (position - Len(batch) .. position - 1)
      BY <3>1
    <3> QED
      BY <2>1, <3>1, <3>2
  <2>4. Len(batch') = 0 /\ batch' \in Seq(plan.tasks)
    BY <2>1
  <2>5. position \in Nat /\ position - 1 - 0 = position - 1 /\ 0 < position
    BY <2>1, <2>2, StepsDone DEF BatchInv
  <2> QED
    BY <2>1, <2>2, <2>3, <2>4, <2>5 DEF BatchInv, PerTask
<1>6. CASE RunRaster
  <2> DEFINE t == plan.steps[position]
  <2>1. /\ ~PerTask /\ AtRaster /\ stage = "Execute" /\ batch = <<>>
        /\ done' = done \cup {t} /\ position' = position + 1
        /\ UNCHANGED <<backend, plan, failures, cancelled, batch>>
    BY <1>6 DEF RunRaster, admission
  <2>2. plan \in Plans
    BY <2>1 DEF StageInv
  <2>3. /\ Len(plan.steps) \in Nat /\ position \in 1 .. Len(plan.steps) /\ Len(batch) = 0
        /\ done = {plan.steps[i] : i \in 1 .. position - 1 - Len(batch)}
    BY <2>1, <2>2, StepsDone DEF AtEnd, AtRaster, BatchInv
  <2>4. done' = {plan.steps[i] : i \in 1 .. position' - 1 - Len(batch)}
    <3>1. 1 .. position' - 1 - Len(batch) = (1 .. position - 1 - Len(batch)) \cup {position}
      BY <2>1, <2>3
    <3> QED
      BY <2>1, <2>3, <3>1
  <2>5. position' \in 1 .. Len(plan.steps) + 1 /\ Len(batch) < position'
    BY <2>1, <2>3
  <2> HIDE DEF t
  <2>6. batch' \in Seq(plan.tasks) /\ Len(batch') = 0 /\ Len(batch) = 0
    BY <2>1
  <2>7. failures' = {} /\ cancelled' = {}
    BY <2>1, <2>2 DEF BatchInv
  <2>8. \A k \in 1 .. Len(batch') : FALSE
    BY <2>6
  <2>9. plan' = plan /\ done' = {plan.steps[i] : i \in 1 .. position' - 1 - Len(batch')}
        /\ position' \in 1 .. Len(plan.steps) + 1 /\ Len(batch') < position'
    BY <2>1, <2>4, <2>5, <2>6
  <2> QED
    BY <2>6, <2>7, <2>8, <2>9 DEF BatchInv
<1> QED
  BY <1>1, <1>2, <1>3, <1>4, <1>5, <1>6, StepCases, NoTaskInReturned

LEMMA StageInvStep ==
  ASSUME StageInv, [Next]_vars
  PROVE  StageInv'
<1>0. \A p \in Plans : p.signal \in Nat /\ p # NoPlan
  BY SubmitAssumption
<1> DEFINE Ended == /\ stage' = "Done"
                    /\ timeline' \in {timeline, plan.signal} /\ (timeline' # timeline => plan \in Plans)
                    /\ UNCHANGED <<plan, done, failures, cancelled, position, batch>>
<1>1. ASSUME Ended PROVE StageInv'
  BY <1>0, <1>1 DEF StageInv
<1>2. ASSUME NEW p \in Plans, RefuseTimeline(p) PROVE Ended
  BY <1>2 DEF RefuseTimeline, End, device, admission, progress, mapped
<1>3. ASSUME NEW n, FailPublish(n) \/ FailRecord(n) PROVE Ended
  BY <1>3 DEF FailPublish, FailRecord, End, device, admission, progress, mapped
<1>4. CASE FailHold \/ ReportFailures \/ RefuseSignal \/ Record
  BY <1>1, <1>4
     DEF FailHold, ReportFailures, RefuseSignal, Record, End, device, admission, progress, mapped
<1>5. CASE Complete \/ FailSignalMarker
  BY <1>1, <1>5
     DEF Complete, FailSignalMarker, Dispatched, Stop, End, StageInv, admission, progress, mapped
<1>6. CASE FailWaitMarker \/ FailPrepare \/ FailRaster
  BY <1>1, <1>6
     DEF FailWaitMarker, FailPrepare, FailRaster, Stop, End, device, admission, progress, mapped
<1>7. ASSUME NEW waited, FailFlush(waited) PROVE Ended
  BY <1>7 DEF FailFlush, FlushNeeded, Stop, End, device, admission, progress, mapped
<1>8. ASSUME NEW p \in Plans, Admit(p) PROVE StageInv'
  <2>1. /\ stage = "Idle" /\ stage' = "Admitted" /\ plan' = p /\ timeline' = timeline
        /\ UNCHANGED <<done, failures, cancelled, position, batch>>
        /\ ~Refused(p) /\ backend' = backend
    BY <1>8 DEF Admit, progress, mapped
  <2>2. ~PerTask' /\ p.signal # 0 => p.signal > timeline
    BY <1>0, <2>1 DEF Refused, PerTask, StageInv
  <2> QED
    BY <2>1, <2>2 DEF StageInv
<1>9. CASE Hold
  BY <1>9 DEF Hold, StageInv, PerTask, device, admission, progress, mapped
<1>10. CASE Publish
  BY <1>10 DEF Publish, StageInv, PerTask, device, admission, progress, mapped
<1>11. CASE RunTask \/ FailTask
  BY <1>0, <1>11 DEF RunTask, FailTask, StageInv, PerTask, device, admission
<1>12. CASE PrepareDispatch \/ FlushBatch \/ RunRaster
  BY <1>0, <1>12 DEF PrepareDispatch, FlushBatch, FlushNeeded, RunRaster, StageInv, PerTask,
     device, admission
<1>13. CASE SignalMarker
  <2>1. /\ stage = "Execute" /\ stage' = "Record" /\ ~PerTask /\ AtEnd /\ batch = <<>>
        /\ timeline' \in {timeline, plan.signal}
        /\ UNCHANGED <<backend, plan, done, failures, cancelled, position, batch>>
    BY <1>13 DEF SignalMarker, Dispatched, admission, progress, mapped
  <2> QED
    BY <1>0, <2>1 DEF StageInv, PerTask, AtEnd
<1>14. CASE Return
  BY <1>0, <1>14 DEF Return, StageInv
<1>15. CASE UNCHANGED vars
  BY <1>15 DEF vars, StageInv, PerTask, AtEnd, device, admission, progress, mapped
<1> HIDE DEF Ended
<1> QED
  BY <1>1, <1>2, <1>3, <1>4, <1>5, <1>6, <1>7, <1>8, <1>9, <1>10, <1>11, <1>12, <1>13, <1>14, <1>15
     DEF Next, Proceed, DriverFails

RunInv == StageInv /\ TaskInv /\ BatchInv

LEMMA RunInvariant == Spec => []RunInv
<1>1. Init => RunInv
  BY SubmitAssumption DEF Init, RunInv, StageInv, TaskInv, BatchInv
<1>2. RunInv /\ [Next]_vars => RunInv'
  BY StageInvStep, TaskInvStep, BatchInvStep DEF RunInv
<1> QED
  BY <1>1, <1>2, PTL DEF Spec

-----------------------------------------------------------------------------
(* The timeline *)

LEMMA NothingRemains ==
  ASSUME TaskInv, plan \in Plans, PerTask, Remaining = {}, AllSucceeded
  PROVE  done = plan.tasks
<1>1. failures = {} /\ cancelled = {}
  BY DEF AllSucceeded, TaskInv
<1> QED
  BY <1>1 DEF TaskInv, Remaining, Started

LEMMA LastStepDone ==
  ASSUME BatchInv, plan \in Plans, ~PerTask, AtEnd, batch = <<>>
  PROVE  done = plan.tasks
<1>0. Sealed(plan.steps, plan)
  BY OrdersAreSealed
<1>1. /\ Len(plan.steps) \in Nat /\ position = Len(plan.steps) + 1 /\ Len(batch) = 0
      /\ DOMAIN plan.steps = 1 .. Len(plan.steps)
      /\ done = {plan.steps[i] : i \in 1 .. position - 1 - Len(batch)}
  BY StepsDone DEF AtEnd, BatchInv
<1>2. done = {plan.steps[i] : i \in DOMAIN plan.steps}
  <2>1. position - 1 - Len(batch) = Len(plan.steps)
    BY <1>1
  <2> QED
    BY <1>1, <2>1
<1>3. \A i \in DOMAIN plan.steps : plan.steps[i] \in plan.tasks
  BY <1>0 DEF Sealed
<1> QED
  BY <1>0, <1>2, <1>3 DEF Sealed

(* A signal is given only where the timeline check or the signal itself    *)
(* has compared it, and where nothing is left to run.                      *)
LEMMA SignalStep ==
  ASSUME RunInv, [Next]_vars, timeline' # timeline
  PROVE  timeline' > timeline /\ timeline' = plan.signal /\ done = plan.tasks
<1>1. Complete \/ SignalMarker \/ FailSignalMarker
  BY DEF Next, RefuseTimeline, Admit, Proceed, DriverFails, Hold, FailHold, Publish, FailPublish,
     RunTask, FailTask, ReportFailures, RefuseSignal, FailWaitMarker, PrepareDispatch,
     FailPrepare, FlushBatch, FailFlush, RunRaster, FailRaster, Record, FailRecord, Return,
     Stop, End, device, vars
<1>2. CASE Complete
  <2>1. /\ stage = "Execute" /\ PerTask /\ Remaining = {} /\ AllSucceeded
        /\ timeline' = plan.signal /\ plan.signal > timeline
    BY <1>2 DEF Complete
  <2> QED
    BY <2>1, NothingRemains DEF RunInv, StageInv
<1>3. CASE SignalMarker \/ FailSignalMarker
  <2>1. /\ stage = "Execute" /\ ~PerTask /\ AtEnd /\ batch = <<>>
        /\ timeline' = plan.signal /\ plan.signal # 0
    BY <1>3 DEF SignalMarker, FailSignalMarker, Dispatched
  <2> QED
    BY <2>1, LastStepDone DEF RunInv, StageInv
<1> QED
  BY <1>1, <1>2, <1>3

(* On every device, for any plans and whatever fails: the timeline moves   *)
(* only forward, to the signal of the plan, when all its tasks are done.   *)
THEOREM TimelineIsForward == Spec => TimelineAdvances
<1>1. RunInv /\ [Next]_vars =>
        [timeline' # timeline =>
           timeline' > timeline /\ timeline' = plan.signal /\ done = plan.tasks]_vars
  BY SignalStep
<1> QED
  BY <1>1, RunInvariant, PTL DEF Spec, TimelineAdvances

-----------------------------------------------------------------------------
(* The graph run *)

(* The mapped variables of GraphRun. *)
GraphMap ==
  IF plan = NoPlan THEN [tasks |-> {}, below |-> <<>>] ELSE [tasks |-> plan.tasks, below |-> plan.below]

OutcomeMap == IF plan = NoPlan THEN <<>> ELSE [t \in plan.tasks |-> Outcome(t)]

LEMMA NoPlanIsNone == plan \in Plans => plan # NoPlan
  BY SubmitAssumption

(* Steps of one submission, by what they do to the outcomes. *)
LEMMA RunKept ==
  ASSUME plan' = plan, plan \in Plans => \A t \in plan.tasks : Outcome(t)' = Outcome(t),
         plan \in Plans \cup {NoPlan}
  PROVE  UNCHANGED Run!vars
<1>1. GraphMap' = GraphMap
  BY DEF GraphMap
<1>2. OutcomeMap' = OutcomeMap
  BY DEF OutcomeMap
<1> QED
  BY <1>1, <1>2 DEF Run!vars, GraphMap, OutcomeMap

LEMMA RunSucceeds ==
  ASSUME plan' = plan, plan \in Plans,
         NEW S, S \subseteq plan.tasks, S # {},
         \A t \in S : Outcome(t) = "Pending",
         \A t \in plan.tasks : Outcome(t)' = IF t \in S THEN "Succeeded" ELSE Outcome(t),
         \A t \in S : \A u \in plan.tasks :
            t \in plan.below[u] => u \in S \/ Outcome(u) = "Succeeded"
  PROVE  Run!Next
<1>0. plan # NoPlan
  BY NoPlanIsNone
<1>1. S \in (SUBSET Run!Undecided) \ {{}}
  BY <1>0 DEF Run!Undecided
<1>2. Run!Succeed(S)
  BY <1>0 DEF Run!Succeed, Run!Decide, Run!Needed
<1> QED
  BY <1>1, <1>2 DEF Run!Next

LEMMA RunFails ==
  ASSUME plan' = plan, plan \in Plans,
         NEW t \in plan.tasks, Outcome(t) = "Pending", Outcome(t)' = "Failed",
         \A u \in plan.tasks \ {t} :
            Outcome(u)' = IF u \in plan.below[t] THEN "Cancelled" ELSE Outcome(u),
         \A u \in plan.tasks : t \in plan.below[u] => Outcome(u) = "Succeeded",
         \A u \in plan.below[t] : u \in plan.tasks /\ Outcome(u) \in {"Pending", "Cancelled"}
  PROVE  Run!Next
<1>0. plan # NoPlan
  BY NoPlanIsNone
<1>1. t \in Run!Undecided
  BY <1>0 DEF Run!Undecided
<1>2. Run!Fail(t)
  BY <1>0 DEF Run!Fail, Run!Decide, Run!Needed
<1> QED
  BY <1>1, <1>2 DEF Run!Next

LEMMA RunEnds ==
  ASSUME plan' = plan, plan \in Plans \cup {NoPlan}, stage # "Done", stage' = "Done",
         UNCHANGED <<done, failures, cancelled>>
  PROVE  [Run!Next]_(Run!vars)
<1>1. CASE plan = NoPlan
  BY <1>1, RunKept, NoPlanIsNone
<1>2. CASE plan # NoPlan
  <2>1. \A t : Outcome(t)' = IF Outcome(t) = "Pending" THEN "Abandoned" ELSE Outcome(t)
    BY DEF Outcome
  <2>2. Run!Abandon
    BY <1>2, <2>1 DEF Run!Abandon, Run!Decide, Run!Undecided
  <2> QED
    BY <2>2 DEF Run!Next
<1> QED
  BY <1>1, <1>2

LEMMA RunInitially == Init => Run!Init
  BY DEF Init, Run!Init, Run!Idle

(* No task has two outcomes. *)
Apart ==
  /\ done \cap failures = {} /\ done \cap cancelled = {} /\ failures \cap cancelled = {}

LEMMA RunsApart ==
  ASSUME TaskInv, BatchInv, plan \in Plans
  PROVE  Apart
  BY DEF Apart, TaskInv, BatchInv, Started

LEMMA OutcomeNow ==
  ASSUME Apart
  PROVE  \A t : Outcome(t) =
                  IF t \in done THEN "Succeeded" ELSE IF t \in failures THEN "Failed"
                  ELSE IF t \in cancelled THEN "Cancelled"
                  ELSE IF stage = "Done" THEN "Abandoned" ELSE "Pending"
  BY DEF Apart, Outcome

LEMMA OutcomeNext ==
  ASSUME Apart'
  PROVE  \A t : Outcome(t)' =
                  IF t \in done' THEN "Succeeded" ELSE IF t \in failures' THEN "Failed"
                  ELSE IF t \in cancelled' THEN "Cancelled"
                  ELSE IF stage' = "Done" THEN "Abandoned" ELSE "Pending"
  BY DEF Apart, Outcome

(* What a step needs comes before it, so it is done or in the batch. *)
LEMMA NeededCameBefore ==
  ASSUME BatchInv, plan \in Plans, ~PerTask, NEW k \in 1 .. position, k \in DOMAIN plan.steps,
         NEW u \in plan.tasks, plan.steps[k] \in plan.below[u]
  PROVE  u \in done \cup ToSet(batch)
<1>0. Sealed(plan.steps, plan) /\ position \in Nat /\ DOMAIN plan.steps = 1 .. Len(plan.steps)
      /\ Len(plan.steps) \in Nat
  BY OrdersAreSealed, StepsDone
<1>1. Before(plan.steps, u, plan.steps[k])
  BY <1>0 DEF Sealed
<1>2. PICK i \in DOMAIN plan.steps, j \in DOMAIN plan.steps :
         i < j /\ plan.steps[i] = u /\ plan.steps[j] = plan.steps[k]
  BY <1>1 DEF Before
<1>3. j = k
  BY <1>0, <1>2 DEF Sealed
<1>4. i \in 1 .. position - 1
  BY <1>0, <1>2, <1>3
<1> QED
  BY <1>2, <1>4, StepsDone

(* What is in the batch, or next, is not done yet. *)
LEMMA LaterIsNotDone ==
  ASSUME BatchInv, plan \in Plans, ~PerTask, NEW k \in position - Len(batch) .. position,
         k \in DOMAIN plan.steps
  PROVE  plan.steps[k] \notin done /\ plan.steps[k] \in plan.tasks
<1>0. Sealed(plan.steps, plan) /\ DOMAIN plan.steps = 1 .. Len(plan.steps)
      /\ position \in Nat /\ Len(batch) \in Nat /\ Len(plan.steps) \in Nat
  BY OrdersAreSealed, StepsDone
<1>1. ASSUME NEW i \in 1 .. position - 1 - Len(batch), plan.steps[i] = plan.steps[k] PROVE FALSE
  <2>1. i \in DOMAIN plan.steps /\ i # k
    BY <1>0
  <2> QED
    BY <1>0, <1>1, <2>1 DEF Sealed
<1>2. plan.steps[k] \in plan.tasks
  BY <1>0 DEF Sealed
<1> QED
  BY <1>1, <1>2 DEF BatchInv

LEMMA OneRunSucceeds ==
  ASSUME plan' = plan, plan \in Plans, NEW t \in plan.tasks,
         Outcome(t) = "Pending",
         \A u \in plan.tasks : Outcome(u)' = IF u = t THEN "Succeeded" ELSE Outcome(u),
         \A u \in plan.tasks : t \in plan.below[u] => Outcome(u) = "Succeeded"
  PROVE  Run!Next
<1> DEFINE S == {t}
<1>1. /\ S \subseteq plan.tasks /\ S # {}
      /\ \A u \in S : Outcome(u) = "Pending"
      /\ \A u \in plan.tasks : Outcome(u)' = IF u \in S THEN "Succeeded" ELSE Outcome(u)
      /\ \A u \in S : \A v \in plan.tasks :
            u \in plan.below[v] => v \in S \/ Outcome(v) = "Succeeded"
  OBVIOUS
<1> HIDE DEF S
<1> QED
  BY <1>1, RunSucceeds

LEMMA RunTaskIsRunStep ==
  ASSUME RunInv, RunTask
  PROVE  Run!Next
<1>1. /\ stage = "Execute" /\ stage' = stage /\ PerTask /\ Remaining # {} /\ plan \in Plans
      /\ done' = done \cup {FirstOf(plan.steps, Remaining)}
      /\ UNCHANGED <<plan, failures, cancelled>>
  BY DEF RunTask, admission, RunInv, StageInv
<1>2. PICK t \in Remaining :
         /\ done' = done \cup {t}
         /\ \A u \in plan.tasks : t \in plan.below[u] => u \in done
  BY <1>1, NextTaskReady DEF RunInv
<1>3. t \in plan.tasks /\ t \notin done /\ t \notin failures /\ t \notin cancelled
  BY <1>2 DEF Remaining, Started
<1>4. Apart
  BY <1>1, RunsApart DEF RunInv
<1>5. Apart'
  BY <1>1, <1>2, <1>3, <1>4 DEF Apart
<1>6. /\ Outcome(t) = "Pending"
      /\ \A u : Outcome(u)' = IF u = t THEN "Succeeded" ELSE Outcome(u)
      /\ \A u \in done : Outcome(u) = "Succeeded"
  BY <1>1, <1>2, <1>3, <1>4, <1>5, OutcomeNow, OutcomeNext
<1> QED
  BY <1>1, <1>2, <1>3, <1>6, OneRunSucceeds

LEMMA FailTaskIsRunStep ==
  ASSUME RunInv, FailTask, TaskInv'
  PROVE  Run!Next
<1>1. /\ stage = "Execute" /\ stage' = stage /\ PerTask /\ Remaining # {} /\ plan \in Plans
      /\ failures' = failures \cup {FirstOf(plan.steps, Remaining)}
      /\ cancelled' = cancelled \cup Cancelled(FirstOf(plan.steps, Remaining))
      /\ UNCHANGED <<backend, plan, faults, done>>
  BY DEF FailTask, admission, RunInv, StageInv
<1>2. PICK t \in Remaining :
         /\ failures' = failures \cup {t} /\ cancelled' = cancelled \cup Cancelled(t)
         /\ \A u \in plan.tasks : t \in plan.below[u] => u \in done
  BY <1>1, NextTaskReady DEF RunInv
<1>3. t \in plan.tasks /\ t \notin done /\ t \notin failures /\ t \notin cancelled
  BY <1>2 DEF Remaining, Started
<1>4. /\ plan.below[t] \subseteq cancelled'
      /\ cancelled' \subseteq plan.tasks \ (done \cup failures \cup {t})
      /\ cancelled' \subseteq cancelled \cup plan.below[t]
  BY <1>1, <1>2 DEF TaskInv, PerTask, Started, Cancelled
<1>5. Apart
  BY <1>1, RunsApart DEF RunInv
<1>6. Apart'
  BY <1>1, <1>2, <1>3, <1>4, <1>5 DEF Apart
<1>7. Outcome(t) = "Pending" /\ Outcome(t)' = "Failed"
  BY <1>1, <1>2, <1>3, <1>4, <1>5, <1>6, OutcomeNow, OutcomeNext
<1>8. \A u \in plan.tasks \ {t} :
         Outcome(u)' = IF u \in plan.below[t] THEN "Cancelled" ELSE Outcome(u)
  BY <1>1, <1>2, <1>4, <1>5, <1>6, OutcomeNow, OutcomeNext
<1>9. \A u \in done : Outcome(u) = "Succeeded"
  BY <1>5, OutcomeNow
<1>10. \A u \in plan.below[t] : u \in plan.tasks /\ Outcome(u) \in {"Pending", "Cancelled"}
  BY <1>1, <1>4, <1>5, OutcomeNow
<1> QED
  BY <1>1, <1>2, <1>3, <1>7, <1>8, <1>9, <1>10, RunFails

LEMMA FlushIsRunStep ==
  ASSUME RunInv, FlushBatch
  PROVE  Run!Next
<1>1. /\ stage = "Execute" /\ stage' = stage /\ ~PerTask /\ batch # <<>> /\ plan \in Plans
      /\ done' = done \cup ToSet(batch) /\ UNCHANGED <<plan, failures, cancelled>>
  BY DEF FlushBatch, FlushNeeded, admission, RunInv, StageInv
<1>2. /\ batch \in Seq(plan.tasks) /\ failures = {} /\ cancelled = {}
      /\ position \in 1 .. Len(plan.steps) + 1
  BY <1>1 DEF RunInv, BatchInv
<1>3. /\ ToSet(batch) = {plan.steps[i] : i \in position - Len(batch) .. position - 1}
      /\ Len(plan.steps) \in Nat /\ position \in Nat /\ Len(batch) \in Nat
      /\ Len(batch) < position /\ DOMAIN plan.steps = 1 .. Len(plan.steps)
  BY <1>1, StepsDone DEF RunInv, BatchInv
<1>4. \A k \in position - Len(batch) .. position - 1 :
         k \in position - Len(batch) .. position /\ k \in 1 .. position /\ k \in DOMAIN plan.steps
  BY <1>2, <1>3
<1>5. ToSet(batch) # {}
  <2>1. Len(batch) > 0
    BY <1>1, <1>2, EmptySeq
  <2>2. position - 1 \in position - Len(batch) .. position - 1
    BY <1>3, <2>1
  <2> QED
    BY <1>3, <2>2
<1>6. \A t \in ToSet(batch) : t \in plan.tasks /\ t \notin done
  BY <1>1, <1>3, <1>4, LaterIsNotDone DEF RunInv
<1>7. \A t \in ToSet(batch) : \A u \in plan.tasks :
         t \in plan.below[u] => u \in ToSet(batch) \/ u \in done
  BY <1>1, <1>3, <1>4, NeededCameBefore DEF RunInv
<1>8. /\ \A t \in ToSet(batch) : Outcome(t) = "Pending"
      /\ \A u \in done : Outcome(u) = "Succeeded"
      /\ \A u : Outcome(u)' = IF u \in ToSet(batch) THEN "Succeeded" ELSE Outcome(u)
  BY <1>1, <1>2, <1>6 DEF Outcome
<1> HIDE DEF ToSet
<1> QED
  BY <1>1, <1>5, <1>6, <1>7, <1>8, RunSucceeds

LEMMA RasterIsRunStep ==
  ASSUME RunInv, RunRaster
  PROVE  Run!Next
<1>1. /\ stage = "Execute" /\ stage' = stage /\ ~PerTask /\ AtRaster /\ batch = <<>>
      /\ plan \in Plans /\ done' = done \cup {plan.steps[position]}
      /\ UNCHANGED <<plan, failures, cancelled>>
  BY DEF RunRaster, admission, RunInv, StageInv
<1>2. /\ failures = {} /\ cancelled = {} /\ ToSet(batch) = {}
      /\ position \in position - Len(batch) .. position
      /\ position \in 1 .. position /\ position \in DOMAIN plan.steps
  <2>1. failures = {} /\ cancelled = {} /\ position \in 1 .. Len(plan.steps) + 1 /\ Len(batch) = 0
    BY <1>1 DEF RunInv, BatchInv
  <2>2. DOMAIN plan.steps = 1 .. Len(plan.steps) /\ Len(plan.steps) \in Nat /\ DOMAIN batch = 1 .. 0
    BY <1>1, <2>1, StepsDone DEF RunInv
  <2>3. ToSet(batch) = {}
    BY <2>2 DEF ToSet
  <2> QED
    BY <1>1, <2>1, <2>2, <2>3 DEF AtRaster, AtEnd
<1>3. PICK t \in plan.tasks :
         /\ done' = done \cup {t} /\ t \notin done
         /\ \A u \in plan.tasks : t \in plan.below[u] => u \in done
  <2>1. plan.steps[position] \in plan.tasks /\ plan.steps[position] \notin done
    BY <1>1, <1>2, LaterIsNotDone DEF RunInv
  <2>2. \A u \in plan.tasks : plan.steps[position] \in plan.below[u] => u \in done
    BY <1>1, <1>2, NeededCameBefore DEF RunInv
  <2> QED
    BY <1>1, <2>1, <2>2
<1>4. Apart /\ Apart'
  BY <1>1, <1>2 DEF Apart
<1>5. /\ Outcome(t) = "Pending"
      /\ \A u : Outcome(u)' = IF u = t THEN "Succeeded" ELSE Outcome(u)
      /\ \A u \in done : Outcome(u) = "Succeeded"
  BY <1>1, <1>2, <1>3, <1>4, OutcomeNow, OutcomeNext
<1> QED
  BY <1>1, <1>3, <1>5, OneRunSucceeds

(* Admission starts the run, with nothing decided about any task. *)
LEMMA AdmitIsRunStep ==
  ASSUME RunInv, NEW p \in Plans, Admit(p)
  PROVE  Run!Next
<1>1. /\ stage = "Idle" /\ plan = NoPlan /\ plan' = p /\ stage' = "Admitted"
      /\ done' = {} /\ failures' = {} /\ cancelled' = {}
  BY DEF Admit, progress, RunInv, StageInv
<1>2. plan' # NoPlan
  BY <1>1, SubmitAssumption
<1>3. \A t : Outcome(t)' = "Pending"
  BY <1>1 DEF Outcome
<1> DEFINE g == [tasks |-> p.tasks, below |-> p.below]
<1>4. g \in {[tasks |-> q.tasks, below |-> q.below] : q \in Plans}
  OBVIOUS
<1>5. Run!Start(g)
  BY <1>1, <1>2, <1>3 DEF Run!Start, Run!Idle
<1> QED
  BY <1>4, <1>5 DEF Run!Next

(* When the caller has the result, nothing of the plan is undecided. *)
LEMMA ReturnIsRunStep ==
  ASSUME RunInv, Return
  PROVE  [Run!Next]_(Run!vars)
<1>1. stage = "Done" /\ plan' = NoPlan /\ plan \in Plans \cup {NoPlan}
  BY DEF Return, RunInv, StageInv
<1>2. CASE plan = NoPlan
  BY <1>1, <1>2, RunKept, NoPlanIsNone
<1>3. CASE plan # NoPlan
  <2>1. Apart
    BY <1>1, <1>3, RunsApart DEF RunInv
  <2>2. \A t : Outcome(t) # "Pending"
    BY <1>1, <2>1, OutcomeNow
  <2>3. Run!Finish
    BY <1>1, <1>3, <2>2 DEF Run!Finish, Run!Undecided, Run!Idle
  <2> QED
    BY <2>3 DEF Run!Next
<1> QED
  BY <1>2, <1>3

(* A step that goes on with the submission, or ends it, and leaves what is *)
(* decided about the tasks alone.                                          *)
LEMMA QuietIsRunStep ==
  ASSUME RunInv, UNCHANGED <<plan, done, failures, cancelled>>,
         stage' = "Done" \/ stage # "Done"
  PROVE  [Run!Next]_(Run!vars)
<1>1. plan \in Plans \cup {NoPlan}
  BY DEF RunInv, StageInv
<1>2. CASE stage # "Done" /\ stage' = "Done"
  BY <1>1, <1>2, RunEnds
<1>3. CASE (stage = "Done") = (stage' = "Done")
  <2>1. \A t : Outcome(t)' = Outcome(t)
    BY <1>3 DEF Outcome
  <2> QED
    BY <1>1, <2>1, RunKept
<1> QED
  BY <1>2, <1>3

LEMMA GraphRunStep ==
  ASSUME RunInv, [Next]_vars
  PROVE  [Run!Next]_(Run!vars)
<1>1. ASSUME NEW p \in Plans, RefuseTimeline(p) PROVE [Run!Next]_(Run!vars)
  BY <1>1, QuietIsRunStep DEF RefuseTimeline, End, admission, progress
<1>2. ASSUME NEW p \in Plans, Admit(p) PROVE [Run!Next]_(Run!vars)
  BY <1>2, AdmitIsRunStep
<1>3. CASE Hold \/ FailHold \/ Publish
  BY <1>3, QuietIsRunStep DEF Hold, FailHold, Publish, End, admission, progress
<1>4. ASSUME NEW n, FailPublish(n) \/ FailRecord(n) PROVE [Run!Next]_(Run!vars)
  BY <1>4, QuietIsRunStep DEF FailPublish, FailRecord, End, admission, progress
<1>5. CASE RunTask
  BY <1>5, RunTaskIsRunStep
<1>6. CASE FailTask
  <2>1. TaskInv'
    BY TaskInvStep DEF RunInv
  <2> QED
    BY <1>6, <2>1, FailTaskIsRunStep
<1>7. CASE ReportFailures \/ Complete \/ RefuseSignal
  BY <1>7, QuietIsRunStep DEF ReportFailures, Complete, RefuseSignal, End, admission, progress
<1>8. CASE PrepareDispatch \/ SignalMarker \/ Record
  BY <1>8, QuietIsRunStep DEF PrepareDispatch, SignalMarker, Record, Dispatched, End, admission, progress
<1>9. CASE FlushBatch
  BY <1>9, FlushIsRunStep
<1>10. CASE RunRaster
  BY <1>10, RasterIsRunStep
<1>11. CASE FailWaitMarker \/ FailPrepare \/ FailRaster \/ FailSignalMarker
  BY <1>11, QuietIsRunStep
     DEF FailWaitMarker, FailPrepare, FailRaster, FailSignalMarker, Stop, End, admission, progress
<1>12. ASSUME NEW waited, FailFlush(waited) PROVE [Run!Next]_(Run!vars)
  BY <1>12, QuietIsRunStep DEF FailFlush, Stop, End, admission, progress
<1>13. CASE Return
  BY <1>13, ReturnIsRunStep
<1>14. CASE UNCHANGED vars
  BY <1>14, QuietIsRunStep DEF vars, admission, progress
<1> QED
  BY <1>1, <1>2, <1>3, <1>4, <1>5, <1>6, <1>7, <1>8, <1>9, <1>10, <1>11, <1>12, <1>13, <1>14
     DEF Next, Proceed, DriverFails

(* Every submission, on every device, is a run of its graph: no task takes *)
(* effect before all it needs, none that needs a failed one at all, and    *)
(* nothing is decided twice.                                               *)
THEOREM SubmissionsAreGraphRuns == Spec => ImplementsGraphRun
<1>1. RunInv /\ [Next]_vars => [Run!Next]_(Run!vars)
  BY GraphRunStep
<1> QED
  BY <1>1, RunInitially, RunInvariant, PTL DEF Spec, ImplementsGraphRun, Run!Spec

-----------------------------------------------------------------------------
(* The fault that is reported *)

(* The ways a submission on Reference and Metal ends after its tasks. *)
Ran == stage = "Done" /\ PerTask /\ result.code \in {"None", "Task", "Signal"}

(* It ends there when nothing remains, and reports a task if one failed.   *)
ReportInv ==
  Ran =>
    /\ plan \in Plans /\ Remaining = {}
    /\ result.code = "Task" <=> failures # {}
    /\ result.code = "Task" => result.fault = Primary

LEMMA ReportInvStep ==
  ASSUME RunInv, ReportInv, [Next]_vars
  PROVE  ReportInv'
<1>1. ASSUME NEW p \in Plans, RefuseTimeline(p) PROVE ReportInv'
  BY <1>1 DEF RefuseTimeline, End, Failed, ReportInv, Ran
<1>2. ASSUME NEW p \in Plans, Admit(p) PROVE ReportInv'
  BY <1>2 DEF Admit, ReportInv, Ran
<1>3. CASE Hold \/ FailHold \/ Publish
  BY <1>3 DEF Hold, FailHold, Publish, End, Failed, ReportInv, Ran
<1>4. ASSUME NEW n, FailPublish(n) PROVE ReportInv'
  BY <1>4 DEF FailPublish, End, Failed, ReportInv, Ran
<1>5. CASE RunTask \/ FailTask
  BY <1>5 DEF RunTask, FailTask, ReportInv, Ran
<1>6. CASE ReportFailures \/ Complete \/ RefuseSignal
  <2>1. /\ stage = "Execute" /\ Remaining = {} /\ plan \in Plans
        /\ UNCHANGED <<plan, done, failures, cancelled>>
    BY <1>6 DEF ReportFailures, Complete, RefuseSignal, admission, progress, RunInv, StageInv
  <2>2. Remaining' = Remaining /\ Primary' = Primary
    BY <2>1 DEF Remaining, Started, Primary
  <2>3. CASE ReportFailures
    BY <2>1, <2>2, <2>3 DEF ReportFailures, AllSucceeded, End, Failed, ReportInv
  <2>4. CASE Complete \/ RefuseSignal
    BY <2>1, <2>2, <2>4 DEF Complete, RefuseSignal, AllSucceeded, End, Failed, Ok, ReportInv
  <2> QED
    BY <1>6, <2>3, <2>4
<1>7. CASE PrepareDispatch \/ FlushBatch \/ RunRaster \/ SignalMarker
  BY <1>7 DEF PrepareDispatch, FlushBatch, FlushNeeded, RunRaster, SignalMarker, Dispatched, ReportInv, Ran
<1>8. CASE Record
  BY <1>8 DEF Record, admission, RunInv, StageInv, PerTask, ReportInv, Ran
<1>9. ASSUME NEW n, FailRecord(n) PROVE ReportInv'
  BY <1>9 DEF FailRecord, End, Failed, ReportInv, Ran
<1>10. CASE FailWaitMarker \/ FailPrepare \/ FailRaster \/ FailSignalMarker
  BY <1>10 DEF FailWaitMarker, FailPrepare, FailRaster, FailSignalMarker, Stop, End, Failed, ReportInv, Ran
<1>11. ASSUME NEW waited, FailFlush(waited) PROVE ReportInv'
  BY <1>11 DEF FailFlush, Stop, End, Failed, ReportInv, Ran
<1>12. CASE Return
  BY <1>12 DEF Return, ReportInv, Ran
<1>13. CASE UNCHANGED vars
  BY <1>13 DEF vars, admission, progress, ReportInv, Ran, PerTask, Remaining, Started, Primary
<1> QED
  BY <1>1, <1>2, <1>3, <1>4, <1>5, <1>6, <1>7, <1>8, <1>9, <1>10, <1>11, <1>12, <1>13
     DEF Next, Proceed, DriverFails

(* A task that would fail has failed or was cancelled below one that did,  *)
(* which both orders put before it.                                        *)
LEMMA ReportIsCanonical ==
  ASSUME RunInv, ReportInv
  PROVE  FaultIsCanonical
<1> SUFFICES ASSUME Ran
             PROVE  /\ result.code = "Task" <=> DOMAIN faults # {}
                    /\ result.code = "Task" =>
                         \A t \in DOMAIN faults : t = result.fault \/ Before(plan.order, result.fault, t)
                    /\ done = {t \in plan.tasks : \A u \in DOMAIN faults : t # u /\ t \notin plan.below[u]}
  BY DEF FaultIsCanonical, Ran
<1>1. /\ plan \in Plans /\ PerTask
      /\ result.code = "Task" <=> failures # {}
      /\ result.code = "Task" => result.fault = Primary
      /\ plan.tasks \subseteq done \cup failures \cup cancelled
  BY DEF ReportInv, Ran, Remaining, Started
<1>2. /\ DOMAIN faults \subseteq plan.tasks
      /\ done \subseteq plan.tasks \ DOMAIN faults
      /\ failures \subseteq DOMAIN faults
      /\ \A t \in done : \A u \in plan.tasks : t \in plan.below[u] => u \in done
      /\ \A c \in cancelled : \E f \in failures : c \in plan.below[f]
  BY <1>1 DEF RunInv, TaskInv, Started
<1>3. Sealed(plan.order, plan)
  BY <1>1, OrdersAreSealed
<1>4. \A t \in DOMAIN faults : t \in failures \/ \E f \in failures : t \in plan.below[f]
  BY <1>1, <1>2
<1>5. ASSUME failures # {}, NEW t \in DOMAIN faults
      PROVE  t = Primary \/ Before(plan.order, Primary, t)
  <2>1. \A u \in failures : u = Primary \/ Before(plan.order, Primary, u)
    BY <1>2, <1>3, <1>5, FirstOfIsFirst DEF Primary
  <2>2. CASE t \in failures
    BY <2>1, <2>2
  <2>3. ASSUME NEW f \in failures, t \in plan.below[f] PROVE Before(plan.order, Primary, t)
    <3>1. Before(plan.order, f, t)
      BY <1>2, <1>3, <2>3 DEF Sealed
    <3> QED
      BY <1>3, <2>1, <3>1, BeforeIsOrder
  <2> QED
    BY <1>4, <2>2, <2>3
<1>6. done = {t \in plan.tasks : \A u \in DOMAIN faults : t # u /\ t \notin plan.below[u]}
  <2>1. ASSUME NEW t \in done, NEW u \in DOMAIN faults PROVE t # u /\ t \notin plan.below[u]
    BY <1>2
  <2>2. ASSUME NEW t \in plan.tasks, \A u \in DOMAIN faults : t # u /\ t \notin plan.below[u]
        PROVE  t \in done
    BY <1>1, <1>2, <2>2
  <2> QED
    BY <1>2, <2>1, <2>2
<1>7. failures = {} => DOMAIN faults = {}
  BY <1>4
<1> QED
  BY <1>1, <1>2, <1>5, <1>6, <1>7

(* Whatever order the schedule runs the tasks in and whichever fail, the   *)
(* fault that Reference and Metal report is the first of all in canonical  *)
(* order, and all that does not depend on a fault has run.                 *)
THEOREM FirstFaultIsReported == Spec => []FaultIsCanonical
<1>1. Init => ReportInv
  BY DEF Init, ReportInv, Ran
<1>2. RunInv /\ RunInv' /\ ReportInv /\ [Next]_vars => ReportInv'
  BY ReportInvStep
<1>3. RunInv /\ ReportInv => FaultIsCanonical
  BY ReportIsCanonical
<1> QED
  BY <1>1, <1>2, <1>3, RunInvariant, PTL DEF Spec

-----------------------------------------------------------------------------
(* The split orders *)

AllTasks == UNION {p.tasks : p \in Plans}

(* The caller gets to see a first part of the order that is published, all *)
(* of it when the submission succeeds.                                     *)
PublishedInv ==
  /\ stage \in {"Idle", "Admitted", "Publish", "Record"} => published = <<>>
  /\ stage = "Execute" => published = IF PerTask THEN publishOrder ELSE <<>>
  /\ stage = "Done" =>
       /\ \E n \in 0 .. Len(publishOrder) : published = SubSeq(publishOrder, 1, n)
       /\ result.ok => published = publishOrder

(* What has been shown of an order is within its first n tasks, in order,  *)
(* and it is all of them while no submission of it has failed.             *)
Within(o, n, shown) ==
  /\ n \in 0 .. Len(o)
  /\ \A i, j \in DOMAIN shown : i < j => Before(o, shown[i], shown[j])
  /\ \A i \in DOMAIN shown : \E m \in 1 .. n : shown[i] = o[m]

ShownUpTo(e, n) ==
  /\ e \in [order : Seq(AllTasks), shown : Seq(AllTasks), whole : BOOLEAN]
  /\ Within(e.order, n, e.shown)
  /\ e.whole => e.shown = SubSeq(e.order, 1, n)

Taking(k) == IF k = token THEN Len(publishOrder) ELSE 0

(* Behind the first n come the tasks of the submission that is running, if *)
(* it is one of this order, and behind those the tasks that are left.      *)
Accounted(k, n) ==
  /\ ShownUpTo(envelopes[k], n)
  /\ n + Taking(k) <= Len(envelopes[k].order)
  /\ k = token => publishOrder = SubSeq(envelopes[k].order, n + 1, n + Taking(k))
  /\ k \in DOMAIN leftover =>
       leftover[k] = SubSeq(envelopes[k].order, n + Taking(k) + 1, Len(envelopes[k].order))
  /\ k \notin DOMAIN leftover => n + Taking(k) = Len(envelopes[k].order)

EnvelopeInv ==
  /\ nextToken \in Nat \ {0}
  /\ token \in {0} \cup DOMAIN envelopes
  /\ stage = "Idle" => token = 0
  /\ publishOrder \in Seq(AllTasks)
  /\ DOMAIN leftover \subseteq DOMAIN envelopes
  /\ \A k \in DOMAIN envelopes : k \in 1 .. nextToken - 1 /\ \E n \in Nat : Accounted(k, n)

LEMMA PublishedInvStep ==
  ASSUME RunInv, PublishedInv, EnvelopeInv, [Next]_vars
  PROVE  PublishedInv'
<1>0. /\ \E n \in 0 .. Len(publishOrder) : <<>> = SubSeq(publishOrder, 1, n)
      /\ \E n \in 0 .. Len(publishOrder) : publishOrder = SubSeq(publishOrder, 1, n)
  <2>1. /\ SubSeq(publishOrder, 1, 0) = <<>> /\ SubSeq(publishOrder, 1, Len(publishOrder)) = publishOrder
        /\ Len(publishOrder) \in Nat
    BY SubSeqEmpty, SubSeqFull, LenProperties DEF EnvelopeInv
  <2>2. 0 \in 0 .. Len(publishOrder) /\ Len(publishOrder) \in 0 .. Len(publishOrder)
    BY <2>1
  <2> QED
    BY <2>1, <2>2
<1>1. ASSUME NEW p \in Plans, RefuseTimeline(p) PROVE PublishedInv'
  BY <1>0, <1>1 DEF RefuseTimeline, End, Failed, admission, PublishedInv
<1>2. ASSUME NEW p \in Plans, Admit(p) PROVE PublishedInv'
  BY <1>2 DEF Admit, PublishedInv
<1>3. CASE Hold \/ FailHold \/ Publish
  <2>1. CASE Hold
    BY <2>1 DEF Hold, admission, PublishedInv, PerTask
  <2>2. CASE FailHold
    BY <1>0, <2>2 DEF FailHold, End, Failed, admission, PublishedInv
  <2>3. CASE Publish
    BY <2>3 DEF Publish, admission, PublishedInv, PerTask, RunInv, StageInv
  <2> QED
    BY <1>3, <2>1, <2>2, <2>3
<1>4. ASSUME NEW n \in 0 .. Len(publishOrder), FailPublish(n) \/ FailRecord(n) PROVE PublishedInv'
  BY <1>4 DEF FailPublish, FailRecord, End, Failed, admission, PublishedInv
<1>5. CASE RunTask \/ FailTask \/ PrepareDispatch \/ FlushBatch \/ RunRaster
  BY <1>5 DEF RunTask, FailTask, PrepareDispatch, FlushBatch, FlushNeeded, RunRaster, admission, PublishedInv, PerTask
<1>6. CASE ReportFailures \/ Complete \/ RefuseSignal
  BY <1>0, <1>6 DEF ReportFailures, Complete, RefuseSignal, End, Failed, Ok, admission, PublishedInv
<1>7. CASE SignalMarker \/ Record
  BY <1>0, <1>7 DEF SignalMarker, Dispatched, Record, End, Ok, admission, PublishedInv
<1>8. CASE FailWaitMarker \/ FailPrepare \/ FailRaster \/ FailSignalMarker
  <2>1. /\ stage = "Execute" /\ ~PerTask /\ stage' = "Done" /\ ~result'.ok
        /\ UNCHANGED <<published, publishOrder>>
    BY <1>8 DEF FailWaitMarker, FailPrepare, FailRaster, FailSignalMarker, Dispatched, Stop, End, Failed, admission
  <2> QED
    BY <1>0, <2>1 DEF PublishedInv
<1>9. ASSUME NEW waited, FailFlush(waited) PROVE PublishedInv'
  BY <1>0, <1>9 DEF FailFlush, FlushNeeded, Stop, End, Failed, admission, PublishedInv
<1>10. CASE Return
  BY <1>10 DEF Return, PublishedInv
<1>11. CASE UNCHANGED vars
  BY <1>11 DEF vars, admission, PublishedInv, PerTask
<1> QED
  BY <1>1, <1>2, <1>3, <1>4, <1>5, <1>6, <1>7, <1>8, <1>9, <1>10, <1>11
     DEF Next, Proceed, DriverFails

(* The first c of the q tasks that come next are shown. *)
LEMMA MoreShown ==
  ASSUME NEW T, NEW o \in Seq(T), NEW shown \in Seq(T), NEW n \in Nat,
         Within(o, n, shown),
         NEW q \in Nat, n + q <= Len(o), NEW c \in 0 .. q,
         NEW s \in Seq(T), Len(s) = c, \A i \in 1 .. c : s[i] = o[n + i]
  PROVE  /\ shown \o s \in Seq(T)
         /\ Within(o, n + q, shown \o s)
<1> DEFINE l == Len(shown)
           g == shown \o s
<1>0. /\ l \in Nat /\ DOMAIN shown = 1 .. l
      /\ Len(o) \in Nat /\ DOMAIN o = 1 .. Len(o) /\ \A i \in 1 .. Len(o) : o[i] \in T
  BY LenProperties
<1>1. /\ g \in Seq(T) /\ Len(g) = l + c
      /\ \A i \in 1 .. l + c : g[i] = IF i <= l THEN shown[i] ELSE s[i - l]
  BY ConcatProperties
<1>2. DOMAIN g = 1 .. l + c
  BY <1>1, LenProperties
<1> HIDE DEF l, g
<1>3. \A i \in 1 .. l : g[i] = shown[i]
  BY <1>0, <1>1
<1>4. ASSUME NEW i \in 1 .. l + c, l < i
      PROVE  g[i] = o[n + (i - l)] /\ n + (i - l) \in n + 1 .. n + q
  <2>1. i - l \in 1 .. c /\ ~(i <= l)
    BY <1>0, <1>4
  <2>2. g[i] = s[i - l]
    BY <1>1, <2>1
  <2> QED
    BY <1>0, <2>1, <2>2
<1>5. ASSUME NEW i \in 1 .. l + c
      PROVE  \E m \in 1 .. n + q : g[i] = o[m] /\ (i <= l => m <= n) /\ (l < i => m = n + (i - l))
  <2>1. CASE i <= l
    <3>1. i \in 1 .. l
      BY <1>0, <2>1
    <3>2. PICK m \in 1 .. n : shown[i] = o[m]
      BY <1>0, <3>1 DEF Within
    <3>3. m \in 1 .. n + q /\ m <= n /\ ~(l < i)
      BY <1>0, <2>1, <3>2
    <3> QED
      BY <1>3, <3>1, <3>2, <3>3
  <2>2. CASE l < i
    <3>1. g[i] = o[n + (i - l)] /\ n + (i - l) \in 1 .. n + q /\ ~(i <= l)
      BY <1>0, <1>4, <2>2
    <3> QED
      BY <3>1
  <2> QED
    BY <1>0, <2>1, <2>2
<1>6. ASSUME NEW i \in 1 .. l + c, NEW j \in 1 .. l + c, i < j
      PROVE  Before(o, g[i], g[j])
  <2>1. CASE j <= l
    <3>1. i \in 1 .. l /\ j \in 1 .. l
      BY <1>0, <1>6, <2>1
    <3>2. Before(o, shown[i], shown[j])
      BY <1>0, <1>6, <3>1 DEF Within
    <3> QED
      BY <1>3, <3>1, <3>2
  <2>2. CASE l < j
    <3>1. PICK a \in 1 .. n + q : g[i] = o[a] /\ (i <= l => a <= n) /\ (l < i => a = n + (i - l))
      BY <1>5
    <3>2. g[j] = o[n + (j - l)] /\ n + (j - l) \in n + 1 .. n + q
      BY <1>4, <2>2
    <3>3. a < n + (j - l) /\ a \in DOMAIN o /\ n + (j - l) \in DOMAIN o
      BY <1>0, <1>6, <2>2, <3>1, <3>2
    <3> QED
      BY <3>1, <3>2, <3>3 DEF Before
  <2> QED
    BY <1>0, <2>1, <2>2
<1>7. Within(o, n + q, g)
  <2>1. n + q \in 0 .. Len(o)
    BY <1>0
  <2> QED
    BY <1>2, <1>5, <1>6, <2>1 DEF Within
<1> QED
  BY <1>1, <1>7 DEF g

(* The fields of a result. *)
LEMMA ResultTyped ==
  ASSUME [Next]_vars, result.ok \in BOOLEAN
  PROVE  result'.ok \in BOOLEAN
<1>1. CASE UNCHANGED result
  BY <1>1
<1>2. ASSUME \E poison, fault, code : result' = Failed(poison, fault, code) PROVE result'.ok \in BOOLEAN
  <2>1. PICK poison, fault, code : result' = Failed(poison, fault, code)
    BY <1>2
  <2>2. result'.ok = FALSE
    BY <2>1 DEF Failed
  <2> QED
    BY <2>2
<1>3. CASE result' = Ok
  <2>1. result'.ok = TRUE
    BY <1>3 DEF Ok
  <2> QED
    BY <2>1
<1>4. ASSUME NEW p, RefuseTimeline(p) \/ Admit(p) PROVE result'.ok \in BOOLEAN
  BY <1>1, <1>2, <1>4 DEF RefuseTimeline, Admit, End
<1>5. CASE Proceed
  BY <1>1, <1>2, <1>3, <1>5 DEF Proceed, Hold, Publish, RunTask, FailTask, ReportFailures, Complete,
     RefuseSignal, PrepareDispatch, FlushBatch, RunRaster, SignalMarker, Record, Return, End
<1>6. CASE DriverFails
  BY <1>2, <1>6 DEF DriverFails, FailHold, FailPublish, FailRecord, FailWaitMarker, FailPrepare,
     FailRaster, FailSignalMarker, FailFlush, Stop, End
<1> QED
  BY <1>1, <1>4, <1>5, <1>6 DEF Next, vars

(* Most steps leave the split orders alone. *)
LEMMA EnvelopeCases ==
  ASSUME [Next]_vars
  PROVE  \/ /\ UNCHANGED <<leftover, nextToken, envelopes, token, publishOrder>>
            /\ stage' = "Idle" => stage = "Idle"
         \/ \E p \in Plans : Admit(p)
         \/ Return
<1> DEFINE Same == /\ UNCHANGED <<leftover, nextToken, envelopes, token, publishOrder>>
                   /\ stage' = "Idle" => stage = "Idle"
<1>1. ASSUME NEW p \in Plans, RefuseTimeline(p) PROVE Same
  BY <1>1 DEF RefuseTimeline, End, device, admission
<1>2. ASSUME NEW n, FailPublish(n) \/ FailRecord(n) PROVE Same
  BY <1>2 DEF FailPublish, FailRecord, End, device, admission
<1>3. CASE Hold \/ FailHold \/ Publish \/ ReportFailures \/ Complete \/ RefuseSignal
  BY <1>3 DEF Hold, FailHold, Publish, ReportFailures, Complete, RefuseSignal, End, device, admission
<1>4. CASE FailWaitMarker \/ FailPrepare \/ FailRaster \/ FailSignalMarker \/ SignalMarker \/ Record
  BY <1>4 DEF FailWaitMarker, FailPrepare, FailRaster, FailSignalMarker, SignalMarker, Record,
     Stop, End, device, admission
<1>5. ASSUME NEW waited, FailFlush(waited) PROVE Same
  BY <1>5 DEF FailFlush, Stop, End, device, admission
<1>6. CASE RunTask \/ FailTask \/ PrepareDispatch \/ FlushBatch \/ RunRaster
  BY <1>6 DEF RunTask, FailTask, PrepareDispatch, FlushBatch, RunRaster, device, admission
<1>7. CASE UNCHANGED vars
  BY <1>7 DEF vars, device, admission
<1> QED
  BY <1>1, <1>2, <1>3, <1>4, <1>5, <1>6, <1>7 DEF Next, Proceed, DriverFails

LEMMA EnvelopeInvReturn ==
  ASSUME RunInv, PublishedInv, EnvelopeInv, result.ok \in BOOLEAN, Return
  PROVE  EnvelopeInv'
<1>1. /\ stage = "Done" /\ stage' = "Idle" /\ token' = 0 /\ publishOrder' = <<>>
      /\ DOMAIN envelopes' = DOMAIN envelopes /\ UNCHANGED <<leftover, nextToken>>
      /\ \A k \in DOMAIN envelopes : envelopes'[k] =
            IF k # token THEN envelopes[k]
            ELSE [envelopes[k] EXCEPT !.shown = @ \o published, !.whole = @ /\ result.ok]
  BY DEF Return
<1>0. \A k \in DOMAIN envelopes : k # 0
  BY DEF EnvelopeInv
<1>2. ASSUME NEW k \in DOMAIN envelopes, k # token PROVE \E n \in Nat : Accounted(k, n)'
  <2>1. PICK n \in Nat : Accounted(k, n)
    BY DEF EnvelopeInv
  <2>2. k # token' /\ envelopes'[k] = envelopes[k]
    BY <1>0, <1>1, <1>2
  <2>3. Taking(k) = 0 /\ Taking(k)' = 0
    BY <1>2, <2>2 DEF Taking
  <2>4. Accounted(k, n)'
    BY <1>1, <2>1, <2>2, <2>3 DEF Accounted
  <2> QED
    BY <2>4
<1>3. ASSUME NEW k \in DOMAIN envelopes, k = token PROVE \E n \in Nat : Accounted(k, n)'
  <2>1. PICK n \in Nat : Accounted(k, n)
    BY DEF EnvelopeInv
  <2>0. PICK o, shown, whole, q :
            o = envelopes[k].order /\ shown = envelopes[k].shown /\ whole = envelopes[k].whole
            /\ q = Len(publishOrder)
    OBVIOUS
  <2>2. /\ o \in Seq(AllTasks) /\ shown \in Seq(AllTasks) /\ whole \in BOOLEAN
        /\ Within(o, n, shown)
        /\ whole => shown = SubSeq(o, 1, n)
        /\ envelopes[k] = [order |-> o, shown |-> shown, whole |-> whole]
    BY <2>0, <2>1 DEF Accounted, ShownUpTo
  <2>3. /\ q \in Nat /\ n + q <= Len(o)
        /\ publishOrder = SubSeq(o, n + 1, n + q)
        /\ (k \in DOMAIN leftover => leftover[k] = SubSeq(o, n + q + 1, Len(o)))
        /\ (k \notin DOMAIN leftover => n + q = Len(o))
    BY <1>3, <2>0, <2>1, LenProperties DEF Accounted, Taking, EnvelopeInv
  <2>4. \E c \in 0 .. q : published = SubSeq(publishOrder, 1, c)
    BY <1>1, <2>0 DEF PublishedInv
  <2>5. result.ok => published = publishOrder
    BY <1>1 DEF PublishedInv
  <2>a. PICK w \in BOOLEAN : w = (whole /\ result.ok)
    OBVIOUS
  <2>b. envelopes'[k] = [envelopes[k] EXCEPT !.shown = shown \o published, !.whole = w]
    BY <1>1, <1>3, <2>0, <2>a, Zenon
  <2>c. PICK g : g = shown \o published
    OBVIOUS
  <2>d. envelopes'[k] = [[order |-> o, shown |-> shown, whole |-> whole] EXCEPT !.shown = g, !.whole = w]
    BY <2>2, <2>b, <2>c
  <2>6. envelopes'[k] = [order |-> o, shown |-> shown \o published, whole |-> w]
    BY <2>c, <2>d
  <2>7. k # 0 /\ k # token' /\ Taking(k)' = 0
    BY <1>0, <1>1 DEF Taking
  <2>8. /\ publishOrder \in Seq(AllTasks) /\ \A i \in 1 .. q : publishOrder[i] = o[n + i]
        /\ \A i \in 1 .. q : publishOrder[i] \in AllTasks
    <3>1. Len(o) \in Nat /\ \A i \in 1 .. Len(o) : o[i] \in AllTasks
      BY <2>2, LenProperties
    <3>2. \A i \in n + 1 .. n + q : o[i] \in AllTasks
      BY <2>3, <3>1
    <3>3. n + 1 \in Int /\ n + q \in Int
      BY <2>3
    <3>a. PICK a \in Int, b \in Int : a = n + 1 /\ b = n + q
      BY <3>3
    <3>b. \A i \in a .. b : o[i] \in AllTasks
      BY <3>2, <3>a
    <3>4. \A i \in 1 .. b - a + 1 : SubSeq(o, a, b)[i] = o[a + i - 1]
      BY <3>b, SubSeqProperties
    <3>5. b - a + 1 = q /\ \A i \in 1 .. q : a + i - 1 = n + i
      BY <2>3, <3>a
    <3>6. \A i \in 1 .. q : publishOrder[i] = o[n + i]
      BY <2>3, <3>a, <3>4, <3>5
    <3>7. \A i \in 1 .. q : n + i \in n + 1 .. n + q
      BY <2>3
    <3> QED
      BY <3>2, <3>6, <3>7 DEF EnvelopeInv
  <2>9. PICK c \in 0 .. q : published = SubSeq(publishOrder, 1, c)
    BY <2>4
  <2>10. published \in Seq(AllTasks) /\ Len(published) = c /\ \A i \in 1 .. c : published[i] = o[n + i]
    <3>1. \A i \in 1 .. c : publishOrder[i] \in AllTasks
      BY <2>3, <2>8
    <3>2. /\ SubSeq(publishOrder, 1, c) \in Seq(AllTasks)
          /\ Len(SubSeq(publishOrder, 1, c)) = IF 1 <= c THEN c - 1 + 1 ELSE 0
          /\ \A i \in 1 .. c - 1 + 1 : SubSeq(publishOrder, 1, c)[i] = publishOrder[1 + i - 1]
      BY <3>1, SubSeqProperties
    <3>3. c - 1 + 1 = c /\ \A i \in 1 .. c : 1 + i - 1 = i /\ i \in 1 .. q
      BY <2>3
    <3> QED
      BY <2>8, <2>9, <3>2, <3>3
  <2>12. /\ shown \o published \in Seq(AllTasks)
         /\ Within(o, n + q, shown \o published)
    <3>1. n + q <= Len(o) /\ Within(o, n, shown) /\ \A i \in 1 .. c : published[i] = o[n + i]
      BY <2>2, <2>3, <2>10
    <3>2. q \in Nat /\ o \in Seq(AllTasks) /\ shown \in Seq(AllTasks)
          /\ published \in Seq(AllTasks) /\ Len(published) = c
      BY <2>2, <2>3, <2>10
    <3> QED
      BY <3>1, <3>2, MoreShown
  <2>g. whole /\ result.ok => shown \o published = SubSeq(o, 1, n + q)
    <3>1. Len(o) \in Nat
      BY <2>2, LenProperties
    <3>2. 1 \in 1 .. Len(o) + 1 /\ n \in 1 - 1 .. Len(o) /\ n + q \in n .. Len(o)
      BY <2>3, <3>1
    <3>3. SubSeq(o, 1, n) \o SubSeq(o, n + 1, n + q) = SubSeq(o, 1, n + q)
      BY <2>2, <3>2, ConcatAdjacentSubSeq
    <3> QED
      BY <2>2, <2>3, <2>5, <3>3
  <2>13. ShownUpTo(envelopes'[k], n + q)
    <3>1. /\ envelopes'[k].order = o /\ envelopes'[k].shown = shown \o published
          /\ envelopes'[k].whole = w
      BY <2>6
    <3>2. envelopes'[k] \in [order : Seq(AllTasks), shown : Seq(AllTasks), whole : BOOLEAN]
      BY <2>2, <2>6, <2>12
    <3>3. w => shown \o published = SubSeq(o, 1, n + q)
      BY <2>a, <2>g
    <3> HIDE DEF AllTasks
    <3> QED
      BY <2>12, <3>1, <3>2, <3>3 DEF ShownUpTo
  <2>14. envelopes'[k].order = o
    BY <2>6
  <2>f. n + q + Taking(k)' = n + q
    BY <2>3, <2>7
  <2>e. /\ UNCHANGED leftover /\ n + q + Taking(k)' = n + q /\ k # token'
    BY <1>1, <2>7, <2>f
  <2>15. Accounted(k, n + q)'
    BY <2>3, <2>13, <2>14, <2>e DEF Accounted
  <2> QED
    BY <2>3, <2>15
<1>4. <<>> \in Seq(AllTasks)
  BY EmptySeq
<1> QED
  BY <1>1, <1>2, <1>3, <1>4 DEF EnvelopeInv

LEMMA OrdersOfTasks ==
  ASSUME NEW p \in Plans
  PROVE  p.order \in Seq(AllTasks) /\ Len(p.order) \in Nat /\ p.quota \in Nat
<1>1. p.order \in Seq(p.tasks) /\ p.tasks \subseteq AllTasks
  BY OrdersAreSealed DEF Sealed, AllTasks
<1>2. p.order \in Seq(AllTasks)
  BY <1>1, SeqMonotonic
<1>3. {p.quota, p.wait, p.signal} \subseteq Nat
  BY SubmitAssumption
<1> QED
  BY <1>2, <1>3, LenProperties

(* The orders that the submission does not touch stay as they are. *)
LEMMA OthersAccounted ==
  ASSUME EnvelopeInv, token = 0, NEW k \in DOMAIN envelopes, k # token',
         envelopes'[k] = envelopes[k],
         (k \in DOMAIN leftover') = (k \in DOMAIN leftover),
         k \in DOMAIN leftover => leftover'[k] = leftover[k]
  PROVE  \E n \in Nat : Accounted(k, n)'
<1>1. PICK n \in Nat : Accounted(k, n)
  BY DEF EnvelopeInv
<1>2. Taking(k) = 0 /\ Taking(k)' = 0 /\ k # token
  <2>1. k # 0
    BY DEF EnvelopeInv
  <2> QED
    BY <2>1 DEF Taking
<1>3. Accounted(k, n)'
  BY <1>1, <1>2 DEF Accounted
<1> QED
  BY <1>3

LEMMA EnvelopeInvWhole ==
  ASSUME EnvelopeInv, NEW p \in Plans, Admit(p), token = 0, AdmitWhole(p)
  PROVE  EnvelopeInv'
<1>1. /\ publishOrder' = p.order /\ token' = 0 /\ stage' # "Idle"
      /\ UNCHANGED <<leftover, nextToken, envelopes>>
  BY DEF Admit, AdmitWhole
<1>2. ASSUME NEW k \in DOMAIN envelopes PROVE \E n \in Nat : Accounted(k, n)'
  <2>1. k # 0
    BY DEF EnvelopeInv
  <2> QED
    BY <1>1, <2>1, OthersAccounted
<1> QED
  BY <1>1, <1>2, OrdersOfTasks DEF EnvelopeInv

LEMMA EnvelopeInvContinuation ==
  ASSUME EnvelopeInv, NEW p \in Plans, Admit(p), token = 0,
         NEW j \in DOMAIN leftover, AdmitContinuation(p, j)
  PROVE  EnvelopeInv'
<1>1. /\ publishOrder' = leftover[j] /\ token' = j /\ stage' # "Idle"
      /\ leftover' = Taken(j) /\ UNCHANGED <<nextToken, envelopes>>
  BY DEF Admit, AdmitContinuation
<1>2. /\ DOMAIN leftover' = DOMAIN leftover \ {j}
      /\ \A k \in DOMAIN leftover' : leftover'[k] = leftover[k]
  BY <1>1 DEF Taken
<1>3. j \in DOMAIN envelopes /\ j # 0
  BY DEF EnvelopeInv
<1>4. ASSUME NEW k \in DOMAIN envelopes, k # j PROVE \E n \in Nat : Accounted(k, n)'
  BY <1>1, <1>2, <1>4, OthersAccounted
<1>5. (\E n \in Nat : Accounted(j, n)') /\ publishOrder' \in Seq(AllTasks)
  <2>1. PICK n \in Nat : Accounted(j, n)
    BY <1>3 DEF EnvelopeInv
  <2>2. PICK o : o = envelopes[j].order
    OBVIOUS
  <2>3. Taking(j) = 0
    BY <1>3 DEF Taking
  <2>4. /\ ShownUpTo(envelopes[j], n) /\ n \in 0 .. Len(o)
        /\ leftover[j] = SubSeq(o, n + 1, Len(o))
        /\ o \in Seq(AllTasks) /\ Len(o) \in Nat
    <3>1. ShownUpTo(envelopes[j], n)
      BY <2>1 DEF Accounted
    <3>2. leftover[j] = SubSeq(o, n + 0 + 1, Len(o))
      BY <2>1, <2>2, <2>3 DEF Accounted
    <3>3. o \in Seq(AllTasks) /\ n \in 0 .. Len(o)
      BY <2>2, <3>1 DEF ShownUpTo, Within
    <3>4. n + 0 + 1 = n + 1
      OBVIOUS
    <3> QED
      BY <3>1, <3>2, <3>3, <3>4, LenProperties
  <2>5. leftover[j] \in Seq(AllTasks) /\ Len(leftover[j]) = Len(o) - n
    <3>1. \A i \in 1 .. Len(o) : o[i] \in AllTasks
      BY <2>4, LenProperties
    <3>2. PICK a \in Int, b \in Int : a = n + 1 /\ b = Len(o)
      BY <2>4
    <3>3. \A i \in a .. b : o[i] \in AllTasks
      BY <3>1, <3>2
    <3>4. SubSeq(o, a, b) \in Seq(AllTasks) /\ Len(SubSeq(o, a, b)) = IF a <= b THEN b - a + 1 ELSE 0
      BY <3>3, SubSeqProperties
    <3>5. (IF a <= b THEN b - a + 1 ELSE 0) = Len(o) - n
      BY <2>4, <3>2
    <3> QED
      BY <2>4, <3>2, <3>4, <3>5
  <2>6. Taking(j)' = Len(o) - n
    BY <1>1, <2>5 DEF Taking
  <2>7. /\ n + Taking(j)' = Len(o) /\ j \notin DOMAIN leftover' /\ envelopes'[j] = envelopes[j]
        /\ publishOrder' = SubSeq(o, n + 1, Len(o))
    BY <1>1, <1>2, <2>4, <2>6
  <2>8. Accounted(j, n)'
    <3>1. envelopes'[j].order = o /\ ShownUpTo(envelopes'[j], n)
      BY <2>2, <2>4, <2>7
    <3>2. Len(o) <= Len(o)
      BY <2>4
    <3> QED
      BY <2>7, <3>1, <3>2 DEF Accounted
  <2> QED
    BY <1>1, <2>5, <2>8
<1> QED
  BY <1>1, <1>2, <1>3, <1>4, <1>5 DEF EnvelopeInv

LEMMA EnvelopeInvPrefix ==
  ASSUME EnvelopeInv, NEW p \in Plans, Admit(p), token = 0, AdmitPrefix(p)
  PROVE  EnvelopeInv'
<1>0. PICK t, o, q : t = nextToken /\ o = p.order /\ q = p.quota
  OBVIOUS
<1>1. /\ publishOrder' = SubSeq(o, 1, q) /\ token' = t /\ stage' # "Idle"
      /\ leftover' = Put(leftover, t, SubSeq(o, q + 1, Len(o))) /\ nextToken' = t + 1
      /\ envelopes' = Put(envelopes, t, [order |-> o, shown |-> <<>>, whole |-> TRUE])
      /\ q < Len(o)
  BY <1>0 DEF Admit, AdmitPrefix, Split, Deferred
<1>2. /\ t \in Nat \ {0} /\ DOMAIN leftover \subseteq DOMAIN envelopes
      /\ \A k \in DOMAIN envelopes : k \in 1 .. t - 1 /\ k # t
  BY <1>0 DEF EnvelopeInv
<1>3. /\ DOMAIN leftover' = DOMAIN leftover \cup {t}
      /\ \A k \in DOMAIN leftover : leftover'[k] = leftover[k]
      /\ leftover'[t] = SubSeq(o, q + 1, Len(o))
  BY <1>1, <1>2 DEF Put
<1>4. /\ DOMAIN envelopes' = DOMAIN envelopes \cup {t}
      /\ \A k \in DOMAIN envelopes : envelopes'[k] = envelopes[k]
      /\ envelopes'[t] = [order |-> o, shown |-> <<>>, whole |-> TRUE]
  BY <1>1, <1>2 DEF Put
<1>5. ASSUME NEW k \in DOMAIN envelopes PROVE \E n \in Nat : Accounted(k, n)'
  <2>1. (k \in DOMAIN leftover') = (k \in DOMAIN leftover)
    BY <1>2, <1>3
  <2>2. k # token' /\ envelopes'[k] = envelopes[k] /\ (k \in DOMAIN leftover => leftover'[k] = leftover[k])
    BY <1>1, <1>2, <1>3, <1>4
  <2> QED
    BY <2>1, <2>2, OthersAccounted
<1>7. o \in Seq(AllTasks) /\ Len(o) \in Nat /\ q \in Nat /\ q < Len(o)
  BY <1>0, <1>1, OrdersOfTasks
<1>8. publishOrder' \in Seq(AllTasks) /\ Len(publishOrder') = q
  <2>1. \A i \in 1 .. Len(o) : o[i] \in AllTasks
    BY <1>7, LenProperties
  <2>2. \A i \in 1 .. q : o[i] \in AllTasks
    BY <1>7, <2>1
  <2>3. SubSeq(o, 1, q) \in Seq(AllTasks) /\ Len(SubSeq(o, 1, q)) = IF 1 <= q THEN q - 1 + 1 ELSE 0
    BY <1>7, <2>2, SubSeqProperties
  <2>4. (IF 1 <= q THEN q - 1 + 1 ELSE 0) = q
    BY <1>7
  <2> QED
    BY <1>1, <2>3, <2>4
<1>9. ShownUpTo([order |-> o, shown |-> <<>>, whole |-> TRUE], 0)
  <2>1. <<>> \in Seq(AllTasks) /\ DOMAIN <<>> = {} /\ SubSeq(o, 1, 0) = <<>>
    BY EmptySeq, SubSeqEmpty
  <2>2. Within(o, 0, <<>>)
    BY <1>7, <2>1 DEF Within
  <2> QED
    BY <1>7, <2>1, <2>2 DEF ShownUpTo
<1>10. Accounted(t, 0)'
  <2>1. Taking(t)' = q
    BY <1>1, <1>8 DEF Taking
  <2>2. 0 + q = q /\ 0 + 1 = 1
    BY <1>7
  <2>3. ShownUpTo(envelopes'[t], 0) /\ envelopes'[t].order = o
    BY <1>4, <1>9
  <2>4. t \in DOMAIN leftover' /\ leftover'[t] = SubSeq(o, q + 1, Len(o)) /\ publishOrder' = SubSeq(o, 1, q)
    BY <1>1, <1>3
  <2>5. 0 + Taking(t)' = q
    BY <2>1, <2>2
  <2> QED
    BY <1>7, <2>1, <2>2, <2>3, <2>4, <2>5 DEF Accounted
<1>11. \A k \in DOMAIN envelopes' :
          k \in 1 .. nextToken' - 1 /\ \E n \in Nat : Accounted(k, n)'
  <2>1. \A k \in DOMAIN envelopes : k \in 1 .. nextToken' - 1
    BY <1>1, <1>2
  <2>2. t \in 1 .. nextToken' - 1 /\ 0 \in Nat
    BY <1>1, <1>2
  <2> QED
    BY <1>4, <1>5, <1>10, <2>1, <2>2
<1>12. nextToken' \in Nat \ {0}
  BY <1>1, <1>2
<1>13. token' \in DOMAIN envelopes' /\ DOMAIN leftover' \subseteq DOMAIN envelopes'
  BY <1>1, <1>2, <1>3, <1>4
<1> QED
  BY <1>1, <1>8, <1>11, <1>12, <1>13 DEF EnvelopeInv

LEMMA EnvelopeInvStep ==
  ASSUME RunInv, PublishedInv, EnvelopeInv, result.ok \in BOOLEAN, [Next]_vars
  PROVE  EnvelopeInv'
<1>1. ASSUME UNCHANGED <<leftover, nextToken, envelopes, token, publishOrder>>,
             stage' = "Idle" => stage = "Idle"
      PROVE  EnvelopeInv'
  BY <1>1 DEF EnvelopeInv, Accounted, Taking
<1>2. ASSUME NEW p \in Plans, Admit(p) PROVE EnvelopeInv'
  <2>1. token = 0
    BY <1>2 DEF Admit, EnvelopeInv
  <2>2. AdmitWhole(p) \/ AdmitPrefix(p) \/ \E k \in DOMAIN leftover : AdmitContinuation(p, k)
    BY <1>2 DEF Admit
  <2> QED
    BY <1>2, <2>1, <2>2, EnvelopeInvWhole, EnvelopeInvPrefix, EnvelopeInvContinuation
<1>3. CASE Return
  BY <1>3, EnvelopeInvReturn
<1> QED
  BY <1>1, <1>2, <1>3, EnvelopeCases

LEMMA AccountedIsPublishedOnce ==
  ASSUME EnvelopeInv
  PROVE  EnvelopePublishedOnce
<1> SUFFICES ASSUME NEW k \in DOMAIN envelopes
    PROVE  /\ \A i, j \in DOMAIN envelopes[k].shown :
                 i < j => Before(envelopes[k].order, envelopes[k].shown[i], envelopes[k].shown[j])
           /\ (stage = "Idle" /\ k \notin DOMAIN leftover /\ envelopes[k].whole)
                 => envelopes[k].shown = envelopes[k].order
  BY DEF EnvelopePublishedOnce
<1>1. PICK n \in Nat : Accounted(k, n)
  BY DEF EnvelopeInv
<1>2. \A i, j \in DOMAIN envelopes[k].shown :
        i < j => Before(envelopes[k].order, envelopes[k].shown[i], envelopes[k].shown[j])
  BY <1>1 DEF Accounted, ShownUpTo, Within
<1>3. ASSUME stage = "Idle", k \notin DOMAIN leftover, envelopes[k].whole
      PROVE  envelopes[k].shown = envelopes[k].order
  <2>1. k # 0 /\ token = 0
    BY <1>3 DEF EnvelopeInv
  <2>2. Taking(k) = 0
    BY <2>1 DEF Taking
  <2>3. n = Len(envelopes[k].order)
    BY <1>1, <1>3, <2>2 DEF Accounted
  <2>4. envelopes[k].order \in Seq(AllTasks) /\ envelopes[k].shown = SubSeq(envelopes[k].order, 1, n)
    BY <1>1, <1>3 DEF Accounted, ShownUpTo
  <2> QED
    BY <2>3, <2>4, SubSeqFull
<1> QED
  BY <1>2, <1>3

(* Over all submissions that split an order and resume it, whatever fails  *)
(* between them and however many orders are split at a time, each task is  *)
(* published at most once and in canonical order, and none is lost.        *)
THEOREM SplitOrdersArePublishedOnce == Spec => []EnvelopePublishedOnce
<1> DEFINE Typed == result.ok \in BOOLEAN
           Inv == PublishedInv /\ EnvelopeInv /\ Typed
<1>1. Init => Inv
  <2> SUFFICES ASSUME Init PROVE Inv
    OBVIOUS
  <2>1. <<>> \in Seq(AllTasks) /\ DOMAIN <<>> = {}
    BY EmptySeq
  <2>2. result.ok = TRUE
    BY DEF Init, Ok
  <2>3. PublishedInv
    BY DEF Init, PublishedInv
  <2>4. DOMAIN envelopes = {} /\ DOMAIN leftover = {}
    BY <2>1 DEF Init
  <2>5. nextToken = 1 /\ token = 0 /\ publishOrder \in Seq(AllTasks)
    BY <2>1 DEF Init
  <2>6. EnvelopeInv
    BY <2>4, <2>5 DEF EnvelopeInv
  <2>7. Typed
    BY <2>2
  <2> QED
    BY <2>3, <2>6, <2>7
<1>2. RunInv /\ Inv /\ [Next]_vars => Inv'
  BY PublishedInvStep, EnvelopeInvStep, ResultTyped
<1>3. Inv => EnvelopePublishedOnce
  BY AccountedIsPublishedOnce
<1> QED
  BY <1>1, <1>2, <1>3, RunInvariant, PTL DEF Spec

-----------------------------------------------------------------------------
(* Memory *)

(* The accesses of a plan, as operators of the plan. *)
Touches(p, t) == {x.region : x \in p.effects[t]}
Writers(p, D, r) == {u \in D : \E x \in p.effects[u] : x.region = r /\ x.access = "Write"}
LastOf(p, D, r) ==
  LET W == Writers(p, D, r)
  IN  IF W = {} THEN Untouched
      ELSE CHOOSE u \in W : \A v \in W \ {u} : Before(p.order, v, u)
Earlier(p, s, t) == {u \in p.tasks : Before(s, u, t)}

LEMMA LastWriterIsLastOf == \A D, r : LastWriter(D, r) = LastOf(plan, D, r)
  BY DEF LastWriter, LastOf, Writers

LEMMA WrittenAreTouched ==
  \A r, t : (r \in Written(t) <=> t \in Writers(plan, {t}, r)) /\ Accessed(t) = Touches(plan, t)
  BY DEF Written, Writers, Accessed, Touches

(* The writer that all the others come before is the last one. *)
LEMMA LastIs ==
  ASSUME NEW p \in Plans, NEW D, D \subseteq p.tasks, NEW r, NEW t \in Writers(p, D, r),
         \A v \in Writers(p, D, r) \ {t} : Before(p.order, v, t)
  PROVE  LastOf(p, D, r) = t
<1> DEFINE W == Writers(p, D, r)
           Q(u) == \A v \in W \ {u} : Before(p.order, v, u)
<1>1. t \in W /\ Q(t) /\ W \subseteq p.tasks
  BY DEF Writers
<1>2. ASSUME NEW u \in W, Q(u) PROVE u = t
  <2>1. Sealed(p.order, p)
    BY OrdersAreSealed
  <2>2. \A a, b : Before(p.order, a, b) => ~Before(p.order, b, a)
    BY <2>1, BeforeIsOrder
  <2>3. u # t => Before(p.order, t, u) /\ Before(p.order, u, t)
    BY <1>1, <1>2
  <2> QED
    BY <2>2, <2>3
<1>3. LastOf(p, D, r) = CHOOSE u \in W : Q(u)
  BY <1>1 DEF LastOf
<1> HIDE DEF W, Q
<1>4. (CHOOSE u \in W : Q(u)) = t
  BY <1>1, <1>2
<1> QED
  BY <1>3, <1>4

LEMMA SameWriters ==
  ASSUME NEW p, NEW D, NEW E, NEW r, Writers(p, D, r) = Writers(p, E, r)
  PROVE  LastOf(p, D, r) = LastOf(p, E, r)
  BY DEF LastOf

(* A task that writes what another one accesses stands on the same side of *)
(* it in both orders: there is an edge one way or the other.               *)
LEMMA ConflictsAgree ==
  ASSUME NEW p \in Plans, NEW t \in p.tasks, NEW u \in p.tasks, NEW r,
         u \in Writers(p, p.tasks, r), r \in Touches(p, t)
  PROVE  /\ Before(p.steps, t, u) <=> Before(p.order, t, u)
         /\ Before(p.steps, u, t) <=> Before(p.order, u, t)
<1>1. Sealed(p.order, p) /\ Sealed(p.steps, p)
  BY OrdersAreSealed
<1>2. Conflict(p, t, u) /\ Conflict(p, u, t)
  BY DEF Conflict, Writers, Touches
<1>3. \A a, b \in p.tasks : Before(p.order, a, b) /\ Conflict(p, a, b) => b \in p.below[a]
  BY SubmitAssumption
<1>4. \A a, b \in p.tasks : Before(p.order, a, b) /\ Conflict(p, a, b) => Before(p.steps, a, b)
  BY <1>1, <1>3 DEF Sealed
<1>5. ASSUME NEW s, Sealed(s, p)
      PROVE  /\ t = u \/ Before(s, t, u) \/ Before(s, u, t)
             /\ Before(s, t, u) => t # u /\ ~Before(s, u, t)
             /\ Before(s, u, t) => t # u /\ ~Before(s, t, u)
  BY <1>5, BeforeIsOrder
<1> QED
  BY <1>1, <1>2, <1>4, <1>5

(* What a task finds is the same for the steps before it as for the tasks  *)
(* before it in canonical order.                                           *)
LEMMA SeesTheSame ==
  ASSUME NEW p \in Plans, NEW t \in p.tasks, NEW r \in Touches(p, t)
  PROVE  LastOf(p, Earlier(p, p.steps, t), r) = LastOf(p, Earlier(p, p.order, t), r)
<1>1. \A u \in Writers(p, p.tasks, r) : Before(p.steps, u, t) <=> Before(p.order, u, t)
  BY ConflictsAgree DEF Writers
<1>2. Writers(p, Earlier(p, p.steps, t), r) = Writers(p, Earlier(p, p.order, t), r)
  BY <1>1 DEF Writers, Earlier
<1> QED
  BY <1>2, SameWriters

(* A task that runs after all the others that write a region is the last.  *)
LEMMA WritesLast ==
  ASSUME NEW p \in Plans, NEW D, D \subseteq p.tasks, NEW r, NEW t \in Writers(p, D, r),
         \A v \in Writers(p, D, r) \ {t} : Before(p.steps, v, t)
  PROVE  LastOf(p, D, r) = t
<1>1. r \in Touches(p, t) /\ t \in p.tasks
  BY DEF Writers, Touches
<1>2. \A v \in Writers(p, D, r) \ {t} : Before(p.order, v, t)
  BY <1>1, ConflictsAgree DEF Writers
<1> QED
  BY <1>2, LastIs

LEMMA NothingWritten ==
  ASSUME NEW p, NEW r
  PROVE  LastOf(p, {}, r) = Untouched
  BY DEF LastOf, Writers

(* One more task, after all that are done. *)
LEMMA OneMore ==
  ASSUME NEW p \in Plans, NEW D, D \subseteq p.tasks, NEW t \in p.tasks \ D,
         \A v \in D : Before(p.steps, v, t), NEW r
  PROVE  LastOf(p, D \cup {t}, r) = IF t \in Writers(p, {t}, r) THEN t ELSE LastOf(p, D, r)
<1>1. CASE t \in Writers(p, {t}, r)
  <2>1. t \in Writers(p, D \cup {t}, r)
        /\ \A v \in Writers(p, D \cup {t}, r) \ {t} : Before(p.steps, v, t)
    BY <1>1 DEF Writers
  <2>2. D \cup {t} \subseteq p.tasks
    OBVIOUS
  <2> HIDE DEF Writers
  <2>3. PICK E : E = D \cup {t}
    OBVIOUS
  <2>4. LastOf(p, E, r) = t
    BY <2>1, <2>2, <2>3, WritesLast
  <2> QED
    BY <1>1, <2>3, <2>4
<1>2. CASE t \notin Writers(p, {t}, r)
  <2>1. Writers(p, D \cup {t}, r) = Writers(p, D, r)
    BY <1>2 DEF Writers
  <2>2. PICK E : E = D \cup {t}
    OBVIOUS
  <2> QED
    BY <1>2, <2>1, <2>2, SameWriters
<1> QED
  BY <1>1, <1>2

(* Memory m and the readings s are those of the tasks D one after another. *)
RanInOrder(p, D, m, s) ==
  /\ \A r \in Regions : m[r] = LastOf(p, D, r)
  /\ DOMAIN s = D
  /\ \A t \in D : \A r \in Touches(p, t) : s[t][r] = LastOf(p, Earlier(p, p.order, t), r)

LEMMA TouchedRegions ==
  ASSUME NEW p \in Plans, NEW t \in p.tasks
  PROVE  Touches(p, t) \subseteq Regions
<1>1. \A u \in p.tasks : {x.region : x \in p.effects[u]} \subseteq Regions
  BY SubmitAssumption
<1> QED
  BY <1>1 DEF Touches

(* A task that reads and writes the memory itself. *)
LEMMA TaskRuns ==
  ASSUME NEW p \in Plans, NEW D, D \subseteq p.tasks, NEW t \in p.tasks \ D,
         D = Earlier(p, p.steps, t), NEW m, NEW s, RanInOrder(p, D, m, s),
         NEW n, \A r \in Regions : n[r] = IF t \in Writers(p, {t}, r) THEN t ELSE m[r],
         NEW l, \A r \in Touches(p, t) : l[r] = m[r]
  PROVE  RanInOrder(p, D \cup {t}, n, Put(s, t, l))
<1>1. \A v \in D : Before(p.steps, v, t)
  BY DEF Earlier
<1>2. \A r \in Regions : n[r] = LastOf(p, D \cup {t}, r)
  BY <1>1, OneMore DEF RanInOrder
<1>3. DOMAIN Put(s, t, l) = D \cup {t}
  BY DEF RanInOrder, Put
<1>4. ASSUME NEW u \in D, NEW r \in Touches(p, u)
      PROVE  Put(s, t, l)[u][r] = LastOf(p, Earlier(p, p.order, u), r)
  <2>1. Put(s, t, l)[u] = s[u]
    BY DEF RanInOrder, Put
  <2> QED
    BY <2>1 DEF RanInOrder
<1>5. ASSUME NEW r \in Touches(p, t)
      PROVE  Put(s, t, l)[t][r] = LastOf(p, Earlier(p, p.order, t), r)
  <2>1. Put(s, t, l)[t] = l
    BY DEF RanInOrder, Put
  <2>2. r \in Regions
    BY TouchedRegions
  <2>3. l[r] = LastOf(p, D, r)
    BY <2>2 DEF RanInOrder
  <2> QED
    BY <2>1, <2>3, SeesTheSame
<1> QED
  BY <1>2, <1>3, <1>4, <1>5 DEF RanInOrder

LEMMA StepsBefore ==
  ASSUME NEW p \in Plans, NEW k \in DOMAIN p.steps
  PROVE  Earlier(p, p.steps, p.steps[k]) = {p.steps[i] : i \in 1 .. k - 1}
<1>1. /\ Sealed(p.steps, p) /\ DOMAIN p.steps = 1 .. Len(p.steps) /\ Len(p.steps) \in Nat
      /\ \A i \in DOMAIN p.steps : p.steps[i] \in p.tasks
  BY OrdersAreSealed DEF Sealed
<1>2. ASSUME NEW i \in 1 .. k - 1
      PROVE  p.steps[i] \in p.tasks /\ Before(p.steps, p.steps[i], p.steps[k])
  <2>1. i \in DOMAIN p.steps /\ i < k
    BY <1>1
  <2> QED
    BY <1>1, <2>1 DEF Before
<1>3. ASSUME NEW u, Before(p.steps, u, p.steps[k])
      PROVE  \E i \in 1 .. k - 1 : u = p.steps[i]
  <2>1. PICK i \in DOMAIN p.steps, j \in DOMAIN p.steps :
           i < j /\ p.steps[i] = u /\ p.steps[j] = p.steps[k]
    BY <1>3 DEF Before
  <2>2. j = k
    BY <1>1, <2>1 DEF Sealed
  <2>3. i \in 1 .. k - 1
    BY <1>1, <2>1, <2>2
  <2> QED
    BY <2>1, <2>3
<1>4. \A u \in Earlier(p, p.steps, p.steps[k]) : u \in {p.steps[i] : i \in 1 .. k - 1}
  BY <1>3 DEF Earlier
<1>5. \A u \in {p.steps[i] : i \in 1 .. k - 1} : u \in Earlier(p, p.steps, p.steps[k])
  BY <1>2 DEF Earlier
<1> QED
  BY <1>4, <1>5

(* A raster task writes what a compute task has mapped before. *)
DrawsOver(p) ==
  \E t \in p.raster, u \in p.tasks \ p.raster : \E r \in Touches(p, u) :
    Before(p.steps, u, t) /\ t \in Writers(p, {t}, r)

(* Memory is that of the tasks that are done, on Vulkan at the end of each *)
(* batch; a mapped region has the same content in its buffer.              *)
MemInv ==
  /\ stage \in {"Idle", "Admitted", "Publish"} \/ plan = NoPlan =>
       bytes = Fresh /\ DOMAIN saw = {} /\ touched = {}
  /\ plan \in Plans /\ PerTask /\ failures = {} =>
       /\ RanInOrder(plan, done, bytes, saw)
       /\ \A d \in done : \A u \in plan.tasks \ done : Before(plan.steps, d, u)
  /\ plan \in Plans /\ ~PerTask /\ ~DrawsOver(plan) =>
       /\ RanInOrder(plan, done, bytes, saw)
       /\ \A r \in touched : mirror[r] = bytes[r]
       /\ \A r \in touched : \E i \in 1 .. position - 1 :
            plan.steps[i] \notin plan.raster /\ r \in Touches(plan, plan.steps[i])
       /\ \A k \in 1 .. Len(batch) : Touches(plan, batch[k]) \subseteq touched

(* A submission that ends well has run all its tasks. *)
OkInv == stage = "Done" /\ result.ok /\ plan \in Plans => done = plan.tasks /\ failures = {}

LEMMA MemInvAdmit ==
  ASSUME MemInv, RunInv, NEW p \in Plans, Admit(p)
  PROVE  MemInv'
<1>1. /\ stage = "Idle" /\ plan' = p /\ stage' = "Admitted"
      /\ UNCHANGED <<done, failures, position, batch, touched, mirror, bytes, saw>>
  BY DEF Admit, progress, mapped, memory
<1>2. /\ bytes' = Fresh /\ DOMAIN saw' = {} /\ touched' = {} /\ done' = {} /\ batch' = <<>>
  BY <1>1 DEF MemInv, RunInv, StageInv
<1>3. RanInOrder(p, {}, bytes', saw')
  BY <1>2, NothingWritten DEF RanInOrder, Fresh
<1>4. 1 .. Len(batch') = {}
  BY <1>2
<1> QED
  BY <1>1, <1>2, <1>3, <1>4 DEF MemInv

LEMMA MemInvRunTask ==
  ASSUME MemInv, RunInv, RunTask
  PROVE  MemInv'
<1>1. PICK p, D : p = plan /\ D = done
  OBVIOUS
<1>2. /\ stage = "Execute" /\ stage' = stage /\ PerTask /\ PerTask' /\ Remaining # {}
      /\ plan' = p /\ p \in Plans /\ p # NoPlan
      /\ UNCHANGED <<failures, cancelled>>
  BY <1>1, NoPlanIsNone DEF RunTask, admission, RunInv, StageInv, PerTask
<1>3. CASE failures # {}
  BY <1>2, <1>3 DEF MemInv
<1>4. CASE failures = {}
  <2>1. PICK t : t = FirstOf(p.steps, Remaining)
    OBVIOUS
  <2>2. /\ done' = D \cup {t} /\ saw' = Put(saw, t, Load(bytes, t)) /\ bytes' = Store(bytes, t)
    BY <1>1, <2>1 DEF RunTask
  <2>3. /\ Remaining = p.tasks \ D /\ D \subseteq p.tasks
    BY <1>1, <1>2, <1>4 DEF RunInv, TaskInv, Remaining, Started
  <2>4. Sealed(p.steps, p)
    BY <1>2, OrdersAreSealed
  <2>5. t \in p.tasks \ D /\ \A u \in p.tasks \ D : u = t \/ Before(p.steps, t, u)
    <3>1. Remaining \subseteq p.tasks
      BY <2>3
    <3> QED
      BY <1>2, <2>1, <2>3, <2>4, <3>1, FirstOfIsFirst
  <2>6. /\ RanInOrder(p, D, bytes, saw)
        /\ \A d \in D : \A u \in p.tasks \ D : Before(p.steps, d, u)
    BY <1>1, <1>2, <1>4 DEF MemInv
  <2>7. D = Earlier(p, p.steps, t)
    <3>1. \A u \in D : u \in p.tasks /\ Before(p.steps, u, t)
      BY <2>3, <2>5, <2>6
    <3>2. \A u \in p.tasks : Before(p.steps, u, t) => u \in D
      BY <2>4, <2>5, BeforeIsOrder
    <3> QED
      BY <3>1, <3>2 DEF Earlier
  <2>8. \A r \in Regions : bytes'[r] = IF t \in Writers(p, {t}, r) THEN t ELSE bytes[r]
    BY <1>1, <2>2, WrittenAreTouched DEF Store
  <2>9. \A r \in Touches(p, t) : Load(bytes, t)[r] = bytes[r]
    BY <1>1, WrittenAreTouched DEF Load
  <2>10. PICK m, s, l, n : m = bytes /\ s = saw /\ l = Load(bytes, t) /\ n = bytes'
    OBVIOUS
  <2>11. RanInOrder(p, D \cup {t}, n, Put(s, t, l))
    BY <1>2, <2>3, <2>5, <2>6, <2>7, <2>8, <2>9, <2>10, TaskRuns
  <2>12. RanInOrder(p, done', bytes', saw')
    BY <2>2, <2>10, <2>11
  <2>13. \A d \in D \cup {t} : \A u \in p.tasks \ (D \cup {t}) : Before(p.steps, d, u)
    BY <2>5, <2>6
  <2> QED
    BY <1>2, <2>2, <2>12, <2>13 DEF MemInv
<1> QED
  BY <1>3, <1>4

LEMMA MemInvRaster ==
  ASSUME MemInv, RunInv, RunRaster
  PROVE  MemInv'
<1>1. PICK p, D, k : p = plan /\ D = done /\ k = position
  OBVIOUS
<1>2. PICK t : t = p.steps[k]
  OBVIOUS
<1>3. /\ stage = "Execute" /\ stage' = stage /\ ~PerTask /\ ~PerTask' /\ AtRaster /\ batch = <<>>
      /\ plan' = p /\ p \in Plans /\ p # NoPlan
      /\ done' = D \cup {t} /\ saw' = Put(saw, t, Load(bytes, t)) /\ bytes' = Store(bytes, t)
      /\ position' = k + 1
      /\ UNCHANGED <<batch, touched, mirror>>
  BY <1>1, <1>2, NoPlanIsNone DEF RunRaster, admission, RunInv, StageInv, PerTask
<1>4. CASE DrawsOver(p)
  BY <1>3, <1>4 DEF MemInv
<1>5. CASE ~DrawsOver(p)
  <2>1. /\ DOMAIN p.steps = 1 .. Len(p.steps) /\ k \in DOMAIN p.steps /\ t \in p.raster
        /\ k \in Nat /\ Len(p.steps) \in Nat /\ Len(batch) = 0
    <3>1. position \in 1 .. Len(p.steps) + 1 /\ Len(batch) = 0
      BY <1>1, <1>3 DEF RunInv, BatchInv
    <3>2. DOMAIN p.steps = 1 .. Len(p.steps) /\ Len(p.steps) \in Nat
      BY <1>1, <1>3, StepsDone DEF RunInv
    <3> QED
      BY <1>1, <1>2, <1>3, <3>1, <3>2 DEF AtRaster, AtEnd
  <2>2. /\ RanInOrder(p, D, bytes, saw)
        /\ \A r \in touched : mirror[r] = bytes[r]
        /\ \A r \in touched : \E i \in 1 .. k - 1 :
             p.steps[i] \notin p.raster /\ r \in Touches(p, p.steps[i])
    BY <1>1, <1>3, <1>5 DEF MemInv
  <2>3. t \in p.tasks \ D /\ D \subseteq p.tasks /\ D = Earlier(p, p.steps, t)
    <3>1. D = {p.steps[i] : i \in 1 .. k - 1 - Len(batch)}
      BY <1>1, <1>3 DEF RunInv, BatchInv
    <3>2. k - 1 - Len(batch) = k - 1 /\ k \in k - Len(batch) .. k
      BY <2>1
    <3>3. D = Earlier(p, p.steps, t)
      BY <1>2, <1>3, <2>1, <3>1, <3>2, StepsBefore
    <3>4. t \in p.tasks \ D
      BY <1>1, <1>2, <1>3, <2>1, <3>2, LaterIsNotDone DEF RunInv
    <3> QED
      BY <3>3, <3>4 DEF Earlier
  <2>4. \A r \in Regions : bytes'[r] = IF t \in Writers(p, {t}, r) THEN t ELSE bytes[r]
    BY <1>1, <1>3, WrittenAreTouched DEF Store
  <2>5. \A r \in Touches(p, t) : Load(bytes, t)[r] = bytes[r]
    BY <1>1, WrittenAreTouched DEF Load
  <2>6. PICK m, s, l, n : m = bytes /\ s = saw /\ l = Load(bytes, t) /\ n = bytes'
    OBVIOUS
  <2>7. RanInOrder(p, D \cup {t}, n, Put(s, t, l))
    BY <1>3, <2>2, <2>3, <2>4, <2>5, <2>6, TaskRuns
  <2>8. RanInOrder(p, done', bytes', saw')
    BY <1>3, <2>6, <2>7
  <2>9. ASSUME NEW r \in touched
        PROVE  /\ mirror'[r] = bytes'[r]
               /\ \E i \in 1 .. position' - 1 :
                    p.steps[i] \notin p.raster /\ r \in Touches(p, p.steps[i])
    <3>1. PICK i \in 1 .. k - 1 : p.steps[i] \notin p.raster /\ r \in Touches(p, p.steps[i])
      BY <2>2
    <3>2. p.steps[i] \in p.tasks /\ Before(p.steps, p.steps[i], t)
      <4>1. Earlier(p, p.steps, t) = {p.steps[j] : j \in 1 .. k - 1}
        BY <1>2, <1>3, <2>1, StepsBefore
      <4>2. p.steps[i] \in Earlier(p, p.steps, t)
        BY <4>1
      <4> QED
        BY <4>2 DEF Earlier
    <3>3. t \notin Writers(p, {t}, r)
      BY <1>5, <2>1, <3>1, <3>2 DEF DrawsOver
    <3>4. r \in Regions
      BY <1>3, <3>1, <3>2, TouchedRegions
    <3>5. mirror'[r] = bytes'[r]
      BY <1>3, <2>2, <2>4, <3>3, <3>4
    <3>6. i \in 1 .. position' - 1
      BY <1>3, <2>1
    <3> QED
      BY <3>1, <3>5, <3>6
  <2>10. 1 .. Len(batch') = {}
    BY <1>3, <2>1
  <2> QED
    BY <1>3, <2>8, <2>9, <2>10 DEF MemInv
<1> QED
  BY <1>4, <1>5

LEMMA MemInvPrepare ==
  ASSUME MemInv, RunInv, PrepareDispatch
  PROVE  MemInv'
<1>1. PICK p, D, k : p = plan /\ D = done /\ k = position
  OBVIOUS
<1>2. PICK t, b : t = p.steps[k] /\ b = batch
  OBVIOUS
<1>3. /\ stage = "Execute" /\ stage' = stage /\ ~PerTask /\ ~PerTask' /\ ~AtRaster /\ ~AtEnd
      /\ plan' = p /\ p \in Plans /\ p # NoPlan
      /\ touched' = touched \cup Touches(p, t) /\ batch' = Append(b, t) /\ position' = k + 1
      /\ mirror' = [r \in Regions |-> IF r \in Touches(p, t) THEN bytes[r] ELSE mirror[r]]
      /\ UNCHANGED <<done, bytes, saw>>
  BY <1>1, <1>2, NoPlanIsNone, WrittenAreTouched
     DEF PrepareDispatch, admission, progress, memory, RunInv, StageInv, PerTask
<1>4. CASE DrawsOver(p)
  BY <1>3, <1>4 DEF MemInv
<1>5. CASE ~DrawsOver(p)
  <2>1. /\ DOMAIN p.steps = 1 .. Len(p.steps) /\ k \in DOMAIN p.steps /\ t \notin p.raster
        /\ k \in Nat /\ Len(p.steps) \in Nat /\ t \in p.tasks
        /\ b \in Seq(p.tasks) /\ Len(b) \in Nat
    <3>1. position \in 1 .. Len(p.steps) + 1 /\ b \in Seq(p.tasks)
      BY <1>1, <1>2, <1>3 DEF RunInv, BatchInv
    <3>2. DOMAIN p.steps = 1 .. Len(p.steps) /\ Len(p.steps) \in Nat
      BY <1>1, <1>3, StepsDone DEF RunInv
    <3>3. k \in DOMAIN p.steps /\ t \notin p.raster
      BY <1>1, <1>2, <1>3, <3>1, <3>2 DEF AtRaster, AtEnd
    <3>4. t \in p.tasks
      BY <1>2, <1>3, <3>3, OrdersAreSealed DEF Sealed
    <3> QED
      BY <1>1, <3>1, <3>2, <3>3, <3>4, LenProperties
  <2>2. /\ RanInOrder(p, D, bytes, saw)
        /\ \A r \in touched : mirror[r] = bytes[r]
        /\ \A r \in touched : \E i \in 1 .. k - 1 :
             p.steps[i] \notin p.raster /\ r \in Touches(p, p.steps[i])
        /\ \A j \in 1 .. Len(b) : Touches(p, b[j]) \subseteq touched
    BY <1>1, <1>2, <1>3, <1>5 DEF MemInv
  <2>3. RanInOrder(p, done', bytes', saw')
    BY <1>1, <1>3, <2>2
  <2>4. /\ \A r \in touched : r \in Regions
    <3>1. ASSUME NEW r \in touched PROVE r \in Regions
      <4>1. PICK i \in 1 .. k - 1 : r \in Touches(p, p.steps[i])
        BY <2>2
      <4>2. i \in DOMAIN p.steps
        BY <2>1
      <4>3. p.steps[i] \in p.tasks
        BY <1>3, <4>2, OrdersAreSealed DEF Sealed
      <4> QED
        BY <1>3, <4>1, <4>3, TouchedRegions
    <3> QED
      BY <3>1
  <2>5. Touches(p, t) \subseteq Regions
    BY <1>3, <2>1, TouchedRegions
  <2>6. \A r \in touched' : mirror'[r] = bytes'[r]
    BY <1>3, <2>2, <2>4, <2>5
  <2>7. ASSUME NEW r \in touched'
        PROVE  \E i \in 1 .. position' - 1 : p.steps[i] \notin p.raster /\ r \in Touches(p, p.steps[i])
    <3>1. position' - 1 = k /\ k \in 1 .. k /\ \A i \in 1 .. k - 1 : i \in 1 .. k
      BY <1>3, <2>1
    <3>2. CASE r \in Touches(p, t)
      BY <1>2, <2>1, <3>1, <3>2
    <3>3. CASE r \in touched
      BY <2>2, <3>1, <3>3
    <3> QED
      BY <1>3, <3>2, <3>3
  <2>8. /\ Len(batch') = Len(b) + 1 /\ batch'[Len(b) + 1] = t
        /\ \A j \in 1 .. Len(b) : batch'[j] = b[j]
    BY <1>3, <2>1
  <2>9. ASSUME NEW j \in 1 .. Len(batch') PROVE Touches(p, batch'[j]) \subseteq touched'
    <3>1. j \in 1 .. Len(b) \/ j = Len(b) + 1
      BY <2>1, <2>8
    <3> QED
      BY <1>3, <2>2, <2>8, <3>1
  <2> QED
    BY <1>3, <2>3, <2>6, <2>7, <2>9 DEF MemInv
<1> QED
  BY <1>4, <1>5

(* Some positions have a last one. *)
LEMMA LastPosition ==
  ASSUME NEW k \in Nat, NEW W, W \subseteq 1 .. k, W # {}
  PROVE  Max(W) \in W /\ \A j \in W : j <= Max(W)
<1> DEFINE T == {k - j : j \in W}
<1>1. T \subseteq Nat /\ T # {}
  OBVIOUS
<1>2. PICK m \in T : \A n \in T : m <= n
  BY <1>1, FirstPosition
<1>3. PICK w \in W : m = k - w
  OBVIOUS
<1>4. \A j \in W : w >= j
  <2>1. ASSUME NEW j \in W PROVE w >= j
    <3>1. k - j \in T /\ j \in 1 .. k /\ w \in 1 .. k
      OBVIOUS
    <3>2. k - w <= k - j
      BY <1>2, <1>3, <3>1
    <3> QED
      BY <3>1, <3>2
  <2> QED
    BY <2>1
<1>5. Max(W) \in W /\ \A j \in W : Max(W) >= j
  BY <1>4 DEF Max
<1>6. ASSUME NEW j \in W PROVE j <= Max(W)
  <2>1. Max(W) \in 1 .. k /\ j \in 1 .. k /\ Max(W) >= j
    BY <1>5
  <2> QED
    BY <2>1
<1> QED
  BY <1>5, <1>6

UpTo(p, n) == {p.steps[i] : i \in 1 .. n}

(* The buffers after k dispatches hold what the steps so far have written. *)
LEMMA DispatchedInOrder ==
  ASSUME RunInv, plan \in Plans, ~PerTask, NEW k \in 0 .. Len(batch), NEW r \in Regions,
         mirror[r] = LastOf(plan, done, r)
  PROVE  AfterDispatch(k)[r] = LastOf(plan, UpTo(plan, position - 1 - Len(batch) + k), r)
<1>1. PICK p, c : p = plan /\ c = position - 1 - Len(batch)
  OBVIOUS
<1>2. /\ p \in Plans /\ Sealed(p.steps, p) /\ DOMAIN p.steps = 1 .. Len(p.steps) /\ Len(p.steps) \in Nat
      /\ c \in Nat /\ Len(batch) \in Nat /\ c + Len(batch) <= Len(p.steps)
      /\ done = UpTo(p, c)
      /\ \A j \in 1 .. Len(batch) : batch[j] = p.steps[c + j]
  <2>1. /\ position \in 1 .. Len(p.steps) + 1 /\ Len(batch) < position
        /\ done = {p.steps[i] : i \in 1 .. c}
        /\ \A j \in 1 .. Len(batch) : batch[j] = p.steps[c + j]
    BY <1>1 DEF RunInv, BatchInv
  <2>2. DOMAIN p.steps = 1 .. Len(p.steps) /\ Len(p.steps) \in Nat /\ Len(batch) \in Nat
    BY <1>1, StepsDone DEF RunInv
  <2>3. c \in Nat /\ c + Len(batch) <= Len(p.steps)
    BY <1>1, <2>1, <2>2
  <2> QED
    BY <1>1, <2>1, <2>2, <2>3, OrdersAreSealed DEF UpTo
<1>3. UpTo(p, c + k) \subseteq p.tasks
  <2>1. \A i \in 1 .. c + k : i \in DOMAIN p.steps
    BY <1>2
  <2> QED
    BY <1>2, <2>1 DEF UpTo, Sealed
<1> DEFINE W == {j \in 1 .. k : r \in Written(batch[j])}
<1>4. AfterDispatch(k)[r] = IF W = {} THEN mirror[r] ELSE batch[Max(W)]
  BY DEF AfterDispatch
<1>5. \A j \in 1 .. k : j \in W <=> p.steps[c + j] \in Writers(p, {p.steps[c + j]}, r)
  <2>1. ASSUME NEW j \in 1 .. k PROVE j \in W <=> p.steps[c + j] \in Writers(p, {p.steps[c + j]}, r)
    <3>1. j \in 1 .. Len(batch)
      BY <1>2
    <3>2. batch[j] = p.steps[c + j]
      BY <1>2, <3>1
    <3> QED
      BY <1>1, <3>2, WrittenAreTouched
  <2> QED
    BY <2>1
<1>6. W \subseteq 1 .. k
  OBVIOUS
<1> HIDE DEF W
<1>7. CASE W = {}
  <2>1. ASSUME NEW u \in Writers(p, UpTo(p, c + k), r) PROVE u \in Writers(p, UpTo(p, c), r)
    <3>1. PICK i \in 1 .. c + k : u = p.steps[i]
      BY DEF Writers, UpTo
    <3>2. CASE i \in 1 .. c
      BY <3>1, <3>2 DEF Writers, UpTo
    <3>3. CASE i \notin 1 .. c
      <4>1. i - c \in 1 .. k /\ c + (i - c) = i
        BY <1>2, <3>3
      <4>2. p.steps[i] \notin Writers(p, {p.steps[i]}, r)
        BY <1>5, <1>7, <4>1
      <4> QED
        BY <3>1, <4>2 DEF Writers
    <3> QED
      BY <3>2, <3>3
  <2>2. ASSUME NEW u \in Writers(p, UpTo(p, c), r) PROVE u \in Writers(p, UpTo(p, c + k), r)
    <3>1. PICK i \in 1 .. c : u = p.steps[i]
      BY DEF Writers, UpTo
    <3>2. i \in 1 .. c + k
      BY <1>2
    <3> QED
      BY <3>1, <3>2 DEF Writers, UpTo
  <2>3. Writers(p, UpTo(p, c + k), r) = Writers(p, UpTo(p, c), r)
    BY <2>1, <2>2
  <2>4. LastOf(p, UpTo(p, c + k), r) = LastOf(p, UpTo(p, c), r)
    BY <2>3, SameWriters
  <2> QED
    BY <1>1, <1>2, <1>4, <1>7, <2>4
<1>8. CASE W # {}
  <2>0. k \in Nat
    BY <1>2
  <2>a. Max(W) \in W /\ \A j \in W : j <= Max(W)
    BY <1>6, <1>8, <2>0, LastPosition
  <2>1. PICK m \in W : m = Max(W) /\ \A j \in W : j <= m
    BY <2>a
  <2>2. PICK t : t = p.steps[c + m]
    OBVIOUS
  <2>3. m \in 1 .. k /\ c + m \in 1 .. c + k /\ c + m \in DOMAIN p.steps /\ m \in 1 .. Len(batch)
    BY <1>2, <1>6, <2>1
  <2>4. t \in Writers(p, UpTo(p, c + k), r)
    BY <1>5, <2>1, <2>2, <2>3 DEF Writers, UpTo
  <2>5. ASSUME NEW v \in Writers(p, UpTo(p, c + k), r) \ {t} PROVE Before(p.steps, v, t)
    <3>1. PICK i \in 1 .. c + k : v = p.steps[i]
      BY DEF Writers, UpTo
    <3>2. i # c + m
      BY <2>2, <2>5, <3>1
    <3>3. ASSUME i > c + m PROVE FALSE
      <4>1. i - c \in 1 .. k /\ c + (i - c) = i /\ ~(i - c <= m)
        BY <1>2, <2>3, <3>3
      <4>2. p.steps[i] \in Writers(p, {p.steps[i]}, r)
        BY <3>1 DEF Writers
      <4>3. i - c \in W
        BY <1>5, <4>1, <4>2
      <4> QED
        BY <2>1, <4>1, <4>3
    <3>4. i < c + m /\ i \in DOMAIN p.steps
      BY <1>2, <2>3, <3>2, <3>3
    <3> QED
      BY <2>2, <2>3, <3>1, <3>4 DEF Before
  <2>6. LastOf(p, UpTo(p, c + k), r) = t
    <3>1. PICK E : E = UpTo(p, c + k)
      OBVIOUS
    <3> QED
      BY <1>2, <1>3, <2>4, <2>5, <3>1, WritesLast
  <2>7. AfterDispatch(k)[r] = t
    BY <1>2, <1>4, <1>8, <2>1, <2>2, <2>3
  <2> QED
    BY <1>1, <2>6, <2>7
<1> QED
  BY <1>7, <1>8

(* A task reads in its turn what the dispatches before it have left.       *)
LEMMA BatchReads ==
  ASSUME RunInv, plan \in Plans, ~PerTask, NEW k \in 1 .. Len(batch), NEW r \in Touches(plan, batch[k]),
         mirror[r] = LastOf(plan, done, r)
  PROVE  /\ Turn(batch[k]) = k
         /\ Load(AfterDispatch(k - 1), batch[k])[r] = LastOf(plan, Earlier(plan, plan.order, batch[k]), r)
<1>1. PICK p, c, t : p = plan /\ c = position - 1 - Len(batch) /\ t = batch[k]
  OBVIOUS
<1>2. /\ p \in Plans /\ Sealed(p.steps, p) /\ DOMAIN p.steps = 1 .. Len(p.steps) /\ Len(p.steps) \in Nat
      /\ c \in Nat /\ Len(batch) \in Nat /\ c + Len(batch) <= Len(p.steps)
      /\ \A j \in 1 .. Len(batch) : batch[j] = p.steps[c + j]
      /\ DOMAIN batch = 1 .. Len(batch)
  <2>1. /\ position \in 1 .. Len(p.steps) + 1 /\ Len(batch) < position
        /\ \A j \in 1 .. Len(batch) : batch[j] = p.steps[c + j]
    BY <1>1 DEF RunInv, BatchInv
  <2>2. DOMAIN p.steps = 1 .. Len(p.steps) /\ Len(p.steps) \in Nat /\ Len(batch) \in Nat
        /\ DOMAIN batch = 1 .. Len(batch)
    BY <1>1, StepsDone DEF RunInv
  <2>3. c \in Nat /\ c + Len(batch) <= Len(p.steps)
    BY <1>1, <2>1, <2>2
  <2> QED
    BY <1>1, <2>1, <2>2, <2>3, OrdersAreSealed
<1>3. c + k \in DOMAIN p.steps /\ t = p.steps[c + k] /\ t \in p.tasks
  <2>1. c + k \in DOMAIN p.steps
    BY <1>2
  <2>2. t = p.steps[c + k]
    BY <1>1, <1>2
  <2>3. \A i \in DOMAIN p.steps : p.steps[i] \in p.tasks
    BY <1>2 DEF Sealed
  <2> QED
    BY <2>1, <2>2, <2>3
<1>4. Turn(t) = k
  <2>1. ASSUME NEW j \in DOMAIN batch, batch[j] = t PROVE j = k
    <3>1. c + j \in DOMAIN p.steps /\ p.steps[c + j] = t
      BY <1>2, <2>1
    <3>2. c + j = c + k
      BY <1>2, <1>3, <3>1 DEF Sealed
    <3> QED
      BY <1>2, <3>2
  <2>2. k \in DOMAIN batch /\ batch[k] = t
    BY <1>1, <1>2
  <2> QED
    BY <2>1, <2>2 DEF Turn
<1>5. r \in Touches(p, t) /\ r \in Regions
  BY <1>1, <1>2, <1>3, TouchedRegions
<1>6. Load(AfterDispatch(k - 1), t)[r] = AfterDispatch(k - 1)[r]
  BY <1>1, <1>5, WrittenAreTouched DEF Load
<1>7. AfterDispatch(k - 1)[r] = LastOf(p, UpTo(p, c + (k - 1)), r)
  <2>1. k - 1 \in 0 .. Len(batch)
    BY <1>2
  <2> QED
    BY <1>1, <1>5, <2>1, DispatchedInOrder
<1>8. UpTo(p, c + (k - 1)) = Earlier(p, p.steps, t)
  <2>1. c + (k - 1) = (c + k) - 1
    BY <1>2
  <2>2. Earlier(p, p.steps, t) = {p.steps[i] : i \in 1 .. (c + k) - 1}
    BY <1>2, <1>3, StepsBefore
  <2> QED
    BY <2>1, <2>2 DEF UpTo
<1>9. LastOf(p, Earlier(p, p.steps, t), r) = LastOf(p, Earlier(p, p.order, t), r)
  BY <1>2, <1>3, <1>5, SeesTheSame
<1> QED
  BY <1>1, <1>4, <1>6, <1>7, <1>8, <1>9

LEMMA MemInvFlush ==
  ASSUME MemInv, RunInv, FlushBatch
  PROVE  MemInv'
<1>1. PICK p, D, b, k, B : p = plan /\ D = done /\ b = batch /\ k = position /\ B = ToSet(batch)
  OBVIOUS
<1>2. /\ stage = "Execute" /\ stage' = stage /\ ~PerTask /\ ~PerTask' /\ b # <<>>
      /\ plan' = p /\ p \in Plans /\ p # NoPlan
      /\ done' = D \cup B /\ batch' = <<>> /\ position' = k
      /\ mirror' = AfterDispatch(Len(b))
      /\ bytes' = [r \in Regions |-> IF r \in touched THEN mirror'[r] ELSE bytes[r]]
      /\ saw' = [t \in DOMAIN saw \cup B |->
                   IF t \in DOMAIN saw THEN saw[t] ELSE Load(AfterDispatch(Turn(t) - 1), t)]
      /\ UNCHANGED touched
  BY <1>1, NoPlanIsNone DEF FlushBatch, FlushNeeded, WrittenBack, admission, RunInv, StageInv, PerTask
<1>3. CASE DrawsOver(p)
  BY <1>2, <1>3 DEF MemInv
<1>4. CASE ~DrawsOver(p)
  <2>1. /\ RanInOrder(p, D, bytes, saw)
        /\ \A r \in touched : mirror[r] = bytes[r]
        /\ \A r \in touched : \E i \in 1 .. k - 1 :
             p.steps[i] \notin p.raster /\ r \in Touches(p, p.steps[i])
        /\ \A j \in 1 .. Len(b) : Touches(p, b[j]) \subseteq touched
    BY <1>1, <1>2, <1>4 DEF MemInv
  <2>2. /\ DOMAIN p.steps = 1 .. Len(p.steps) /\ Len(p.steps) \in Nat /\ k \in Nat /\ Len(b) \in Nat
        /\ k <= Len(p.steps) + 1 /\ Len(b) < k /\ DOMAIN b = 1 .. Len(b)
        /\ D = UpTo(p, k - 1 - Len(b)) /\ B = {p.steps[i] : i \in k - Len(b) .. k - 1}
        /\ B = {b[j] : j \in 1 .. Len(b)}
    <3>1. /\ position \in 1 .. Len(p.steps) + 1 /\ Len(batch) < position
          /\ done = {p.steps[i] : i \in 1 .. k - 1 - Len(batch)}
      BY <1>1, <1>2 DEF RunInv, BatchInv
    <3>2. /\ DOMAIN p.steps = 1 .. Len(p.steps) /\ Len(p.steps) \in Nat /\ Len(batch) \in Nat
          /\ ToSet(batch) = {p.steps[i] : i \in position - Len(batch) .. position - 1}
          /\ DOMAIN batch = 1 .. Len(batch)
      BY <1>1, <1>2, StepsDone DEF RunInv
    <3>3. ToSet(batch) = {batch[j] : j \in 1 .. Len(batch)}
      BY <3>2 DEF ToSet
    <3>4. k \in Nat /\ k <= Len(p.steps) + 1 /\ Len(b) = Len(batch)
      BY <1>1, <3>1, <3>2
    <3>5. D = UpTo(p, k - 1 - Len(b)) /\ B = {p.steps[i] : i \in k - Len(b) .. k - 1}
      BY <1>1, <3>1, <3>2 DEF UpTo
    <3>6. B = {b[j] : j \in 1 .. Len(b)}
      BY <1>1, <3>3
    <3> HIDE DEF ToSet
    <3> QED
      BY <1>1, <3>1, <3>2, <3>4, <3>5, <3>6
  <2>3. D \cup B = UpTo(p, k - 1)
    <3>1. \A i \in 1 .. k - 1 : i \in 1 .. k - 1 - Len(b) \/ i \in k - Len(b) .. k - 1
      BY <2>2
    <3>2. \A i : i \in 1 .. k - 1 - Len(b) \/ i \in k - Len(b) .. k - 1 => i \in 1 .. k - 1
      BY <2>2
    <3> QED
      BY <2>2, <3>1, <3>2 DEF UpTo
  <2>4. /\ \A t \in B : t \notin D /\ t \in p.tasks
        /\ \A i \in 1 .. k - 1 : p.steps[i] \in p.tasks
    <3>1. \A i \in k - Len(b) .. k - 1 : i \in k - Len(b) .. k /\ i \in DOMAIN p.steps
      BY <2>2
    <3>2. \A i \in 1 .. k - 1 : i \in DOMAIN p.steps
      BY <2>2
    <3>3. \A i \in DOMAIN p.steps : p.steps[i] \in p.tasks
      BY <1>2, OrdersAreSealed DEF Sealed
    <3>4. ASSUME NEW t \in B PROVE t \notin D /\ t \in p.tasks
      <4>1. PICK i \in k - Len(b) .. k - 1 : t = p.steps[i]
        BY <2>2
      <4> QED
        BY <1>1, <1>2, <3>1, <4>1, LaterIsNotDone DEF RunInv
    <3> QED
      BY <3>2, <3>3, <3>4
  <2>5. \A r \in touched : r \in Regions
    <3>1. ASSUME NEW r \in touched PROVE r \in Regions
      <4>1. PICK i \in 1 .. k - 1 : r \in Touches(p, p.steps[i])
        BY <2>1
      <4> QED
        BY <1>2, <2>4, <4>1, TouchedRegions
    <3> QED
      BY <3>1
  <2>6. ASSUME NEW r \in Regions PROVE bytes'[r] = LastOf(p, D \cup B, r)
    <3>1. CASE r \in touched
      <4>1. mirror[r] = LastOf(p, D, r)
        BY <2>1, <3>1 DEF RanInOrder
      <4>2. Len(batch) \in 0 .. Len(batch)
        BY <1>1, <2>2
      <4>3. AfterDispatch(Len(batch))[r]
              = LastOf(p, UpTo(p, position - 1 - Len(batch) + Len(batch)), r)
        BY <1>1, <1>2, <4>1, <4>2, DispatchedInOrder
      <4>4. position - 1 - Len(batch) + Len(batch) = k - 1
        BY <1>1, <2>2
      <4> QED
        BY <1>1, <1>2, <2>3, <3>1, <4>3, <4>4
    <3>2. CASE r \notin touched
      <4>1. \A t \in B : t \notin Writers(p, {t}, r)
        <5>1. \A t \in B : r \notin Touches(p, t)
          BY <2>1, <2>2, <3>2
        <5> QED
          BY <5>1 DEF Writers, Touches
      <4>2. Writers(p, D \cup B, r) = Writers(p, D, r)
        BY <4>1 DEF Writers
      <4>3. PICK E : E = D \cup B
        OBVIOUS
      <4>4. LastOf(p, E, r) = LastOf(p, D, r)
        BY <4>2, <4>3, SameWriters
      <4> QED
        BY <1>2, <2>1, <3>2, <4>3, <4>4 DEF RanInOrder
    <3> QED
      BY <3>1, <3>2
  <2>7. DOMAIN saw = D /\ DOMAIN saw' = D \cup B
    BY <1>2, <2>1 DEF RanInOrder
  <2>8. ASSUME NEW t \in D \cup B, NEW r \in Touches(p, t)
        PROVE  saw'[t][r] = LastOf(p, Earlier(p, p.order, t), r)
    <3>1. CASE t \in D
      BY <1>2, <2>1, <2>7, <3>1 DEF RanInOrder
    <3>2. CASE t \in B
      <4>1. PICK j \in 1 .. Len(b) : t = b[j]
        BY <2>2, <3>2
      <4>2. r \in touched /\ r \in Regions
        BY <2>1, <2>5, <4>1
      <4>3. mirror[r] = LastOf(p, D, r)
        BY <2>1, <4>2 DEF RanInOrder
      <4>4. Turn(t) = j /\ Load(AfterDispatch(j - 1), t)[r] = LastOf(p, Earlier(p, p.order, t), r)
        BY <1>1, <1>2, <4>1, <4>3, BatchReads
      <4>5. saw'[t] = Load(AfterDispatch(j - 1), t)
        BY <1>2, <2>4, <2>7, <3>2, <4>4
      <4> QED
        BY <4>4, <4>5
    <3> QED
      BY <3>1, <3>2
  <2>9. RanInOrder(p, done', bytes', saw')
    BY <1>2, <2>6, <2>7, <2>8 DEF RanInOrder
  <2>10. \A r \in touched' : mirror'[r] = bytes'[r]
    BY <1>2, <2>5
  <2>11. 1 .. Len(batch') = {}
    BY <1>2
  <2> QED
    BY <1>2, <2>1, <2>9, <2>10, <2>11 DEF MemInv
<1> QED
  BY <1>3, <1>4

LEMMA MemInvSignal ==
  ASSUME MemInv, RunInv, SignalMarker
  PROVE  MemInv'
<1>1. PICK p, D, k : p = plan /\ D = done /\ k = position
  OBVIOUS
<1>2. /\ stage = "Execute" /\ stage' = "Record" /\ ~PerTask /\ ~PerTask'
      /\ plan' = p /\ p \in Plans /\ p # NoPlan
      /\ bytes' = [r \in Regions |-> IF r \in touched THEN mirror[r] ELSE bytes[r]]
      /\ UNCHANGED <<done, position, batch, touched, mirror, saw>>
  BY <1>1, NoPlanIsNone
     DEF SignalMarker, Dispatched, WrittenBack, admission, progress, mapped, RunInv, StageInv, PerTask
<1>3. CASE DrawsOver(p)
  BY <1>2, <1>3 DEF MemInv
<1>4. CASE ~DrawsOver(p)
  <2>1. /\ RanInOrder(p, D, bytes, saw)
        /\ \A r \in touched : mirror[r] = bytes[r]
        /\ \A r \in touched : \E i \in 1 .. k - 1 :
             p.steps[i] \notin p.raster /\ r \in Touches(p, p.steps[i])
        /\ \A j \in 1 .. Len(batch) : Touches(p, batch[j]) \subseteq touched
    BY <1>1, <1>2, <1>4 DEF MemInv
  <2>2. \A r \in Regions : bytes'[r] = bytes[r]
    BY <1>2, <2>1
  <2>3. \A i \in 1 .. k - 1 : p.steps[i] \in p.tasks
    <3>1. DOMAIN p.steps = 1 .. Len(p.steps) /\ Len(p.steps) \in Nat /\ k \in 1 .. Len(p.steps) + 1
      BY <1>1, <1>2, StepsDone DEF RunInv, BatchInv
    <3>2. \A i \in DOMAIN p.steps : p.steps[i] \in p.tasks
      BY <1>2, OrdersAreSealed DEF Sealed
    <3>3. \A i \in 1 .. k - 1 : i \in DOMAIN p.steps
      BY <3>1
    <3> QED
      BY <3>2, <3>3
  <2>4. \A r \in touched : r \in Regions
    BY <1>2, <2>1, <2>3, TouchedRegions
  <2>5. RanInOrder(p, D, bytes', saw')
    BY <1>2, <2>1, <2>2 DEF RanInOrder
  <2>6. \A r \in touched : mirror'[r] = bytes'[r]
    BY <1>2, <2>1, <2>2, <2>4
  <2> QED
    BY <1>1, <1>2, <2>1, <2>5, <2>6 DEF MemInv
<1> QED
  BY <1>3, <1>4

(* A task that fails is no run that MemInv speaks of.                      *)
LEMMA MemInvFailTask ==
  ASSUME MemInv, RunInv, FailTask
  PROVE  MemInv'
<1>1. /\ stage = "Execute" /\ stage' = stage /\ PerTask /\ PerTask' /\ plan' = plan /\ plan # NoPlan
      /\ failures' # {}
  BY NoPlanIsNone DEF FailTask, admission, RunInv, StageInv, PerTask
<1> QED
  BY <1>1 DEF MemInv

LEMMA MemInvReturn ==
  ASSUME Return
  PROVE  MemInv'
<1>1. plan' = NoPlan /\ bytes' = Fresh /\ DOMAIN saw' = {} /\ touched' = {}
  <2>1. plan' = NoPlan /\ bytes' = Fresh /\ saw' = <<>> /\ touched' = {}
    BY DEF Return
  <2>2. DOMAIN <<>> = {}
    OBVIOUS
  <2> QED
    BY <2>1, <2>2
<1>2. plan' \notin Plans
  BY <1>1, SubmitAssumption
<1> QED
  BY <1>1, <1>2 DEF MemInv

(* The other steps touch neither the memory nor what it is compared with.  *)
Early == {"Idle", "Admitted", "Publish"}
MemKept ==
  /\ UNCHANGED <<backend, plan, done, failures, position, batch, touched, mirror, bytes, saw>>
  /\ stage' \in Early => stage \in Early

LEMMA MemCases ==
  ASSUME [Next]_vars
  PROVE  \/ MemKept
         \/ \E p \in Plans : Admit(p)
         \/ RunTask \/ FailTask \/ PrepareDispatch \/ FlushBatch \/ RunRaster \/ SignalMarker \/ Return
<1>1. ASSUME NEW p \in Plans, RefuseTimeline(p) PROVE MemKept
  BY <1>1 DEF RefuseTimeline, End, MemKept, Early, admission, progress, mapped, memory
<1>2. ASSUME NEW n, FailPublish(n) \/ FailRecord(n) PROVE MemKept
  BY <1>2 DEF FailPublish, FailRecord, End, MemKept, Early, admission, progress, mapped, memory
<1>3. CASE Hold \/ FailHold \/ Publish \/ ReportFailures \/ Complete \/ RefuseSignal
  BY <1>3 DEF Hold, FailHold, Publish, ReportFailures, Complete, RefuseSignal, End,
     MemKept, Early, admission, progress, mapped, memory
<1>4. CASE FailWaitMarker \/ FailPrepare \/ FailRaster \/ FailSignalMarker \/ Record
  BY <1>4 DEF FailWaitMarker, FailPrepare, FailRaster, FailSignalMarker, Record, Stop, End,
     MemKept, Early, admission, progress, mapped, memory
<1>5. ASSUME NEW waited, FailFlush(waited) PROVE MemKept
  BY <1>5 DEF FailFlush, Stop, End, MemKept, Early, admission, progress, mapped, memory
<1>6. CASE UNCHANGED vars
  BY <1>6 DEF vars, MemKept, admission, progress, mapped, memory
<1> QED
  BY <1>1, <1>2, <1>3, <1>4, <1>5, <1>6 DEF Next, Proceed, DriverFails

LEMMA MemInvStep == RunInv /\ MemInv /\ [Next]_vars => MemInv'
<1> SUFFICES ASSUME RunInv, MemInv, [Next]_vars PROVE MemInv'
  OBVIOUS
<1>1. CASE MemKept
  <2>1. PerTask' = PerTask
    BY <1>1 DEF MemKept, PerTask
  <2> QED
    BY <1>1, <2>1 DEF MemKept, MemInv, Early
<1> QED
  BY <1>1, MemCases, MemInvAdmit, MemInvRunTask, MemInvFailTask, MemInvPrepare, MemInvFlush,
     MemInvRaster, MemInvSignal, MemInvReturn

(* A submission is reported as good only where nothing remains to be run.  *)
LEMMA OkInvStep == RunInv /\ OkInv /\ [Next]_vars => OkInv'
<1> SUFFICES ASSUME RunInv, OkInv, [Next]_vars, stage' = "Done", result'.ok, plan' \in Plans
             PROVE  done' = plan'.tasks /\ failures' = {}
  BY DEF OkInv
<1>1. CASE Complete
  <2>1. /\ plan \in Plans /\ PerTask /\ Remaining = {} /\ AllSucceeded
        /\ UNCHANGED <<plan, done, failures>>
    BY <1>1 DEF Complete, admission, progress, RunInv, StageInv
  <2> QED
    BY <2>1, NothingRemains DEF RunInv, AllSucceeded
<1>2. CASE Record
  <2>1. /\ plan \in Plans /\ ~PerTask /\ AtEnd /\ batch = <<>>
        /\ UNCHANGED <<plan, done, failures>>
    BY <1>2 DEF Record, admission, progress, RunInv, StageInv
  <2> QED
    BY <2>1, LastStepDone DEF RunInv, BatchInv
<1>3. CASE UNCHANGED vars
  BY <1>3 DEF vars, OkInv, admission, progress
<1>4. ASSUME \E poison, fault, code : result' = Failed(poison, fault, code) PROVE FALSE
  <2>1. PICK poison, fault, code : result' = Failed(poison, fault, code)
    BY <1>4
  <2>2. result'.ok = FALSE
    BY <2>1 DEF Failed
  <2> QED
    BY <2>2
<1>5. ASSUME NEW p \in Plans, RefuseTimeline(p) \/ Admit(p) PROVE FALSE
  BY <1>4, <1>5 DEF RefuseTimeline, Admit, End
<1>6. CASE DriverFails
  BY <1>4, <1>6 DEF DriverFails, FailHold, FailPublish, FailRecord, FailWaitMarker, FailPrepare,
     FailRaster, FailSignalMarker, FailFlush, Stop, End
<1>7. CASE ReportFailures \/ RefuseSignal
  BY <1>4, <1>7 DEF ReportFailures, RefuseSignal, End
<1>8. CASE Hold \/ Publish \/ RunTask \/ FailTask \/ PrepareDispatch \/ FlushBatch \/ RunRaster
           \/ SignalMarker \/ Return
  BY <1>8 DEF Hold, Publish, RunTask, FailTask, PrepareDispatch, FlushBatch, FlushNeeded, RunRaster,
     SignalMarker, Return
<1> QED
  BY <1>1, <1>2, <1>3, <1>5, <1>6, <1>7, <1>8 DEF Next, Proceed

LEMMA InOrderIsSequential ==
  ASSUME RunInv, MemInv, OkInv
  PROVE  MemoryUnlessDrawnOver
<1> SUFFICES ASSUME plan # NoPlan, PerTask \/ ~DrawsOverMapped, stage = "Done", result.ok
             PROVE  /\ \A t \in plan.tasks : \A r \in Accessed(t) :
                         saw[t][r] = LastWriter({u \in plan.tasks : Before(plan.order, u, t)}, r)
                    /\ \A r \in Regions : bytes[r] = LastWriter(plan.tasks, r)
  BY DEF MemoryUnlessDrawnOver, MemoryIsSequential
<1>1. plan \in Plans
  BY DEF RunInv, StageInv
<1>2. done = plan.tasks /\ failures = {}
  BY <1>1 DEF OkInv
<1>3. DrawsOver(plan) => DrawsOverMapped
  <2>1. ASSUME NEW t \in plan.raster, NEW u \in plan.tasks \ plan.raster, NEW r \in Touches(plan, u),
               Before(plan.steps, u, t), t \in Writers(plan, {t}, r)
        PROVE  DrawsOverMapped
    <3>1. r \in Written(t) \cap Accessed(u)
      BY <2>1, WrittenAreTouched
    <3> QED
      BY <2>1, <3>1 DEF DrawsOverMapped
  <2> QED
    BY <2>1 DEF DrawsOver
<1>4. RanInOrder(plan, plan.tasks, bytes, saw)
  BY <1>1, <1>2, <1>3 DEF MemInv
<1>5. ASSUME NEW t \in plan.tasks, NEW r \in Accessed(t)
      PROVE  saw[t][r] = LastWriter({u \in plan.tasks : Before(plan.order, u, t)}, r)
  <2>1. saw[t][r] = LastOf(plan, Earlier(plan, plan.order, t), r)
    BY <1>4, WrittenAreTouched DEF RanInOrder
  <2> QED
    BY <2>1, LastWriterIsLastOf DEF Earlier
<1>6. \A r \in Regions : bytes[r] = LastWriter(plan.tasks, r)
  BY <1>4, LastWriterIsLastOf DEF RanInOrder
<1> QED
  BY <1>5, <1>6

(* ADR-054, section 3: whatever order the schedule has and whatever is     *)
(* dispatched together, a submission that succeeds has read and left what  *)
(* its tasks would have one by one in canonical order; on Vulkan as long   *)
(* as no raster task writes what a compute task has mapped before.         *)
THEOREM MemoryIsAsInOrder == Spec => []MemoryUnlessDrawnOver
<1>1. Init => MemInv /\ OkInv
  <2>1. Init => DOMAIN saw = {} /\ plan \notin Plans /\ stage = "Idle"
    BY SubmitAssumption DEF Init
  <2> QED
    BY <2>1 DEF Init, MemInv, OkInv
<1>2. RunInv /\ MemInv /\ OkInv /\ [Next]_vars => (MemInv /\ OkInv)'
  BY MemInvStep, OkInvStep
<1>3. RunInv /\ MemInv /\ OkInv => MemoryUnlessDrawnOver
  BY InOrderIsSequential
<1> QED
  BY <1>1, <1>2, <1>3, RunInvariant, PTL DEF Spec
=============================================================================
