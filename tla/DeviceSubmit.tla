---------------------------- MODULE DeviceSubmit ----------------------------
(***************************************************************************)
(* The submit call of the three devices, from the timeline check to the    *)
(* result (src/src/backends/reference/reference_device_hal.cpp,            *)
(* metal/metal_commit.mm, vulkan/vulkan_commit.cpp), with the envelope     *)
(* continuations and the timeline (backends/envelope_stage.cpp,            *)
(* core/envelope.cpp).                                                     *)
(*                                                                         *)
(* One host thread submits plans one after another; plans come from the    *)
(* assembler.  Whatever a driver may answer is a choice.  The hold and the *)
(* representation commit are one step (SubmissionLifetime has them in      *)
(* full).  Memory is, per region, the task that wrote it last.  A          *)
(* submission refused before it changes anything is no step; discovery,    *)
(* working set, Tier-2 commands and the lowering report are left out.      *)
(***************************************************************************)
EXTENDS Naturals, Sequences, FiniteSets, SequencesExt, TLC

CONSTANTS Backends, Plans, Regions, MaxTokens, NoTask, NoPlan

Untouched == NoTask          \* what a region holds before the submission

Before(s, t, u) == \E i, j \in DOMAIN s : i < j /\ s[i] = t /\ s[j] = u
Linearizes(s, p) ==
  /\ s \in Seq(p.tasks) /\ ToSet(s) = p.tasks /\ IsInjective(s)
  /\ \A t \in p.tasks : \A u \in p.below[t] : Before(s, t, u)

Conflict(p, t, u) ==
  \E x \in p.effects[t], y \in p.effects[u] :
    x.region = y.region /\ "Write" \in {x.access, y.access}

(* What the assembler seals: the canonical order and the order of the      *)
(* schedule's steps both respect the edges (below[t] is what t reaches,    *)
(* without t), tasks that conflict have one, and a signal advances past    *)
(* the wait.                                                               *)
ASSUME SubmitAssumption ==
  /\ Backends \subseteq {"Reference", "Metal", "Vulkan"}
  /\ MaxTokens \in Nat
  /\ NoPlan \notin Plans
  /\ \A p \in Plans :
       /\ p.tasks # {} /\ p.raster \subseteq p.tasks
       /\ Linearizes(p.order, p) /\ Linearizes(p.steps, p)
       /\ \A t \in p.tasks : \A u \in p.below[t] : p.below[u] \subseteq p.below[t]
       /\ \A t, u \in p.tasks : Before(p.order, t, u) /\ Conflict(p, t, u) => u \in p.below[t]
       /\ \A t \in p.tasks : {x.region : x \in p.effects[t]} \subseteq Regions
       /\ {p.quota, p.wait, p.signal} \subseteq Nat
       /\ p.signal # 0 => p.signal > p.wait

VARIABLES
  backend,
  timeline, leftover, nextToken,    \* the device: timeline_, envelope_continuations_
  envelopes,                        \* history: what was published of each split order
  stage, plan, token, publishOrder, \* the submission: token of the order it splits or resumes
  faults,                           \* the tasks that fail if they run, and how
  published, done, failures, cancelled, produced, result,
  position, batch, executedWork, touched, mirror, \* Vulkan
  bytes, saw                        \* memory, and what each task found there

device == <<timeline, leftover, nextToken, envelopes>>
admission == <<backend, plan, token, publishOrder, faults>>
progress == <<done, failures, cancelled, produced>>
mapped == <<position, batch, executedWork, touched, mirror>>
memory == <<bytes, saw>>
vars == <<stage, published, result, device, admission, progress, mapped, memory>>

Ok == [ok |-> TRUE, poison |-> "Valid", fault |-> NoTask, code |-> "None"]
Failed(poison, fault, code) == [ok |-> FALSE, poison |-> poison, fault |-> fault, code |-> code]
Poison(visible) == IF visible THEN "PartiallyProduced" ELSE "Poisoned"

Fresh == [r \in Regions |-> Untouched]

Init ==
  /\ backend \in Backends
  /\ timeline = 0 /\ leftover = <<>> /\ nextToken = 1 /\ envelopes = <<>>
  /\ stage = "Idle" /\ plan = NoPlan /\ token = 0 /\ publishOrder = <<>> /\ faults = <<>>
  /\ published = <<>> /\ result = Ok
  /\ done = {} /\ failures = {} /\ cancelled = {} /\ produced = FALSE
  /\ position = 1 /\ batch = <<>> /\ executedWork = FALSE /\ touched = {}
  /\ mirror = Fresh /\ bytes = Fresh /\ saw = <<>>

PerTask == backend \in {"Reference", "Metal"}
Accessed(t) == {x.region : x \in plan.effects[t]}
Written(t) == {x.region : x \in {e \in plan.effects[t] : e.access = "Write"}}
Load(m, t) == [r \in Accessed(t) |-> m[r]]
Store(m, t) == [r \in Regions |-> IF r \in Written(t) THEN t ELSE m[r]]

End(what) == stage' = "Done" /\ result' = what

-----------------------------------------------------------------------------
(* The timeline check.  Metal and Vulkan look at the signal here too and   *)
(* may fail to create the timeline.                                        *)
Refused(p) ==
  \/ p.wait > timeline
  \/ backend # "Reference" /\ p.signal # 0 /\ p.signal <= timeline
Unavailable(p) == backend # "Reference" /\ {p.wait, p.signal} # {0}

RefuseTimeline(p) ==
  /\ stage = "Idle" /\ (Refused(p) \/ Unavailable(p))
  /\ End(Failed("Poisoned", NoTask, "Timeline"))
  /\ UNCHANGED <<published, device, admission, progress, mapped, memory>>

(* apply_envelope_continuation.  An unset quota is one that is never met.  *)
Split(p) == p.quota < Len(p.order)

(* A table with one more entry *)
Put(f, k, v) == [j \in DOMAIN f \cup {k} |-> IF j = k THEN v ELSE f[j]]

Deferred(p) == SubSeq(p.order, p.quota + 1, Len(p.order))

AdmitWhole(p) ==
  /\ ~Split(p)
  /\ publishOrder' = p.order /\ token' = 0
  /\ UNCHANGED <<leftover, nextToken, envelopes>>

AdmitPrefix(p) ==
  /\ Split(p) /\ nextToken <= MaxTokens
  /\ publishOrder' = SubSeq(p.order, 1, p.quota) /\ token' = nextToken
  /\ leftover' = Put(leftover, nextToken, Deferred(p))
  /\ nextToken' = nextToken + 1
  /\ envelopes' = Put(envelopes, nextToken, [order |-> p.order, shown |-> <<>>, whole |-> TRUE])

(* Mutant of Taken: the table is looked up but keeps the record *)
Kept(k) == leftover

Taken(k) == [j \in DOMAIN leftover \ {k} |-> leftover[j]]

(* The pending record names what is left of this order, whatever plan it   *)
(* was left by; the quota of the plan is not looked at.                    *)
AdmitContinuation(p, k) ==
  /\ k \in DOMAIN leftover /\ IsSuffix(leftover[k], p.order)
  /\ publishOrder' = leftover[k] /\ token' = k
  /\ leftover' = Taken(k)
  /\ UNCHANGED <<nextToken, envelopes>>

(* How tasks may fail: before they write anything, or after.  Vulkan has   *)
(* no faults of single tasks; the reference rasteriser fails clean.        *)
Ways(p, t) ==
  IF \E x \in p.effects[t] : x.access = "Write" /\ ~(backend = "Reference" /\ t \in p.raster)
  THEN {"None", "Clean", "Dirty"} ELSE {"None", "Clean"}
Faulty(how) == [t \in {u \in DOMAIN how : how[u] # "None"} |-> how[t]]
FaultChoices(p) ==
  IF PerTask
  THEN {Faulty(how) : how \in {h \in [p.tasks -> {"None", "Clean", "Dirty"}] : \A t \in p.tasks : h[t] \in Ways(p, t)}}
  ELSE {<<>>}

Admit(p) ==
  /\ stage = "Idle" /\ ~Refused(p)
  /\ AdmitWhole(p) \/ AdmitPrefix(p) \/ \E k \in DOMAIN leftover : AdmitContinuation(p, k)
  /\ plan' = p /\ stage' = "Admitted"
  /\ faults' \in FaultChoices(p)
  /\ UNCHANGED <<backend, timeline, published, result, progress, mapped, memory>>

(* prepare, the representation commit and acquire; when one of them fails  *)
(* submit returns false, and a token taken is gone.                        *)
Hold ==
  /\ stage = "Admitted"
  /\ stage' = IF PerTask THEN "Publish" ELSE "Execute"
  /\ UNCHANGED <<published, result, device, admission, progress, mapped, memory>>

FailHold ==
  /\ stage = "Admitted"
  /\ End(Failed("None", NoTask, "Call"))
  /\ UNCHANGED <<published, device, admission, progress, mapped, memory>>

(* Reference and Metal publish before they run anything.  What may fail    *)
(* there, after any number of tasks, is the ring on the device that Metal  *)
(* uses for a whole graph of compute tasks.                                *)
Publish ==
  /\ stage = "Publish"
  /\ published' = publishOrder /\ stage' = "Execute"
  /\ UNCHANGED <<result, device, admission, progress, mapped, memory>>

FailPublish(n) ==
  /\ stage = "Publish" /\ backend = "Metal" /\ n < Len(publishOrder)
  /\ plan.raster = {} /\ publishOrder = plan.order
  /\ published' = SubSeq(publishOrder, 1, n)
  /\ End(Failed("Poisoned", NoTask, "Publication"))
  /\ UNCHANGED <<device, admission, progress, mapped, memory>>

-----------------------------------------------------------------------------
(* Reference and Metal: task by task in the order of the steps, passing    *)
(* over what has been started or cancelled.                                *)
(* Mutant of Started: a failed task is tried again                         *)
StartedUnlessFailed == done

Started == done \cup failures
Remaining == plan.tasks \ (Started \cup cancelled)

(* Of some tasks, the one that is first in a sequence *)
FirstOf(s, S) == CHOOSE t \in S : \A u \in S \ {t} : Before(s, t, u)

RunTask ==
  LET t == FirstOf(plan.steps, Remaining)
  IN  /\ stage = "Execute" /\ PerTask /\ Remaining # {}
      /\ t \notin DOMAIN faults
      /\ done' = done \cup {t}
      /\ produced' = (produced \/ Written(t) # {})
      /\ saw' = Put(saw, t, Load(bytes, t))
      /\ bytes' = Store(bytes, t)
      /\ UNCHANGED <<stage, published, result, device, admission, failures, cancelled, mapped>>

(* Mutant of Cancelled: only the direct successors, not what needs them *)
CancelledNext(t) == {u \in plan.below[t] : \A v \in plan.below[t] : u \notin plan.below[v]}

(* cancel_descendants *)
Cancelled(t) == plan.below[t] \ Started

(* Mutant of MayShow: what a failed task wrote is not counted *)
MayShowNothing(t) == FALSE

MayShow(t) == faults[t] = "Dirty"

FailTask ==
  LET t == FirstOf(plan.steps, Remaining)
  IN  /\ stage = "Execute" /\ PerTask /\ Remaining # {}
      /\ t \in DOMAIN faults
      /\ failures' = failures \cup {t}
      /\ cancelled' = cancelled \cup Cancelled(t)
      /\ produced' = (produced \/ MayShow(t))
      /\ bytes' = IF faults[t] = "Dirty" THEN Store(bytes, t) ELSE bytes
      /\ UNCHANGED <<stage, published, result, device, admission, done, mapped, saw>>

(* Mutant of Primary: the failure met first *)
PrimaryByStep == FirstOf(plan.steps, failures)

(* The failed task that comes first in the canonical order *)
Primary == FirstOf(plan.order, failures)

(* Mutant of AllSucceeded: something has *)
SomeSucceeded == done # {}

AllSucceeded == failures = {}

ReportFailures ==
  /\ stage = "Execute" /\ PerTask /\ Remaining = {}
  /\ ~AllSucceeded
  /\ End(Failed(Poison(produced), Primary, "Task"))
  /\ UNCHANGED <<published, device, admission, progress, mapped, memory>>

(* Without a failure the timeline is signalled; only Reference can find    *)
(* out as late as here that the signal does not advance it.                *)
Complete ==
  /\ stage = "Execute" /\ PerTask /\ Remaining = {}
  /\ AllSucceeded
  /\ plan.signal = 0 \/ plan.signal > timeline
  /\ timeline' = IF plan.signal = 0 THEN timeline ELSE plan.signal
  /\ End(Ok)
  /\ UNCHANGED <<leftover, nextToken, envelopes, published, admission, progress, mapped, memory>>

RefuseSignal ==
  /\ stage = "Execute" /\ PerTask /\ Remaining = {}
  /\ AllSucceeded
  /\ plan.signal # 0 /\ plan.signal <= timeline
  /\ End(Failed("PartiallyProduced", NoTask, "Signal"))
  /\ UNCHANGED <<published, device, admission, progress, mapped, memory>>

-----------------------------------------------------------------------------
(* Vulkan: compute tasks are collected and dispatched together before the  *)
(* next raster task and at the end.  A buffer is mapped for each region a  *)
(* compute task binds, and copied back after each dispatch.                *)
AtEnd == position > Len(plan.steps)
AtRaster == ~AtEnd /\ plan.steps[position] \in plan.raster
Stop(what) == End(what) /\ UNCHANGED <<published, admission, progress, mapped, memory>>

(* The marker that waits for the timeline before a raster task may fail *)
FailWaitMarker ==
  /\ stage = "Execute" /\ ~PerTask /\ position = 1 /\ AtRaster /\ plan.wait # 0
  /\ Stop(Failed("Poisoned", NoTask, "Device"))
  /\ UNCHANGED device

(* prepare_compute_dispatch with ensure_buffer, which fills the buffers *)
PrepareDispatch ==
  LET t == plan.steps[position]
  IN  /\ stage = "Execute" /\ ~PerTask /\ ~AtEnd /\ ~AtRaster
      /\ touched' = touched \cup Accessed(t)
      /\ mirror' = [r \in Regions |-> IF r \in Accessed(t) THEN bytes[r] ELSE mirror[r]]
      /\ batch' = Append(batch, t) /\ position' = position + 1
      /\ UNCHANGED <<stage, published, result, device, admission, progress, executedWork, memory>>

FailPrepare ==
  /\ stage = "Execute" /\ ~PerTask /\ ~AtEnd /\ ~AtRaster
  /\ Stop(Failed("Poisoned", plan.steps[position], "Device"))
  /\ UNCHANGED device

(* What the buffers hold after the first k dispatches of the batch *)
AfterDispatch(k) ==
  [r \in Regions |->
     LET W == {j \in 1 .. k : r \in Written(batch[j])}
     IN  IF W = {} THEN mirror[r] ELSE batch[Max(W)]]

(* Mutant of WrittenBack: the buffers are never copied back *)
NotWrittenBack(m) == bytes

(* synchronize_mapped_allocations: every region touched so far *)
WrittenBack(m) == [r \in Regions |-> IF r \in touched THEN m[r] ELSE bytes[r]]

Turn(t) == CHOOSE k \in DOMAIN batch : batch[k] = t

FlushNeeded == stage = "Execute" /\ ~PerTask /\ batch # <<>> /\ (AtRaster \/ AtEnd)

FlushBatch ==
  /\ FlushNeeded
  /\ mirror' = AfterDispatch(Len(batch))
  /\ bytes' = WrittenBack(mirror')
  /\ saw' = [t \in DOMAIN saw \cup ToSet(batch) |->
               IF t \in DOMAIN saw THEN saw[t] ELSE Load(AfterDispatch(Turn(t) - 1), t)]
  /\ done' = done \cup ToSet(batch)
  /\ batch' = <<>> /\ executedWork' = TRUE
  /\ UNCHANGED <<stage, published, result, device, admission, failures, cancelled, produced, position, touched>>

FailFlush(waited) ==
  /\ FlushNeeded
  /\ Stop(Failed(Poison(executedWork \/ waited), NoTask, "Device"))
  /\ UNCHANGED device

(* submit_plan_raster_step writes its result straight to the arena *)
RunRaster ==
  LET t == plan.steps[position]
  IN  /\ stage = "Execute" /\ ~PerTask /\ AtRaster /\ batch = <<>>
      /\ saw' = Put(saw, t, Load(bytes, t))
      /\ bytes' = Store(bytes, t)
      /\ done' = done \cup {t}
      /\ position' = position + 1 /\ executedWork' = TRUE
      /\ UNCHANGED <<stage, published, result, device, admission, failures, cancelled, produced, batch, touched, mirror>>

FailRaster ==
  /\ stage = "Execute" /\ ~PerTask /\ AtRaster /\ batch = <<>>
  /\ Stop(Failed(Poison(executedWork), plan.steps[position], "Device"))
  /\ UNCHANGED device

(* The signal marker, then the last copy of the mapped regions; a marker   *)
(* that fails may have reached the timeline or not.                        *)
Dispatched == stage = "Execute" /\ ~PerTask /\ AtEnd /\ batch = <<>>

SignalMarker ==
  /\ Dispatched
  /\ timeline' = IF plan.signal = 0 THEN timeline ELSE plan.signal
  /\ bytes' = WrittenBack(mirror)
  /\ stage' = "Record"
  /\ UNCHANGED <<leftover, nextToken, envelopes, published, result, admission, progress, mapped, saw>>

FailSignalMarker ==
  /\ Dispatched /\ plan.signal # 0
  /\ timeline' \in {timeline, plan.signal}
  /\ Stop(Failed(Poison(executedWork), NoTask, "Device"))
  /\ UNCHANGED <<leftover, nextToken, envelopes>>

(* Vulkan publishes last: the compute tasks through a ring on the device,  *)
(* which may fail as a whole or at a compute task.                         *)
Record ==
  /\ stage = "Record"
  /\ published' = publishOrder
  /\ End(Ok)
  /\ UNCHANGED <<device, admission, progress, mapped, memory>>

FailRecord(n) ==
  /\ stage = "Record" /\ plan.tasks # plan.raster
  /\ n = 0 \/ (n < Len(publishOrder) /\ publishOrder[n + 1] \notin plan.raster)
  /\ published' = SubSeq(publishOrder, 1, n)
  /\ End(Failed("PartiallyProduced", NoTask, "Publication"))
  /\ UNCHANGED <<device, admission, progress, mapped, memory>>

-----------------------------------------------------------------------------
(* The caller has the result; the next submission starts afresh. *)
Return ==
  /\ stage = "Done"
  /\ stage' = "Idle" /\ plan' = NoPlan /\ token' = 0 /\ publishOrder' = <<>> /\ faults' = <<>>
  /\ published' = <<>> /\ result' = Ok
  /\ done' = {} /\ failures' = {} /\ cancelled' = {} /\ produced' = FALSE
  /\ position' = 1 /\ batch' = <<>> /\ executedWork' = FALSE /\ touched' = {}
  /\ mirror' = Fresh /\ bytes' = Fresh /\ saw' = <<>>
  /\ envelopes' = [k \in DOMAIN envelopes |->
        IF k # token THEN envelopes[k]
        ELSE [envelopes[k] EXCEPT !.shown = @ \o published, !.whole = @ /\ result.ok]]
  /\ UNCHANGED <<backend, timeline, leftover, nextToken>>

Proceed ==
  \/ Hold \/ Publish
  \/ RunTask \/ FailTask \/ ReportFailures \/ Complete \/ RefuseSignal
  \/ PrepareDispatch \/ FlushBatch \/ RunRaster \/ SignalMarker \/ Record
  \/ Return

DriverFails ==
  \/ FailHold
  \/ \E n \in 0 .. Len(publishOrder) : FailPublish(n) \/ FailRecord(n)
  \/ FailWaitMarker \/ FailPrepare \/ FailRaster \/ FailSignalMarker
  \/ \E waited \in BOOLEAN : FailFlush(waited)

Next ==
  \/ \E p \in Plans : RefuseTimeline(p) \/ Admit(p)
  \/ Proceed
  \/ DriverFails

Spec == Init /\ [][Next]_vars

(* submit is one call of one thread: it goes on by itself, as long as the  *)
(* driver answers.                                                         *)
FairSpec == Spec /\ WF_vars(Proceed)

-----------------------------------------------------------------------------
(* The graph run every device implements *)
Outcome(t) ==
  CASE t \in done -> "Succeeded"
    [] t \in failures -> "Failed"
    [] t \in cancelled -> "Cancelled"
    [] OTHER -> IF stage = "Done" THEN "Abandoned" ELSE "Pending"

Run == INSTANCE GraphRun WITH
  Graphs  <- {[tasks |-> p.tasks, below |-> p.below] : p \in Plans},
  graph   <- IF plan = NoPlan THEN [tasks |-> {}, below |-> <<>>] ELSE [tasks |-> plan.tasks, below |-> plan.below],
  outcome <- IF plan = NoPlan THEN <<>> ELSE [t \in plan.tasks |-> Outcome(t)]

(* ADR-054, section 4: no task takes effect before all it depends on, none *)
(* that depends on a failed one at all, and nothing is decided twice.      *)
ImplementsGraphRun == Run!Spec

(* ADR-054: the primary fault is the failed task that is first in the      *)
(* canonical order.  The tasks that would fail are given with the          *)
(* submission; so whatever the order of execution, Reference and Metal     *)
(* report the first of them all, as a run in canonical order would, and    *)
(* everything that does not depend on one of them has run.                 *)
FaultIsCanonical ==
  stage = "Done" /\ PerTask /\ result.code \in {"None", "Task", "Signal"} =>
    /\ result.code = "Task" <=> DOMAIN faults # {}
    /\ result.code = "Task" =>
         \A t \in DOMAIN faults : t = result.fault \/ Before(plan.order, result.fault, t)
    /\ done = {t \in plan.tasks : \A u \in DOMAIN faults : t # u /\ t \notin plan.below[u]}

(* ADR-054: "if any output may have become visible before overall failure, *)
(* the submission is PartiallyProduced".                                   *)
OutputIsPartiallyProduced ==
  stage = "Done" /\ ~result.ok /\ (\E r \in Regions : bytes[r] # Untouched)
    => result.poison = "PartiallyProduced"

(* ... which Reference and Metal keep to, whatever fails when. *)
NoHiddenOutput == PerTask => OutputIsPartiallyProduced

(* What task t finds in region r when the tasks run in canonical order *)
LastWriter(S, r) ==
  LET W == {u \in S : \E x \in plan.effects[u] : x.region = r /\ x.access = "Write"}
  IN  IF W = {} THEN Untouched
      ELSE CHOOSE u \in W : \A v \in W \ {u} : Before(plan.order, v, u)

(* ADR-054, section 3: a submission that succeeds has read and left behind *)
(* what a run of its tasks one by one in canonical order would have.       *)
MemoryIsSequential ==
  stage = "Done" /\ plan # NoPlan /\ result.ok =>
    /\ \A t \in plan.tasks : \A r \in Accessed(t) :
         saw[t][r] = LastWriter({u \in plan.tasks : Before(plan.order, u, t)}, r)
    /\ \A r \in Regions : bytes[r] = LastWriter(plan.tasks, r)

(* A raster task writes what a compute task has mapped before *)
DrawsOverMapped ==
  \E t \in plan.raster, u \in plan.tasks \ plan.raster :
    Before(plan.steps, u, t) /\ Written(t) \cap Accessed(u) # {}

(* It holds for all devices, but for Vulkan only while no raster task      *)
(* writes a region that an earlier compute task has mapped.                *)
MemoryUnlessDrawnOver ==
  plan # NoPlan /\ (PerTask \/ ~DrawsOverMapped) => MemoryIsSequential

(* ADR-039: over all the submissions that split an order and resume it,    *)
(* every task is published at most once and in canonical order, and if     *)
(* none of them failed and nothing is left, every task has been.           *)
EnvelopePublishedOnce ==
  \A k \in DOMAIN envelopes :
    LET e == envelopes[k]
    IN  /\ \A i, j \in DOMAIN e.shown : i < j => Before(e.order, e.shown[i], e.shown[j])
        /\ stage = "Idle" /\ k \notin DOMAIN leftover /\ e.whole => e.shown = e.order

(* The timeline only goes forward, to the value the plan signals, and only *)
(* when every task of it has succeeded: a waiter that sees the value may   *)
(* rely on all of them.                                                    *)
TimelineAdvances ==
  [][timeline' # timeline =>
       timeline' > timeline /\ timeline' = plan.signal /\ done = plan.tasks]_vars

(* A submission always returns to its caller: neither the retry loop after *)
(* a failure nor the collection of compute tasks runs for ever.            *)
SubmitReturns == stage = "Admitted" ~> stage = "Idle"

=============================================================================
