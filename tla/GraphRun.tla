------------------------------ MODULE GraphRun ------------------------------
(***************************************************************************)
(* What running a task graph on a device promises, whatever the device     *)
(* does between its calls (ADR-054, section 4): a task takes effect only   *)
(* after everything it depends on has, nothing that depends on a failed    *)
(* task is ever run, and what was decided about a task stays decided until *)
(* the submission returns.                                                 *)
(***************************************************************************)
EXTENDS Naturals

CONSTANTS Graphs        \* the graphs: [tasks, below], below[t] = what depends on t

VARIABLES graph,        \* the graph that is running, or Idle
          outcome       \* what is decided about each of its tasks

vars == <<graph, outcome>>

Idle == [tasks |-> {}, below |-> <<>>]
Undecided == {t \in graph.tasks : outcome[t] = "Pending"}
Needed(t) == {u \in graph.tasks : t \in graph.below[u]}
Decide(S, what) == [t \in graph.tasks |-> IF t \in S THEN what ELSE outcome[t]]

Init == graph = Idle /\ outcome = <<>>

Start(g) ==
  /\ graph = Idle
  /\ graph' = g /\ outcome' = [t \in g.tasks |-> "Pending"]

(* Some tasks take effect, each after all that it needs *)
Succeed(S) ==
  /\ outcome' = Decide(S, "Succeeded")
  /\ UNCHANGED graph
  /\ \A t \in S : \A u \in Needed(t) : u \in S \/ outcome[u] = "Succeeded"

(* A task fails; all that depends on it and nothing else is cancelled *)
Fail(t) ==
  /\ outcome' = [Decide(graph.below[t], "Cancelled") EXCEPT ![t] = "Failed"]
  /\ UNCHANGED graph
  /\ \A u \in Needed(t) : outcome[u] = "Succeeded"
  /\ \A u \in graph.below[t] : outcome[u] \in {"Pending", "Cancelled"}

(* The device gives up without saying why for each task *)
Abandon ==
  /\ outcome' = Decide(Undecided, "Abandoned")
  /\ UNCHANGED graph

Finish ==
  /\ Undecided = {}
  /\ graph' = Idle /\ outcome' = <<>>

Next ==
  \/ \E g \in Graphs : Start(g)
  \/ \E S \in (SUBSET Undecided) \ {{}} : Succeed(S)
  \/ \E t \in Undecided : Fail(t)
  \/ Abandon
  \/ Finish

Spec == Init /\ [][Next]_vars
=============================================================================
