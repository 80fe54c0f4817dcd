----------------------------- MODULE TaskGraph -----------------------------
(***************************************************************************)
(* A task graph from its builder to a sealed plan                          *)
(* (src/src/core/task_graph.cpp, src/src/core/execution_plan.cpp).         *)
(*                                                                         *)
(* TaskGraphBuilder collects tasks, explicit dependencies and declared     *)
(* effects; seal() adds an edge for every pair of conflicting declared     *)
(* effects and flattens all of it into the graph's dependencies.  The      *)
(* assembler derives the tasks' true effects from their programs and       *)
(* attachments, adds the edges these still need and derives the schedule.  *)
(*                                                                         *)
(* A refused call that changes nothing is no step.  Quotas, payloads and    *)
(* the checks of one record alone are left out.                            *)
(***************************************************************************)
EXTENDS ExecutionSchedule, Bags

CONSTANTS Programs,       \* what a task may be: [effects, depth]
          DeclaredEffects,\* effects a client may declare for a task
          Operations,     \* regions with a sealed representation operation
          NoDepth,
          MaxTasks, MaxDependencies, MaxDeclared

(* A program's effects are those of its module, or of the facets of a      *)
(* raster task; depth is the depth attachment's token.                     *)
ASSUME TaskGraphAssumption ==
  /\ \A p \in Programs : DOMAIN p = {"effects", "depth"}
  /\ {MaxTasks, MaxDependencies, MaxDeclared} \subseteq Nat

VARIABLES tasks,          \* the programs of the appended tasks, in order
          declared,       \* effects_: the declared effects of each task
          dependencies,   \* a bag of pairs: the builder's, then the graph's
          stage,          \* "Building", "Sealed" or "Published"
          plan            \* what the assembler made of the graph

vars == <<tasks, declared, dependencies, stage, plan>>

Count == Len(tasks)
Graph == TasksOf(Count)
Effects == [t \in Graph |-> tasks[t + 1].effects]
Declared == [t \in Graph |-> declared[t + 1]]
NoPlan == [status |-> "None"]
Writes(region) == [region |-> region, access |-> "Write"]

Init ==
  /\ tasks = <<>> /\ declared = <<>>
  /\ dependencies = EmptyBag
  /\ stage = "Building" /\ plan = NoPlan

-----------------------------------------------------------------------------
(* The row append adds to effects_: a raster task with a depth attachment  *)
(* declares a write of the attachment's token, the builder having no pool  *)
(* to resolve it.                                                          *)
EffectsRow(p) == <<IF p.depth = NoDepth THEN {} ELSE {Writes(p.depth)}>>

AppendTask(p) ==
  /\ stage = "Building"
  /\ Count < MaxTasks
  /\ tasks' = Append(tasks, p)
  /\ declared' = declared \o EffectsRow(p)
  /\ UNCHANGED <<dependencies, stage, plan>>

(* add_dependency, which takes a pair again that it has been given before *)
AddDependency(t, u) ==
  /\ stage = "Building"
  /\ t # u
  /\ BagCardinality(dependencies) < MaxDependencies
  /\ dependencies' = dependencies (+) SetToBag({<<t, u>>})
  /\ UNCHANGED <<tasks, declared, stage, plan>>

DeclaredCount == Cardinality({x \in Graph \X DeclaredEffects : x[2] \in Declared[x[1]]})

AddEffect(t, e) ==
  /\ stage = "Building"
  /\ e \notin Declared[t] /\ DeclaredCount < MaxDeclared
  /\ declared' = [declared EXCEPT ![t + 1] = @ \cup {e}]
  /\ UNCHANGED <<tasks, dependencies, stage, plan>>

(* set_effects replaces what is there, the synthetic depth write included, *)
(* by the effects S given before the first malformed one; for that one it  *)
(* answers false, and what it has done stays.                              *)
SetEffects(t, S) ==
  /\ stage = "Building"
  /\ S # {} => DeclaredCount < MaxDeclared
  /\ declared' = [declared EXCEPT ![t + 1] = S]
  /\ UNCHANGED <<tasks, dependencies, stage, plan>>

-----------------------------------------------------------------------------
DeclaredConflicts == {p \in Graph \X Graph : p[1] < p[2] /\ Conflicting(Declared[p[1]], Declared[p[2]])}

(* seal: one more edge per conflicting pair, whatever edges there are *)
SealGraph ==
  LET edges == dependencies (+) SetToBag(DeclaredConflicts)
  IN  /\ stage = "Building"
      /\ Acyclic(Count, BagToSet(edges))
      /\ HappensBeforeCovers(Count, BagToSet(edges), Declared)
      /\ dependencies' = edges
      /\ stage' = "Sealed"
      /\ UNCHANGED <<tasks, declared, plan>>

PublishGraph ==
  /\ stage = "Sealed"
  /\ stage' = "Published"
  /\ UNCHANGED <<tasks, declared, dependencies, plan>>

(* A pair that stands twice among the structural edges *)
Doubled == \E e \in BagToSet(dependencies) : dependencies[e] > 1

(* The assembler, from the instantiated effects to the derived schedule    *)
Assemble ==
  LET edges == SealedEdges(Count, BagToSet(dependencies), Effects)
  IN  /\ stage = "Published" /\ plan = NoPlan
      /\ Count > 0
      /\ plan' = IF /\ Acyclic(Count, edges)
                    /\ HappensBeforeCovers(Count, edges, Effects)
                    /\ ~Doubled
                 THEN [status |-> "Sealed", edges |-> edges,
                       schedule |-> Schedule(Count, edges, Operations, Effects)]
                 ELSE [status |-> "Refused"]
      /\ UNCHANGED <<tasks, declared, dependencies, stage>>

Next ==
  \/ \E p \in Programs : AppendTask(p)
  \/ \E t, u \in Graph : AddDependency(t, u)
  \/ \E t \in Graph, e \in DeclaredEffects : AddEffect(t, e)
  \/ \E t \in Graph, S \in {T \in SUBSET DeclaredEffects : Cardinality(T) <= 1} : SetEffects(t, S)
  \/ SealGraph
  \/ PublishGraph
  \/ Assemble

Spec == Init /\ [][Next]_vars

-----------------------------------------------------------------------------
IsSealed == plan.status = "Sealed"
Parts == plan.schedule.components
PartOf(t) == CHOOSE s \in DOMAIN Parts : t \in Parts[s].tasks
Wave(t) == WaveOf(Parts[PartOf(t)].waves, t)

(* Two tasks of which one may write what the other accesses *)
Races(t, u) ==
  \E x \in Effects[t], y \in Effects[u] : x.region = y.region /\ "Write" \in {x.access, y.access}

(* ADR-054: tasks that may touch the same bytes, one of them writing, are   *)
(* never in one wave nor in components that run independently, whatever    *)
(* the client declared; and the one appended first goes first unless the   *)
(* client has some dependency of an earlier task on a later one.  (Not     *)
(* necessarily of these two: an edge 2 -> 0 of the client and an inferred  *)
(* edge 0 -> 1 also put 2 before 1.)                                       *)
ConflictsOrdered ==
  IsSealed => \A t, u \in Graph :
    t < u /\ Races(t, u) =>
      /\ PartOf(t) = PartOf(u)
      /\ Wave(t) # Wave(u)
      /\ Wave(t) > Wave(u) => \E e \in BagToSet(dependencies) : e[2] < e[1]

(* The canonical order is the lexicographically least of the orders that   *)
(* respect every dependency, those of the client's graph included, so it   *)
(* depends on nothing but the graph (effect_graph_deterministic_order).    *)
OrderIsLeast ==
  LET Orders == {s \in [1 .. Count -> Graph] :
        \A t \in Graph : \E i \in DOMAIN s : s[i] = t}
      Respects(s) == \A i, j \in DOMAIN s :
        <<s[i], s[j]>> \in plan.edges \cup BagToSet(dependencies) => i < j
      Less(s, o) == \E i \in DOMAIN s : s[i] < o[i] /\ \A j \in 1 .. (i - 1) : s[j] = o[j]
      order == plan.schedule.order
  IN  IsSealed => /\ order \in Orders /\ Respects(order)
                  /\ \A s \in Orders : Respects(s) => ~Less(s, order)

(* A task's wave is the length of the longest chain of dependencies that   *)
(* ends in it: no wave is empty, none holds a task that still waits for    *)
(* another of it, and no task waits for a wave longer than it has to.      *)
WavesAreChains ==
  IsSealed => \A t \in Graph :
    Wave(t) = IF Predecessors(plan.edges, t) = {} THEN 1
              ELSE 1 + Max({Wave(u) : u \in Predecessors(plan.edges, t)})

(* Components split the graph into the largest number of parts that have   *)
(* no dependency and no race between them: a failure in one says nothing   *)
(* about another, and no two could be separated further.                   *)
ComponentsIndependent ==
  IsSealed =>
    /\ \A t \in Graph : \E s \in DOMAIN Parts :
         t \in Parts[s].tasks /\ \A r \in DOMAIN Parts \ {s} : t \notin Parts[r].tasks
    /\ \A t, u \in Graph : PartOf(t) # PartOf(u) => <<t, u>> \notin plan.edges /\ ~Races(t, u)
    /\ \A s \in DOMAIN Parts : \A S \in (SUBSET Parts[s].tasks) \ {{}, Parts[s].tasks} :
         \E e \in plan.edges : Cardinality({e[1], e[2]} \cap S) = 1

(* The schedule is as parallel as the graph allows and no more: waves and  *)
(* components are exactly those of the definitions above.                  *)
ScheduleIsTight == WavesAreChains /\ ComponentsIndependent

(* Every wait a backend must lower is in the schedule: for two tasks that  *)
(* race, the transition into the later one's wave names the region, and a  *)
(* sealed representation operation stands at or before the first wave of   *)
(* each component that uses its region, and in no second wave of it.       *)
TransitionsComplete ==
  IsSealed =>
    /\ \A t, u \in Graph : \A x \in Effects[t], y \in Effects[u] :
         /\ x.region = y.region /\ "Write" \in {x.access, y.access}
         /\ PartOf(t) = PartOf(u) /\ Wave(t) < Wave(u)
         => [before |-> t, after |-> u, region |-> x.region]
              \in Parts[PartOf(u)].transitions[Wave(u)].visibility
    /\ \A t \in Graph : \A a \in Operations :
         Uses(Effects, t, a) =>
           Cardinality({w \in 1 .. Wave(t) : a \in Parts[PartOf(t)].transitions[w].operations}) = 1

(* What the builder sealed the assembler can refuse for one reason only:   *)
(* a pair of tasks with two edges.  In particular the edges it infers      *)
(* never close a cycle with those of the client.                           *)
RefusedOnlyWhenDoubled == plan.status = "Refused" => Doubled
=============================================================================
