------------------------- MODULE ExecutionSchedule -------------------------
(***************************************************************************)
(* The immutable execution schedule of a plan                              *)
(* (src/src/core/execution_schedule.cpp) and the effect graph it is        *)
(* derived from (src/src/core/effect_graph.cpp and                         *)
(* build_validated_effect_graph in src/src/core/execution_plan.cpp).       *)
(*                                                                         *)
(* All of it is computation without state.  The n tasks of a graph are     *)
(* 0 .. n - 1, as in the code.  An effect names a region (a byte range of  *)
(* one allocation at one representation epoch; two different regions do    *)
(* not overlap) and an access; every access but "Read" counts as "Write",  *)
(* as conflicts() has it.  Structural edges are a set of pairs: a graph in *)
(* which a pair occurs twice is refused before anything else is derived.   *)
(***************************************************************************)
EXTENDS Naturals, Sequences, FiniteSets, FiniteSetsExt, SequencesExt

TasksOf(n) == 0 .. (n - 1)

(* Mutant of Conflict: a write after a read is missed *)
ConflictOfWriters(x, y) == x.region = y.region /\ x.access = "Write"

(* EffectGraph::conflicts, and the any-pair loops around it *)
Conflict(x, y) == x.region = y.region /\ ~(x.access = "Read" /\ y.access = "Read")
Conflicting(E, F) == \E x \in E, y \in F : Conflict(x, y)

(* The breadth-first reaches lambdas: the pairs <<t, u>> with u reachable  *)
(* from t along edges, a task from itself included.                        *)
Reaches(n, edges) ==
  LET Through[k \in 0 .. n] ==
        IF k = 0 THEN edges \cup {<<t, t>> : t \in TasksOf(n)}
        ELSE LET R == Through[k - 1]
             IN  R \cup {p \in TasksOf(n) \X TasksOf(n) : {<<p[1], k - 1>>, <<k - 1, p[2]>>} \subseteq R}
  IN  Through[n]

Reversed(edges) == {<<e[2], e[1]>> : e \in edges}

(* EffectGraph::valid *)
Acyclic(n, edges) == edges \cap Reversed(Reaches(n, edges)) = {}

(* EffectGraph::validate_happens_before *)
HappensBeforeCovers(n, edges, effects) ==
  LET R == Reaches(n, edges)
  IN  \A t, u \in TasksOf(n) :
        t < u /\ Conflicting(effects[t], effects[u]) => {<<t, u>>, <<u, t>>} \cap R # {}

-----------------------------------------------------------------------------
(* Mutant of Unordered: only the order of the indices is looked for *)
UnorderedForward(p, R) == p \notin R

Unordered(p, R) == p \notin R /\ <<p[2], p[1]>> \notin R

(* build_validated_effect_graph: the pairs left < right in order; an edge  *)
(* is inferred for a conflict that the edges so far do not order yet.      *)
SealedEdges(n, explicit, effects) ==
  LET Pair(k) == <<(k - 1) \div n, (k - 1) % n>>
      Added[k \in 0 .. n * n] ==
        IF k = 0 THEN explicit
        ELSE LET p == Pair(k)
                 sealed == Added[k - 1]
             IN  IF /\ p[1] < p[2]
                    /\ Conflicting(effects[p[1]], effects[p[2]])
                    /\ Unordered(p, Reaches(n, sealed))
                 THEN sealed \cup {p}
                 ELSE sealed
  IN  Added[n * n]

-----------------------------------------------------------------------------
Predecessors(edges, t) == {e[1] : e \in {d \in edges : d[2] = t}}
Successors(edges, t) == {e[2] : e \in {d \in edges : d[1] = t}}

(* Mutant of NextReady: the ready vector is sorted the other way round *)
LastReady(ready) == Max(ready)

NextReady(ready) == Min(ready)

(* effect_graph_deterministic_order: the ready task of lowest index next *)
DeterministicOrder(n, edges) ==
  LET Ready(done) == {t \in TasksOf(n) \ done : Predecessors(edges, t) \subseteq done}
      Order[k \in 0 .. n] ==
        IF k = 0 THEN <<>>
        ELSE LET done == Order[k - 1] IN Append(done, NextReady(Ready(ToSet(done))))
  IN  Order[n]

-----------------------------------------------------------------------------
Neighbours(edges) == edges \cup Reversed(edges)

(* The undirected search from each seed not visited yet, in index order *)
ComponentOf(n, edges, t) == {u \in TasksOf(n) : <<t, u>> \in Reaches(n, Neighbours(edges))}
Seeds(n, edges) ==
  LET Found[k \in 0 .. n] ==
        IF k = 0 THEN {}
        ELSE LET seeds == Found[k - 1]
                 visited == UNION {ComponentOf(n, edges, s) : s \in seeds}
             IN  seeds \cup ({k - 1} \ visited)
  IN  Found[n]

(* Mutant of Emittable: the first of several predecessors lets a task go *)
EmittableEarly(before, emitted) == before = {} \/ before \cap emitted # {}

Emittable(before, emitted) == before \subseteq emitted

(* The Kahn frontiers of a component: everything whose in-degree the waves *)
(* emitted before have brought to zero.                                    *)
WavesOf(C, edges) ==
  LET Emitted[k \in 0 .. Cardinality(C)] ==
        IF k = 0 THEN {}
        ELSE LET E == Emitted[k - 1]
             IN  E \cup {t \in C : Emittable(Predecessors(edges, t) \cap C, E)}
      Depth == Min({k \in 0 .. Cardinality(C) : Emitted[k] = C})
  IN  [k \in 1 .. Depth |-> Emitted[k] \ Emitted[k - 1]]

WaveOf(waves, t) == CHOOSE w \in DOMAIN waves : t \in waves[w]

-----------------------------------------------------------------------------
(* Mutant of Earlier: only the wave just before is looked at *)
JustBefore(v, w) == v + 1 = w

Earlier(v, w) == v < w

(* What the transition into wave w makes visible: for a task of an earlier *)
(* wave that reaches a task of w, each region they conflict on.            *)
VisibilityInto(C, waves, w, R, effects) ==
  {[before |-> c[1], after |-> c[2], region |-> c[3].region] :
     c \in {c \in C \X waves[w] \X UNION {effects[t] : t \in C} :
              /\ Earlier(WaveOf(waves, c[1]), w)
              /\ <<c[1], c[2]>> \in R
              /\ c[3] \in effects[c[1]]
              /\ \E y \in effects[c[2]] : Conflict(c[3], y)}}

Uses(effects, t, region) == \E x \in effects[t] : x.region = region

(* The sealed representation operations (named by their region) whose      *)
(* first consumer wave in this component is w.                             *)
OperationsInto(waves, w, operations, effects) ==
  {a \in operations :
      /\ \E t \in waves[w] : Uses(effects, t, a)
      /\ \A v \in 1 .. (w - 1) : \A t \in waves[v] : ~Uses(effects, t, a)}

(* The transition into wave w.  The first has no wave before it (the       *)
(* prelude) and is kept only for the operations it carries.                *)
Transition(C, waves, w, R, operations, effects) ==
  [completion |-> w > 1,
   operations |-> OperationsInto(waves, w, operations, effects),
   visibility |-> VisibilityInto(C, waves, w, R, effects)]

(* derive_execution_schedule, for a graph it accepts *)
ComponentSchedule(C, edges, R, operations, effects) ==
  LET waves == WavesOf(C, edges)
  IN  [tasks       |-> C,
       waves       |-> waves,
       transitions |-> [w \in DOMAIN waves |->
                          Transition(C, waves, w, R, operations, effects)]]

Schedule(n, edges, operations, effects) ==
  LET R == Reaches(n, edges)
  IN  [order      |-> DeterministicOrder(n, edges),
       successors |-> [t \in TasksOf(n) |-> Successors(edges, t)],
       components |-> [s \in Seeds(n, edges) |->
          ComponentSchedule(ComponentOf(n, edges, s), edges, R, operations, effects)]]

(* The order in which a backend visits the tasks: component by component,  *)
(* wave by wave, in index order.                                           *)
InOrder(T) ==
  LET Sorted[k \in 0 .. Cardinality(T)] ==
        IF k = 0 THEN <<>>
        ELSE LET sorted == Sorted[k - 1] IN Append(sorted, Min(T \ ToSet(sorted)))
  IN  Sorted[Cardinality(T)]
Steps(components) ==
  LET seeds == InOrder(DOMAIN components)
      OfWaves(waves) == FlattenSeq([w \in DOMAIN waves |-> InOrder(waves[w])])
  IN  FlattenSeq([i \in DOMAIN seeds |-> OfWaves(components[seeds[i]].waves)])
=============================================================================
