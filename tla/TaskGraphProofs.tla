--------------------------- MODULE TaskGraphProofs ---------------------------
(***************************************************************************)
(* The execution schedule of any task graph, and the graphs the builder    *)
(* and the assembler make of any programs: proofs for ExecutionSchedule    *)
(* and TaskGraph.  The last theorem is what DeviceSubmit takes for granted *)
(* of a plan.                                                              *)
(***************************************************************************)
EXTENDS TaskGraph, TLAPS, FiniteSetTheorems, WellFoundedInduction

-----------------------------------------------------------------------------
(* Induction and recursion up to n, for sets of numbers and for functions *)

LEMMA FirstPosition ==
  ASSUME NEW S, S \subseteq Nat, S # {}
  PROVE  \E m \in S : \A k \in S : m <= k
<1>1. PICK m \in S : \A k \in S : ~ (<<k, m>> \in OpToRel(<, Nat))
  BY NatLessThanWellFounded, WFMin
<1>2. ASSUME NEW k \in S PROVE m <= k
  <2>1. ~ (k < m)
    BY <1>1 DEF OpToRel
  <2> QED
    BY <2>1
<1> QED
  BY <1>2

LEMMA Induction ==
  ASSUME NEW n \in Nat, NEW S, 0 \in S, \A k \in 1 .. n : k - 1 \in S => k \in S
  PROVE  \A k \in 0 .. n : k \in S
<1> SUFFICES ASSUME (0 .. n) \ S # {}
             PROVE  FALSE
  OBVIOUS
<1>1. PICK m \in (0 .. n) \ S : \A k \in (0 .. n) \ S : m <= k
  <2>1. (0 .. n) \ S \subseteq Nat
    OBVIOUS
  <2> QED
    BY <2>1, FirstPosition
<1>2. m \in 1 .. n /\ m - 1 \in 0 .. n /\ ~(m <= m - 1)
  BY <1>1
<1>3. m - 1 \in S
  BY <1>1, <1>2
<1> QED
  BY <1>1, <1>2, <1>3

Recursive(n, V, v, g) ==
  \E f \in [0 .. n -> V] : f[0] = v /\ \A k \in 1 .. n : f[k] = g[<<k, f[k - 1]>>]

LEMMA Recursion ==
  ASSUME NEW n \in Nat, NEW V, NEW v \in V, NEW g \in [(1 .. n) \X V -> V]
  PROVE  Recursive(n, V, v, g)
<1> DEFINE Upto(m) == Recursive(m, V, v, g)
           S == {m \in 0 .. n : Upto(m)}
<1> USE DEF Recursive
<1>1. 0 \in S
  <2>1. [k \in 0 .. 0 |-> v] \in [0 .. 0 -> V] /\ [k \in 0 .. 0 |-> v][0] = v /\ 1 .. 0 = {}
    OBVIOUS
  <2>2. Upto(0)
    BY <2>1
  <2> QED
    BY <2>2
<1>2. ASSUME NEW m \in 1 .. n, m - 1 \in S
      PROVE  m \in S
  <2>1. PICK f \in [0 .. m - 1 -> V] : f[0] = v /\ \A k \in 1 .. m - 1 : f[k] = g[<<k, f[k - 1]>>]
    BY <1>2
  <2> DEFINE h == [k \in 0 .. m |-> IF k = m THEN g[<<m, f[m - 1]>>] ELSE f[k]]
  <2>2. m - 1 \in 0 .. m - 1 /\ f[m - 1] \in V
    OBVIOUS
  <2>3. g[<<m, f[m - 1]>>] \in V
    BY <2>2
  <2>4. \A k \in 0 .. m : k = m \/ k \in 0 .. m - 1
    OBVIOUS
  <2>5. h \in [0 .. m -> V] /\ h[0] = v
    BY <2>1, <2>3, <2>4
  <2>6. ASSUME NEW k \in 1 .. m PROVE h[k] = g[<<k, h[k - 1]>>]
    <3>1. k - 1 \in 0 .. m /\ k - 1 # m /\ h[k - 1] = f[k - 1]
      OBVIOUS
    <3>2. CASE k = m
      BY <3>1, <3>2
    <3>3. CASE k # m
      <4>1. k \in 1 .. m - 1 /\ h[k] = f[k]
        BY <3>3
      <4> QED
        BY <2>1, <3>1, <4>1
    <3> QED
      BY <3>2, <3>3
  <2>7. Upto(m)
    <3> HIDE DEF h
    <3> QED
      BY <2>5, <2>6
  <2> QED
    BY <2>7
<1> HIDE DEF S
<1>3. \A k \in 0 .. n : k \in S
  BY <1>1, <1>2, Induction
<1>4. n \in S
  BY <1>3
<1> QED
  BY <1>4 DEF S

-----------------------------------------------------------------------------
(* Reachability *)

(* What reaches() looks at last: the paths through task k - 1 *)
Joined(n, k, R) ==
  R \cup {p \in TasksOf(n) \X TasksOf(n) : {<<p[1], k - 1>>, <<k - 1, p[2]>>} \subseteq R}

LEMMA ReachesSteps ==
  ASSUME NEW n \in Nat, NEW edges
  PROVE  \E f : /\ Reaches(n, edges) = f[n]
                /\ f[0] = edges \cup {<<t, t>> : t \in TasksOf(n)}
                /\ \A k \in 1 .. n : f[k] = Joined(n, k, f[k - 1])
<1> DEFINE T == TasksOf(n)
           v == edges \cup {<<t, t>> : t \in T}
           V == SUBSET (edges \cup (T \X T))
           g == [x \in (1 .. n) \X V |-> Joined(n, x[1], x[2])]
           G(f) == [k \in 0 .. n |-> IF k = 0 THEN v ELSE Joined(n, k, f[k - 1])]
           h == CHOOSE f : f = G(f)
<1>1. \E f : f = G(f)
  <2>1. v \in V
    OBVIOUS
  <2>2. \A k, R : R \in V => Joined(n, k, R) \in V
    BY DEF Joined
  <2>3. g \in [(1 .. n) \X V -> V]
    BY <2>2
  <2>4. \A k \in 1 .. n, R \in V : g[<<k, R>>] = Joined(n, k, R)
    OBVIOUS
  <2> HIDE DEF v, V, g
  <2>5. PICK f \in [0 .. n -> V] : f[0] = v /\ \A k \in 1 .. n : f[k] = g[<<k, f[k - 1]>>]
    <3>1. Recursive(n, V, v, g)
      BY <2>1, <2>3, Recursion
    <3> QED
      BY <3>1 DEF Recursive
  <2>6. ASSUME NEW k \in 0 .. n PROVE f[k] = IF k = 0 THEN v ELSE Joined(n, k, f[k - 1])
    <3>1. CASE k = 0
      BY <2>5, <3>1
    <3>2. CASE k # 0
      <4>1. k \in 1 .. n /\ k - 1 \in 0 .. n
        BY <3>2
      <4>2. f[k - 1] \in V
        BY <4>1
      <4> QED
        BY <2>4, <2>5, <3>2, <4>1, <4>2
    <3> QED
      BY <3>1, <3>2
  <2>7. f = G(f)
    BY <2>6
  <2> QED
    BY <2>7
<1>2. Reaches(n, edges) = h[n]
  BY DEF Reaches, Joined
<1>3. h = G(h)
  <2> HIDE DEF G
  <2> QED
    BY <1>1
<1> HIDE DEF h
<1>4. h[0] = v /\ \A k \in 1 .. n : h[k] = Joined(n, k, h[k - 1])
  <2>1. \A k \in 0 .. n : h[k] = IF k = 0 THEN v ELSE Joined(n, k, h[k - 1])
    BY <1>3
  <2> HIDE DEF G, v
  <2> QED
    BY <2>1
<1> QED
  BY <1>2, <1>4

Graphs(n) == SUBSET (TasksOf(n) \X TasksOf(n))
Transitive(R) == \A a, b, c : <<a, b>> \in R /\ <<b, c>> \in R => <<a, c>> \in R

(* reaches() is the reflexive and transitive closure of the edges.         *)
LEMMA ReachesIsClosure ==
  ASSUME NEW n \in Nat, NEW edges \in Graphs(n)
  PROVE  /\ edges \subseteq Reaches(n, edges)
         /\ Reaches(n, edges) \subseteq TasksOf(n) \X TasksOf(n)
         /\ \A t \in TasksOf(n) : <<t, t>> \in Reaches(n, edges)
         /\ Transitive(Reaches(n, edges))
<1>1. PICK f : /\ Reaches(n, edges) = f[n]
               /\ f[0] = edges \cup {<<t, t>> : t \in TasksOf(n)}
               /\ \A k \in 1 .. n : f[k] = Joined(n, k, f[k - 1])
  BY ReachesSteps
<1> DEFINE Sound(R, k) ==
             /\ edges \subseteq R /\ R \subseteq TasksOf(n) \X TasksOf(n)
             /\ \A t \in TasksOf(n) : <<t, t>> \in R
             /\ \A m \in 0 .. k - 1 : \A a, b : <<a, m>> \in R /\ <<m, b>> \in R => <<a, b>> \in R
           S == {k \in 0 .. n : Sound(f[k], k)}
<1>2. 0 \in S
  <2>1. 0 .. 0 - 1 = {} /\ 0 \in 0 .. n
    OBVIOUS
  <2>2. Sound(f[0], 0)
    BY <1>1, <2>1 DEF Graphs
  <2> QED
    BY <2>1, <2>2
<1>3. ASSUME NEW k \in 1 .. n, k - 1 \in S
      PROVE  k \in S
  <2>1. PICK R, Q, l : R = f[k - 1] /\ Q = f[k] /\ l = k - 1
    OBVIOUS
  <2>2. Sound(R, l) /\ Q = Joined(n, k, R)
    BY <1>1, <1>3, <2>1
  <2>3. \A a, b : <<a, b>> \in Q <=> \/ <<a, b>> \in R
                                     \/ <<a, l>> \in R /\ <<l, b>> \in R
    <3>1. \A a, b : <<a, l>> \in R /\ <<l, b>> \in R => a \in TasksOf(n) /\ b \in TasksOf(n)
      BY <2>2
    <3>2. \A a, b : <<a, b>> \in Q <=> \/ <<a, b>> \in R
                                       \/ /\ a \in TasksOf(n) /\ b \in TasksOf(n)
                                          /\ <<a, l>> \in R /\ <<l, b>> \in R
      BY <2>1, <2>2 DEF Joined
    <3> QED
      BY <3>1, <3>2
  <2>4. Q \subseteq TasksOf(n) \X TasksOf(n) /\ R \subseteq Q
    BY <2>2 DEF Joined
  <2>5. ASSUME NEW m \in 0 .. k - 1, NEW a, NEW b, <<a, m>> \in Q, <<m, b>> \in Q
        PROVE  <<a, b>> \in Q
    <3>1. CASE m = l
      BY <2>3, <2>5, <3>1
    <3>2. CASE m # l
      <4>1. m \in 0 .. l - 1
        BY <2>1, <3>2
      <4>2. \A x, y : <<x, m>> \in R /\ <<m, y>> \in R => <<x, y>> \in R
        BY <2>2, <4>1
      <4> QED
        BY <2>3, <2>5, <4>2
    <3> QED
      BY <3>1, <3>2
  <2>6. Sound(Q, k)
    BY <2>2, <2>4, <2>5
  <2> HIDE DEF Sound
  <2> QED
    BY <2>1, <2>6
<1> HIDE DEF S
<1>4. \A k \in 0 .. n : k \in S
  BY <1>2, <1>3, Induction
<1>5. Sound(f[n], n)
  BY <1>4 DEF S
<1>6. PICK R : R = Reaches(n, edges)
  OBVIOUS
<1>7. ASSUME NEW a, NEW b, NEW c, <<a, b>> \in R, <<b, c>> \in R
      PROVE  <<a, c>> \in R
  <2>1. b \in 0 .. n - 1
    BY <1>1, <1>5, <1>6, <1>7 DEF TasksOf
  <2> QED
    BY <1>1, <1>5, <1>6, <1>7, <2>1
<1> QED
  BY <1>1, <1>5, <1>6, <1>7 DEF Transitive

(* ... and the least such relation.                                        *)
LEMMA ReachesIsLeast ==
  ASSUME NEW n \in Nat, NEW edges, NEW Q, edges \subseteq Q, \A t \in TasksOf(n) : <<t, t>> \in Q,
         Transitive(Q)
  PROVE  Reaches(n, edges) \subseteq Q
<1>1. PICK f : /\ Reaches(n, edges) = f[n]
               /\ f[0] = edges \cup {<<t, t>> : t \in TasksOf(n)}
               /\ \A k \in 1 .. n : f[k] = Joined(n, k, f[k - 1])
  BY ReachesSteps
<1> DEFINE S == {k \in 0 .. n : f[k] \subseteq Q}
<1>2. 0 \in S
  BY <1>1
<1>3. ASSUME NEW k \in 1 .. n, k - 1 \in S
      PROVE  k \in S
  <2>1. f[k - 1] \subseteq Q /\ f[k] = Joined(n, k, f[k - 1])
    BY <1>1, <1>3
  <2>2. ASSUME NEW p \in Joined(n, k, f[k - 1]) PROVE p \in Q
    <3>1. CASE p \in f[k - 1]
      BY <2>1, <3>1
    <3>2. CASE p \notin f[k - 1]
      <4>1. /\ p \in TasksOf(n) \X TasksOf(n)
            /\ <<p[1], k - 1>> \in f[k - 1] /\ <<k - 1, p[2]>> \in f[k - 1]
        BY <2>2, <3>2 DEF Joined
      <4>2. <<p[1], p[2]>> \in Q
        BY <2>1, <4>1 DEF Transitive
      <4> QED
        BY <4>1, <4>2
    <3> QED
      BY <3>1, <3>2
  <2> QED
    BY <2>1, <2>2
<1> HIDE DEF S
<1>4. \A k \in 0 .. n : k \in S
  BY <1>2, <1>3, Induction
<1> QED
  BY <1>1, <1>4 DEF S

LEMMA ReachesMore ==
  ASSUME NEW n \in Nat, NEW E \in Graphs(n), NEW F \in Graphs(n), E \subseteq F
  PROVE  Reaches(n, E) \subseteq Reaches(n, F)
<1>1. /\ F \subseteq Reaches(n, F) /\ Transitive(Reaches(n, F))
      /\ \A t \in TasksOf(n) : <<t, t>> \in Reaches(n, F)
  BY ReachesIsClosure
<1> QED
  BY <1>1, ReachesIsLeast

(* A path that goes anywhere begins with an edge.                          *)
LEMMA FirstEdge ==
  ASSUME NEW n \in Nat, NEW edges \in Graphs(n), NEW a, NEW b, a # b,
         <<a, b>> \in Reaches(n, edges)
  PROVE  \E c \in TasksOf(n) : <<a, c>> \in edges /\ <<c, b>> \in Reaches(n, edges)
<1>1. PICK R : R = Reaches(n, edges)
  OBVIOUS
<1>2. /\ edges \subseteq R /\ R \subseteq TasksOf(n) \X TasksOf(n)
      /\ \A t \in TasksOf(n) : <<t, t>> \in R
      /\ \A x, y, z : <<x, y>> \in R /\ <<y, z>> \in R => <<x, z>> \in R
  BY <1>1, ReachesIsClosure DEF Transitive
<1> DEFINE Starts(x, y) == \E c \in TasksOf(n) : <<x, c>> \in edges /\ <<c, y>> \in R
           Q == {p \in TasksOf(n) \X TasksOf(n) : p[1] = p[2] \/ Starts(p[1], p[2])}
<1>3. edges \subseteq Q
  BY <1>2 DEF Graphs
<1>4. \A t \in TasksOf(n) : <<t, t>> \in Q
  OBVIOUS
<1>5. Transitive(Q)
  <2>1. \A x, y, z \in TasksOf(n) : Starts(x, y) /\ <<y, z>> \in R => Starts(x, z)
    BY <1>2
  <2>2. \A x, y \in TasksOf(n) : Starts(x, y) => <<x, y>> \in R
    BY <1>2
  <2>3. \A x, y : <<x, y>> \in Q <=> x \in TasksOf(n) /\ y \in TasksOf(n) /\ (x = y \/ Starts(x, y))
    OBVIOUS
  <2> HIDE DEF Starts, Q
  <2> QED
    BY <2>1, <2>2, <2>3 DEF Transitive
<1> HIDE DEF Q
<1>6. R \subseteq Q
  BY <1>1, <1>3, <1>4, <1>5, ReachesIsLeast
<1> QED
  BY <1>1, <1>6 DEF Q

LEMMA AcyclicIs ==
  ASSUME NEW n \in Nat, NEW edges \in Graphs(n)
  PROVE  Acyclic(n, edges) <=> \A a, b : <<a, b>> \in edges => <<b, a>> \notin Reaches(n, edges)
<1>1. Reaches(n, edges) \subseteq TasksOf(n) \X TasksOf(n)
  BY ReachesIsClosure
<1>2. \A a, b : <<a, b>> \in Reversed(Reaches(n, edges)) <=> <<b, a>> \in Reaches(n, edges)
  BY <1>1 DEF Reversed
<1>3. \A e \in edges : e = <<e[1], e[2]>>
  BY DEF Graphs
<1>4. PICK B : B = Reversed(Reaches(n, edges))
  OBVIOUS
<1>5. Acyclic(n, edges) <=> \A e \in edges : e \notin B
  BY <1>4 DEF Acyclic
<1>6. (\A e \in edges : e \notin B) <=> \A a, b : <<a, b>> \in edges => <<a, b>> \notin B
  BY <1>3
<1> QED
  BY <1>2, <1>4, <1>5, <1>6

LEMMA NoWayBack ==
  ASSUME NEW n \in Nat, NEW edges \in Graphs(n), Acyclic(n, edges), NEW a, NEW b,
         <<a, b>> \in Reaches(n, edges), <<b, a>> \in Reaches(n, edges)
  PROVE  a = b
<1> SUFFICES ASSUME a # b PROVE FALSE
  OBVIOUS
<1>1. PICK c \in TasksOf(n) : <<a, c>> \in edges /\ <<c, b>> \in Reaches(n, edges)
  BY FirstEdge
<1>2. <<c, a>> \in Reaches(n, edges)
  BY <1>1, ReachesIsClosure DEF Transitive
<1> QED
  BY <1>1, <1>2, AcyclicIs

(* An edge between tasks that have none either way closes no cycle.        *)
LEMMA OneMoreEdge ==
  ASSUME NEW n \in Nat, NEW edges \in Graphs(n), Acyclic(n, edges),
         NEW a \in TasksOf(n), NEW b \in TasksOf(n), <<b, a>> \notin Reaches(n, edges)
  PROVE  Acyclic(n, edges \cup {<<a, b>>})
<1>1. PICK R, F : R = Reaches(n, edges) /\ F = edges \cup {<<a, b>>}
  OBVIOUS
<1>2. /\ edges \subseteq R /\ R \subseteq TasksOf(n) \X TasksOf(n)
      /\ \A t \in TasksOf(n) : <<t, t>> \in R
      /\ \A x, y, z : <<x, y>> \in R /\ <<y, z>> \in R => <<x, z>> \in R
  BY <1>1, ReachesIsClosure DEF Transitive
<1>3. F \in Graphs(n)
  BY <1>1 DEF Graphs
<1> DEFINE Q == {p \in TasksOf(n) \X TasksOf(n) :
                   p \in R \/ (<<p[1], a>> \in R /\ <<b, p[2]>> \in R)}
<1>4. \A x, y : <<x, y>> \in Q <=> <<x, y>> \in R \/ (<<x, a>> \in R /\ <<b, y>> \in R)
  BY <1>2
<1>5. F \subseteq Q
  BY <1>1, <1>2
<1>6. \A t \in TasksOf(n) : <<t, t>> \in Q
  BY <1>2
<1> HIDE DEF Q
<1>7. Transitive(Q)
  BY <1>1, <1>2, <1>4 DEF Transitive
<1>8. Reaches(n, F) \subseteq Q
  BY <1>5, <1>6, <1>7, ReachesIsLeast
<1>9. \A x, y : <<x, y>> \in edges => <<y, x>> \notin R
  BY <1>1, AcyclicIs
<1>10. ASSUME NEW x, NEW y, <<x, y>> \in F, <<y, x>> \in Q
       PROVE  FALSE
  <2>1. CASE <<x, y>> \in edges
    <3>1. <<x, y>> \in R /\ <<y, a>> \in R /\ <<b, x>> \in R
      BY <1>2, <1>4, <1>9, <1>10, <2>1
    <3> QED
      BY <1>1, <1>2, <3>1
  <2>2. CASE x = a /\ y = b
    BY <1>1, <1>4, <1>10, <2>2
  <2> QED
    BY <1>1, <1>10, <2>1, <2>2
<1> QED
  BY <1>1, <1>3, <1>8, <1>10, AcyclicIs

-----------------------------------------------------------------------------
(* The edges the assembler infers *)

PairAt(n, k) == <<(k - 1) \div n, (k - 1) % n>>
Sealing(n, effects, k, E) ==
  LET p == PairAt(n, k)
  IN  IF p[1] < p[2] /\ Conflicting(effects[p[1]], effects[p[2]]) /\ Unordered(p, Reaches(n, E))
      THEN E \cup {p} ELSE E

LEMMA SealingSteps ==
  ASSUME NEW n \in Nat, NEW explicit, NEW effects
  PROVE  \E f : /\ SealedEdges(n, explicit, effects) = f[n * n]
                /\ f[0] = explicit
                /\ \A k \in 1 .. n * n : f[k] = Sealing(n, effects, k, f[k - 1])
<1> DEFINE m == n * n
           V == SUBSET (explicit \cup {PairAt(n, k) : k \in 1 .. m})
           g == [x \in (1 .. m) \X V |-> Sealing(n, effects, x[1], x[2])]
           G(f) == [k \in 0 .. n * n |-> IF k = 0 THEN explicit ELSE Sealing(n, effects, k, f[k - 1])]
           h == CHOOSE f : f = G(f)
<1>0. m \in Nat
  OBVIOUS
<1>1. \E f : f = G(f)
  <2>1. explicit \in V
    OBVIOUS
  <2>2. ASSUME NEW k \in 1 .. m, NEW R \in V PROVE Sealing(n, effects, k, R) \in V
    BY DEF Sealing
  <2>3. g \in [(1 .. m) \X V -> V]
    <3> HIDE DEF V, m
    <3> QED
      BY <2>2
  <2>4. \A k \in 1 .. m, R \in V : g[<<k, R>>] = Sealing(n, effects, k, R)
    OBVIOUS
  <2> HIDE DEF V, g
  <2>5. PICK f \in [0 .. m -> V] : f[0] = explicit /\ \A k \in 1 .. m : f[k] = g[<<k, f[k - 1]>>]
    <3>1. Recursive(m, V, explicit, g)
      <4> HIDE DEF m
      <4> QED
        BY <1>0, <2>1, <2>3, Recursion
    <3> QED
      BY <3>1 DEF Recursive
  <2>6. ASSUME NEW k \in 0 .. m PROVE f[k] = IF k = 0 THEN explicit ELSE Sealing(n, effects, k, f[k - 1])
    <3> HIDE DEF m
    <3>1. CASE k = 0
      BY <2>5, <3>1
    <3>2. CASE k # 0
      <4>1. k \in 1 .. m /\ k - 1 \in 0 .. m
        BY <1>0, <3>2
      <4>2. f[k - 1] \in V
        BY <4>1
      <4> QED
        BY <2>4, <2>5, <3>2, <4>1, <4>2
    <3> QED
      BY <3>1, <3>2
  <2>7. f = G(f)
    BY <2>6
  <2> QED
    BY <2>7
<1>2. SealedEdges(n, explicit, effects) = h[n * n]
  BY DEF SealedEdges, Sealing, PairAt
<1>3. h = G(h)
  <2> HIDE DEF G
  <2> QED
    BY <1>1
<1> HIDE DEF h
<1>4. \A k \in 0 .. m : h[k] = IF k = 0 THEN explicit ELSE Sealing(n, effects, k, h[k - 1])
  BY <1>3
<1>5. h[0] = explicit /\ \A k \in 1 .. m : h[k] = Sealing(n, effects, k, h[k - 1])
  <2> HIDE DEF G, m
  <2> QED
    BY <1>0, <1>4
<1> QED
  BY <1>2, <1>5

LEMMA Remainder ==
  ASSUME NEW c \in Nat \ {0}, NEW x \in Nat
  PROVE  (x % c) \in 0 .. c - 1 /\ (x \div c) \in Nat /\ x = (x \div c) * c + (x % c)
  OBVIOUS

(* The pairs are gone through row by row, each of them.                    *)
LEMMA PairsAreAll ==
  ASSUME NEW n \in Nat
  PROVE  /\ \A k \in 1 .. n * n : PairAt(n, k) \in TasksOf(n) \X TasksOf(n)
         /\ \A t, u \in TasksOf(n) : \E k \in 1 .. n * n : PairAt(n, k) = <<t, u>>
<1>1. ASSUME NEW k \in 1 .. n * n PROVE PairAt(n, k) \in TasksOf(n) \X TasksOf(n)
  <2>1. n \in Nat \ {0} /\ k - 1 \in Nat /\ k - 1 < n * n
    OBVIOUS
  <2>2. PICK q \in Nat, r \in 0 .. n - 1 : q = (k - 1) \div n /\ r = (k - 1) % n /\ k - 1 = q * n + r
    BY <2>1, Remainder
  <2>3. q < n
    <3> SUFFICES ASSUME q >= n PROVE FALSE
      OBVIOUS
    <3>1. q * n >= n * n
      OBVIOUS
    <3> QED
      BY <2>1, <2>2, <3>1
  <2> QED
    BY <2>2, <2>3 DEF PairAt, TasksOf
<1>2. ASSUME NEW t \in TasksOf(n), NEW u \in TasksOf(n)
      PROVE  \E k \in 1 .. n * n : PairAt(n, k) = <<t, u>>
  <2>1. n \in Nat \ {0} /\ t \in 0 .. n - 1 /\ u \in 0 .. n - 1
    BY DEF TasksOf
  <2>2. PICK x \in Nat : x = t * n + u
    BY <2>1
  <2>3. x < n * n
    <3>1. t * n <= (n - 1) * n
      BY <2>1
    <3>2. (n - 1) * n = n * n - n
      BY <2>1
    <3> QED
      BY <2>1, <2>2, <3>1, <3>2
  <2>4. PICK q \in Nat, r \in 0 .. n - 1 : q = x \div n /\ r = x % n /\ x = q * n + r
    BY <2>1, <2>2, Remainder
  <2>5. q = t /\ r = u
    <3>1. ASSUME q < t PROVE FALSE
      <4>1. q + 1 <= t
        BY <2>1, <3>1
      <4>2. (q + 1) * n <= t * n
        BY <2>1, <4>1
      <4> QED
        BY <2>1, <2>2, <2>4, <4>2
    <3>2. ASSUME q > t PROVE FALSE
      <4>1. t + 1 <= q
        BY <2>1, <3>2
      <4>2. (t + 1) * n <= q * n
        BY <2>1, <4>1
      <4> QED
        BY <2>1, <2>2, <2>4, <4>2
    <3>3. q = t
      BY <2>1, <3>1, <3>2
    <3> QED
      BY <2>1, <2>2, <2>4, <3>3
  <2>6. x + 1 \in 1 .. n * n /\ x + 1 - 1 = x
    BY <2>1, <2>2, <2>3
  <2>7. PairAt(n, x + 1) = <<t, u>>
    BY <2>4, <2>5, <2>6 DEF PairAt
  <2> QED
    BY <2>6, <2>7
<1> QED
  BY <1>1, <1>2

(* What a graph of edges needs for the conflict of two tasks.              *)
Ordered(R, t, u) == <<t, u>> \in R \/ <<u, t>> \in R

LEMMA CoversIs ==
  ASSUME NEW n, NEW E, NEW effects
  PROVE  HappensBeforeCovers(n, E, effects)
           <=> \A t, u \in TasksOf(n) : t < u /\ Conflicting(effects[t], effects[u])
                  => Ordered(Reaches(n, E), t, u)
  BY DEF HappensBeforeCovers, Ordered

(* The assembler adds to a graph only forward edges between tasks that     *)
(* conflict, never closes a cycle, and leaves no conflict without order.   *)
LEMMA SealedEdgesOrder ==
  ASSUME NEW n \in Nat, NEW explicit \in Graphs(n), NEW effects
  PROVE  LET S == SealedEdges(n, explicit, effects)
         IN  /\ S \in Graphs(n) /\ explicit \subseteq S
             /\ \A a, b : <<a, b>> \in S \ explicit => a < b
             /\ Acyclic(n, explicit) => Acyclic(n, S)
             /\ HappensBeforeCovers(n, S, effects)
<1>1. PICK f : /\ SealedEdges(n, explicit, effects) = f[n * n]
               /\ f[0] = explicit
               /\ \A k \in 1 .. n * n : f[k] = Sealing(n, effects, k, f[k - 1])
  BY SealingSteps
<1>2. PICK m \in Nat : m = n * n
  OBVIOUS
<1> DEFINE Pairs(k) == {PairAt(n, l) : l \in 1 .. k}
           Good(k, E) ==
             /\ E \in Graphs(n) /\ explicit \subseteq E
             /\ \A a, b : <<a, b>> \in E \ explicit => a < b
             /\ Acyclic(n, explicit) => Acyclic(n, E)
             /\ \A t, u \in TasksOf(n) :
                  t < u /\ Conflicting(effects[t], effects[u]) /\ <<t, u>> \in Pairs(k)
                    => Ordered(Reaches(n, E), t, u)
           S == {k \in 0 .. m : Good(k, f[k])}
<1>3. 0 \in S
  <2>1. Pairs(0) = {}
    OBVIOUS
  <2>2. Good(0, explicit)
    BY <2>1
  <2> QED
    BY <1>1, <2>2
<1>4. ASSUME NEW k \in 1 .. m, k - 1 \in S
      PROVE  k \in S
  <2>1. PICK E, F, p, l : E = f[k - 1] /\ F = f[k] /\ p = PairAt(n, k) /\ l = k - 1
    OBVIOUS
  <2>2. Good(l, E) /\ F = Sealing(n, effects, k, E)
    BY <1>1, <1>2, <1>4, <2>1
  <2>3. PICK a \in TasksOf(n), b \in TasksOf(n) : p = <<a, b>>
    BY <1>2, <2>1, PairsAreAll
  <2>4. Pairs(k) = Pairs(l) \cup {p}
    <3>1. \A i \in 1 .. k : i \in 1 .. l \/ i = k
      BY <2>1
    <3>2. \A i \in 1 .. l : i \in 1 .. k
      BY <2>1
    <3>3. k \in 1 .. k
      OBVIOUS
    <3> QED
      BY <2>1, <3>1, <3>2, <3>3
  <2> DEFINE Adds == a < b /\ Conflicting(effects[a], effects[b])
                       /\ <<a, b>> \notin Reaches(n, E) /\ <<b, a>> \notin Reaches(n, E)
  <2>5. F = IF Adds THEN E \cup {<<a, b>>} ELSE E
    BY <2>1, <2>2, <2>3 DEF Sealing, Unordered
  <2>6. F \in Graphs(n) /\ E \in Graphs(n) /\ E \subseteq F /\ explicit \subseteq F
    BY <2>2, <2>5 DEF Graphs
  <2>7. \A x, y : <<x, y>> \in F \ explicit => x < y
    BY <2>2, <2>5
  <2>8. Acyclic(n, explicit) => Acyclic(n, F)
    BY <2>2, <2>5, OneMoreEdge
  <2>9. Reaches(n, E) \subseteq Reaches(n, F) /\ F \subseteq Reaches(n, F)
    BY <2>6, ReachesMore, ReachesIsClosure
  <2>10. ASSUME NEW t \in TasksOf(n), NEW u \in TasksOf(n),
                t < u, Conflicting(effects[t], effects[u]), <<t, u>> \in Pairs(k)
         PROVE  Ordered(Reaches(n, F), t, u)
    <3>1. CASE <<t, u>> \in Pairs(l)
      <4>1. Ordered(Reaches(n, E), t, u)
        BY <2>2, <2>10, <3>1
      <4> QED
        BY <2>9, <4>1 DEF Ordered
    <3>2. CASE <<t, u>> = <<a, b>>
      BY <2>5, <2>9, <2>10, <3>2 DEF Ordered
    <3> HIDE DEF Pairs
    <3> QED
      BY <2>3, <2>4, <2>10, <3>1, <3>2
  <2>11. Good(k, F)
    <3> HIDE DEF Pairs
    <3> QED
      BY <2>6, <2>7, <2>8, <2>10
  <2> QED
    <3> HIDE DEF Good
    <3> QED
      BY <2>1, <2>11
<1> HIDE DEF S
<1>5. \A k \in 0 .. m : k \in S
  BY <1>3, <1>4, Induction
<1>6. Good(m, f[m])
  BY <1>5 DEF S
<1>7. \A t, u \in TasksOf(n) : <<t, u>> \in Pairs(m)
  <2>1. ASSUME NEW t \in TasksOf(n), NEW u \in TasksOf(n) PROVE <<t, u>> \in Pairs(m)
    <3>1. PICK k \in 1 .. m : PairAt(n, k) = <<t, u>>
      BY <1>2, PairsAreAll
    <3> QED
      BY <3>1
  <2> QED
    BY <2>1
<1> HIDE DEF Pairs
<1>8. HappensBeforeCovers(n, f[m], effects)
  BY <1>6, <1>7, CoversIs
<1> QED
  BY <1>1, <1>2, <1>6, <1>8

-----------------------------------------------------------------------------
(* What the builder and the assembler keep *)

Client == BagToSet(dependencies)
AllEdges == SealedEdges(Count, Client, Effects)
SealedPlan ==
  [status |-> "Sealed", edges |-> AllEdges,
   schedule |-> Schedule(Count, AllEdges, Operations, Effects)]

(* The dependencies are the graph's, without a cycle once it is sealed;    *)
(* and a plan, once there is one, is that of the graph as it still is.     *)
GraphInv ==
  /\ tasks \in Seq(Programs)
  /\ Client \in Graphs(Count)
  /\ stage # "Building" => Acyclic(Count, Client)
  /\ plan # NoPlan => stage = "Published"
  /\ \/ plan = NoPlan
     \/ plan = [status |-> "Refused"] /\ Doubled
     \/ plan = SealedPlan /\ Count > 0

LEMMA CountIs ==
  ASSUME tasks \in Seq(Programs)
  PROVE  Count \in Nat /\ Graph = TasksOf(Count)
BY DEF Count, Graph

LEMMA AddedEdges ==
  ASSUME NEW S
  PROVE  BagToSet(dependencies (+) SetToBag(S)) = Client \cup S
BY DEF Client, BagToSet, SetToBag, (+)

(* What the assembler makes of a graph without a cycle.                    *)
LEMMA AssembledIsSealed ==
  ASSUME tasks \in Seq(Programs), Client \in Graphs(Count), Acyclic(Count, Client)
  PROVE  /\ AllEdges \in Graphs(Count) /\ Client \subseteq AllEdges
         /\ \A a, b : <<a, b>> \in AllEdges \ Client => a < b
         /\ Acyclic(Count, AllEdges)
         /\ HappensBeforeCovers(Count, AllEdges, Effects)
<1>1. PICK n, E : n = Count /\ E = Effects
  OBVIOUS
<1>2. n \in Nat
  BY <1>1, CountIs
<1>3. PICK S : S = SealedEdges(n, Client, E)
  OBVIOUS
<1>4. /\ S \in Graphs(n) /\ Client \subseteq S
      /\ \A a, b : <<a, b>> \in S \ Client => a < b
      /\ Acyclic(n, Client) => Acyclic(n, S)
      /\ HappensBeforeCovers(n, S, E)
  BY <1>1, <1>2, <1>3, SealedEdgesOrder
<1> QED
  BY <1>1, <1>3, <1>4 DEF AllEdges

LEMMA GraphInductive == GraphInv /\ [Next]_vars => GraphInv'
<1> SUFFICES ASSUME GraphInv, [Next]_vars PROVE GraphInv'
  OBVIOUS
<1>1. Count \in Nat /\ Graph = TasksOf(Count)
  BY CountIs DEF GraphInv
<1>2. ASSUME NEW p \in Programs, AppendTask(p) PROVE GraphInv'
  <2>1. plan = NoPlan
    BY <1>2 DEF GraphInv, AppendTask
  <2>2. tasks' \in Seq(Programs) /\ Count' = Count + 1
    BY <1>2 DEF GraphInv, AppendTask, Count
  <2>3. Client' = Client
    BY <1>2 DEF AppendTask, Client
  <2>4. TasksOf(Count) \subseteq TasksOf(Count')
    BY <1>1, <2>2 DEF TasksOf
  <2>5. Client' \in Graphs(Count)'
    <3>1. Client \in SUBSET (TasksOf(Count) \X TasksOf(Count))
      BY DEF GraphInv, Graphs
    <3>2. Client' \in SUBSET (TasksOf(Count') \X TasksOf(Count'))
      BY <2>3, <2>4, <3>1
    <3> QED
      BY <3>2 DEF Graphs
  <2>6. stage' = "Building" /\ plan' = NoPlan
    BY <1>2, <2>1 DEF AppendTask
  <2> QED
    BY <2>2, <2>5, <2>6 DEF GraphInv, NoPlan
<1>3. ASSUME NEW t \in Graph, NEW u \in Graph, AddDependency(t, u) PROVE GraphInv'
  <2>1. plan = NoPlan
    BY <1>3 DEF GraphInv, AddDependency
  <2>2. tasks' = tasks /\ Count' = Count /\ stage' = "Building" /\ plan' = NoPlan
    BY <1>3, <2>1 DEF AddDependency, Count
  <2>3. Client' = Client \cup {<<t, u>>}
    <3>1. dependencies' = dependencies (+) SetToBag({<<t, u>>})
      BY <1>3 DEF AddDependency
    <3>2. BagToSet(dependencies (+) SetToBag({<<t, u>>})) = Client \cup {<<t, u>>}
      BY AddedEdges
    <3> QED
      BY <3>1, <3>2 DEF Client
  <2>4. Client' \in Graphs(Count)
    BY <1>1, <2>3 DEF Graphs, GraphInv
  <2> QED
    BY <2>2, <2>4 DEF GraphInv, NoPlan, Graphs
<1>4. ASSUME NEW d, declared' = d, UNCHANGED <<tasks, dependencies, stage, plan>> PROVE GraphInv'
  <2>1. GraphInv' = GraphInv
    BY <1>4 DEF GraphInv, Client, Count, Graph, Doubled, NoPlan, SealedPlan, AllEdges, Effects
  <2> QED
    BY <2>1
<1>5. CASE SealGraph
  <2> DEFINE edges == dependencies (+) SetToBag(DeclaredConflicts)
  <2>1. /\ stage = "Building" /\ stage' = "Sealed" /\ plan' = plan /\ tasks' = tasks
        /\ dependencies' = edges /\ Acyclic(Count, BagToSet(edges))
    BY <1>5 DEF SealGraph
  <2>2. plan = NoPlan /\ Count' = Count
    BY <2>1 DEF GraphInv, Count
  <2>3. BagToSet(edges) = Client \cup DeclaredConflicts
    BY AddedEdges
  <2>4. BagToSet(edges) \in Graphs(Count)
    BY <1>1, <2>3 DEF DeclaredConflicts, Graphs, GraphInv
  <2>5. Client' = BagToSet(edges)
    BY <2>1 DEF Client
  <2> HIDE DEF edges
  <2>6. Client' \in Graphs(Count)' /\ Acyclic(Count, Client)'
    BY <2>1, <2>2, <2>4, <2>5 DEF Graphs, Acyclic
  <2> QED
    BY <2>1, <2>2, <2>6 DEF GraphInv, NoPlan
<1>6. CASE PublishGraph
  <2>1. /\ stage = "Sealed" /\ stage' = "Published"
        /\ UNCHANGED <<tasks, declared, dependencies, plan>>
    BY <1>6 DEF PublishGraph
  <2>2. Client' = Client /\ Count' = Count /\ plan = NoPlan
    BY <2>1 DEF GraphInv, Client, Count
  <2>3. Client' \in Graphs(Count)' /\ Acyclic(Count, Client)'
    BY <2>1, <2>2 DEF GraphInv, Graphs, Acyclic
  <2> QED
    BY <2>1, <2>2, <2>3 DEF GraphInv, NoPlan
<1>7. CASE Assemble
  <2>1. /\ stage = "Published"
        /\ UNCHANGED <<tasks, declared, dependencies, stage>>
        /\ plan' = IF /\ Acyclic(Count, AllEdges)
                      /\ HappensBeforeCovers(Count, AllEdges, Effects)
                      /\ ~Doubled
                   THEN SealedPlan ELSE [status |-> "Refused"]
    BY <1>7 DEF Assemble, AllEdges, SealedPlan, Client
  <2>7. Count > 0
    BY <1>7 DEF Assemble
  <2>2. Acyclic(Count, AllEdges) /\ HappensBeforeCovers(Count, AllEdges, Effects)
    BY <2>1, AssembledIsSealed DEF GraphInv
  <2>3. /\ Client' = Client /\ Count' = Count /\ Effects' = Effects
    BY <2>1 DEF Client, Count, Graph, Effects
  <2>4. Doubled' = Doubled /\ SealedPlan' = SealedPlan
    <3>1. AllEdges' = AllEdges
      BY <2>3 DEF AllEdges
    <3> QED
      BY <2>1, <2>3, <3>1 DEF Doubled, SealedPlan
  <2>5. Client' \in Graphs(Count)' /\ Acyclic(Count, Client)'
    BY <2>1, <2>3 DEF GraphInv, Graphs, Acyclic
  <2>6. plan' = SealedPlan \/ (plan' = [status |-> "Refused"] /\ Doubled)
    BY <2>1, <2>2
  <2> QED
    BY <2>1, <2>3, <2>4, <2>5, <2>6, <2>7 DEF GraphInv
<1>8. CASE UNCHANGED vars
  BY <1>4, <1>8 DEF vars
<1> QED
  BY <1>2, <1>3, <1>4, <1>5, <1>6, <1>7, <1>8 DEF Next, AddEffect, SetEffects

LEMMA GraphInvHolds == Spec => []GraphInv
<1>1. Init => GraphInv
  <2> SUFFICES ASSUME Init PROVE GraphInv
    OBVIOUS
  <2>1. tasks \in Seq(Programs) /\ stage = "Building" /\ plan = NoPlan
    BY DEF Init
  <2>2. Client = {}
    BY DEF Init, Client, EmptyBag, BagToSet, SetToBag
  <2> QED
    BY <2>1, <2>2 DEF GraphInv, Graphs
<1> QED
  BY <1>1, GraphInductive, PTL DEF Spec

(* RefusedOnlyWhenDoubled: the assembler accepts whatever the builder      *)
(* sealed unless a pair of tasks has two edges.                            *)
THEOREM RefusedForDoubles == Spec => []RefusedOnlyWhenDoubled
<1>1. GraphInv => RefusedOnlyWhenDoubled
  <2> SUFFICES ASSUME GraphInv, plan.status = "Refused" PROVE Doubled
    BY DEF RefusedOnlyWhenDoubled
  <2>1. NoPlan.status = "None" /\ SealedPlan.status = "Sealed"
    BY DEF NoPlan, SealedPlan
  <2> QED
    BY <2>1 DEF GraphInv
<1> QED
  BY <1>1, GraphInvHolds, PTL

-----------------------------------------------------------------------------
(* Components *)

LEMMA NeighboursAre ==
  ASSUME NEW n \in Nat, NEW edges \in Graphs(n)
  PROVE  /\ Neighbours(edges) \in Graphs(n) /\ edges \subseteq Neighbours(edges)
         /\ \A a, b : <<a, b>> \in Neighbours(edges) <=> <<a, b>> \in edges \/ <<b, a>> \in edges
<1>1. \A e \in edges : /\ e[1] \in TasksOf(n) /\ e[2] \in TasksOf(n)
                       /\ e = <<e[1], e[2]>>
  BY DEF Graphs
<1>2. ASSUME NEW a, NEW b PROVE <<a, b>> \in Reversed(edges) <=> <<b, a>> \in edges
  <2>1. ASSUME <<a, b>> \in Reversed(edges) PROVE <<b, a>> \in edges
    <3>1. PICK e \in edges : <<a, b>> = <<e[2], e[1]>>
      BY <2>1 DEF Reversed
    <3> QED
      BY <1>1, <3>1
  <2>2. ASSUME <<b, a>> \in edges PROVE <<a, b>> \in Reversed(edges)
    BY <2>2 DEF Reversed
  <2> QED
    BY <2>1, <2>2
<1>3. Reversed(edges) \in Graphs(n)
  BY <1>1 DEF Reversed, Graphs
<1> QED
  BY <1>2, <1>3 DEF Neighbours, Graphs

(* Two tasks in one component: an equivalence *)
Joint(n, edges, t, u) == <<t, u>> \in Reaches(n, Neighbours(edges))

LEMMA JointIs ==
  ASSUME NEW n \in Nat, NEW edges \in Graphs(n)
  PROVE  /\ \A t \in TasksOf(n) : Joint(n, edges, t, t)
         /\ \A t, u : Joint(n, edges, t, u)
                        => t \in TasksOf(n) /\ u \in TasksOf(n) /\ Joint(n, edges, u, t)
         /\ \A t, u, v : Joint(n, edges, t, u) /\ Joint(n, edges, u, v) => Joint(n, edges, t, v)
         /\ \A t, u : <<t, u>> \in Reaches(n, edges) => Joint(n, edges, t, u)
         /\ \A t, u : <<t, u>> \in edges => Joint(n, edges, t, u)
<1>1. PICK N, U : N = Neighbours(edges) /\ U = Reaches(n, N)
  OBVIOUS
<1>2. N \in Graphs(n) /\ edges \subseteq N /\ (\A a, b : <<a, b>> \in N => <<b, a>> \in N)
  BY <1>1, NeighboursAre
<1>3. /\ N \subseteq U /\ U \subseteq TasksOf(n) \X TasksOf(n)
      /\ \A t \in TasksOf(n) : <<t, t>> \in U
      /\ \A a, b, c : <<a, b>> \in U /\ <<b, c>> \in U => <<a, c>> \in U
  BY <1>1, <1>2, ReachesIsClosure DEF Transitive
<1>4. Reaches(n, edges) \subseteq U
  BY <1>1, <1>2, ReachesMore
<1> DEFINE Q == {p \in TasksOf(n) \X TasksOf(n) : <<p[2], p[1]>> \in U}
<1>5. \A a, b : <<a, b>> \in Q <=> <<b, a>> \in U
  BY <1>3
<1>6. N \subseteq Q
  <2>1. ASSUME NEW p \in N PROVE p \in Q
    <3>1. PICK a, b : p = <<a, b>>
      BY <1>2 DEF Graphs
    <3> HIDE DEF Q
    <3> QED
      BY <1>2, <1>3, <1>5, <3>1
  <2> QED
    BY <2>1
<1> HIDE DEF Q
<1>7. U \subseteq Q
  <2>1. Transitive(Q)
    BY <1>3, <1>5 DEF Transitive
  <2> QED
    BY <1>1, <1>3, <1>5, <1>6, <2>1, ReachesIsLeast
<1> QED
  BY <1>1, <1>2, <1>3, <1>4, <1>5, <1>7 DEF Joint

LEMMA ComponentsAre ==
  ASSUME NEW n \in Nat, NEW edges \in Graphs(n), NEW s \in TasksOf(n)
  PROVE  /\ s \in ComponentOf(n, edges, s)
         /\ ComponentOf(n, edges, s) \subseteq TasksOf(n)
         /\ \A t, u : Joint(n, edges, t, u)
              => (t \in ComponentOf(n, edges, s) <=> u \in ComponentOf(n, edges, s))
         /\ \A t, u \in ComponentOf(n, edges, s) : Joint(n, edges, t, u)
<1>1. \A u : u \in ComponentOf(n, edges, s) <=> u \in TasksOf(n) /\ Joint(n, edges, s, u)
  BY DEF ComponentOf, Joint
<1> QED
  BY <1>1, JointIs

(* The seeds after the search has looked at task k - 1 *)
Seeding(n, edges, k, found) ==
  found \cup ({k - 1} \ UNION {ComponentOf(n, edges, s) : s \in found})

LEMMA SeedsSteps ==
  ASSUME NEW n \in Nat, NEW edges
  PROVE  \E f : /\ Seeds(n, edges) = f[n]
                /\ f[0] = {}
                /\ \A k \in 1 .. n : f[k] = Seeding(n, edges, k, f[k - 1])
<1> DEFINE V == SUBSET TasksOf(n)
           g == [x \in (1 .. n) \X V |-> Seeding(n, edges, x[1], x[2])]
           G(f) == [k \in 0 .. n |-> IF k = 0 THEN {} ELSE Seeding(n, edges, k, f[k - 1])]
           h == CHOOSE f : f = G(f)
<1>1. \E f : f = G(f)
  <2>1. {} \in V
    OBVIOUS
  <2>2. ASSUME NEW k \in 1 .. n, NEW R \in V PROVE Seeding(n, edges, k, R) \in V
    <3>1. k - 1 \in TasksOf(n)
      BY DEF TasksOf
    <3> QED
      BY <3>1 DEF Seeding
  <2>3. g \in [(1 .. n) \X V -> V]
    <3> HIDE DEF V
    <3> QED
      BY <2>2
  <2>4. \A k \in 1 .. n, R \in V : g[<<k, R>>] = Seeding(n, edges, k, R)
    OBVIOUS
  <2> HIDE DEF V, g
  <2>5. PICK f \in [0 .. n -> V] : f[0] = {} /\ \A k \in 1 .. n : f[k] = g[<<k, f[k - 1]>>]
    <3>1. Recursive(n, V, {}, g)
      BY <2>1, <2>3, Recursion
    <3> QED
      BY <3>1 DEF Recursive
  <2>6. ASSUME NEW k \in 0 .. n PROVE f[k] = IF k = 0 THEN {} ELSE Seeding(n, edges, k, f[k - 1])
    <3>1. CASE k = 0
      BY <2>5, <3>1
    <3>2. CASE k # 0
      <4>1. k \in 1 .. n /\ k - 1 \in 0 .. n
        BY <3>2
      <4>2. f[k - 1] \in V
        BY <4>1
      <4> QED
        BY <2>4, <2>5, <3>2, <4>1, <4>2
    <3> QED
      BY <3>1, <3>2
  <2>7. f = G(f)
    BY <2>6
  <2> QED
    BY <2>7
<1>2. Seeds(n, edges) = h[n]
  BY DEF Seeds, Seeding
<1>3. h = G(h)
  <2> HIDE DEF G
  <2> QED
    BY <1>1
<1> HIDE DEF h
<1>4. h[0] = {} /\ \A k \in 1 .. n : h[k] = Seeding(n, edges, k, h[k - 1])
  <2>1. \A k \in 0 .. n : h[k] = IF k = 0 THEN {} ELSE Seeding(n, edges, k, h[k - 1])
    BY <1>3
  <2> HIDE DEF G
  <2> QED
    BY <2>1
<1> QED
  BY <1>2, <1>4

(* Every task is in the component of exactly one seed.                     *)
LEMMA SeedsSplit ==
  ASSUME NEW n \in Nat, NEW edges \in Graphs(n)
  PROVE  /\ Seeds(n, edges) \subseteq TasksOf(n)
         /\ \A t \in TasksOf(n) : \E s \in Seeds(n, edges) : t \in ComponentOf(n, edges, s)
         /\ \A r, s \in Seeds(n, edges) : \A t :
              t \in ComponentOf(n, edges, r) /\ t \in ComponentOf(n, edges, s) => r = s
<1>1. PICK f : /\ Seeds(n, edges) = f[n]
               /\ f[0] = {}
               /\ \A k \in 1 .. n : f[k] = Seeding(n, edges, k, f[k - 1])
  BY SeedsSteps
<1> DEFINE Split(k, found) ==
             /\ found \subseteq TasksOf(n)
             /\ \A t \in 0 .. k - 1 : \E s \in found : t \in ComponentOf(n, edges, s)
             /\ \A r, s \in found : \A t :
                  t \in ComponentOf(n, edges, r) /\ t \in ComponentOf(n, edges, s) => r = s
           S == {k \in 0 .. n : Split(k, f[k])}
<1>2. 0 \in S
  <2>1. 0 .. 0 - 1 = {} /\ 0 \in 0 .. n
    OBVIOUS
  <2>2. Split(0, {})
    BY <2>1
  <2> QED
    BY <1>1, <2>1, <2>2
<1>3. ASSUME NEW k \in 1 .. n, k - 1 \in S
      PROVE  k \in S
  <2>1. PICK F, H, l : F = f[k - 1] /\ H = f[k] /\ l = k - 1
    OBVIOUS
  <2>2. Split(l, F) /\ l \in TasksOf(n)
    <3>1. l \in TasksOf(n)
      BY <2>1 DEF TasksOf
    <3> QED
      BY <1>3, <2>1, <3>1
  <2>3. H = IF \E s \in F : l \in ComponentOf(n, edges, s) THEN F ELSE F \cup {l}
    <3>1. H = Seeding(n, edges, k, F)
      BY <1>1, <2>1
    <3>2. H = F \cup ({l} \ UNION {ComponentOf(n, edges, s) : s \in F})
      BY <2>1, <3>1 DEF Seeding
    <3>3. l \in UNION {ComponentOf(n, edges, s) : s \in F} <=> \E s \in F : l \in ComponentOf(n, edges, s)
      OBVIOUS
    <3> QED
      BY <3>2, <3>3
  <2>4. H \subseteq TasksOf(n) /\ F \subseteq H
    BY <2>2, <2>3
  <2>5. ASSUME NEW t \in 0 .. k - 1 PROVE \E s \in H : t \in ComponentOf(n, edges, s)
    <3>1. CASE t = l
      BY <2>2, <2>3, <3>1, ComponentsAre
    <3>2. CASE t # l
      <4>1. t \in 0 .. l - 1
        BY <2>1, <3>2
      <4> QED
        BY <2>2, <2>4, <4>1
    <3> QED
      BY <3>1, <3>2
  <2>6. ASSUME NEW r \in H, NEW s \in H, NEW t,
               t \in ComponentOf(n, edges, r), t \in ComponentOf(n, edges, s), r # s
        PROVE  FALSE
    <3>1. r \in TasksOf(n) /\ s \in TasksOf(n)
      BY <2>4
    <3>2. r \in ComponentOf(n, edges, s) /\ s \in ComponentOf(n, edges, r)
      <4>1. Joint(n, edges, r, t) /\ Joint(n, edges, s, t)
        BY <2>6, <3>1, ComponentsAre
      <4> QED
        BY <2>6, <3>1, <4>1, ComponentsAre
    <3>3. r = l \/ s = l
      BY <2>2, <2>3, <2>6
    <3>4. l \notin F /\ H = F \cup {l}
      BY <2>2, <2>3, <2>6, <3>3
    <3> QED
      BY <2>3, <2>6, <3>2, <3>3, <3>4
  <2>7. Split(k, H)
    BY <2>4, <2>5, <2>6
  <2> HIDE DEF Split
  <2> QED
    BY <2>1, <2>7
<1> HIDE DEF S
<1>4. \A k \in 0 .. n : k \in S
  BY <1>2, <1>3, Induction
<1>5. Split(n, f[n])
  BY <1>4 DEF S
<1> QED
  BY <1>1, <1>5 DEF TasksOf

Crossed(edges, S) == \E e \in edges : Cardinality({e[1], e[2]} \cap S) = 1

(* No component falls apart any further.                                   *)
LEMMA ComponentsHoldTogether ==
  ASSUME NEW n \in Nat, NEW edges \in Graphs(n), NEW s \in TasksOf(n),
         NEW S \in SUBSET ComponentOf(n, edges, s), S # {}, S # ComponentOf(n, edges, s)
  PROVE  Crossed(edges, S)
<1> SUFFICES ASSUME \A e \in edges : Cardinality({e[1], e[2]} \cap S) # 1
             PROVE  FALSE
  BY DEF Crossed
<1>1. PICK C : C = ComponentOf(n, edges, s)
  OBVIOUS
<1>2. ASSUME NEW a, NEW b, <<a, b>> \in edges PROVE a \in S <=> b \in S
  <2>1. Cardinality({a, b} \cap S) # 1
    <3>1. PICK e : e = <<a, b>>
      OBVIOUS
    <3>2. e[1] = a /\ e[2] = b
      BY <3>1
    <3>3. Cardinality({e[1], e[2]} \cap S) # 1
      BY <1>2, <3>1
    <3> QED
      BY <3>2, <3>3
  <2>2. ASSUME a \in S, b \notin S PROVE FALSE
    <3>1. {a, b} \cap S = {a}
      BY <2>2
    <3> QED
      BY <2>1, <3>1, FS_Singleton
  <2>3. ASSUME a \notin S, b \in S PROVE FALSE
    <3>1. {a, b} \cap S = {b}
      BY <2>3
    <3> QED
      BY <2>1, <3>1, FS_Singleton
  <2> QED
    BY <2>2, <2>3
<1> DEFINE Q == {p \in TasksOf(n) \X TasksOf(n) : p[1] \in S <=> p[2] \in S}
<1>3. \A a, b : <<a, b>> \in Q <=> a \in TasksOf(n) /\ b \in TasksOf(n) /\ (a \in S <=> b \in S)
  OBVIOUS
<1> HIDE DEF Q
<1>4. PICK N : N = Neighbours(edges)
  OBVIOUS
<1>5. N \subseteq Q
  <2>1. ASSUME NEW p \in N PROVE p \in Q
    <3>1. N \subseteq TasksOf(n) \X TasksOf(n)
      BY <1>4, NeighboursAre DEF Graphs
    <3>2. PICK a \in TasksOf(n), b \in TasksOf(n) : p = <<a, b>>
      BY <3>1
    <3>3. <<a, b>> \in edges \/ <<b, a>> \in edges
      BY <1>4, <2>1, <3>2, NeighboursAre
    <3> QED
      BY <1>2, <1>3, <3>2, <3>3
  <2> QED
    BY <2>1
<1>6. Reaches(n, N) \subseteq Q
  <2>1. Transitive(Q)
    BY <1>3 DEF Transitive
  <2> QED
    BY <1>3, <1>5, <2>1, ReachesIsLeast
<1>7. PICK x, y : x \in S /\ y \in C /\ y \notin S
  BY <1>1
<1>8. Joint(n, edges, x, y)
  BY <1>1, <1>7, ComponentsAre
<1> QED
  BY <1>3, <1>4, <1>6, <1>7, <1>8 DEF Joint

-----------------------------------------------------------------------------
(* Waves *)

LEMMA MinIs ==
  ASSUME NEW S, S \subseteq Nat, S # {}
  PROVE  Min(S) \in S /\ \A k \in S : Min(S) <= k
<1>1. \E m \in S : \A k \in S : m <= k
  BY FirstPosition
<1> QED
  BY <1>1 DEF Min

LEMMA MaxIs ==
  ASSUME NEW S, S \subseteq Nat, NEW m \in S, \A k \in S : k <= m
  PROVE  Max(S) = m
<1>1. Max(S) \in S /\ \A k \in S : Max(S) >= k
  BY DEF Max
<1>2. Max(S) >= m /\ Max(S) <= m /\ Max(S) \in Nat /\ m \in Nat
  BY <1>1
<1> QED
  BY <1>2

LEMMA TasksFinite ==
  ASSUME NEW n \in Nat, NEW C, C \subseteq TasksOf(n)
  PROVE  IsFiniteSet(C) /\ Cardinality(C) \in Nat
<1>1. IsFiniteSet(TasksOf(n))
  BY FS_Interval DEF TasksOf
<1> QED
  BY <1>1, FS_Subset, FS_CardinalityType

(* Some task of a set waits for no other task of it.                       *)
LEMMA SomeTaskIsFree ==
  ASSUME NEW n \in Nat, NEW edges \in Graphs(n), Acyclic(n, edges),
         NEW D, D \subseteq TasksOf(n), D # {}
  PROVE  \E t \in D : Predecessors(edges, t) \cap D = {}
<1> DEFINE Above(t) == {u \in TasksOf(n) : <<u, t>> \in Reaches(n, edges)}
           S == {Cardinality(Above(t)) : t \in D}
<1>1. \A t : IsFiniteSet(Above(t)) /\ Cardinality(Above(t)) \in Nat
  <2>1. \A t : Above(t) \subseteq TasksOf(n)
    OBVIOUS
  <2> QED
    BY <2>1, TasksFinite
<1>2. S \subseteq Nat /\ S # {}
  <2> HIDE DEF Above
  <2> QED
    BY <1>1
<1>3. PICK m \in S : \A k \in S : m <= k
  BY <1>2, FirstPosition
<1>4. PICK t \in D : m = Cardinality(Above(t))
  BY <1>3
<1>5. SUFFICES ASSUME NEW u \in D, <<u, t>> \in edges
               PROVE  FALSE
  <2>1. \A u \in Predecessors(edges, t) : <<u, t>> \in edges
    BY DEF Predecessors, Graphs
  <2> QED
    BY <2>1
<1>6. <<u, t>> \in Reaches(n, edges) /\ <<t, u>> \notin Reaches(n, edges)
  BY <1>5, AcyclicIs, ReachesIsClosure
<1>7. Above(u) \subseteq Above(t) /\ t \in Above(t) /\ t \notin Above(u)
  BY <1>6, ReachesIsClosure DEF Transitive
<1> HIDE DEF Above
<1>8. Cardinality(Above(u)) <= Cardinality(Above(t)) /\ Above(u) # Above(t)
  BY <1>1, <1>7, FS_Subset
<1>9. Cardinality(Above(u)) # Cardinality(Above(t))
  BY <1>1, <1>7, <1>8, FS_Subset
<1>10. m <= Cardinality(Above(u))
  BY <1>3
<1> QED
  BY <1>1, <1>4, <1>8, <1>9, <1>10

(* The tasks emitted after one more frontier *)
Frontier(C, edges, E) == E \cup {t \in C : Emittable(Predecessors(edges, t) \cap C, E)}

FrontiersOf(C, edges, f, m) ==
  /\ f[0] = {}
  /\ \A k \in 1 .. m : f[k] = Frontier(C, edges, f[k - 1])

WavesFrom(waves, C, f, m) ==
  waves = [k \in 1 .. Min({k \in 0 .. m : f[k] = C}) |-> f[k] \ f[k - 1]]

LEMMA WavesSteps ==
  ASSUME NEW C, NEW edges, Cardinality(C) \in Nat
  PROVE  \E f : /\ FrontiersOf(C, edges, f, Cardinality(C))
                /\ WavesFrom(WavesOf(C, edges), C, f, Cardinality(C))
<1> DEFINE m == Cardinality(C)
           V == SUBSET C
           g == [x \in (1 .. m) \X V |-> Frontier(C, edges, x[2])]
           G(f) == [k \in 0 .. Cardinality(C) |-> IF k = 0 THEN {} ELSE Frontier(C, edges, f[k - 1])]
           h == CHOOSE f : f = G(f)
<1>1. \E f : f = G(f)
  <2>1. {} \in V
    OBVIOUS
  <2>2. \A R : R \in V => Frontier(C, edges, R) \in V
    BY DEF Frontier
  <2>3. g \in [(1 .. m) \X V -> V]
    <3> HIDE DEF V, m
    <3> QED
      BY <2>2
  <2>4. \A k \in 1 .. m, R \in V : g[<<k, R>>] = Frontier(C, edges, R)
    OBVIOUS
  <2> HIDE DEF V, g, m
  <2>5. PICK f \in [0 .. m -> V] : f[0] = {} /\ \A k \in 1 .. m : f[k] = g[<<k, f[k - 1]>>]
    <3>1. m \in Nat
      BY DEF m
    <3>2. Recursive(m, V, {}, g)
      BY <2>1, <2>3, <3>1, Recursion
    <3> QED
      BY <3>2 DEF Recursive
  <2>6. ASSUME NEW k \in 0 .. m PROVE f[k] = IF k = 0 THEN {} ELSE Frontier(C, edges, f[k - 1])
    <3>1. CASE k = 0
      BY <2>5, <3>1
    <3>2. CASE k # 0
      <4>1. k \in 1 .. m /\ k - 1 \in 0 .. m
        BY <3>2 DEF m
      <4>2. f[k - 1] \in V
        BY <4>1
      <4> QED
        BY <2>4, <2>5, <3>2, <4>1, <4>2
    <3> QED
      BY <3>1, <3>2
  <2>7. f = G(f)
    BY <2>6 DEF m
  <2> QED
    BY <2>7
<1>2. WavesFrom(WavesOf(C, edges), C, h, Cardinality(C))
  BY DEF WavesFrom, WavesOf, Frontier
<1>3. h = G(h)
  <2> HIDE DEF G
  <2> QED
    BY <1>1
<1> HIDE DEF h
<1>4. FrontiersOf(C, edges, h, Cardinality(C))
  <2>1. \A k \in 0 .. m : h[k] = IF k = 0 THEN {} ELSE Frontier(C, edges, h[k - 1])
    BY <1>3
  <2>2. PICK c \in Nat : c = m
    OBVIOUS
  <2> HIDE DEF G, m
  <2>3. \A k \in 1 .. c : h[k] = Frontier(C, edges, h[k - 1])
    BY <2>1, <2>2
  <2>4. h[0] = {}
    BY <2>1, <2>2
  <2> QED
    BY <2>2, <2>3, <2>4 DEF m, FrontiersOf
<1> QED
  BY <1>2, <1>4

(* The frontiers grow until they hold the component, which they do after   *)
(* as many rounds as it has tasks at the latest.                           *)
LEMMA FrontiersGrow ==
  ASSUME NEW n \in Nat, NEW edges \in Graphs(n), Acyclic(n, edges),
         NEW C, C \subseteq TasksOf(n), NEW f, NEW m \in Nat, m = Cardinality(C),
         FrontiersOf(C, edges, f, m)
  PROVE  /\ \A k \in 1 .. m : f[k - 1] \subseteq f[k]
         /\ \A k \in 0 .. m : f[k] \subseteq C
         /\ f[m] = C
<1>1. IsFiniteSet(C)
  BY TasksFinite
<1> DEFINE Grows(k, E) == E \subseteq C /\ (E = C \/ Cardinality(E) >= k)
           S == {k \in 0 .. m : Grows(k, f[k])}
<1>2. 0 \in S
  <2>1. Grows(0, {})
    BY FS_EmptySet
  <2> QED
    BY <2>1 DEF FrontiersOf
<1>3. ASSUME NEW k \in 1 .. m, k - 1 \in S
      PROVE  k \in S
  <2>1. PICK E, F, l : E = f[k - 1] /\ F = f[k] /\ l = k - 1
    OBVIOUS
  <2>2. E \subseteq C /\ (E = C \/ Cardinality(E) >= l)
    BY <1>3, <2>1
  <2>3. F = E \cup {t \in C : Predecessors(edges, t) \cap C \subseteq E}
    BY <2>1 DEF FrontiersOf, Frontier, Emittable
  <2>4. E \subseteq F /\ F \subseteq C
    BY <2>2, <2>3
  <2>5. ASSUME E # C PROVE Cardinality(F) >= k
    <3>1. C \ E # {} /\ C \ E \subseteq TasksOf(n)
      BY <2>2, <2>5
    <3>2. PICK t \in C \ E : Predecessors(edges, t) \cap (C \ E) = {}
      <4>1. PICK D : D = C \ E
        OBVIOUS
      <4>2. \E t \in D : Predecessors(edges, t) \cap D = {}
        BY <3>1, <4>1, SomeTaskIsFree
      <4> QED
        BY <4>1, <4>2
    <3>3. t \in F /\ t \notin E
      BY <2>3, <3>2
    <3>4. IsFiniteSet(E) /\ IsFiniteSet(F) /\ IsFiniteSet(E \cup {t})
      BY <1>1, <2>2, <2>4, FS_Subset, FS_AddElement
    <3>5. Cardinality(E \cup {t}) = Cardinality(E) + 1
      BY <3>3, <3>4, FS_AddElement
    <3>6. Cardinality(E \cup {t}) <= Cardinality(F)
      <4>1. E \cup {t} \in SUBSET F
        BY <2>4, <3>3
      <4> QED
        BY <3>4, <4>1, FS_Subset
    <3>7. Cardinality(E) \in Nat /\ Cardinality(F) \in Nat /\ Cardinality(E) >= l
      BY <2>2, <2>5, <3>4, FS_CardinalityType
    <3> QED
      BY <2>1, <3>5, <3>6, <3>7
  <2>6. Grows(k, F)
    BY <2>2, <2>4, <2>5
  <2> HIDE DEF Grows
  <2> QED
    BY <2>1, <2>6
<1> HIDE DEF S
<1>4. \A k \in 0 .. m : k \in S
  BY <1>2, <1>3, Induction
<1>5. \A k \in 0 .. m : Grows(k, f[k])
  BY <1>4 DEF S
<1>6. \A k \in 1 .. m : f[k - 1] \subseteq f[k]
  BY DEF FrontiersOf, Frontier
<1>7. f[m] = C
  <2>1. f[m] \in SUBSET C /\ (f[m] = C \/ Cardinality(f[m]) >= m)
    BY <1>5
  <2>2. Cardinality(f[m]) <= Cardinality(C) /\ (Cardinality(C) = Cardinality(f[m]) => C = f[m])
    BY <1>1, <2>1, FS_Subset
  <2>3. Cardinality(f[m]) \in Nat
    BY <1>1, <2>1, FS_Subset, FS_CardinalityType
  <2> QED
    BY <2>1, <2>2, <2>3
<1> QED
  BY <1>5, <1>6, <1>7

LastOf(waves, S) == Max({WaveOf(waves, u) : u \in S})

(* The waves split a component, and a task's wave is that after the last   *)
(* of those it waits for.                                                  *)
LEMMA WavesAre ==
  ASSUME NEW n \in Nat, NEW edges \in Graphs(n), Acyclic(n, edges),
         NEW C, C \subseteq TasksOf(n)
  PROVE  LET waves == WavesOf(C, edges)
             Before(t) == Predecessors(edges, t) \cap C
         IN  /\ \E d \in Nat : DOMAIN waves = 1 .. d
             /\ \A k \in DOMAIN waves : waves[k] \subseteq C
             /\ \A t \in C : WaveOf(waves, t) \in DOMAIN waves /\ t \in waves[WaveOf(waves, t)]
             /\ \A t \in C, k \in DOMAIN waves : t \in waves[k] => k = WaveOf(waves, t)
             /\ \A t \in C : \A u \in Before(t) : WaveOf(waves, u) < WaveOf(waves, t)
             /\ \A t \in C : WaveOf(waves, t)
                               = IF Before(t) = {} THEN 1 ELSE 1 + LastOf(waves, Before(t))
<1> DEFINE Before(t) == Predecessors(edges, t) \cap C
<1>1. PICK m \in Nat : m = Cardinality(C)
  BY TasksFinite
<1>2. PICK f : FrontiersOf(C, edges, f, m) /\ WavesFrom(WavesOf(C, edges), C, f, m)
  BY <1>1, WavesSteps
<1>3. /\ \A k \in 1 .. m : f[k - 1] \subseteq f[k]
      /\ \A k \in 0 .. m : f[k] \subseteq C
      /\ f[m] = C
  BY <1>1, <1>2, FrontiersGrow
<1>4. /\ f[0] = {}
      /\ \A k \in 1 .. m : f[k] = f[k - 1] \cup {t \in C : Before(t) \subseteq f[k - 1]}
  BY <1>2 DEF FrontiersOf, Frontier, Emittable
<1>5. PICK d \in 0 .. m : d = Min({k \in 0 .. m : f[k] = C}) /\ f[d] = C
  <2>1. PICK D : D = {k \in 0 .. m : f[k] = C}
    OBVIOUS
  <2>2. D \subseteq Nat /\ m \in D
    BY <1>3, <2>1
  <2>3. Min(D) \in D
    BY <2>2, MinIs
  <2> QED
    BY <2>1, <2>3
<1>6. PICK waves : waves = WavesOf(C, edges)
  OBVIOUS
<1>7. DOMAIN waves = 1 .. d /\ \A k \in 1 .. d : waves[k] = f[k] \ f[k - 1]
  BY <1>2, <1>5, <1>6 DEF WavesFrom
<1>8. \A k \in 0 .. m : \A j \in 0 .. k : f[j] \subseteq f[k]
  <2> DEFINE S == {k \in 0 .. m : \A j \in 0 .. k : f[j] \subseteq f[k]}
  <2>1. 0 \in S
    OBVIOUS
  <2>2. ASSUME NEW k \in 1 .. m, k - 1 \in S PROVE k \in S
    <3>1. \A j \in 0 .. k : j \in 0 .. (k - 1) \/ j = k
      OBVIOUS
    <3>2. f[k - 1] \subseteq f[k]
      BY <1>3
    <3>3. \A j \in 0 .. (k - 1) : f[j] \subseteq f[k - 1]
      BY <2>2
    <3> QED
      BY <3>1, <3>2, <3>3
  <2> HIDE DEF S
  <2>3. \A k \in 0 .. m : k \in S
    BY <2>1, <2>2, Induction
  <2> QED
    BY <2>3 DEF S
<1> DEFINE W(t) == Min({k \in 0 .. m : t \in f[k]})
<1>9. ASSUME NEW t \in C
      PROVE  W(t) \in 1 .. d /\ \A k \in 0 .. m : t \in f[k] <=> W(t) <= k
  <2>1. PICK D : D = {k \in 0 .. m : t \in f[k]}
    OBVIOUS
  <2>2. D \subseteq Nat /\ d \in D
    BY <1>5, <2>1
  <2>3. Min(D) \in D /\ \A k \in D : Min(D) <= k
    BY <2>2, MinIs
  <2>4. PICK w \in D : w = W(t) /\ \A k \in D : w <= k
    BY <2>1, <2>3
  <2>5. w \in 1 .. d
    BY <1>4, <2>1, <2>2, <2>4
  <2>6. ASSUME NEW k \in 0 .. m, w <= k PROVE t \in f[k]
    <3>1. w \in 0 .. k /\ t \in f[w]
      BY <2>1, <2>5, <2>6
    <3> QED
      BY <1>8, <3>1
  <2> QED
    BY <2>1, <2>4, <2>5, <2>6
<1> HIDE DEF W
<1>10. ASSUME NEW t \in C
       PROVE  \A k \in 1 .. d : t \in waves[k] <=> k = W(t)
  <2>1. ASSUME NEW k \in 1 .. d PROVE t \in waves[k] <=> k = W(t)
    <3>1. t \in waves[k] <=> t \in f[k] /\ t \notin f[k - 1]
      BY <1>7
    <3>2. k \in 0 .. m /\ k - 1 \in 0 .. m
      OBVIOUS
    <3>3. t \in waves[k] <=> W(t) <= k /\ ~(W(t) <= k - 1)
      BY <1>9, <3>1, <3>2
    <3>4. W(t) \in 1 .. d
      BY <1>9
    <3> QED
      BY <3>3, <3>4
  <2> QED
    BY <2>1
<1>11. \A t \in C : WaveOf(waves, t) = W(t)
  <2>1. ASSUME NEW t \in C PROVE WaveOf(waves, t) = W(t)
    <3>1. \A k \in DOMAIN waves : t \in waves[k] <=> k = W(t)
      BY <1>7, <1>10
    <3>2. W(t) \in DOMAIN waves
      BY <1>7, <1>9
    <3> QED
      BY <3>1, <3>2 DEF WaveOf
  <2> QED
    BY <2>1
<1>12. ASSUME NEW t \in C, NEW u \in Before(t) PROVE W(u) < W(t)
  <2>1. PICK w \in 1 .. d : w = W(t)
    BY <1>9
  <2>2. w \in 1 .. m /\ w - 1 \in 0 .. m /\ w \in 0 .. m /\ ~(w <= w - 1)
    OBVIOUS
  <2>3. t \in f[w] /\ t \notin f[w - 1]
    BY <1>9, <2>1, <2>2
  <2>4. u \in f[w - 1]
    BY <1>4, <2>2, <2>3
  <2>5. u \in C /\ W(u) <= w - 1 /\ W(u) \in 1 .. d
    BY <1>9, <2>2, <2>4
  <2> QED
    BY <2>1, <2>5
<1>13. ASSUME NEW t \in C, Before(t) = {} PROVE W(t) = 1
  <2>1. W(t) \in 1 .. d
    BY <1>9
  <2>2. 1 \in 1 .. m /\ 1 \in 0 .. m
    BY <2>1
  <2>3. t \in f[1]
    BY <1>4, <1>13, <2>2
  <2> QED
    BY <1>9, <2>1, <2>2, <2>3
<1>14. ASSUME NEW t \in C, Before(t) # {} PROVE \E u \in Before(t) : W(u) = W(t) - 1
  <2>1. PICK w \in 1 .. d : w = W(t)
    BY <1>9
  <2>2. w > 1
    <3>1. PICK u \in Before(t) : TRUE
      BY <1>14
    <3>2. W(u) \in 1 .. d /\ W(u) < w
      BY <1>9, <1>12, <2>1
    <3> QED
      BY <3>2
  <2>3. PICK v \in 1 .. m : v = w - 1
    BY <2>2
  <2>4. t \notin f[v] /\ v \in 0 .. m
    <3>1. ~(w <= v) /\ v \in 0 .. m
      BY <2>3
    <3> QED
      BY <1>9, <2>1, <3>1
  <2>5. PICK u \in Before(t) : u \notin f[v - 1]
    BY <1>4, <2>4
  <2>6. v - 1 \in 0 .. m /\ W(u) \in 1 .. d /\ W(u) < w
    BY <1>9, <1>12, <2>1
  <2>7. ~(W(u) <= v - 1)
    BY <1>9, <2>5, <2>6
  <2> QED
    BY <2>1, <2>3, <2>6, <2>7
<1>15. ASSUME NEW t \in C, Before(t) # {} PROVE Max({W(u) : u \in Before(t)}) = W(t) - 1
  <2>1. PICK D : D = {W(u) : u \in Before(t)}
    OBVIOUS
  <2>2. PICK w \in Nat : w = W(t) - 1
    BY <1>9
  <2>3. D \subseteq Nat /\ \A k \in D : k <= w
    <3>1. \A u \in Before(t) : W(u) \in Nat /\ W(t) \in Nat /\ W(u) < W(t)
      BY <1>9, <1>12
    <3> HIDE DEF Before
    <3> QED
      BY <2>1, <2>2, <3>1
  <2>4. w \in D
    BY <1>14, <1>15, <2>1, <2>2
  <2> QED
    BY <2>1, <2>2, <2>3, <2>4, MaxIs
<1>16. ASSUME NEW t \in C
       PROVE  WaveOf(waves, t) = IF Before(t) = {} THEN 1 ELSE 1 + LastOf(waves, Before(t))
  <2>1. {WaveOf(waves, u) : u \in Before(t)} = {W(u) : u \in Before(t)}
    BY <1>11
  <2>2. PICK w \in Nat : w = W(t) /\ WaveOf(waves, t) = w
    BY <1>9, <1>11
  <2>3. PICK D : D = {WaveOf(waves, u) : u \in Before(t)}
    OBVIOUS
  <2>4. ASSUME Before(t) # {} PROVE Max(D) = w - 1
    BY <1>15, <2>1, <2>2, <2>3, <2>4
  <2>5. ASSUME Before(t) = {} PROVE w = 1
    BY <1>13, <2>2, <2>5
  <2>6. IF Before(t) = {} THEN w = 1 ELSE w = 1 + Max(D)
    BY <2>2, <2>4, <2>5
  <2>7. Max(D) = LastOf(waves, Before(t))
    BY <2>3 DEF LastOf
  <2> HIDE DEF Before
  <2> QED
    BY <2>2, <2>6, <2>7
<1>17. \A k \in DOMAIN waves : waves[k] \subseteq C
  <2>1. \A k \in 1 .. d : k \in 0 .. m
    OBVIOUS
  <2> QED
    BY <1>3, <1>7, <2>1
<1>18. d \in Nat
  OBVIOUS
<1>19. ASSUME NEW t \in C
       PROVE  /\ WaveOf(waves, t) \in DOMAIN waves /\ t \in waves[WaveOf(waves, t)]
              /\ \A k \in DOMAIN waves : t \in waves[k] => k = WaveOf(waves, t)
              /\ \A u \in Before(t) : WaveOf(waves, u) < WaveOf(waves, t)
  <2>1. WaveOf(waves, t) = W(t) /\ \A u \in Before(t) : WaveOf(waves, u) = W(u)
    BY <1>11
  <2> HIDE DEF Before
  <2> QED
    BY <1>7, <1>9, <1>10, <1>12, <2>1
<1> QED
  BY <1>6, <1>7, <1>16, <1>17, <1>18, <1>19

(* Whatever a task of a component reaches is in the component and in a     *)
(* later wave.                                                             *)
LEMMA WavesFollowPaths ==
  ASSUME NEW n \in Nat, NEW edges \in Graphs(n), Acyclic(n, edges), NEW s \in TasksOf(n),
         NEW C, C = ComponentOf(n, edges, s),
         NEW a \in C, NEW b, a # b, <<a, b>> \in Reaches(n, edges)
  PROVE  b \in C /\ WaveOf(WavesOf(C, edges), a) < WaveOf(WavesOf(C, edges), b)
<1>1. C \subseteq TasksOf(n)
  BY ComponentsAre
<1>2. \A t, u : Joint(n, edges, t, u) => (t \in C <=> u \in C)
  BY ComponentsAre
<1>3. PICK waves : waves = WavesOf(C, edges)
  OBVIOUS
<1> DEFINE W(t) == WaveOf(waves, t)
<1>4. \A t \in C : \A u \in Predecessors(edges, t) \cap C : W(u) < W(t)
  BY <1>1, <1>3, WavesAre
<1>5. \A t \in C : W(t) \in Nat
  <2>1. (\E d \in Nat : DOMAIN waves = 1 .. d) /\ \A t \in C : W(t) \in DOMAIN waves
    BY <1>1, <1>3, WavesAre
  <2> QED
    BY <2>1
<1> HIDE DEF W
<1> DEFINE Q == {p \in TasksOf(n) \X TasksOf(n) :
                   p[1] \in C => p[2] \in C /\ (p[1] = p[2] \/ W(p[1]) < W(p[2]))}
<1>6. \A x, y : <<x, y>> \in Q
        <=> /\ x \in TasksOf(n) /\ y \in TasksOf(n)
            /\ x \in C => y \in C /\ (x = y \/ W(x) < W(y))
  OBVIOUS
<1> HIDE DEF Q
<1>7. edges \subseteq Q
  <2>1. ASSUME NEW e \in edges PROVE e \in Q
    <3>1. PICK x \in TasksOf(n), y \in TasksOf(n) : e = <<x, y>>
      BY DEF Graphs
    <3>2. Joint(n, edges, x, y)
      BY <2>1, <3>1, JointIs
    <3>3. x \in Predecessors(edges, y)
      <4>1. e \in {d \in edges : d[2] = y} /\ e[1] = x
        BY <3>1
      <4> QED
        BY <4>1 DEF Predecessors
    <3> QED
      BY <1>2, <1>4, <1>6, <3>1, <3>2, <3>3
  <2> QED
    BY <2>1
<1>8. Transitive(Q)
  <2>1. ASSUME NEW x, NEW y, NEW z, <<x, y>> \in Q, <<y, z>> \in Q PROVE <<x, z>> \in Q
    <3>1. ASSUME x \in C PROVE z \in C /\ (x = z \/ W(x) < W(z))
      <4>1. y \in C /\ z \in C /\ (x = y \/ W(x) < W(y)) /\ (y = z \/ W(y) < W(z))
        BY <1>6, <2>1, <3>1
      <4>2. W(x) \in Nat /\ W(y) \in Nat /\ W(z) \in Nat
        BY <1>5, <3>1, <4>1
      <4> QED
        BY <4>1, <4>2
    <3> QED
      BY <1>6, <2>1, <3>1
  <2> QED
    BY <2>1 DEF Transitive
<1>9. Reaches(n, edges) \subseteq Q
  <2>1. \A t \in TasksOf(n) : <<t, t>> \in Q
    BY <1>6
  <2> QED
    BY <1>7, <1>8, <2>1, ReachesIsLeast
<1>10. b \in C /\ W(a) < W(b)
  BY <1>6, <1>9
<1> QED
  BY <1>3, <1>10 DEF W

-----------------------------------------------------------------------------
(* The sealed plan *)

PlanReaches == Reaches(Count, plan.edges)
PartTasks(s) == ComponentOf(Count, plan.edges, s)

LEMMA PlanIs ==
  ASSUME GraphInv, IsSealed
  PROVE  /\ Count \in Nat /\ Graph = TasksOf(Count) /\ Graph # {}
         /\ plan.schedule = Schedule(Count, plan.edges, Operations, Effects)
         /\ plan.edges \in Graphs(Count) /\ Acyclic(Count, plan.edges)
         /\ HappensBeforeCovers(Count, plan.edges, Effects)
         /\ Client \subseteq plan.edges
         /\ \A a, b : <<a, b>> \in plan.edges \ Client => a < b
<1>1. plan = SealedPlan /\ Count > 0
  BY DEF GraphInv, IsSealed, NoPlan
<1>2. plan.edges = AllEdges /\ plan.schedule = Schedule(Count, AllEdges, Operations, Effects)
  BY <1>1 DEF SealedPlan
<1>3. stage = "Published"
  <2>1. plan.status = "Sealed" /\ NoPlan.status = "None"
    BY DEF IsSealed, NoPlan
  <2> QED
    BY <2>1 DEF GraphInv
<1>4. tasks \in Seq(Programs) /\ Client \in Graphs(Count) /\ Acyclic(Count, Client)
  BY <1>3 DEF GraphInv
<1> QED
  <2>1. 0 \in TasksOf(Count)
    BY <1>1, <1>4, CountIs DEF TasksOf
  <2> QED
    BY <1>2, <1>4, <2>1, AssembledIsSealed, CountIs

(* The components of the plan split its tasks.                             *)
LEMMA PartsAre ==
  ASSUME GraphInv, IsSealed
  PROVE  /\ DOMAIN Parts \subseteq Graph
         /\ \A s \in DOMAIN Parts :
              /\ Parts[s] = ComponentSchedule(PartTasks(s), plan.edges, PlanReaches, Operations, Effects)
              /\ Parts[s].tasks = PartTasks(s)
              /\ Parts[s].waves = WavesOf(PartTasks(s), plan.edges)
         /\ \A t \in Graph : PartOf(t) \in DOMAIN Parts /\ t \in PartTasks(PartOf(t))
         /\ \A t \in Graph, s \in DOMAIN Parts : t \in PartTasks(s) => s = PartOf(t)
<1>0. PICK n \in Nat : n = Count
  BY PlanIs
<1>1. PICK E : n = Count /\ E = plan.edges /\ E \in Graphs(n)
  BY <1>0, PlanIs
<1>2. Parts = [s \in Seeds(n, E) |->
                 ComponentSchedule(ComponentOf(n, E, s), E, Reaches(n, E), Operations, Effects)]
  BY <1>1, PlanIs DEF Parts, Schedule
<1>3. DOMAIN Parts = Seeds(n, E)
  BY <1>2
<1>4. Seeds(n, E) \subseteq Graph
  BY <1>1, SeedsSplit, PlanIs
<1>5. ASSUME NEW s \in DOMAIN Parts
      PROVE  /\ Parts[s] = ComponentSchedule(PartTasks(s), plan.edges, PlanReaches, Operations, Effects)
             /\ Parts[s].tasks = PartTasks(s)
             /\ Parts[s].waves = WavesOf(PartTasks(s), plan.edges)
  <2>1. Parts[s] = ComponentSchedule(PartTasks(s), plan.edges, PlanReaches, Operations, Effects)
    BY <1>1, <1>2, <1>3 DEF PartTasks, PlanReaches
  <2> QED
    BY <2>1 DEF ComponentSchedule
<1>6. ASSUME NEW t \in Graph
      PROVE  PartOf(t) \in DOMAIN Parts /\ t \in PartTasks(PartOf(t))
  <2>1. \E s \in Seeds(n, E) : t \in ComponentOf(n, E, s)
    BY <1>1, SeedsSplit, PlanIs
  <2>2. \E s \in DOMAIN Parts : t \in Parts[s].tasks
    BY <1>1, <1>3, <1>5, <2>1 DEF PartTasks
  <2>3. PartOf(t) \in DOMAIN Parts /\ t \in Parts[PartOf(t)].tasks
    BY <2>2 DEF PartOf
  <2> QED
    BY <1>5, <2>3
<1>7. ASSUME NEW t \in Graph, NEW s \in DOMAIN Parts, t \in PartTasks(s)
      PROVE  s = PartOf(t)
  <2>1. PICK r \in Seeds(n, E) : r = PartOf(t) /\ t \in ComponentOf(n, E, r)
    BY <1>1, <1>3, <1>6 DEF PartTasks
  <2>2. s \in Seeds(n, E) /\ t \in ComponentOf(n, E, s)
    BY <1>1, <1>3, <1>7 DEF PartTasks
  <2> QED
    BY <1>1, <2>1, <2>2, SeedsSplit
<1> QED
  BY <1>3, <1>4, <1>5, <1>6, <1>7

(* Tasks of one component, and the waves they are in.                      *)
LEMMA PlanWaves ==
  ASSUME GraphInv, IsSealed
  PROVE  /\ \A t, u : Joint(Count, plan.edges, t, u) => PartOf(t) = PartOf(u)
         /\ \A t \in Graph : /\ Wave(t) \in Nat \ {0}
                             /\ Wave(t) \in DOMAIN Parts[PartOf(t)].waves
                             /\ t \in Parts[PartOf(t)].waves[Wave(t)]
         /\ \A t, u : <<t, u>> \in PlanReaches /\ t # u
                        => PartOf(t) = PartOf(u) /\ Wave(t) < Wave(u)
<1>0. PICK n \in Nat : n = Count
  BY PlanIs
<1>1. PICK E : n = Count /\ E = plan.edges /\ E \in Graphs(n) /\ Acyclic(n, E)
  BY <1>0, PlanIs
<1>2. Graph = TasksOf(n)
  BY <1>1, PlanIs
<1>3. ASSUME NEW t, NEW u, Joint(n, E, t, u)
      PROVE  t \in Graph /\ u \in Graph /\ PartOf(t) = PartOf(u)
  <2>1. t \in Graph /\ u \in Graph
    BY <1>1, <1>2, <1>3, JointIs
  <2>2. PICK s : s = PartOf(t) /\ s \in DOMAIN Parts /\ s \in Graph /\ t \in ComponentOf(n, E, s)
    BY <1>1, <2>1, PartsAre DEF PartTasks
  <2>3. u \in ComponentOf(n, E, s)
    BY <1>1, <1>2, <1>3, <2>2, ComponentsAre
  <2> QED
    BY <1>1, <2>1, <2>2, <2>3, PartsAre DEF PartTasks
<1>4. ASSUME NEW t \in Graph
      PROVE  \E s, C : /\ s \in TasksOf(n) /\ s = PartOf(t) /\ C = ComponentOf(n, E, s) /\ t \in C
                       /\ C \subseteq TasksOf(n)
                       /\ Parts[s].waves = WavesOf(C, E)
                       /\ Wave(t) = WaveOf(WavesOf(C, E), t)
  <2>1. PICK s : s = PartOf(t) /\ s \in DOMAIN Parts /\ s \in Graph /\ t \in PartTasks(s)
    BY PartsAre
  <2>2. Parts[s].waves = WavesOf(PartTasks(s), E)
    BY <1>1, <2>1, PartsAre
  <2> QED
    BY <1>1, <1>2, <2>1, <2>2, ComponentsAre DEF PartTasks, Wave
<1>5. ASSUME NEW t \in Graph
      PROVE  /\ Wave(t) \in Nat \ {0}
             /\ Wave(t) \in DOMAIN Parts[PartOf(t)].waves
             /\ t \in Parts[PartOf(t)].waves[Wave(t)]
  <2>1. PICK s, C : /\ s \in TasksOf(n)
                    /\ s = PartOf(t) /\ C = ComponentOf(n, E, s) /\ t \in C
                    /\ C \subseteq TasksOf(n)
                    /\ Parts[s].waves = WavesOf(C, E)
                    /\ Wave(t) = WaveOf(WavesOf(C, E), t)
    BY <1>4
  <2>2. PICK waves : waves = WavesOf(C, E)
    OBVIOUS
  <2>3. /\ WaveOf(waves, t) \in DOMAIN waves /\ t \in waves[WaveOf(waves, t)]
        /\ \E d \in Nat : DOMAIN waves = 1 .. d
    BY <1>1, <2>1, <2>2, WavesAre
  <2> QED
    BY <2>1, <2>2, <2>3
<1>6. ASSUME NEW t, NEW u, <<t, u>> \in Reaches(n, E), t # u
      PROVE  PartOf(t) = PartOf(u) /\ Wave(t) < Wave(u)
  <2>1. t \in Graph /\ u \in Graph /\ PartOf(t) = PartOf(u)
    BY <1>1, <1>3, <1>6, JointIs
  <2>2. PICK s, C : /\ s \in TasksOf(n)
                    /\ s = PartOf(t) /\ C = ComponentOf(n, E, s) /\ t \in C
                    /\ C \subseteq TasksOf(n)
                    /\ Parts[s].waves = WavesOf(C, E)
                    /\ Wave(t) = WaveOf(WavesOf(C, E), t)
    BY <1>4, <2>1
  <2>3. Wave(u) = WaveOf(WavesOf(C, E), u)
    BY <2>1, <2>2 DEF Wave
  <2>4. WaveOf(WavesOf(C, E), t) < WaveOf(WavesOf(C, E), u)
    BY <1>1, <1>6, <2>2, WavesFollowPaths
  <2> QED
    BY <2>1, <2>2, <2>3, <2>4
<1> QED
  BY <1>1, <1>3, <1>5, <1>6 DEF PlanReaches

(* Tasks that race are ordered by a path of the plan, one way.             *)
LEMMA RacesAreOrdered ==
  ASSUME GraphInv, IsSealed, NEW t \in Graph, NEW u \in Graph, t # u, Races(t, u)
  PROVE  Ordered(PlanReaches, t, u)
<1>1. Conflicting(Effects[t], Effects[u]) /\ Conflicting(Effects[u], Effects[t])
  BY DEF Races, Conflicting, Conflict
<1>2. Graph = TasksOf(Count) /\ Count \in Nat
  BY PlanIs
<1>3. t \in Nat /\ u \in Nat
  BY <1>2 DEF TasksOf
<1>4. \A x, y \in TasksOf(Count) : x < y /\ Conflicting(Effects[x], Effects[y])
        => Ordered(Reaches(Count, plan.edges), x, y)
  BY PlanIs, CoversIs
<1>5. CASE t < u
  BY <1>1, <1>2, <1>4, <1>5 DEF PlanReaches
<1>6. CASE u < t
  BY <1>1, <1>2, <1>4, <1>6 DEF PlanReaches, Ordered
<1> QED
  BY <1>3, <1>5, <1>6

(* ConflictsOrdered: tasks that may touch the same bytes are in one        *)
(* component and in different waves, the earlier of them first unless the  *)
(* client has a dependency against the order of the tasks.                 *)
THEOREM ConflictsAreOrdered == Spec => []ConflictsOrdered
<1>1. GraphInv => ConflictsOrdered
  <2> SUFFICES ASSUME GraphInv, IsSealed, NEW t \in Graph, NEW u \in Graph, t < u, Races(t, u)
               PROVE  /\ PartOf(t) = PartOf(u) /\ Wave(t) # Wave(u)
                      /\ Wave(t) > Wave(u) => \E e \in Client : e[2] < e[1]
    BY DEF ConflictsOrdered, Client
  <2>1. Count \in Nat /\ Graph = TasksOf(Count)
    BY PlanIs
  <2>2. t \in Nat /\ u \in Nat /\ t # u
    BY <2>1 DEF TasksOf
  <2>3. Ordered(PlanReaches, t, u)
    BY <2>2, RacesAreOrdered
  <2>4. Wave(t) \in Nat /\ Wave(u) \in Nat
    BY PlanWaves
  <2>5. \A a, b : <<a, b>> \in PlanReaches /\ a # b => PartOf(a) = PartOf(b) /\ Wave(a) < Wave(b)
    BY PlanWaves
  <2>6. PartOf(t) = PartOf(u) /\ Wave(t) # Wave(u)
    BY <2>2, <2>3, <2>4, <2>5 DEF Ordered
  <2>7. ASSUME Wave(t) > Wave(u), \A e \in Client : ~(e[2] < e[1]) PROVE FALSE
    <3>1. <<u, t>> \in PlanReaches
      BY <2>2, <2>3, <2>4, <2>5, <2>7 DEF Ordered
    <3> DEFINE Q == {p \in TasksOf(Count) \X TasksOf(Count) : p[1] <= p[2]}
    <3>2. plan.edges \subseteq Q
      <4>1. ASSUME NEW e \in plan.edges PROVE e \in Q
        <5>1. plan.edges \in Graphs(Count)
          BY PlanIs
        <5>2. PICK a \in TasksOf(Count), b \in TasksOf(Count) : e = <<a, b>>
          BY <5>1 DEF Graphs
        <5>3. a \in Nat /\ b \in Nat
          BY <2>1 DEF TasksOf
        <5>4. CASE e \in Client
          BY <2>7, <5>2, <5>3, <5>4
        <5>5. CASE e \notin Client
          <6>1. a < b
            BY <4>1, <5>2, <5>5, PlanIs
          <6> QED
            BY <5>2, <5>3, <6>1
        <5> QED
          BY <5>4, <5>5
      <4> QED
        BY <4>1
    <3>3. \A a, b : <<a, b>> \in Q <=> a \in TasksOf(Count) /\ b \in TasksOf(Count) /\ a <= b
      OBVIOUS
    <3>4. \A a \in TasksOf(Count) : a \in Nat
      BY <2>1 DEF TasksOf
    <3> HIDE DEF Q
    <3>5. Transitive(Q) /\ \A a \in TasksOf(Count) : <<a, a>> \in Q
      BY <3>3, <3>4 DEF Transitive
    <3>6. PlanReaches \subseteq Q
      BY <2>1, <3>2, <3>5, ReachesIsLeast DEF PlanReaches
    <3> QED
      BY <2>2, <3>1, <3>3, <3>6
  <2> QED
    BY <2>6, <2>7
<1> QED
  BY <1>1, GraphInvHolds, PTL

(* WavesAreChains: a task's wave is the length of the longest chain of     *)
(* dependencies that ends in it.                                           *)
LEMMA WavesAreTight == GraphInv => WavesAreChains
<1> SUFFICES ASSUME GraphInv, IsSealed, NEW t \in Graph
             PROVE  Wave(t) = IF Predecessors(plan.edges, t) = {} THEN 1
                              ELSE 1 + Max({Wave(u) : u \in Predecessors(plan.edges, t)})
  BY DEF WavesAreChains
<1>0. PICK n \in Nat : n = Count
  BY PlanIs
<1>1. PICK E : /\ n = Count /\ E = plan.edges /\ E \in Graphs(n) /\ Acyclic(n, E)
               /\ Graph = TasksOf(n)
  BY <1>0, PlanIs
<1>2. PICK s : s = PartOf(t) /\ s \in DOMAIN Parts /\ s \in Graph /\ t \in PartTasks(s)
  BY PartsAre
<1>3. PICK C : C = PartTasks(s) /\ C = ComponentOf(n, E, s)
  BY <1>1 DEF PartTasks
<1>4. C \subseteq TasksOf(n) /\ \A x, y : Joint(n, E, x, y) => (x \in C <=> y \in C)
  BY <1>1, <1>2, <1>3, ComponentsAre
<1>5. PICK before : before = Predecessors(E, t)
  OBVIOUS
<1>6. \A u \in before : u \in C
  <2>1. ASSUME NEW u \in before PROVE u \in C
    <3>1. PICK e \in E : e[2] = t /\ e[1] = u
      BY <1>5, <2>1 DEF Predecessors
    <3>2. e = <<u, t>>
      BY <1>1, <3>1 DEF Graphs
    <3>3. Joint(n, E, u, t)
      BY <1>1, <3>1, <3>2, JointIs
    <3> QED
      BY <1>2, <1>3, <1>4, <3>3
  <2> QED
    BY <2>1
<1>7. PICK waves : waves = WavesOf(C, E) /\ Parts[s].waves = waves
  BY <1>1, <1>2, <1>3, PartsAre
<1>8. ASSUME NEW u \in C PROVE Wave(u) = WaveOf(waves, u)
  <2>1. u \in Graph /\ PartOf(u) = s
    BY <1>1, <1>2, <1>3, <1>4, PartsAre
  <2> QED
    BY <1>7, <2>1 DEF Wave
<1>9. before \cap C = before
  BY <1>6
<1>10. WaveOf(waves, t) = IF before = {} THEN 1
                          ELSE 1 + LastOf(waves, before)
  <2>1. WaveOf(waves, t)
          = IF Predecessors(E, t) \cap C = {} THEN 1
            ELSE 1 + LastOf(waves, Predecessors(E, t) \cap C)
    BY <1>1, <1>2, <1>3, <1>4, <1>7, WavesAre
  <2>2. Predecessors(E, t) \cap C = before
    BY <1>5, <1>9
  <2> QED
    BY <2>1, <2>2
<1>11. LastOf(waves, before) = Max({Wave(u) : u \in before})
  <2>1. {WaveOf(waves, u) : u \in before} = {Wave(u) : u \in before}
    BY <1>6, <1>8
  <2> QED
    BY <2>1 DEF LastOf
<1>12. Wave(t) = WaveOf(waves, t)
  BY <1>2, <1>3, <1>8
<1> QED
  BY <1>1, <1>5, <1>10, <1>11, <1>12

(* ComponentsIndependent: components split the graph into parts with no    *)
(* dependency and no race between them, none of which could be split.      *)
LEMMA ComponentsAreTight == GraphInv => ComponentsIndependent
<1> SUFFICES ASSUME GraphInv, IsSealed
             PROVE  /\ \A t \in Graph : \E s \in DOMAIN Parts :
                         t \in Parts[s].tasks /\ \A r \in DOMAIN Parts \ {s} : t \notin Parts[r].tasks
                    /\ \A t, u \in Graph : PartOf(t) # PartOf(u) => <<t, u>> \notin plan.edges /\ ~Races(t, u)
                    /\ \A s \in DOMAIN Parts : \A S \in (SUBSET Parts[s].tasks) \ {{}, Parts[s].tasks} :
                         \E e \in plan.edges : Cardinality({e[1], e[2]} \cap S) = 1
  BY DEF ComponentsIndependent
<1>0. PICK n \in Nat : n = Count
  BY PlanIs
<1>1. PICK E : n = Count /\ E = plan.edges /\ E \in Graphs(n) /\ Graph = TasksOf(n)
  BY <1>0, PlanIs
<1>2. ASSUME NEW t \in Graph
      PROVE  \E s \in DOMAIN Parts :
               t \in Parts[s].tasks /\ \A r \in DOMAIN Parts \ {s} : t \notin Parts[r].tasks
  <2>1. PartOf(t) \in DOMAIN Parts /\ t \in Parts[PartOf(t)].tasks
    BY PartsAre
  <2>2. \A r \in DOMAIN Parts : t \in Parts[r].tasks => r = PartOf(t)
    BY PartsAre
  <2> QED
    BY <2>1, <2>2
<1>3. ASSUME NEW t \in Graph, NEW u \in Graph, PartOf(t) # PartOf(u)
      PROVE  <<t, u>> \notin plan.edges /\ ~Races(t, u)
  <2>1. <<t, u>> \notin E
    <3>1. <<t, u>> \in E => Joint(n, E, t, u)
      BY <1>1, JointIs
    <3> QED
      BY <1>1, <1>3, <3>1, PlanWaves
  <2>2. ~Races(t, u)
    <3>1. t # u
      BY <1>3
    <3>2. ~Ordered(PlanReaches, t, u)
      BY <1>3, <3>1, PlanWaves DEF Ordered
    <3> QED
      BY <3>1, <3>2, RacesAreOrdered
  <2> QED
    BY <1>1, <2>1, <2>2
<1>4. ASSUME NEW s \in DOMAIN Parts, NEW S \in (SUBSET Parts[s].tasks) \ {{}, Parts[s].tasks}
      PROVE  \E e \in plan.edges : Cardinality({e[1], e[2]} \cap S) = 1
  <2>1. Parts[s].tasks = ComponentOf(n, E, s) /\ s \in TasksOf(n)
    BY <1>1, PartsAre DEF PartTasks
  <2>2. S \in SUBSET ComponentOf(n, E, s) /\ S # {} /\ S # ComponentOf(n, E, s)
    BY <2>1
  <2>3. Crossed(E, S)
    BY <1>1, <2>1, <2>2, ComponentsHoldTogether
  <2> QED
    BY <1>1, <2>3 DEF Crossed
<1> QED
  BY <1>2, <1>3, <1>4

(* ScheduleIsTight: the schedule is as parallel as the dependencies allow. *)
THEOREM SchedulesAreTight == Spec => []ScheduleIsTight
<1>1. GraphInv => ScheduleIsTight
  BY WavesAreTight, ComponentsAreTight DEF ScheduleIsTight
<1> QED
  BY <1>1, GraphInvHolds, PTL

-----------------------------------------------------------------------------
(* Transitions *)

LEMMA VisibleIs ==
  ASSUME NEW C, NEW waves, NEW w, NEW R, NEW effects,
         NEW t \in C, NEW u \in waves[w], Earlier(WaveOf(waves, t), w), <<t, u>> \in R,
         NEW x \in effects[t], NEW y \in effects[u], Conflict(x, y)
  PROVE  [before |-> t, after |-> u, region |-> x.region]
           \in VisibilityInto(C, waves, w, R, effects)
<1> DEFINE All == C \X waves[w] \X UNION {effects[v] : v \in C}
           P(c) == /\ Earlier(WaveOf(waves, c[1]), w)
                   /\ <<c[1], c[2]>> \in R
                   /\ c[3] \in effects[c[1]]
                   /\ \E z \in effects[c[2]] : Conflict(c[3], z)
           Names(c) == [before |-> c[1], after |-> c[2], region |-> c[3].region]
<1>1. PICK c : c = <<t, u, x>>
  OBVIOUS
<1>2. c[1] = t /\ c[2] = u /\ c[3] = x
  BY <1>1
<1>3. c \in All
  BY <1>1
<1>4. P(c)
  BY <1>2
<1>5. VisibilityInto(C, waves, w, R, effects) = {Names(d) : d \in {d \in All : P(d)}}
  BY DEF VisibilityInto
<1>6. Names(c) = [before |-> t, after |-> u, region |-> x.region]
  BY <1>2
<1> HIDE DEF All, P, Names
<1>7. Names(c) \in {Names(d) : d \in {d \in All : P(d)}}
  BY <1>3, <1>4
<1> QED
  BY <1>5, <1>6, <1>7

LEMMA TransitionsAre ==
  ASSUME GraphInv, IsSealed, NEW t \in Graph
  PROVE  LET s == PartOf(t)
             waves == Parts[s].waves
         IN  /\ t \in PartTasks(s) /\ t \in waves[Wave(t)]
             /\ \A w \in 1 .. Wave(t) :
                  /\ w \in DOMAIN waves
                  /\ Parts[s].transitions[w]
                       = Transition(PartTasks(s), waves, w, PlanReaches, Operations, Effects)
<1>0. PICK n \in Nat : n = Count
  BY PlanIs
<1>1. PICK E : /\ n = Count /\ E = plan.edges /\ E \in Graphs(n) /\ Acyclic(n, E)
               /\ Graph = TasksOf(n)
  BY <1>0, PlanIs
<1>2. PICK s : s = PartOf(t) /\ s \in DOMAIN Parts /\ s \in Graph /\ t \in PartTasks(s)
  BY PartsAre
<1>3. PICK C : C = PartTasks(s) /\ C = ComponentOf(n, E, s)
  BY <1>1 DEF PartTasks
<1>4. PICK waves : waves = Parts[s].waves /\ waves = WavesOf(C, E)
  BY <1>1, <1>2, <1>3, PartsAre
<1>5. PICK d \in Nat : DOMAIN waves = 1 .. d
  <2>1. C \subseteq TasksOf(n)
    BY <1>1, <1>2, <1>3, ComponentsAre
  <2> QED
    BY <1>1, <1>4, <2>1, WavesAre
<1>6. Wave(t) \in DOMAIN waves /\ t \in waves[Wave(t)]
  BY <1>2, <1>4, PlanWaves
<1>7. \A w \in 1 .. Wave(t) : w \in DOMAIN waves
  BY <1>5, <1>6
<1>8. Parts[s] = ComponentSchedule(C, E, PlanReaches, Operations, Effects)
  BY <1>1, <1>2, <1>3, PartsAre
<1>9. Parts[s].transitions
        = [w \in DOMAIN waves |-> Transition(C, waves, w, PlanReaches, Operations, Effects)]
  BY <1>4, <1>8 DEF ComponentSchedule
<1> QED
  BY <1>2, <1>3, <1>4, <1>6, <1>7, <1>9

StandsOnce(a, waves, d, operations, effects) ==
  \E m \in 1 .. d : \A w \in 1 .. d :
    a \in OperationsInto(waves, w, operations, effects) <=> w = m

(* The first wave of a component that uses a region is the one before      *)
(* which its representation operation stands.                              *)
LEMMA OneOperation ==
  ASSUME NEW waves, NEW d \in Nat, NEW operations, NEW a \in operations, NEW effects,
         NEW u \in waves[d], d # 0, Uses(effects, u, a)
  PROVE  StandsOnce(a, waves, d, operations, effects)
<1> DEFINE Used(w) == \E t \in waves[w] : Uses(effects, t, a)
           S == {w \in 1 .. d : Used(w)}
<1>1. S \subseteq Nat /\ d \in S
  BY DEF Uses
<1>2. PICK m \in S : \A k \in S : m <= k
  BY <1>1, FirstPosition
<1>3. ASSUME NEW w \in 1 .. d
      PROVE  a \in OperationsInto(waves, w, operations, effects)
               <=> Used(w) /\ \A v \in 1 .. (w - 1) : ~Used(v)
  BY DEF OperationsInto
<1> HIDE DEF Used
<1>4. ASSUME NEW w \in 1 .. d
      PROVE  a \in OperationsInto(waves, w, operations, effects) <=> w = m
  <2>1. ASSUME w = m PROVE \A v \in 1 .. (w - 1) : ~Used(v)
    <3>1. ASSUME NEW v \in 1 .. (w - 1), Used(v) PROVE FALSE
      <4>1. v \in S /\ ~(m <= v)
        BY <2>1, <3>1
      <4> QED
        BY <1>2, <4>1
    <3> QED
      BY <3>1
  <2>2. ASSUME w # m, Used(w), \A v \in 1 .. (w - 1) : ~Used(v) PROVE FALSE
    <3>1. w \in S /\ m <= w
      BY <1>2, <2>2
    <3>2. m \in 1 .. (w - 1)
      BY <2>2, <3>1
    <3> QED
      BY <2>2, <3>2
  <2>3. Used(m)
    OBVIOUS
  <2> QED
    BY <1>3, <2>1, <2>2, <2>3
<1> QED
  BY <1>4 DEF StandsOnce

(* TransitionsComplete: for two tasks that race the transition into the    *)
(* later one's wave names the region, and a representation operation       *)
(* stands once in each component before the first task that uses it.       *)
THEOREM TransitionsAreComplete == Spec => []TransitionsComplete
<1>1. ASSUME GraphInv, IsSealed, NEW t \in Graph, NEW u \in Graph,
             NEW x \in Effects[t], NEW y \in Effects[u],
             x.region = y.region, "Write" \in {x.access, y.access},
             PartOf(t) = PartOf(u), Wave(t) < Wave(u)
      PROVE  [before |-> t, after |-> u, region |-> x.region]
               \in Parts[PartOf(u)].transitions[Wave(u)].visibility
  <2>1. Wave(t) \in Nat \ {0} /\ Wave(u) \in Nat \ {0} /\ t # u
    BY <1>1, PlanWaves
  <2>2. <<t, u>> \in PlanReaches
    <3>1. Races(t, u)
      BY <1>1 DEF Races
    <3>2. Ordered(PlanReaches, t, u)
      BY <1>1, <2>1, <3>1, RacesAreOrdered
    <3>3. <<u, t>> \notin PlanReaches
      BY <1>1, <2>1, PlanWaves
    <3> QED
      BY <3>2, <3>3 DEF Ordered
  <2>3. PICK s, waves, C, w : /\ s = PartOf(u) /\ waves = Parts[s].waves /\ C = PartTasks(s)
                              /\ w = Wave(u)
    OBVIOUS
  <2>4. u \in waves[w] /\ t \in C
    BY <1>1, <2>3, TransitionsAre
  <2>5. Parts[s].transitions[w] = Transition(C, waves, w, PlanReaches, Operations, Effects)
    <3>1. w \in 1 .. Wave(u)
      BY <2>1, <2>3
    <3> QED
      BY <1>1, <2>3, <3>1, TransitionsAre
  <2>6. Parts[s].transitions[w].visibility = VisibilityInto(C, waves, w, PlanReaches, Effects)
    BY <2>5 DEF Transition
  <2>7. Earlier(WaveOf(waves, t), w)
    BY <1>1, <2>3 DEF Wave, Earlier
  <2>8. Conflict(x, y)
    BY <1>1 DEF Conflict
  <2>9. [before |-> t, after |-> u, region |-> x.region]
          \in VisibilityInto(C, waves, w, PlanReaches, Effects)
    BY <1>1, <2>2, <2>4, <2>7, <2>8, VisibleIs
  <2> QED
    BY <2>3, <2>6, <2>9
<1>2. ASSUME GraphInv, IsSealed, NEW t \in Graph, NEW a \in Operations, Uses(Effects, t, a)
      PROVE  Cardinality({w \in 1 .. Wave(t) : a \in Parts[PartOf(t)].transitions[w].operations}) = 1
  <2>1. PICK s, waves, d : s = PartOf(t) /\ waves = Parts[s].waves /\ d = Wave(t)
    OBVIOUS
  <2>2. d \in Nat /\ d # 0 /\ t \in waves[d]
    BY <1>2, <2>1, PlanWaves
  <2>3. ASSUME NEW w \in 1 .. d
        PROVE  Parts[s].transitions[w].operations = OperationsInto(waves, w, Operations, Effects)
    <3>1. Parts[s].transitions[w]
            = Transition(PartTasks(s), waves, w, PlanReaches, Operations, Effects)
      BY <1>2, <2>1, TransitionsAre
    <3> QED
      BY <3>1 DEF Transition
  <2>4. PICK m \in 1 .. d : \A w \in 1 .. d :
          a \in OperationsInto(waves, w, Operations, Effects) <=> w = m
    <3>1. StandsOnce(a, waves, d, Operations, Effects)
      BY <1>2, <2>2, OneOperation
    <3> QED
      BY <3>1 DEF StandsOnce
  <2>5. {w \in 1 .. d : a \in Parts[s].transitions[w].operations} = {m}
    BY <2>3, <2>4
  <2> QED
    BY <2>1, <2>5, FS_Singleton
<1>3. GraphInv => TransitionsComplete
  BY <1>1, <1>2 DEF TransitionsComplete
<1> QED
  BY <1>3, GraphInvHolds, PTL

-----------------------------------------------------------------------------
(* The canonical order *)

ReadyAfter(n, edges, done) == {t \in TasksOf(n) \ done : Predecessors(edges, t) \subseteq done}
Placing(n, edges, s) == Append(s, NextReady(ReadyAfter(n, edges, ToSet(s))))

LEMMA PredecessorsAre ==
  ASSUME NEW n \in Nat, NEW edges \in Graphs(n)
  PROVE  \A t, u : u \in Predecessors(edges, t)
                     <=> u \in TasksOf(n) /\ t \in TasksOf(n) /\ <<u, t>> \in edges
<1>1. \A e \in edges : e[1] \in TasksOf(n) /\ e[2] \in TasksOf(n) /\ e = <<e[1], e[2]>>
  BY DEF Graphs
<1>2. ASSUME NEW t, NEW u, u \in Predecessors(edges, t)
      PROVE  u \in TasksOf(n) /\ t \in TasksOf(n) /\ <<u, t>> \in edges
  <2>1. PICK e \in edges : e[2] = t /\ e[1] = u
    BY <1>2 DEF Predecessors
  <2> QED
    BY <1>1, <2>1
<1>3. ASSUME NEW t, NEW u, <<u, t>> \in edges
      PROVE  u \in Predecessors(edges, t)
  <2>1. PICK e \in edges : e = <<u, t>> /\ e[2] = t /\ e[1] = u
    BY <1>3
  <2> QED
    BY <2>1 DEF Predecessors
<1> QED
  BY <1>2, <1>3

LEMMA OrderSteps ==
  ASSUME NEW n \in Nat, NEW edges \in Graphs(n)
  PROVE  \E f : /\ DeterministicOrder(n, edges) = f[n]
                /\ f[0] = <<>>
                /\ \A k \in 1 .. n : f[k] = Placing(n, edges, f[k - 1])
<1> DEFINE W == {NextReady(ReadyAfter(n, edges, D)) : D \in SUBSET TasksOf(n)}
           V == Seq(W)
           g == [x \in (1 .. n) \X V |-> Placing(n, edges, x[2])]
           G(f) == [k \in 0 .. n |-> IF k = 0 THEN <<>> ELSE Placing(n, edges, f[k - 1])]
           h == CHOOSE f : f = G(f)
<1>1. \E f : f = G(f)
  <2>1. <<>> \in V
    OBVIOUS
  <2>2. ASSUME NEW s \in V PROVE Placing(n, edges, s) \in V
    <3>1. PICK D : D = ToSet(s) \cap TasksOf(n)
      OBVIOUS
    <3>2. ReadyAfter(n, edges, ToSet(s)) = ReadyAfter(n, edges, D)
      <4>1. \A t : Predecessors(edges, t) \subseteq TasksOf(n)
        BY PredecessorsAre
      <4> QED
        BY <3>1, <4>1 DEF ReadyAfter
    <3>3. NextReady(ReadyAfter(n, edges, D)) \in W
      BY <3>1
    <3> HIDE DEF W
    <3> QED
      BY <3>2, <3>3 DEF Placing
  <2> HIDE DEF V
  <2>3. g \in [(1 .. n) \X V -> V]
    BY <2>2
  <2>4. \A k \in 1 .. n, R \in V : g[<<k, R>>] = Placing(n, edges, R)
    OBVIOUS
  <2> HIDE DEF g
  <2>5. PICK f \in [0 .. n -> V] : f[0] = <<>> /\ \A k \in 1 .. n : f[k] = g[<<k, f[k - 1]>>]
    <3>1. Recursive(n, V, <<>>, g)
      BY <2>1, <2>3, Recursion
    <3> QED
      BY <3>1 DEF Recursive
  <2>6. ASSUME NEW k \in 0 .. n PROVE f[k] = IF k = 0 THEN <<>> ELSE Placing(n, edges, f[k - 1])
    <3>1. CASE k = 0
      BY <2>5, <3>1
    <3>2. CASE k # 0
      <4>1. k \in 1 .. n /\ k - 1 \in 0 .. n
        BY <3>2
      <4>2. f[k - 1] \in V
        BY <4>1
      <4> QED
        BY <2>4, <2>5, <3>2, <4>1, <4>2
    <3> QED
      BY <3>1, <3>2
  <2>7. f = G(f)
    BY <2>6
  <2> QED
    BY <2>7
<1>2. DeterministicOrder(n, edges) = h[n]
  BY DEF DeterministicOrder, Placing, ReadyAfter
<1>3. h = G(h)
  <2> HIDE DEF G
  <2> QED
    BY <1>1
<1> HIDE DEF h
<1>4. h[0] = <<>> /\ \A k \in 1 .. n : h[k] = Placing(n, edges, h[k - 1])
  <2>1. \A k \in 0 .. n : h[k] = IF k = 0 THEN <<>> ELSE Placing(n, edges, h[k - 1])
    BY <1>3
  <2> HIDE DEF G
  <2> QED
    BY <2>1
<1> QED
  BY <1>2, <1>4

Before(s, i) == {s[j] : j \in 1 .. i - 1}

(* Each task of the order is the least that waits for none still to come.  *)
Greedy(n, edges, s, k) ==
  /\ s \in Seq(TasksOf(n)) /\ Len(s) = k
  /\ Cardinality(ToSet(s)) = k
  /\ \A i \in 1 .. k : /\ s[i] \in ReadyAfter(n, edges, Before(s, i))
                       /\ \A t \in ReadyAfter(n, edges, Before(s, i)) : s[i] <= t

LEMMA OrderIsGreedy ==
  ASSUME NEW n \in Nat, NEW edges \in Graphs(n), Acyclic(n, edges)
  PROVE  Greedy(n, edges, DeterministicOrder(n, edges), n)
<1>1. PICK f : /\ DeterministicOrder(n, edges) = f[n]
               /\ f[0] = <<>>
               /\ \A k \in 1 .. n : f[k] = Placing(n, edges, f[k - 1])
  BY OrderSteps
<1> DEFINE S == {k \in 0 .. n : Greedy(n, edges, f[k], k)}
<1>2. 0 \in S
  <2>1. PICK s : s = <<>>
    OBVIOUS
  <2>2. s \in Seq(TasksOf(n)) /\ Len(s) = 0 /\ DOMAIN s = {}
    BY <2>1
  <2>3. ToSet(s) = {}
    BY <2>2 DEF ToSet
  <2>4. Cardinality(ToSet(s)) = 0
    BY <2>3, FS_EmptySet
  <2>5. Greedy(n, edges, s, 0)
    <3>1. 1 .. 0 = {}
      OBVIOUS
    <3> QED
      BY <2>2, <2>4, <3>1 DEF Greedy
  <2>6. f[0] = s /\ 0 \in 0 .. n
    BY <1>1, <2>1
  <2> QED
    BY <2>5, <2>6
<1>3. ASSUME NEW k \in 1 .. n, k - 1 \in S
      PROVE  k \in S
  <2>1. PICK s, o, l : s = f[k - 1] /\ o = f[k] /\ l = k - 1
    OBVIOUS
  <2>2. Greedy(n, edges, s, l) /\ o = Placing(n, edges, s)
    BY <1>1, <1>3, <2>1
  <2>3. l \in Nat /\ s \in Seq(TasksOf(n)) /\ Len(s) = l /\ DOMAIN s = 1 .. l
    BY <2>1, <2>2 DEF Greedy
  <2>4. PICK D : D = ToSet(s)
    OBVIOUS
  <2>5. D \subseteq TasksOf(n) /\ Cardinality(D) = l
    BY <2>2, <2>3, <2>4 DEF ToSet, Greedy
  <2>6. PICK ready : ready = ReadyAfter(n, edges, D)
    OBVIOUS
  <2>7. ready # {}
    <3>1. TasksOf(n) \ D # {}
      <4>1. Cardinality(TasksOf(n)) = n /\ l # n
        BY <2>1, FS_Interval DEF TasksOf
      <4> QED
        BY <2>5, <4>1
    <3>2. PICK Rest : Rest = TasksOf(n) \ D
      OBVIOUS
    <3>3. PICK t \in Rest : Predecessors(edges, t) \cap Rest = {}
      BY <3>1, <3>2, SomeTaskIsFree
    <3>4. Predecessors(edges, t) \subseteq TasksOf(n)
      BY PredecessorsAre
    <3>5. t \in ready
      BY <2>6, <3>2, <3>3, <3>4 DEF ReadyAfter
    <3> QED
      BY <3>5
  <2>8. PICK r : r = Min(ready)
    OBVIOUS
  <2>9. r \in ready /\ r \in TasksOf(n) /\ r \notin D /\ \A t \in ready : r <= t
    <3>1. ready \subseteq TasksOf(n) \ D
      BY <2>6 DEF ReadyAfter
    <3>2. ready \subseteq Nat
      BY <3>1 DEF TasksOf
    <3> QED
      BY <2>7, <2>8, <3>1, <3>2, MinIs
  <2>10. o = Append(s, r)
    BY <2>2, <2>4, <2>6, <2>8 DEF Placing, NextReady
  <2>11. /\ o \in Seq(TasksOf(n)) /\ Len(o) = k /\ DOMAIN o = 1 .. k
         /\ o[k] = r /\ \A i \in 1 .. l : o[i] = s[i]
    BY <2>1, <2>3, <2>9, <2>10
  <2>12. ToSet(o) = D \cup {r}
    <3>1. \A i \in 1 .. k : i \in 1 .. l \/ i = k
      BY <2>1
    <3>2. \A i \in 1 .. l : i \in 1 .. k
      BY <2>1
    <3> QED
      BY <2>3, <2>4, <2>11, <3>1, <3>2 DEF ToSet
  <2>13. Cardinality(ToSet(o)) = k
    <3>1. IsFiniteSet(D)
      BY <2>5, TasksFinite
    <3>2. Cardinality(D \cup {r}) = l + 1
      BY <2>5, <2>9, <3>1, FS_AddElement
    <3> QED
      BY <2>1, <2>12, <3>2
  <2>14. ASSUME NEW i \in 1 .. k
         PROVE  /\ o[i] \in ReadyAfter(n, edges, Before(o, i))
                /\ \A t \in ReadyAfter(n, edges, Before(o, i)) : o[i] <= t
    <3>1. Before(o, i) = Before(s, i)
      <4>1. \A j \in 1 .. i - 1 : j \in 1 .. l
        BY <2>1
      <4> QED
        BY <2>11, <4>1 DEF Before
    <3>2. CASE i \in 1 .. l
      BY <2>2, <2>11, <3>1, <3>2 DEF Greedy
    <3>3. CASE i = k
      <4>1. Before(s, i) = D
        BY <2>1, <2>3, <2>4, <3>3 DEF Before, ToSet
      <4> QED
        BY <2>6, <2>9, <2>11, <3>1, <3>3, <4>1
    <3> QED
      BY <2>1, <3>2, <3>3
  <2>15. Greedy(n, edges, o, k)
    BY <2>11, <2>13, <2>14 DEF Greedy
  <2> QED
    BY <2>1, <2>15
<1> HIDE DEF S
<1>4. \A k \in 0 .. n : k \in S
  BY <1>2, <1>3, Induction
<1> QED
  BY <1>1, <1>4 DEF S

Listing(s, T) == s \in Seq(T) /\ ToSet(s) = T /\ IsInjective(s)
Comes(s, t, u) == \E i, j \in DOMAIN s : i < j /\ s[i] = t /\ s[j] = u

(* The canonical order lists the tasks, and no edge of the plan goes back. *)
LEMMA OrderLists ==
  ASSUME GraphInv, IsSealed
  PROVE  /\ Greedy(Count, plan.edges, plan.schedule.order, Count)
         /\ Listing(plan.schedule.order, Graph)
         /\ plan.schedule.order \in [1 .. Count -> Graph]
         /\ \A i, j \in 1 .. Count :
              <<plan.schedule.order[i], plan.schedule.order[j]>> \in plan.edges => i < j
<1>0. PICK n \in Nat : n = Count
  BY PlanIs
<1>1. PICK E : /\ n = Count /\ E = plan.edges /\ E \in Graphs(n) /\ Acyclic(n, E)
               /\ Graph = TasksOf(n)
  BY <1>0, PlanIs
<1>2. PICK o : o = plan.schedule.order /\ o = DeterministicOrder(n, E)
  <2>1. plan.schedule = Schedule(n, E, Operations, Effects)
    BY <1>1, PlanIs
  <2> QED
    BY <2>1 DEF Schedule
<1>3. Greedy(n, E, o, n)
  BY <1>1, <1>2, OrderIsGreedy
<1>4. o \in Seq(TasksOf(n)) /\ DOMAIN o = 1 .. n /\ o \in [1 .. n -> TasksOf(n)]
  BY <1>3 DEF Greedy
<1>5. ASSUME NEW i \in 1 .. n
      PROVE  /\ o[i] \in TasksOf(n) /\ o[i] \notin Before(o, i)
             /\ \A u : <<u, o[i]>> \in E => u \in Before(o, i)
  <2>1. o[i] \in ReadyAfter(n, E, Before(o, i))
    BY <1>3 DEF Greedy
  <2>2. o[i] \in TasksOf(n) \ Before(o, i) /\ Predecessors(E, o[i]) \subseteq Before(o, i)
    BY <2>1 DEF ReadyAfter
  <2>3. \A u : <<u, o[i]>> \in E => u \in TasksOf(n)
    BY <1>1 DEF Graphs
  <2> QED
    BY <1>1, <2>2, <2>3, PredecessorsAre
<1>6. ASSUME NEW i \in 1 .. n, NEW j \in 1 .. n, o[i] = o[j] PROVE i = j
  <2>1. \A x, y \in 1 .. n : x < y => o[x] \in Before(o, y)
    BY DEF Before
  <2>2. ~(i < j) /\ ~(j < i)
    BY <1>5, <1>6, <2>1
  <2> QED
    BY <2>2
<1>7. ToSet(o) = TasksOf(n)
  <2>1. ToSet(o) \subseteq TasksOf(n)
    BY <1>4 DEF ToSet
  <2>2. IsFiniteSet(TasksOf(n)) /\ Cardinality(TasksOf(n)) = n /\ Cardinality(ToSet(o)) = n
    BY <1>3, FS_Interval DEF TasksOf, Greedy
  <2> QED
    BY <2>1, <2>2, FS_Subset
<1>8. ASSUME NEW i \in 1 .. n, NEW j \in 1 .. n, <<o[i], o[j]>> \in E PROVE i < j
  <2>1. o[i] \in Before(o, j)
    BY <1>5, <1>8
  <2>2. PICK x \in 1 .. j - 1 : o[i] = o[x]
    BY <2>1 DEF Before
  <2>3. x \in 1 .. n
    OBVIOUS
  <2>4. i = x
    BY <1>6, <2>2, <2>3
  <2> QED
    BY <2>4
<1>9. Listing(o, Graph)
  BY <1>1, <1>4, <1>6, <1>7 DEF Listing, IsInjective
<1> QED
  BY <1>1, <1>2, <1>3, <1>4, <1>8, <1>9

(* OrderIsLeast: the canonical order respects every dependency, and no     *)
(* order that does comes before it.                                        *)
THEOREM OrdersAreLeast == Spec => []OrderIsLeast
<1> DEFINE Orders == {s \in [1 .. Count -> Graph] : \A t \in Graph : \E i \in DOMAIN s : s[i] = t}
           Respects(s) == \A i, j \in DOMAIN s :
             <<s[i], s[j]>> \in plan.edges \cup BagToSet(dependencies) => i < j
           Less(s, o) == \E i \in DOMAIN s : s[i] < o[i] /\ \A j \in 1 .. (i - 1) : s[j] = o[j]
           order == plan.schedule.order
<1>1. ASSUME GraphInv, IsSealed
      PROVE  /\ order \in Orders /\ Respects(order)
             /\ \A s \in Orders : Respects(s) => ~Less(s, order)
  <2>0. PICK n \in Nat : n = Count
    BY <1>1, PlanIs
  <2>1. PICK E : /\ n = Count /\ E = plan.edges /\ E \in Graphs(n) /\ Acyclic(n, E)
                 /\ Graph = TasksOf(n) /\ BagToSet(dependencies) \subseteq E
    BY <2>0, <1>1, PlanIs DEF Client
  <2>2. PICK o : /\ o = order /\ Greedy(n, E, o, n) /\ Listing(o, Graph)
                 /\ o \in [1 .. n -> Graph]
                 /\ \A i, j \in 1 .. n : <<o[i], o[j]>> \in E => i < j
    BY <1>1, <2>1, OrderLists
  <2>8. order \in Orders
    BY <2>1, <2>2 DEF Listing, ToSet
  <2>10. Respects(order)
    BY <2>1, <2>2
  <2>11. ASSUME NEW s \in Orders, Respects(s), Less(s, order) PROVE FALSE
    <3>1. s \in [1 .. n -> TasksOf(n)] /\ \A t \in TasksOf(n) : \E i \in 1 .. n : s[i] = t
      BY <2>1, <2>11
    <3>2. PICK i \in 1 .. n : s[i] < o[i] /\ \A j \in 1 .. (i - 1) : s[j] = o[j]
      BY <2>1, <2>2, <2>11
    <3>3. Before(s, i) = Before(o, i)
      BY <3>2 DEF Before
    <3>4. s[i] \notin Before(s, i)
      <4>1. s \in Surjection(1 .. n, TasksOf(n))
        BY <3>1 DEF Surjection
      <4>2. /\ IsFiniteSet(1 .. n) /\ Cardinality(1 .. n) = Cardinality(TasksOf(n))
        BY FS_Interval DEF TasksOf
      <4>3. s \in Injection(1 .. n, TasksOf(n))
        BY <4>1, <4>2, FS_SurjSameCardinalityImpliesInj
      <4>4. \A x, y \in 1 .. n : s[x] = s[y] => x = y
        BY <3>1, <4>3 DEF Injection, IsInjective
      <4>5. \A x \in 1 .. i - 1 : x \in 1 .. n /\ x # i
        OBVIOUS
      <4> QED
        BY <4>4, <4>5 DEF Before
    <3>5. Predecessors(E, s[i]) \subseteq Before(s, i)
      <4>1. ASSUME NEW u \in Predecessors(E, s[i]) PROVE u \in Before(s, i)
        <5>1. u \in TasksOf(n) /\ <<u, s[i]>> \in E
          BY <2>1, <4>1, PredecessorsAre
        <5>2. PICK x \in 1 .. n : s[x] = u
          BY <3>1, <5>1
        <5>3. x < i
          BY <2>1, <2>11, <3>1, <5>1, <5>2
        <5>4. x \in 1 .. i - 1
          BY <5>3
        <5> QED
          BY <5>2, <5>4 DEF Before
      <4> QED
        BY <4>1
    <3>6. s[i] \in ReadyAfter(n, E, Before(o, i))
      BY <3>1, <3>3, <3>4, <3>5 DEF ReadyAfter
    <3>7. o[i] <= s[i]
      BY <2>2, <3>6 DEF Greedy
    <3>8. o[i] \in Nat /\ s[i] \in Nat
      <4>1. o[i] \in TasksOf(n) /\ s[i] \in TasksOf(n)
        BY <2>1, <2>2, <3>1
      <4> QED
        BY <4>1 DEF TasksOf
    <3> QED
      BY <3>2, <3>7, <3>8
  <2> HIDE DEF Orders, Respects, Less
  <2> QED
    BY <2>8, <2>10, <2>11
<1>2. GraphInv => OrderIsLeast
  BY <1>1 DEF OrderIsLeast
<1> QED
  BY <1>2, GraphInvHolds, PTL

-----------------------------------------------------------------------------
(* The order in which a backend goes through the schedule *)

Taking(T, s) == Append(s, Min(T \ ToSet(s)))

LEMMA SortSteps ==
  ASSUME NEW T, Cardinality(T) \in Nat
  PROVE  \E f : /\ InOrder(T) = f[Cardinality(T)]
                /\ f[0] = <<>>
                /\ \A k \in 1 .. Cardinality(T) : f[k] = Taking(T, f[k - 1])
<1> DEFINE W == {Min(T \ D) : D \in SUBSET T}
           V == Seq(W)
           m == Cardinality(T)
           g == [x \in (1 .. m) \X V |-> Taking(T, x[2])]
           G(f) == [k \in 0 .. Cardinality(T) |-> IF k = 0 THEN <<>> ELSE Taking(T, f[k - 1])]
           h == CHOOSE f : f = G(f)
<1>1. \E f : f = G(f)
  <2>1. <<>> \in V
    OBVIOUS
  <2>2. ASSUME NEW s \in V PROVE Taking(T, s) \in V
    <3>1. PICK D : D = ToSet(s) \cap T
      OBVIOUS
    <3>2. PICK Rest, r : Rest = T \ D /\ r = Min(Rest)
      OBVIOUS
    <3>3. T \ ToSet(s) = Rest
      BY <3>1, <3>2
    <3>4. r \in W
      BY <3>1, <3>2
    <3>5. Taking(T, s) = Append(s, r)
      BY <3>2, <3>3 DEF Taking
    <3> HIDE DEF W
    <3> QED
      BY <3>4, <3>5
  <2> HIDE DEF V, m
  <2>3. g \in [(1 .. m) \X V -> V]
    BY <2>2
  <2>4. \A k \in 1 .. m, R \in V : g[<<k, R>>] = Taking(T, R)
    OBVIOUS
  <2> HIDE DEF g
  <2>5. PICK f \in [0 .. m -> V] : f[0] = <<>> /\ \A k \in 1 .. m : f[k] = g[<<k, f[k - 1]>>]
    <3>1. m \in Nat
      BY DEF m
    <3>2. Recursive(m, V, <<>>, g)
      BY <2>1, <2>3, <3>1, Recursion
    <3> QED
      BY <3>2 DEF Recursive
  <2>6. ASSUME NEW k \in 0 .. m PROVE f[k] = IF k = 0 THEN <<>> ELSE Taking(T, f[k - 1])
    <3>1. CASE k = 0
      BY <2>5, <3>1
    <3>2. CASE k # 0
      <4>1. k \in 1 .. m /\ k - 1 \in 0 .. m
        BY <3>2 DEF m
      <4>2. f[k - 1] \in V
        BY <4>1
      <4> QED
        BY <2>4, <2>5, <3>2, <4>1, <4>2
    <3> QED
      BY <3>1, <3>2
  <2>7. f = G(f)
    BY <2>6 DEF m
  <2> QED
    BY <2>7
<1>2. InOrder(T) = h[Cardinality(T)]
  BY DEF InOrder, Taking
<1>3. h = G(h)
  <2> HIDE DEF G
  <2> QED
    BY <1>1
<1> HIDE DEF h
<1>4. \A k \in 0 .. Cardinality(T) : h[k] = IF k = 0 THEN <<>> ELSE Taking(T, h[k - 1])
  BY <1>3
<1>5. h[0] = <<>> /\ \A k \in 1 .. Cardinality(T) : h[k] = Taking(T, h[k - 1])
  <2> HIDE DEF G
  <2> QED
    BY <1>4
<1> QED
  BY <1>2, <1>5

LEMMA SortedIsListing ==
  ASSUME NEW T \in SUBSET Nat, IsFiniteSet(T)
  PROVE  Listing(InOrder(T), T)
<1>1. PICK m \in Nat : m = Cardinality(T)
  BY FS_CardinalityType
<1>2. PICK f : /\ InOrder(T) = f[m]
               /\ f[0] = <<>>
               /\ \A k \in 1 .. m : f[k] = Taking(T, f[k - 1])
  BY <1>1, SortSteps
<1> DEFINE Sorting(s, k) == /\ s \in Seq(T) /\ Len(s) = k /\ IsInjective(s)
                            /\ Cardinality(ToSet(s)) = k
           S == {k \in 0 .. m : Sorting(f[k], k)}
<1>3. 0 \in S
  <2>1. PICK s : s = <<>>
    OBVIOUS
  <2>2. s \in Seq(T) /\ Len(s) = 0 /\ DOMAIN s = {}
    BY <2>1
  <2>3. ToSet(s) = {} /\ IsInjective(s)
    BY <2>2 DEF ToSet, IsInjective
  <2>4. Sorting(s, 0)
    BY <2>2, <2>3, FS_EmptySet
  <2> HIDE DEF Sorting
  <2> QED
    BY <1>2, <2>1, <2>4
<1>4. ASSUME NEW k \in 1 .. m, k - 1 \in S
      PROVE  k \in S
  <2>1. PICK s, o, l : s = f[k - 1] /\ o = f[k] /\ l = k - 1
    OBVIOUS
  <2>2. Sorting(s, l)
    BY <1>4, <2>1
  <2>3. l \in Nat /\ DOMAIN s = 1 .. l
    BY <2>1, <2>2
  <2>4. PICK D : D = ToSet(s)
    OBVIOUS
  <2>5. D \subseteq T /\ Cardinality(D) = l /\ IsFiniteSet(D)
    <3>1. D \subseteq T
      BY <2>2, <2>3, <2>4 DEF ToSet
    <3> QED
      BY <2>2, <2>4, <3>1, FS_Subset
  <2>6. PICK r : r = Min(T \ D)
    OBVIOUS
  <2>7. r \in T /\ r \notin D
    <3>1. T \ D # {}
      <4>1. l # m
        BY <2>1
      <4> QED
        BY <1>1, <2>5, <4>1
    <3>2. PICK Rest : Rest = T \ D
      OBVIOUS
    <3>3. Rest \subseteq Nat /\ Rest # {}
      BY <3>1, <3>2
    <3>4. Min(Rest) \in Rest
      BY <3>3, MinIs
    <3> QED
      BY <2>6, <3>2, <3>4
  <2>8. o = Append(s, r)
    BY <1>2, <2>1, <2>4, <2>6 DEF Taking
  <2>9. /\ o \in Seq(T) /\ Len(o) = k /\ DOMAIN o = 1 .. k
        /\ o[k] = r /\ \A i \in 1 .. l : o[i] = s[i]
    BY <2>1, <2>2, <2>3, <2>7, <2>8
  <2>10. \A i \in 1 .. k : i \in 1 .. l \/ i = k
    BY <2>1
  <2>11. \A i \in 1 .. l : i \in 1 .. k
    BY <2>1
  <2>12. ToSet(o) = D \cup {r}
    BY <2>3, <2>4, <2>9, <2>10, <2>11 DEF ToSet
  <2>13. Cardinality(ToSet(o)) = k
    <3>1. Cardinality(D \cup {r}) = l + 1
      BY <2>5, <2>7, FS_AddElement
    <3> QED
      BY <2>1, <2>12, <3>1
  <2>14. IsInjective(o)
    <3>1. \A i \in 1 .. l : s[i] \in D
      BY <2>3, <2>4 DEF ToSet
    <3>2. \A i, j \in 1 .. l : s[i] = s[j] => i = j
      BY <2>2, <2>3 DEF IsInjective
    <3>3. ASSUME NEW i \in 1 .. k, NEW j \in 1 .. k, o[i] = o[j] PROVE i = j
      BY <2>7, <2>9, <2>10, <3>1, <3>2, <3>3
    <3> QED
      BY <2>9, <3>3 DEF IsInjective
  <2>15. Sorting(o, k)
    BY <2>9, <2>13, <2>14
  <2> HIDE DEF Sorting
  <2> QED
    BY <2>1, <2>15
<1> HIDE DEF S
<1>5. \A k \in 0 .. m : k \in S
  BY <1>3, <1>4, Induction
<1>6. PICK s : s = InOrder(T)
  OBVIOUS
<1>7. Sorting(s, m)
  BY <1>2, <1>5, <1>6 DEF S
<1>8. ToSet(s) = T
  <2>1. ToSet(s) \in SUBSET T
    BY <1>7 DEF ToSet
  <2> QED
    BY <1>1, <1>7, <2>1, FS_Subset
<1> QED
  BY <1>6, <1>7, <1>8 DEF Listing

LEMMA Concatenated ==
  ASSUME NEW A, NEW B, A \cap B = {}, NEW s, NEW r, Listing(s, A), Listing(r, B)
  PROVE  /\ Listing(s \o r, A \cup B)
         /\ \A t, u : \/ Comes(s, t, u) \/ Comes(r, t, u)
                      \/ t \in A /\ u \in B
                      => Comes(s \o r, t, u)
<1>1. s \in Seq(A) /\ r \in Seq(B)
  BY DEF Listing
<1>2. PICK l \in Nat, k \in Nat : l = Len(s) /\ k = Len(r)
  BY <1>1
<1>3. PICK o : o = s \o r
  OBVIOUS
<1>4. DOMAIN s = 1 .. l /\ DOMAIN r = 1 .. k
  BY <1>1, <1>2
<1>5. s \in Seq(A \cup B) /\ r \in Seq(A \cup B)
  BY <1>1
<1>6. o \in Seq(A \cup B) /\ DOMAIN o = 1 .. l + k
  BY <1>2, <1>3, <1>5
<1>7. /\ \A i \in 1 .. l : i \in 1 .. l + k /\ o[i] = s[i]
      /\ \A i \in 1 .. k : l + i \in 1 .. l + k /\ o[l + i] = r[i]
  BY <1>2, <1>3, <1>5
<1>8. ASSUME NEW i \in 1 .. l + k PROVE i \in 1 .. l \/ \E j \in 1 .. k : i = l + j
  <2>1. CASE i <= l
    BY <2>1
  <2>2. CASE i > l
    <3>1. i - l \in 1 .. k /\ i = l + (i - l)
      BY <2>2
    <3> QED
      BY <3>1
  <2> QED
    BY <2>1, <2>2
<1>9. /\ \A i \in 1 .. l : s[i] \in A
      /\ \A i \in 1 .. k : r[i] \in B
      /\ \A t \in A : \E i \in 1 .. l : s[i] = t
      /\ \A t \in B : \E i \in 1 .. k : r[i] = t
  BY <1>4 DEF Listing, ToSet
<1>10. ToSet(o) = A \cup B
  <2>1. ASSUME NEW t \in A \cup B PROVE \E i \in 1 .. l + k : o[i] = t
    BY <1>7, <1>9
  <2>2. ASSUME NEW i \in 1 .. l + k PROVE o[i] \in A \cup B
    BY <1>7, <1>8, <1>9
  <2> QED
    BY <1>6, <2>1, <2>2 DEF ToSet
<1>11. IsInjective(o)
  <2>1. /\ \A i, j \in 1 .. l : s[i] = s[j] => i = j
        /\ \A i, j \in 1 .. k : r[i] = r[j] => i = j
    BY <1>4 DEF Listing, IsInjective
  <2>2. ASSUME NEW i \in 1 .. l + k, NEW j \in 1 .. l + k, o[i] = o[j] PROVE i = j
    BY <1>7, <1>8, <1>9, <2>1, <2>2
  <2> QED
    BY <1>6, <2>2 DEF IsInjective
<1>12. ASSUME NEW t, NEW u, Comes(s, t, u) PROVE Comes(o, t, u)
  <2>1. PICK i \in 1 .. l, j \in 1 .. l : i < j /\ s[i] = t /\ s[j] = u
    BY <1>4, <1>12 DEF Comes
  <2> QED
    BY <1>6, <1>7, <2>1 DEF Comes
<1>13. ASSUME NEW t, NEW u, Comes(r, t, u) PROVE Comes(o, t, u)
  <2>1. PICK i \in 1 .. k, j \in 1 .. k : i < j /\ r[i] = t /\ r[j] = u
    BY <1>4, <1>13 DEF Comes
  <2>2. l + i < l + j
    BY <2>1
  <2> QED
    BY <1>6, <1>7, <2>1, <2>2 DEF Comes
<1>14. ASSUME NEW t \in A, NEW u \in B PROVE Comes(o, t, u)
  <2>1. PICK i \in 1 .. l, j \in 1 .. k : s[i] = t /\ r[j] = u
    BY <1>9
  <2>2. i < l + j
    OBVIOUS
  <2> QED
    BY <1>6, <1>7, <2>1, <2>2 DEF Comes
<1> QED
  BY <1>3, <1>6, <1>10, <1>11, <1>12, <1>13, <1>14 DEF Listing

Flattens(ss, n) ==
  \E f : /\ FlattenSeq(ss) = f[n]
         /\ f[1] = ss[1]
         /\ \A k \in 2 .. n : f[k] = f[k - 1] \o ss[k]

LEMMA FlattenSteps ==
  ASSUME NEW X, NEW ss, NEW n \in Nat, n # 0, Len(ss) = n, \A k \in 1 .. n : ss[k] \in Seq(X)
  PROVE  Flattens(ss, n)
<1> DEFINE V == Seq(X)
           g == [x \in (1 .. n) \X V |-> x[2] \o ss[x[1]]]
           G(f) == [i \in 1 .. Len(ss) |-> IF i = 1 THEN ss[i] ELSE f[i - 1] \o ss[i]]
           h == CHOOSE f : f = G(f)
<1>1. \E f : f = G(f)
  <2>1. <<>> \in V
    OBVIOUS
  <2>2. g \in [(1 .. n) \X V -> V]
    OBVIOUS
  <2>3. \A k \in 1 .. n, R \in V : g[<<k, R>>] = R \o ss[k]
    OBVIOUS
  <2> HIDE DEF g
  <2>4. PICK f \in [0 .. n -> V] : f[0] = <<>> /\ \A k \in 1 .. n : f[k] = g[<<k, f[k - 1]>>]
    <3> HIDE DEF V
    <3>1. Recursive(n, V, <<>>, g)
      BY <2>1, <2>2, Recursion
    <3> QED
      BY <3>1 DEF Recursive
  <2>5. ASSUME NEW k \in 1 .. n PROVE f[k] = f[k - 1] \o ss[k]
    <3>1. k - 1 \in 0 .. n
      OBVIOUS
    <3>2. f[k - 1] \in V
      BY <3>1
    <3> HIDE DEF V
    <3> QED
      BY <2>3, <2>4, <3>2
  <2>6. f[1] = ss[1]
    <3>1. 1 \in 1 .. n /\ 1 - 1 = 0 /\ f[0] = <<>>
      BY <2>4
    <3>2. f[1] = f[0] \o ss[1] /\ ss[1] \in Seq(X)
      BY <2>5, <3>1
    <3> QED
      BY <3>1, <3>2
  <2>7. PICK F : F = [i \in 1 .. n |-> f[i]]
    OBVIOUS
  <2>8. \A k \in 1 .. n : F[k] = IF k = 1 THEN ss[k] ELSE F[k - 1] \o ss[k]
    <3>1. ASSUME NEW k \in 1 .. n, k # 1 PROVE F[k] = F[k - 1] \o ss[k]
      <4>1. k - 1 \in 1 .. n
        BY <3>1
      <4> QED
        BY <2>5, <2>7, <4>1
    <3> QED
      BY <2>6, <2>7, <3>1
  <2>9. F = G(F)
    <3>1. G(F) = [i \in 1 .. n |-> IF i = 1 THEN ss[i] ELSE F[i - 1] \o ss[i]]
      OBVIOUS
    <3>2. [i \in 1 .. n |-> IF i = 1 THEN ss[i] ELSE F[i - 1] \o ss[i]] = F
      <4>1. PICK H : H = [i \in 1 .. n |-> IF i = 1 THEN ss[i] ELSE F[i - 1] \o ss[i]]
        OBVIOUS
      <4>2. \A i \in 1 .. n : H[i] = F[i]
        BY <2>8, <4>1
      <4> QED
        BY <2>7, <4>1, <4>2
    <3> HIDE DEF G
    <3> QED
      BY <3>1, <3>2
  <2> QED
    BY <2>9
<1>2. FlattenSeq(ss) = h[n]
  BY DEF FlattenSeq
<1>3. h = G(h)
  <2> HIDE DEF G
  <2> QED
    BY <1>1
<1> HIDE DEF h
<1>4. \A k \in 1 .. n : h[k] = IF k = 1 THEN ss[k] ELSE h[k - 1] \o ss[k]
  BY <1>3
<1>5. h[1] = ss[1] /\ \A k \in 2 .. n : h[k] = h[k - 1] \o ss[k]
  <2> HIDE DEF G
  <2>1. 1 \in 1 .. n /\ \A k \in 2 .. n : k \in 1 .. n /\ k # 1
    OBVIOUS
  <2> QED
    BY <1>4, <2>1
<1> QED
  BY <1>2, <1>5 DEF Flattens

Together(P, k) == UNION {P[i] : i \in 1 .. k}

(* Listings of disjoint sets one after the other *)
LEMMA FlattenedIs ==
  ASSUME NEW P, NEW ss, NEW n \in Nat, ss \in Seq(Seq(Together(P, n))), Len(ss) = n,
         \A i \in 1 .. n : Listing(ss[i], P[i]),
         \A i, j \in 1 .. n : i # j => P[i] \cap P[j] = {}
  PROVE  /\ Listing(FlattenSeq(ss), Together(P, n))
         /\ \A i \in 1 .. n : \A t, u : Comes(ss[i], t, u) => Comes(FlattenSeq(ss), t, u)
         /\ \A i, j \in 1 .. n : i < j =>
              \A t \in P[i], u \in P[j] : Comes(FlattenSeq(ss), t, u)
<1>1. CASE n = 0
  <2>1. FlattenSeq(ss) = ss
    BY <1>1 DEF FlattenSeq
  <2>2. Together(P, n) = {} /\ 1 .. n = {}
    BY <1>1 DEF Together
  <2>3. ss = <<>>
    BY <1>1
  <2>4. PICK s : s = <<>>
    OBVIOUS
  <2>5. s \in Seq({}) /\ DOMAIN s = {}
    BY <2>4
  <2>6. Listing(s, {})
    BY <2>5 DEF Listing, ToSet, IsInjective
  <2> QED
    BY <2>1, <2>2, <2>3, <2>4, <2>6
<1>2. CASE n # 0
  <2>1. PICK f : /\ FlattenSeq(ss) = f[n]
                 /\ f[1] = ss[1]
                 /\ \A k \in 2 .. n : f[k] = f[k - 1] \o ss[k]
    <3>1. \A k \in 1 .. n : ss[k] \in Seq(Together(P, n))
      OBVIOUS
    <3>2. PICK X : X = Together(P, n)
      OBVIOUS
    <3>3. Flattens(ss, n)
      BY <1>2, <3>1, <3>2, FlattenSteps
    <3> QED
      BY <3>3 DEF Flattens
  <2> DEFINE Flat(k, o) ==
               /\ Listing(o, Together(P, k))
               /\ \A i \in 1 .. k : \A t, u : Comes(ss[i], t, u) => Comes(o, t, u)
               /\ \A i, j \in 1 .. k : i < j => \A t \in P[i], u \in P[j] : Comes(o, t, u)
             S == {k \in 0 .. n : k = 0 \/ Flat(k, f[k])}
  <2>2. 0 \in S
    OBVIOUS
  <2>3. ASSUME NEW k \in 1 .. n, k - 1 \in S
        PROVE  k \in S
    <3>1. PICK l \in 0 .. n : l = k - 1
      OBVIOUS
    <3>2. CASE k = 1
      <4>1. f[k] = ss[k] /\ Listing(ss[k], P[k])
        BY <2>1, <3>2
      <4>2. 1 .. k = {k}
        BY <3>2
      <4>3. Together(P, k) = P[k]
        BY <4>2 DEF Together
      <4>4. \A i, j \in 1 .. k : ~(i < j)
        BY <3>2
      <4>5. Flat(k, f[k])
        BY <4>1, <4>2, <4>3, <4>4
      <4> HIDE DEF Flat
      <4> QED
        BY <4>5
    <3>3. CASE k # 1
      <4>1. PICK o, r : o = f[l] /\ r = f[k]
        OBVIOUS
      <4>2. Flat(l, o)
        <5>1. l # 0 /\ l \in S
          BY <2>3, <3>1, <3>3
        <5> HIDE DEF Flat
        <5> QED
          BY <4>1, <5>1
      <4>3. r = o \o ss[k]
        <5>1. k \in 2 .. n
          BY <3>3
        <5> QED
          BY <2>1, <3>1, <4>1, <5>1
      <4>4. \A i \in 1 .. k : i \in 1 .. l \/ i = k
        BY <3>1
      <4>5. \A i \in 1 .. l : i \in 1 .. k /\ i # k
        BY <3>1
      <4>6. Together(P, l) \cup P[k] = Together(P, k)
        <5>1. \A x, m : x \in Together(P, m) <=> \E i \in 1 .. m : x \in P[i]
          BY DEF Together
        <5>2. k \in 1 .. k
          OBVIOUS
        <5>3. \A x : x \in Together(P, k) <=> x \in Together(P, l) \/ x \in P[k]
          BY <4>4, <4>5, <5>1, <5>2
        <5> QED
          BY <5>3
      <4>7. Together(P, l) \cap P[k] = {}
        <5>1. \A i \in 1 .. l : P[i] \cap P[k] = {}
          <6>1. \A i \in 1 .. l : i \in 1 .. n /\ i # k
            BY <3>1
          <6> QED
            BY <6>1
        <5> QED
          BY <5>1 DEF Together
      <4>8. Listing(o, Together(P, l)) /\ Listing(ss[k], P[k])
        BY <4>2
      <4>9. /\ Listing(r, Together(P, k))
            /\ \A t, u : \/ Comes(o, t, u) \/ Comes(ss[k], t, u)
                         \/ t \in Together(P, l) /\ u \in P[k]
                         => Comes(r, t, u)
        <5>1. PICK A, B, q : A = Together(P, l) /\ B = P[k] /\ q = ss[k]
          OBVIOUS
        <5>2. /\ Listing(o \o q, A \cup B)
              /\ \A t, u : \/ Comes(o, t, u) \/ Comes(q, t, u)
                           \/ t \in A /\ u \in B
                           => Comes(o \o q, t, u)
          BY <4>7, <4>8, <5>1, Concatenated
        <5> QED
          BY <4>3, <4>6, <5>1, <5>2
      <4>10. ASSUME NEW i \in 1 .. k, NEW t, NEW u, Comes(ss[i], t, u) PROVE Comes(r, t, u)
        BY <4>2, <4>4, <4>9, <4>10
      <4>11. ASSUME NEW i \in 1 .. k, NEW j \in 1 .. k, i < j, NEW t \in P[i], NEW u \in P[j]
             PROVE  Comes(r, t, u)
        <5>1. i \in 1 .. l
          BY <3>1, <4>11
        <5>2. CASE j \in 1 .. l
          BY <4>2, <4>9, <4>11, <5>1, <5>2
        <5>3. CASE j = k
          <6>1. t \in Together(P, l)
            BY <5>1 DEF Together
          <6> QED
            BY <4>9, <5>3, <6>1
        <5> QED
          BY <4>4, <5>2, <5>3
      <4>12. Flat(k, r)
        BY <4>9, <4>10, <4>11
      <4> HIDE DEF Flat
      <4> QED
        BY <4>1, <4>12
    <3> QED
      BY <3>2, <3>3
  <2> HIDE DEF S
  <2>4. \A k \in 0 .. n : k \in S
    BY <2>2, <2>3, Induction
  <2>5. Flat(n, f[n])
    <3> HIDE DEF Flat
    <3> QED
      BY <1>2, <2>4 DEF S
  <2> QED
    BY <2>1, <2>5
<1> QED
  BY <1>1, <1>2

(* A component's waves one after the other list its tasks.                 *)
LEMMA WavesLinedUp ==
  ASSUME NEW n \in Nat, NEW edges \in Graphs(n), Acyclic(n, edges),
         NEW C, C \subseteq TasksOf(n), NEW waves, waves = WavesOf(C, edges)
  PROVE  LET listed == FlattenSeq([w \in DOMAIN waves |-> InOrder(waves[w])])
         IN  /\ Listing(listed, C)
             /\ \A t, u \in C : WaveOf(waves, t) < WaveOf(waves, u) => Comes(listed, t, u)
<1>1. PICK d \in Nat : DOMAIN waves = 1 .. d
  BY WavesAre
<1>2. /\ \A k \in 1 .. d : waves[k] \subseteq C
      /\ \A t \in C : WaveOf(waves, t) \in 1 .. d /\ t \in waves[WaveOf(waves, t)]
      /\ \A t \in C, k \in 1 .. d : t \in waves[k] => k = WaveOf(waves, t)
  BY <1>1, WavesAre
<1>3. PICK ss : ss = [w \in 1 .. d |-> InOrder(waves[w])]
  OBVIOUS
<1>4. ASSUME NEW k \in 1 .. d PROVE Listing(ss[k], waves[k])
  <2>1. waves[k] \subseteq TasksOf(n)
    BY <1>2
  <2>2. IsFiniteSet(waves[k]) /\ waves[k] \in SUBSET Nat
    <3>1. TasksOf(n) \subseteq Nat
      BY DEF TasksOf
    <3> QED
      BY <2>1, <3>1, TasksFinite
  <2>3. Listing(InOrder(waves[k]), waves[k])
    BY <2>2, SortedIsListing
  <2> QED
    BY <1>3, <2>3
<1>5. PICK X : X = Together(waves, d)
  OBVIOUS
<1>6. X = C
  <2>1. \A x : x \in X <=> \E i \in 1 .. d : x \in waves[i]
    BY <1>5 DEF Together
  <2> QED
    BY <1>2, <2>1
<1>7. ss \in Seq(Seq(X)) /\ Len(ss) = d
  <2>1. \A k \in 1 .. d : ss[k] \in Seq(X)
    <3>1. ASSUME NEW k \in 1 .. d PROVE ss[k] \in Seq(X)
      <4>1. ss[k] \in Seq(waves[k]) /\ waves[k] \subseteq X
        BY <1>2, <1>4, <1>6 DEF Listing
      <4> QED
        BY <4>1
    <3> QED
      BY <3>1
  <2> QED
    BY <1>3, <2>1
<1>8. \A i, j \in 1 .. d : i # j => waves[i] \cap waves[j] = {}
  BY <1>2
<1>9. PICK listed : listed = FlattenSeq(ss)
  OBVIOUS
<1>10. /\ Listing(listed, X)
       /\ \A i, j \in 1 .. d : i < j => \A t \in waves[i], u \in waves[j] : Comes(listed, t, u)
  BY <1>4, <1>5, <1>7, <1>8, <1>9, FlattenedIs
<1>11. listed = FlattenSeq([w \in DOMAIN waves |-> InOrder(waves[w])])
  BY <1>1, <1>3, <1>9
<1>12. \A t, u \in C : WaveOf(waves, t) < WaveOf(waves, u) => Comes(listed, t, u)
  BY <1>2, <1>10
<1> QED
  BY <1>6, <1>10, <1>11, <1>12

OfWaves(waves) == FlattenSeq([w \in DOMAIN waves |-> InOrder(waves[w])])

(* What a backend goes through lists the tasks, each after those of its    *)
(* component in earlier waves.                                             *)
LEMMA StepsList ==
  ASSUME GraphInv, IsSealed
  PROVE  /\ Listing(Steps(Parts), Graph)
         /\ \A t, u \in Graph : PartOf(t) = PartOf(u) /\ Wave(t) < Wave(u) => Comes(Steps(Parts), t, u)
<1>0. PICK n \in Nat : n = Count
  BY PlanIs
<1>1. PICK E : /\ n = Count /\ E = plan.edges /\ E \in Graphs(n) /\ Acyclic(n, E)
               /\ Graph = TasksOf(n)
  BY <1>0, PlanIs
<1>2. PICK seeds, roots : seeds = InOrder(roots) /\ roots = DOMAIN Parts
  OBVIOUS
<1>3. roots \subseteq Graph
  BY <1>2, PartsAre
<1>4. Listing(seeds, roots)
  <2>1. IsFiniteSet(roots) /\ roots \in SUBSET Nat
    <3>1. TasksOf(n) \subseteq Nat
      BY DEF TasksOf
    <3> QED
      BY <1>1, <1>3, <3>1, TasksFinite
  <2> QED
    BY <1>2, <2>1, SortedIsListing
<1>5. PICK d \in Nat : d = Len(seeds) /\ DOMAIN seeds = 1 .. d
  BY <1>4 DEF Listing
<1>6. /\ \A i \in 1 .. d : seeds[i] \in roots
      /\ \A s \in roots : \E i \in 1 .. d : seeds[i] = s
      /\ \A i, j \in 1 .. d : seeds[i] = seeds[j] => i = j
  BY <1>4, <1>5 DEF Listing, ToSet, IsInjective
<1>7. PICK ss, P : /\ ss = [i \in 1 .. d |-> OfWaves(Parts[seeds[i]].waves)]
                   /\ P = [i \in 1 .. d |-> PartTasks(seeds[i])]
  OBVIOUS
<1>8. ASSUME NEW s \in roots
      PROVE  /\ PartTasks(s) \subseteq Graph
             /\ Listing(OfWaves(Parts[s].waves), PartTasks(s))
             /\ \A t, u \in PartTasks(s) : Wave(t) < Wave(u) => Comes(OfWaves(Parts[s].waves), t, u)
  <2>1. PICK C, waves : /\ C = PartTasks(s) /\ C = ComponentOf(n, E, s)
                        /\ waves = WavesOf(C, E) /\ waves = Parts[s].waves
    BY <1>1, <1>2, PartsAre DEF PartTasks
  <2>2. C \subseteq TasksOf(n)
    BY <1>1, <1>3, <2>1, ComponentsAre
  <2>3. /\ Listing(OfWaves(waves), C)
        /\ \A t, u \in C : WaveOf(waves, t) < WaveOf(waves, u) => Comes(OfWaves(waves), t, u)
    BY <1>1, <2>1, <2>2, WavesLinedUp DEF OfWaves
  <2>4. ASSUME NEW t \in C PROVE Wave(t) = WaveOf(waves, t)
    <3>1. PartOf(t) = s
      BY <1>1, <1>2, <2>1, <2>2, PartsAre
    <3> QED
      BY <2>1, <3>1 DEF Wave
  <2> QED
    BY <1>1, <2>1, <2>2, <2>3, <2>4
<1>9. \A i \in 1 .. d : Listing(ss[i], P[i])
  BY <1>6, <1>7, <1>8
<1>10. ASSUME NEW i \in 1 .. d, NEW j \in 1 .. d, i # j PROVE P[i] \cap P[j] = {}
  <2>1. SUFFICES ASSUME NEW t, t \in P[i], t \in P[j] PROVE FALSE
    OBVIOUS
  <2>2. t \in PartTasks(seeds[i]) /\ t \in PartTasks(seeds[j]) /\ t \in Graph
    BY <1>6, <1>7, <1>8, <2>1
  <2>3. seeds[i] = PartOf(t) /\ seeds[j] = PartOf(t)
    BY <1>2, <1>6, <2>2, PartsAre
  <2> QED
    BY <1>6, <1>10, <2>3
<1>11. PICK X : X = Together(P, d)
  OBVIOUS
<1>12. X = Graph
  <2>1. \A x : x \in X <=> \E i \in 1 .. d : x \in P[i]
    BY <1>11 DEF Together
  <2>2. ASSUME NEW t \in Graph PROVE t \in X
    <3>1. PartOf(t) \in roots /\ t \in PartTasks(PartOf(t))
      BY <1>2, PartsAre
    <3> QED
      BY <1>6, <1>7, <2>1, <3>1
  <2>3. ASSUME NEW t \in X PROVE t \in Graph
    BY <1>6, <1>7, <1>8, <2>1, <2>3
  <2> QED
    BY <2>2, <2>3
<1>13. ss \in Seq(Seq(X)) /\ Len(ss) = d
  <2>1. ASSUME NEW i \in 1 .. d PROVE ss[i] \in Seq(X)
    <3>1. ss[i] \in Seq(P[i]) /\ P[i] \subseteq X
      BY <1>6, <1>7, <1>8, <1>9, <1>12 DEF Listing
    <3> QED
      BY <3>1
  <2>2. PICK Y : Y = Seq(X)
    OBVIOUS
  <2>3. ss \in [1 .. d -> Y]
    BY <1>7, <2>1, <2>2
  <2> QED
    BY <2>2, <2>3
<1>14. PICK listed : listed = FlattenSeq(ss)
  OBVIOUS
<1>15. /\ Listing(listed, X)
       /\ \A i \in 1 .. d : \A t, u : Comes(ss[i], t, u) => Comes(listed, t, u)
  BY <1>9, <1>10, <1>11, <1>13, <1>14, FlattenedIs
<1>16. listed = Steps(Parts)
  <2>1. Steps(Parts) = FlattenSeq([i \in DOMAIN seeds |-> OfWaves(Parts[seeds[i]].waves)])
    BY <1>2 DEF Steps, OfWaves
  <2> QED
    BY <1>5, <1>7, <1>14, <2>1
<1>17. ASSUME NEW t \in Graph, NEW u \in Graph, PartOf(t) = PartOf(u), Wave(t) < Wave(u)
       PROVE  Comes(listed, t, u)
  <2>1. PICK s \in roots : s = PartOf(t) /\ t \in PartTasks(s) /\ u \in PartTasks(s)
    BY <1>2, <1>17, PartsAre
  <2>2. PICK i \in 1 .. d : seeds[i] = s
    BY <1>6
  <2>3. Comes(OfWaves(Parts[s].waves), t, u)
    BY <1>8, <1>17, <2>1
  <2> QED
    BY <1>7, <1>15, <2>2, <2>3
<1> QED
  BY <1>12, <1>15, <1>16, <1>17

(* What a submission may take for granted of a sealed plan: what           *)
(* SubmitAssumption of DeviceSubmit says of a plan, with these for         *)
(* p.order, p.steps, p.below and Conflict(p, t, u).                        *)
Below(t) == {u \in Graph \ {t} : <<t, u>> \in PlanReaches}
Respected(s) == Listing(s, Graph) /\ \A t \in Graph : \A u \in Below(t) : Comes(s, t, u)
CanBeSubmitted ==
  IsSealed =>
    /\ Graph # {}
    /\ Respected(plan.schedule.order) /\ Respected(Steps(Parts))
    /\ \A t \in Graph : \A u \in Below(t) : Below(u) \subseteq Below(t)
    /\ \A t, u \in Graph : Comes(plan.schedule.order, t, u) /\ Races(t, u) => u \in Below(t)

(* The canonical order and the order of the schedule's steps both respect  *)
(* every path of the plan, and of two tasks that race the first in the     *)
(* canonical order has a path to the other.                                *)
THEOREM SealedPlansCanBeSubmitted == Spec => []CanBeSubmitted
<1>1. ASSUME GraphInv, IsSealed
      PROVE  /\ Graph # {}
             /\ Respected(plan.schedule.order) /\ Respected(Steps(Parts))
             /\ \A t \in Graph : \A u \in Below(t) : Below(u) \subseteq Below(t)
             /\ \A t, u \in Graph : Comes(plan.schedule.order, t, u) /\ Races(t, u) => u \in Below(t)
  <2>0. PICK n \in Nat : n = Count
    BY <1>1, PlanIs
  <2>1. PICK E : /\ n = Count /\ E = plan.edges /\ E \in Graphs(n) /\ Acyclic(n, E)
                 /\ Graph = TasksOf(n)
    BY <2>0, <1>1, PlanIs
  <2>2. PICK R : R = Reaches(n, E) /\ R = PlanReaches
    BY <2>1 DEF PlanReaches
  <2>3. \A t, u : <<t, u>> \in R => t \in Graph /\ u \in Graph
    BY <2>1, <2>2, ReachesIsClosure
  <2>4. \A t, u : u \in Below(t) <=> t # u /\ <<t, u>> \in R
    BY <2>2, <2>3 DEF Below
  <2>5. PICK o : /\ o = plan.schedule.order /\ Listing(o, Graph) /\ o \in [1 .. n -> Graph]
                 /\ \A i, j \in 1 .. n : <<o[i], o[j]>> \in E => i < j
    BY <1>1, <2>1, OrderLists
  <2>6. /\ \A t \in Graph : \E i \in 1 .. n : o[i] = t
        /\ \A i, j \in 1 .. n : o[i] = o[j] => i = j
    BY <2>5 DEF Listing, ToSet, IsInjective
  <2>7. ASSUME NEW t, NEW u \in Below(t) PROVE Comes(o, t, u)
    <3> DEFINE Q == {p \in Graph \X Graph : \A i, j \in 1 .. n : o[i] = p[1] /\ o[j] = p[2] => i <= j}
    <3>1. \A a, b : <<a, b>> \in Q <=> /\ a \in Graph /\ b \in Graph
                                       /\ \A i, j \in 1 .. n : o[i] = a /\ o[j] = b => i <= j
      OBVIOUS
    <3> HIDE DEF Q
    <3>2. E \subseteq Q
      <4>1. ASSUME NEW e \in E PROVE e \in Q
        <5>1. PICK a \in Graph, b \in Graph : e = <<a, b>>
          BY <2>1 DEF Graphs
        <5>2. ASSUME NEW i \in 1 .. n, NEW j \in 1 .. n, o[i] = a, o[j] = b PROVE i <= j
          <6>1. i < j
            BY <2>5, <4>1, <5>1, <5>2
          <6> QED
            BY <6>1
        <5> QED
          BY <3>1, <5>1, <5>2
      <4> QED
        BY <4>1
    <3>3. \A a \in TasksOf(n) : <<a, a>> \in Q
      BY <2>1, <2>6, <3>1
    <3>4. Transitive(Q)
      <4>1. ASSUME NEW a, NEW b, NEW c, <<a, b>> \in Q, <<b, c>> \in Q PROVE <<a, c>> \in Q
        <5>1. PICK j \in 1 .. n : o[j] = b
          BY <2>6, <3>1, <4>1
        <5>2. ASSUME NEW i \in 1 .. n, NEW k \in 1 .. n, o[i] = a, o[k] = c PROVE i <= k
          <6>1. i <= j /\ j <= k
            BY <3>1, <4>1, <5>1, <5>2
          <6> QED
            BY <6>1
        <5> QED
          BY <3>1, <4>1, <5>2
      <4> QED
        BY <4>1 DEF Transitive
    <3>5. <<t, u>> \in Q /\ t # u
      BY <2>2, <2>4, <2>7, <3>2, <3>3, <3>4, ReachesIsLeast
    <3>6. PICK i \in 1 .. n, j \in 1 .. n : o[i] = t /\ o[j] = u
      BY <2>6, <3>1, <3>5
    <3>7. i <= j /\ i # j
      BY <3>1, <3>5, <3>6
    <3>8. i < j /\ DOMAIN o = 1 .. n
      BY <2>5, <3>7
    <3> QED
      BY <3>6, <3>8 DEF Comes
  <2>8. ASSUME NEW t, NEW u \in Below(t) PROVE Comes(Steps(Parts), t, u)
    <3>1. t \in Graph /\ u \in Graph /\ PartOf(t) = PartOf(u) /\ Wave(t) < Wave(u)
      BY <1>1, <2>2, <2>3, <2>4, <2>8, PlanWaves
    <3> QED
      BY <1>1, <3>1, StepsList
  <2>9. Respected(o) /\ Respected(Steps(Parts))
    BY <1>1, <2>5, <2>7, <2>8, StepsList DEF Respected
  <2>10. ASSUME NEW t, NEW u \in Below(t), NEW v \in Below(u) PROVE v \in Below(t)
    <3>1. <<t, u>> \in R /\ <<u, v>> \in R /\ t # u
      BY <2>4, <2>10
    <3>2. <<t, v>> \in R
      <4>1. Transitive(R)
        BY <2>1, <2>2, ReachesIsClosure
      <4> QED
        BY <3>1, <4>1 DEF Transitive
    <3>3. t # v
      <4>1. ASSUME t = v PROVE FALSE
        BY <2>1, <2>2, <3>1, <4>1, NoWayBack
      <4> QED
        BY <4>1
    <3> QED
      BY <2>4, <3>2, <3>3
  <2>11. ASSUME NEW t \in Graph, NEW u \in Graph, Comes(o, t, u), Races(t, u) PROVE u \in Below(t)
    <3>1. PICK i \in 1 .. n, j \in 1 .. n : i < j /\ o[i] = t /\ o[j] = u
      BY <2>5, <2>11 DEF Comes
    <3>2. t # u
      BY <2>6, <3>1
    <3>3. ASSUME t \in Below(u) PROVE FALSE
      <4>1. Comes(o, u, t)
        BY <2>7, <3>3
      <4>2. PICK x \in 1 .. n, y \in 1 .. n : x < y /\ o[x] = u /\ o[y] = t
        BY <2>5, <4>1 DEF Comes
      <4>3. x = j /\ y = i
        BY <2>6, <3>1, <4>2
      <4> QED
        BY <3>1, <4>2, <4>3
    <3>4. Ordered(R, t, u)
      BY <1>1, <2>2, <2>11, <3>2, RacesAreOrdered
    <3> QED
      BY <2>4, <3>2, <3>3, <3>4 DEF Ordered
  <2>12. Graph # {}
    BY <1>1, PlanIs
  <2> QED
    BY <2>5, <2>9, <2>10, <2>11, <2>12
<1>2. GraphInv => CanBeSubmitted
  BY <1>1 DEF CanBeSubmitted
<1> QED
  BY <1>2, GraphInvHolds, PTL
=============================================================================
