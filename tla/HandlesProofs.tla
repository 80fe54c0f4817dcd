---------------------------- MODULE HandlesProofs ----------------------------
(***************************************************************************)
(* For any number of addresses, threads, devices, tokens and tasks: no     *)
(* dead device is followed, node tables hold what they should, submissions *)
(* run nodes of their own device and task ids name tasks.                  *)
(***************************************************************************)
EXTENDS Handles, TLAPS

TypeOK ==
  /\ devices \in [Devices -> DeviceObjects \cup {Free}]
  /\ codeObjects \in [CodeObjects -> [owner : Devices] \cup {Free}]
  /\ nodes \in [Nodes -> NodeObjects \cup {Free}]
  /\ builders \in [Builders -> BuilderObjects \cup {Free}]
  /\ graphs \in [Graphs -> GraphObjects \cup {Free}]
  /\ envelopes \in [Envelopes -> EnvelopeObjects \cup {Free}]
  /\ arenas \in [Arenas -> {"arena", Free}]
  /\ created \in 0..MaxDevices
  /\ nextToken \in 1..LastToken
  /\ refs \subseteq NodeRefs
  /\ calls \in [Threads -> Submits \cup {Idle}]
  /\ dangling \in BOOLEAN

(* No two devices that live together, and no two NodeRefs, are confused *)
Distinct ==
  /\ \A d \in Devices : devices[d] # Free => devices[d].id <= created
  /\ \A d, e \in Devices :
       devices[d] # Free /\ devices[e] # Free /\ devices[d].id = devices[e].id => d = e
  /\ \A r \in refs : r.token < nextToken /\ r.of <= created
  /\ \A r, q \in refs : r.token = q.token => r = q

(* A node handle has a NodeRef of its own, and the address of the device   *)
(* the node was created on, as long as that device lives.                  *)
NodesOwned ==
  /\ \A n \in Nodes : nodes[n] # Free =>
       /\ nodes[n].ref \in refs
       /\ \A d \in Devices :
            devices[d] # Free /\ devices[d].id = nodes[n].ref.of => nodes[n].owner = d
  /\ \A n, m \in Nodes :
       nodes[n] # Free /\ nodes[m] # Free /\ nodes[n].ref.token = nodes[m].ref.token => n = m

TasksKnown ==
  /\ \A b \in Builders : builders[b] # Free =>
       \A i \in DOMAIN builders[b].tasks : builders[b].tasks[i] \in refs
  /\ \A g \in Graphs : graphs[g] # Free =>
       \A i \in DOMAIN graphs[g].tasks : graphs[g].tasks[i] \in refs

(* What a running submission reaches has not been destroyed, and each task *)
(* it has resolved is one of the graph's and of its device.                *)
CallsAlive == \A t \in Threads : calls[t] # Idle =>
  /\ devices[calls[t].device] # Free
  /\ graphs[calls[t].graph] # Free
  /\ envelopes[calls[t].envelope] # Free
  /\ arenas[envelopes[calls[t].envelope].arena] # Free
  /\ \A i \in 1..calls[t].resolved :
       /\ i \in DOMAIN graphs[calls[t].graph].tasks
       /\ graphs[calls[t].graph].tasks[i].of = devices[calls[t].device].id

(* The next id is the index of the next task *)
IdsCount == \A b \in Builders : builders[b] # Free => builders[b].nextId = Len(builders[b].tasks)

HandleInv ==
  /\ TypeOK /\ Distinct /\ NodesOwned /\ TableIsExact
  /\ TasksKnown /\ CallsAlive /\ IdsCount /\ IdsNameTasks /\ NoDangling

----------------------------------------------------------------------------
(* Each step leaves the variables well typed. *)
LEMMA TypeOKStep == TypeOK /\ CallsAlive /\ [Next]_vars => TypeOK'
<1> SUFFICES ASSUME TypeOK, CallsAlive, [Next]_vars
             PROVE  TypeOK'
  OBVIOUS
<1> USE HandleAssumption
<1>1. ASSUME NEW d \in Devices, CreateDevice(d)
      PROVE  TypeOK'
  <2>1. [id |-> created + 1, table |-> {}] \in DeviceObjects
    BY <1>1 DEF CreateDevice, TypeOK, DeviceObjects
  <2> QED
    BY <1>1, <2>1 DEF CreateDevice, TypeOK, children
<1>2. ASSUME NEW d \in Devices, DestroyDevice(d)
      PROVE  TypeOK'
  BY <1>2 DEF DestroyDevice, TypeOK, children
<1>3. ASSUME NEW c \in CodeObjects, DestroyCodeObject(c)
      PROVE  TypeOK'
  BY <1>3 DEF DestroyCodeObject, TypeOK
<1>4. ASSUME NEW c \in CodeObjects, NEW d \in Devices, LoadCodeObject(d, c)
      PROVE  TypeOK'
  BY <1>4 DEF LoadCodeObject, TypeOK
<1>5. ASSUME NEW n \in Nodes, DestroyNode(n)
      PROVE  TypeOK'
  <2>1. nodes[n].owner \in Devices
    BY <1>5 DEF DestroyNode, TypeOK, NodeObjects
  <2>2. devices' \in [Devices -> DeviceObjects \cup {Free}] /\ dangling' \in BOOLEAN
    BY <1>5, <2>1 DEF DestroyNode, Follow, TableAt, IsValidDevice, TypeOK, DeviceObjects
  <2> QED
    BY <1>5, <2>2 DEF DestroyNode, TypeOK, children
<1>6. ASSUME NEW n \in Nodes, NEW c \in CodeObjects, CreateNode(c, n)
      PROVE  TypeOK'
  <2> DEFINE d == codeObjects[c].owner
             ref == [token |-> TokenFor(d), of |-> IdAt(d)]
  <2>1. d \in Devices /\ devices[d] \in DeviceObjects
    BY <1>6 DEF CreateNode, TypeOK, IsValidDevice
  <2>2. ref \in NodeRefs /\ ref.token = nextToken /\ nextToken < LastToken
    BY <1>6, <2>1 DEF CreateNode, TypeOK, NodeRefs, TokenFor, IdAt, DeviceObjects
  <2>3. devices' \in [Devices -> DeviceObjects \cup {Free}] /\ dangling' \in BOOLEAN
    BY <1>6, <2>1, <2>2 DEF CreateNode, Follow, TableAt, TypeOK, DeviceObjects
  <2>4. nodes' = [nodes EXCEPT ![n] = [owner |-> d, ref |-> ref]] /\ refs' = refs \cup {ref}
        /\ nextToken' = nextToken + 1 /\ UNCHANGED <<children, created, calls>>
    BY <1>6 DEF CreateNode
  <2>5. [owner |-> d, ref |-> ref] \in NodeObjects
    BY <2>1, <2>2 DEF NodeObjects
  <2> HIDE DEF d, ref
  <2> QED
    BY <2>2, <2>3, <2>4, <2>5 DEF TypeOK, children
<1>7. ASSUME NEW a \in Arenas, DestroyArena(a)
      PROVE  TypeOK'
  BY <1>7 DEF DestroyArena, TypeOK
<1>8. ASSUME NEW a \in Arenas, NEW d \in Devices, CreateArena(d, a)
      PROVE  TypeOK'
  BY <1>8 DEF CreateArena, TypeOK
<1>9. ASSUME NEW e \in Envelopes, DestroyEnvelope(e)
      PROVE  TypeOK'
  BY <1>9 DEF DestroyEnvelope, TypeOK
<1>10. ASSUME NEW e \in Envelopes, NEW d \in Devices, NEW a \in Arenas, NEW allowed \in SUBSET refs,
              CreateEnvelope(d, a, allowed, e)
       PROVE  TypeOK'
  <2>1. [owner |-> d, arena |-> a, allowed |-> allowed] \in EnvelopeObjects
    BY DEF EnvelopeObjects, TypeOK
  <2> QED
    BY <1>10, <2>1 DEF CreateEnvelope, TypeOK
<1>11. ASSUME NEW b \in Builders, DestroyBuilder(b)
       PROVE  TypeOK'
  BY <1>11 DEF DestroyBuilder, TypeOK
<1>12. ASSUME NEW b \in Builders, NEW d \in Devices, CreateBuilder(d, b)
       PROVE  TypeOK'
  <2>1. [owner |-> d, tasks |-> <<>>, nextId |-> 0, ids |-> {}, sealed |-> FALSE] \in BuilderObjects
    BY DEF BuilderObjects
  <2> QED
    BY <1>12, <2>1 DEF CreateBuilder, TypeOK
<1>13. ASSUME NEW b \in Builders, NEW ref \in refs, NEW wellFormed \in BOOLEAN,
              AppendTask(b, ref, wellFormed)
       PROVE  TypeOK'
  <2>1. builders[b] \in BuilderObjects /\ ref \in NodeRefs
    BY <1>13 DEF AppendTask, TypeOK
  <2>2. builders' \in [Builders -> BuilderObjects \cup {Free}]
    <3> DEFINE new == Appended(b, ref, Appendable(b, wellFormed))
    <3>1. /\ Append(builders[b].tasks, ref) \in Seq(NodeRefs)
          /\ builders[b].ids \cup {[id |-> builders[b].nextId, ref |-> ref]} \in SUBSET TaskIds
          /\ NextId(b, Appendable(b, wellFormed)) \in Nat
      BY <2>1 DEF BuilderObjects, TaskIds, NextId
    <3>2. new \in BuilderObjects
      BY <2>1, <3>1 DEF BuilderObjects, Appended
    <3> HIDE DEF new
    <3> QED
      BY <1>13, <3>2 DEF AppendTask, new, TypeOK
  <2>3. devices' \in [Devices -> DeviceObjects \cup {Free}] /\ dangling' \in BOOLEAN
    BY <1>13, <2>1 DEF AppendTask, Follow, TableAt, IsValidDevice, TypeOK, DeviceObjects, BuilderObjects
  <2> QED
    BY <1>13, <2>2, <2>3 DEF AppendTask, TypeOK
<1>14. ASSUME NEW b \in Builders, NEW g \in Graphs, SealTaskGraph(b, g)
       PROVE  TypeOK'
  <2>1. builders[b] \in BuilderObjects
    BY <1>14 DEF SealTaskGraph, TypeOK
  <2>2. [owner |-> builders[b].owner, tasks |-> builders[b].tasks,
         ids |-> builders[b].ids, published |-> FALSE] \in GraphObjects
    BY <2>1 DEF BuilderObjects, GraphObjects
  <2>3. [builders[b] EXCEPT !.sealed = TRUE] \in BuilderObjects
    BY <2>1 DEF BuilderObjects
  <2> QED
    BY <1>14, <2>2, <2>3 DEF SealTaskGraph, TypeOK
<1>15. ASSUME NEW g \in Graphs, DestroyTaskGraph(g)
       PROVE  TypeOK'
  BY <1>15 DEF DestroyTaskGraph, TypeOK
<1>16. ASSUME NEW t \in Threads, NEW d \in Devices, NEW g \in Graphs, NEW e \in Envelopes,
              CheckSubmit(t, d, g, e)
       PROVE  TypeOK'
  <2> DEFINE call == [at |-> IF graphs[g].published THEN "assembling" ELSE "publishing",
                      device |-> d, graph |-> g, envelope |-> e, resolved |-> 0]
  <2>1. call \in Submits
    BY DEF Submits
  <2> HIDE DEF call
  <2> QED
    BY <1>16, <2>1 DEF CheckSubmit, call, Step, ClientUnchanged, TypeOK
<1>17. ASSUME NEW t \in Threads, PublishGraph(t)
       PROVE  TypeOK'
  <2>1. calls[t] \in Submits
    BY <1>17 DEF PublishGraph, TypeOK, Idle
  <2>2. [calls[t] EXCEPT !.at = "assembling"] \in Submits
    BY <2>1 DEF Submits
  <2>3. graphs' \in [Graphs -> GraphObjects \cup {Free}]
    <3> DEFINE g == calls[t].graph
    <3>1. g \in Graphs /\ graphs[g] \in GraphObjects
      BY <1>17, <2>1 DEF PublishGraph, TypeOK, CallsAlive, Submits, Idle
    <3>2. [graphs[g] EXCEPT !.published = TRUE] \in GraphObjects
      BY <3>1 DEF GraphObjects
    <3> QED
      BY <1>17, <3>1, <3>2 DEF PublishGraph, TypeOK
  <2> QED
    BY <1>17, <2>2, <2>3 DEF PublishGraph, Step, ClientUnchanged, TypeOK
<1>18. ASSUME NEW t \in Threads, ResolveNode(t)
       PROVE  TypeOK'
  <2>1. calls[t] \in Submits
    BY <1>18 DEF ResolveNode, TypeOK, Idle
  <2> DEFINE i == calls[t].resolved + 1
             tasks == graphs[calls[t].graph].tasks
             call == [calls[t] EXCEPT !.resolved = i, !.at = IF i = Len(tasks) THEN "running" ELSE @]
  <2>2. calls' \in [Threads -> Submits \cup {Idle}]
    <3>0. i \in Nat
      BY <2>1 DEF Submits
    <3>1. calls' = [calls EXCEPT ![t] = call] \/ calls' = [calls EXCEPT ![t] = Idle]
      BY <1>18 DEF ResolveNode, Step
    <3> HIDE DEF i
    <3>2. call \in Submits
      BY <2>1, <3>0 DEF Submits
    <3> HIDE DEF call
    <3> QED
      BY <3>1, <3>2 DEF TypeOK
  <2> QED
    BY <1>18, <2>2 DEF ResolveNode, FollowDeviceAndArena, ClientUnchanged, TypeOK
<1>19. ASSUME NEW t \in Threads, Run(t)
       PROVE  TypeOK'
  BY <1>19 DEF Run, Step, FollowDeviceAndArena, ClientUnchanged, TypeOK
<1>20. CASE UNCHANGED vars
  BY <1>20 DEF vars, children, TypeOK
<1> QED
  BY <1>1, <1>2, <1>3, <1>4, <1>5, <1>6, <1>7, <1>8, <1>9, <1>10, <1>11, <1>12, <1>13, <1>14,
     <1>15, <1>16, <1>17, <1>18, <1>19, <1>20 DEF Next, Manage, Build, Submit

----------------------------------------------------------------------------
(* Following the address of a live device leaves every device where it is, *)
(* and changes no table but its own.                                       *)
LEMMA FollowLive ==
  ASSUME TypeOK, NEW d \in Devices, devices[d] # Free,
         NEW table \in SUBSET (1..LastToken), Follow(d, table)
  PROVE  /\ dangling' = dangling
         /\ \A e \in Devices : devices'[e] # Free <=> devices[e] # Free
         /\ \A e \in Devices : devices[e] # Free =>
              /\ devices'[e].id = devices[e].id
              /\ devices'[e].table = IF e = d THEN table ELSE devices[e].table
<1>1. devices[d] \in DeviceObjects
  BY DEF TypeOK
<1> DEFINE new == [devices[d] EXCEPT !.table = table]
<1>2. new \in DeviceObjects /\ new.id = devices[d].id /\ new.table = table
  BY <1>1 DEF DeviceObjects
<1>3. devices' = [devices EXCEPT ![d] = new] /\ dangling' = dangling
  BY DEF Follow, TypeOK
<1>4. new # Free
  BY <1>2, HandleAssumption
<1> HIDE DEF new
<1> QED
  BY <1>2, <1>3, <1>4 DEF TypeOK

(* TableIsExact, token by token *)
Exact == \A d \in Devices : devices[d] # Free =>
  \A k : k \in devices[d].table <=>
    \E n \in Nodes : nodes[n] # Free /\ nodes[n].ref.of = devices[d].id /\ nodes[n].ref.token = k

(* A step keeps devices and NodeRefs distinct, node handles with their     *)
(* devices and the tables exact.                                           *)
LEMMA TablesStep ==
  TypeOK /\ Distinct /\ NodesOwned /\ TableIsExact /\ [Next]_vars
    => Distinct' /\ NodesOwned' /\ TableIsExact'
<1> SUFFICES ASSUME TypeOK, Distinct, NodesOwned, TableIsExact, [Next]_vars
             PROVE  Distinct' /\ NodesOwned' /\ TableIsExact'
  OBVIOUS
<1>a. Exact
  BY DEF TableIsExact, Exact
<1>b. SUFFICES Distinct' /\ NodesOwned' /\ Exact'
  BY DEF TableIsExact, Exact
<1>c. /\ created \in Nat /\ nextToken \in Nat
      /\ \A d \in Devices : devices[d] # Free =>
           devices[d].id \in 1..created /\ devices[d].table \in SUBSET (1..LastToken)
      /\ \A r \in refs : r.token \in Nat /\ r.of \in Nat
  BY HandleAssumption DEF TypeOK, Distinct, DeviceObjects, NodeRefs
<1>1. ASSUME NEW d \in Devices, CreateDevice(d)
      PROVE  Distinct' /\ NodesOwned' /\ Exact'
  <2> DEFINE new == [id |-> created + 1, table |-> {}]
  <2>1. /\ devices' = [devices EXCEPT ![d] = new] /\ created' = created + 1
        /\ UNCHANGED <<nodes, nextToken, refs>>
    BY <1>1 DEF CreateDevice
  <2>2. new.id = created + 1 /\ new.table = {}
    OBVIOUS
  <2> HIDE DEF new
  <2>3. Distinct'
    BY <1>c, <2>1, <2>2 DEF Distinct, TypeOK
  <2>4. \A n \in Nodes : nodes[n] # Free => nodes[n].ref.of <= created
    BY DEF NodesOwned, Distinct
  <2>5. NodesOwned'
    BY <1>c, <2>1, <2>2, <2>4 DEF NodesOwned, TypeOK
  <2>6. Exact'
    BY <1>a, <1>c, <2>1, <2>2, <2>4 DEF Exact, TypeOK
  <2> QED
    BY <2>3, <2>5, <2>6
<1>2. ASSUME NEW d \in Devices, DestroyDevice(d)
      PROVE  Distinct' /\ NodesOwned' /\ Exact'
  <2>1. devices' = [devices EXCEPT ![d] = Free] /\ UNCHANGED <<nodes, created, nextToken, refs>>
    BY <1>2 DEF DestroyDevice
  <2>2. \A e \in Devices : devices'[e] # Free => devices[e] # Free /\ devices'[e] = devices[e]
    BY <2>1 DEF TypeOK
  <2> QED
    BY <1>a, <2>1, <2>2 DEF Distinct, NodesOwned, Exact
<1>3. ASSUME NEW n \in Nodes, NEW c \in CodeObjects, CreateNode(c, n)
      PROVE  Distinct' /\ NodesOwned' /\ Exact'
  <2> DEFINE d == codeObjects[c].owner
             ref == [token |-> TokenFor(d), of |-> IdAt(d)]
             node == [owner |-> d, ref |-> ref]
  <2>1. d \in Devices /\ devices[d] # Free
    BY <1>3 DEF CreateNode, TypeOK, IsValidDevice
  <2>2. /\ ref.token = nextToken /\ ref.of = devices[d].id /\ nextToken \in 1..LastToken
        /\ node.owner = d /\ node.ref = ref /\ node \in NodeObjects
    BY <2>1 DEF TypeOK, TokenFor, IdAt, NodeObjects, NodeRefs, DeviceObjects
  <2>3. /\ Follow(d, TableAt(d) \cup {ref.token}) /\ TableAt(d) = devices[d].table
        /\ nodes' = [nodes EXCEPT ![n] = node] /\ refs' = refs \cup {ref}
        /\ nextToken' = nextToken + 1 /\ created' = created
        /\ nodes[n] = Free
    BY <1>3, <2>1 DEF CreateNode, TableAt
  <2>4. node # Free
    BY <2>2, HandleAssumption
  <2>5. /\ \A e \in Devices : devices'[e] # Free <=> devices[e] # Free
        /\ \A e \in Devices : devices[e] # Free =>
             /\ devices'[e].id = devices[e].id
             /\ devices'[e].table = IF e = d THEN devices[d].table \cup {nextToken}
                                             ELSE devices[e].table
    <3> HIDE DEF d, ref, node
    <3>1. devices[d].table \cup {nextToken} \in SUBSET (1..LastToken)
      BY <1>c, <2>1, <2>2
    <3>2. Follow(d, devices[d].table \cup {nextToken})
      BY <2>2, <2>3
    <3> QED
      BY <2>1, <3>1, <3>2, FollowLive
  <2> HIDE DEF d, ref, node
  <2>6. Distinct'
    BY <1>c, <2>1, <2>2, <2>3, <2>5 DEF Distinct
  <2>7. /\ nodes'[n] = node
        /\ \A m \in Nodes : m # n => nodes'[m] = nodes[m]
    BY <2>3 DEF TypeOK
  <2>8. NodesOwned'
    <3>1. ASSUME NEW m \in Nodes, nodes'[m] # Free
          PROVE  /\ nodes'[m].ref \in refs'
                 /\ \A e \in Devices :
                      devices'[e] # Free /\ devices'[e].id = nodes'[m].ref.of => nodes'[m].owner = e
      <4>1. CASE m = n
        BY <4>1, <2>1, <2>2, <2>3, <2>5, <2>7 DEF Distinct
      <4>2. CASE m # n
        BY <4>2, <3>1, <2>3, <2>5, <2>7 DEF NodesOwned
      <4> QED
        BY <4>1, <4>2
    <3>2. \A m \in Nodes : m # n /\ nodes[m] # Free => nodes[m].ref.token # nextToken
      BY <1>c DEF NodesOwned, Distinct
    <3>3. \A m, k \in Nodes : nodes'[m] # Free /\ nodes'[k] # Free
                                /\ nodes'[m].ref.token = nodes'[k].ref.token => m = k
      BY <2>2, <2>7, <3>2 DEF NodesOwned
    <3> QED
      BY <3>1, <3>3 DEF NodesOwned
  <2>9. Exact'
    <3> SUFFICES ASSUME NEW e \in Devices, devices'[e] # Free, NEW k
                 PROVE  k \in devices'[e].table <=>
                          \E m \in Nodes : /\ nodes'[m] # Free
                                           /\ nodes'[m].ref.of = devices'[e].id
                                           /\ nodes'[m].ref.token = k
      BY DEF Exact
    <3>1. k \in devices[e].table <=>
            \E m \in Nodes : nodes[m] # Free /\ nodes[m].ref.of = devices[e].id /\ nodes[m].ref.token = k
      BY <1>a, <2>5 DEF Exact
    <3>2. CASE e = d
      BY <3>1, <3>2, <2>1, <2>2, <2>3, <2>4, <2>5, <2>7
    <3>3. CASE e # d
      <4>1. devices[e].id # ref.of
        BY <3>3, <2>1, <2>2, <2>5 DEF Distinct
      <4> QED
        BY <3>1, <3>3, <4>1, <2>1, <2>2, <2>3, <2>4, <2>5, <2>7
    <3> QED
      BY <3>2, <3>3
  <2> QED
    BY <2>6, <2>8, <2>9
<1>4. ASSUME NEW n \in Nodes, DestroyNode(n)
      PROVE  Distinct' /\ NodesOwned' /\ Exact'
  <2> DEFINE d == nodes[n].owner
             k == nodes[n].ref.token
  <2>1. /\ nodes[n] # Free /\ d \in Devices
        /\ nodes' = [nodes EXCEPT ![n] = Free] /\ UNCHANGED <<created, nextToken, refs>>
    BY <1>4 DEF DestroyNode, TypeOK, NodeObjects
  <2>2. /\ \A e \in Devices : devices'[e] # Free <=> devices[e] # Free
        /\ \A e \in Devices : devices[e] # Free =>
             /\ devices'[e].id = devices[e].id
             /\ devices'[e].table = IF e = d THEN devices[d].table \ {k} ELSE devices[e].table
    <3>1. CASE devices[d] = Free
      BY <1>4, <2>1, <3>1 DEF DestroyNode, IsValidDevice
    <3>2. CASE devices[d] # Free
      <4>1. Follow(d, devices[d].table \ {k})
        BY <1>4, <3>2 DEF DestroyNode, IsValidDevice, TableAt
      <4>2. devices[d].table \ {k} \in SUBSET (1..LastToken)
        BY <1>c, <2>1, <3>2
      <4> HIDE DEF d, k
      <4> QED
        BY <2>1, <3>2, <4>1, <4>2, FollowLive
    <3> QED
      BY <3>1, <3>2
  <2>3. \A e \in Devices : devices[e] # Free /\ e # d => devices[e].id # nodes[n].ref.of
    BY <2>1 DEF NodesOwned
  <2>4. \A m \in Nodes : nodes[m] # Free /\ nodes[m].ref.token = k => m = n
    BY <2>1 DEF NodesOwned
  <2> HIDE DEF d, k
  <2>5. nodes'[n] = Free /\ \A m \in Nodes : m # n => nodes'[m] = nodes[m]
    BY <2>1 DEF TypeOK
  <2>6. Distinct'
    BY <2>1, <2>2 DEF Distinct
  <2>7. NodesOwned'
    BY <2>1, <2>2, <2>5 DEF NodesOwned
  <2>8. Exact'
    <3> SUFFICES ASSUME NEW e \in Devices, devices'[e] # Free, NEW j
                 PROVE  j \in devices'[e].table <=>
                          \E m \in Nodes : /\ nodes'[m] # Free
                                           /\ nodes'[m].ref.of = devices'[e].id
                                           /\ nodes'[m].ref.token = j
      BY DEF Exact
    <3>1. j \in devices[e].table <=>
            \E m \in Nodes : nodes[m] # Free /\ nodes[m].ref.of = devices[e].id /\ nodes[m].ref.token = j
      BY <1>a, <2>2 DEF Exact
    <3>2. CASE e = d
      BY <3>1, <3>2, <2>2, <2>4, <2>5 DEF k
    <3>3. CASE e # d
      BY <3>1, <3>3, <2>2, <2>3, <2>5
    <3> QED
      BY <3>2, <3>3
  <2> QED
    BY <2>6, <2>7, <2>8
<1>5. ASSUME NEW b \in Builders, NEW ref \in refs, NEW wellFormed \in BOOLEAN,
             AppendTask(b, ref, wellFormed)
      PROVE  Distinct' /\ NodesOwned' /\ Exact'
  <2> DEFINE d == builders[b].owner
  <2>1. d \in Devices /\ devices[d] # Free
    BY <1>5 DEF AppendTask, IsValidDevice, TypeOK, BuilderObjects
  <2>2. Follow(d, devices[d].table) /\ UNCHANGED <<nodes, created, nextToken, refs>>
    BY <1>5, <2>1 DEF AppendTask, TableAt
  <2> HIDE DEF d
  <2>3. /\ \A e \in Devices : devices'[e] # Free <=> devices[e] # Free
        /\ \A e \in Devices : devices[e] # Free =>
             devices'[e].id = devices[e].id /\ devices'[e].table = devices[e].table
    BY <1>c, <2>1, <2>2, FollowLive
  <2> QED
    BY <1>a, <2>2, <2>3 DEF Distinct, NodesOwned, Exact
<1>6. ASSUME UNCHANGED <<devices, nodes, created, nextToken, refs>>
      PROVE  Distinct' /\ NodesOwned' /\ Exact'
  BY <1>6, <1>a DEF Distinct, NodesOwned, Exact
<1> QED
  <2>1. CASE Manage
    BY <1>1, <1>2, <1>3, <1>4, <1>6, <2>1
       DEF Manage, DestroyCodeObject, LoadCodeObject, DestroyArena, CreateArena, DestroyEnvelope,
           CreateEnvelope
  <2>2. CASE Build
    BY <1>5, <1>6, <2>2
       DEF Build, DestroyBuilder, CreateBuilder, SealTaskGraph, DestroyTaskGraph
  <2>3. CASE \E t \in Threads : Submit(t)
    BY <1>6, <2>3
       DEF Submit, CheckSubmit, PublishGraph, ResolveNode, Run, ClientUnchanged
  <2>4. CASE UNCHANGED vars
    BY <1>6, <2>4 DEF vars
  <2> QED
    BY <2>1, <2>2, <2>3, <2>4 DEF Next

----------------------------------------------------------------------------
(* What TasksKnown and IdsNameTasks say of one builder or graph *)
TasksGood(g, known) ==
  /\ \A i \in DOMAIN g.tasks : g.tasks[i] \in known
  /\ \A given \in g.ids : given.id + 1 \in DOMAIN g.tasks /\ g.tasks[given.id + 1] = given.ref

LEMMA AllTasksGood ==
  (TasksKnown /\ IdsNameTasks) <=>
    /\ \A b \in Builders : builders[b] # Free => TasksGood(builders[b], refs)
    /\ \A g \in Graphs : graphs[g] # Free => TasksGood(graphs[g], refs)
BY DEF TasksKnown, IdsNameTasks, TasksGood

(* A record keeps its builder good, and the next id its last task's *)
LEMMA AppendedGood ==
  ASSUME NEW b \in Builders, builders[b] \in BuilderObjects, TasksGood(builders[b], refs),
         builders[b].nextId = Len(builders[b].tasks),
         NEW ref \in refs, NEW appended \in BOOLEAN
  PROVE  /\ TasksGood(Appended(b, ref, appended), refs)
         /\ Appended(b, ref, appended).nextId = Len(Appended(b, ref, appended).tasks)
<1> DEFINE old == builders[b]
           new == Appended(b, ref, appended)
<1>1. CASE appended
  <2>1. /\ new.tasks = Append(old.tasks, ref)
        /\ new.ids = old.ids \cup {[id |-> old.nextId, ref |-> ref]}
        /\ new.nextId = old.nextId + 1
    BY <1>1 DEF Appended, NextId, BuilderObjects
  <2>2. /\ Len(old.tasks) \in Nat /\ DOMAIN old.tasks = 1..Len(old.tasks)
        /\ DOMAIN new.tasks = 1..Len(old.tasks) + 1
        /\ Len(new.tasks) = Len(old.tasks) + 1
        /\ new.tasks[Len(old.tasks) + 1] = ref
        /\ \A i \in 1..Len(old.tasks) : new.tasks[i] = old.tasks[i]
    <3>1. old.tasks \in Seq(NodeRefs \cup {ref}) /\ ref \in NodeRefs \cup {ref}
      BY DEF BuilderObjects
    <3> HIDE DEF old, new
    <3> QED
      BY <2>1, <3>1
  <2> HIDE DEF new
  <2>3. \A given \in new.ids :
          given.id + 1 \in DOMAIN new.tasks /\ new.tasks[given.id + 1] = given.ref
    BY <2>1, <2>2 DEF TasksGood
  <2>4. \A i \in DOMAIN new.tasks : new.tasks[i] \in refs
    BY <2>2 DEF TasksGood
  <2> QED
    BY <2>1, <2>2, <2>3, <2>4 DEF TasksGood, new
<1>2. CASE ~appended
  <2>1. new.tasks = old.tasks /\ new.ids = old.ids /\ new.nextId = old.nextId
    BY <1>2 DEF Appended, NextId, BuilderObjects
  <2> QED
    BY <2>1 DEF TasksGood
<1> QED
  BY <1>1, <1>2

LEMMA TasksStep ==
  TypeOK /\ TasksKnown /\ CallsAlive /\ IdsCount /\ IdsNameTasks /\ [Next]_vars
    => TasksKnown' /\ IdsCount' /\ IdsNameTasks'
<1> SUFFICES ASSUME TypeOK, TasksKnown, CallsAlive, IdsCount, IdsNameTasks, [Next]_vars
             PROVE  TasksKnown' /\ IdsCount' /\ IdsNameTasks'
  OBVIOUS
<1>a. /\ \A b \in Builders : builders[b] # Free => TasksGood(builders[b], refs)
      /\ \A g \in Graphs : graphs[g] # Free => TasksGood(graphs[g], refs)
  BY AllTasksGood
<1>b. SUFFICES /\ \A b \in Builders : builders'[b] # Free => TasksGood(builders'[b], refs')
               /\ \A g \in Graphs : graphs'[g] # Free => TasksGood(graphs'[g], refs')
               /\ IdsCount'
  BY DEF TasksKnown, IdsNameTasks, TasksGood
<1> DEFINE Goal == /\ \A b \in Builders : builders'[b] # Free => TasksGood(builders'[b], refs')
                   /\ \A g \in Graphs : graphs'[g] # Free => TasksGood(graphs'[g], refs')
                   /\ IdsCount'
<1>1. ASSUME NEW n \in Nodes, NEW c \in CodeObjects, CreateNode(c, n)
      PROVE  Goal
  <2>1. refs \subseteq refs' /\ UNCHANGED <<builders, graphs>>
    BY <1>1 DEF CreateNode, children
  <2> QED
    BY <1>a, <2>1 DEF TasksGood, IdsCount
<1>2. ASSUME NEW b \in Builders, NEW d \in Devices, CreateBuilder(d, b)
      PROVE  Goal
  <2> DEFINE new == [owner |-> d, tasks |-> <<>>, nextId |-> 0, ids |-> {}, sealed |-> FALSE]
  <2>1. builders' = [builders EXCEPT ![b] = new] /\ UNCHANGED <<graphs, refs>>
    BY <1>2 DEF CreateBuilder
  <2>2. TasksGood(new, refs) /\ new.nextId = Len(new.tasks)
    BY DEF TasksGood
  <2> HIDE DEF new
  <2> QED
    BY <1>a, <2>1, <2>2 DEF IdsCount, TypeOK
<1>3. ASSUME NEW b \in Builders, DestroyBuilder(b)
      PROVE  Goal
  <2>1. builders' = [builders EXCEPT ![b] = Free] /\ UNCHANGED <<graphs, refs>>
    BY <1>3 DEF DestroyBuilder
  <2> QED
    BY <1>a, <2>1 DEF IdsCount, TypeOK
<1>4. ASSUME NEW b \in Builders, NEW ref \in refs, NEW wellFormed \in BOOLEAN,
             AppendTask(b, ref, wellFormed)
      PROVE  Goal
  <2> DEFINE new == Appended(b, ref, Appendable(b, wellFormed))
  <2>1. builders' = [builders EXCEPT ![b] = new] /\ UNCHANGED <<graphs, refs>>
    BY <1>4 DEF AppendTask
  <2>2. builders[b] \in BuilderObjects /\ Appendable(b, wellFormed) \in BOOLEAN
    BY <1>4 DEF AppendTask, TypeOK, Appendable
  <2>3. TasksGood(builders[b], refs) /\ builders[b].nextId = Len(builders[b].tasks)
    BY <1>a, <1>4 DEF AppendTask, IdsCount
  <2>4. TasksGood(new, refs) /\ new.nextId = Len(new.tasks)
    BY <2>2, <2>3, AppendedGood
  <2> HIDE DEF new
  <2> QED
    BY <1>a, <2>1, <2>4 DEF IdsCount, TypeOK
<1>5. ASSUME NEW b \in Builders, NEW g \in Graphs, SealTaskGraph(b, g)
      PROVE  Goal
  <2> DEFINE sealed == [builders[b] EXCEPT !.sealed = TRUE]
             graph == [owner |-> builders[b].owner, tasks |-> builders[b].tasks,
                       ids |-> builders[b].ids, published |-> FALSE]
  <2>1. /\ builders' = [builders EXCEPT ![b] = sealed] /\ graphs' = [graphs EXCEPT ![g] = graph]
        /\ UNCHANGED refs /\ builders[b] # Free /\ builders[b] \in BuilderObjects
    BY <1>5 DEF SealTaskGraph, TypeOK
  <2>2. /\ sealed.tasks = builders[b].tasks /\ sealed.ids = builders[b].ids
        /\ sealed.nextId = builders[b].nextId
        /\ graph.tasks = builders[b].tasks /\ graph.ids = builders[b].ids
    BY <2>1 DEF BuilderObjects
  <2> HIDE DEF sealed, graph
  <2>3. TasksGood(sealed, refs) /\ TasksGood(graph, refs) /\ sealed.nextId = Len(sealed.tasks)
    BY <1>a, <2>1, <2>2 DEF TasksGood, IdsCount
  <2> QED
    BY <1>a, <2>1, <2>3 DEF IdsCount, TypeOK
<1>6. ASSUME NEW g \in Graphs, DestroyTaskGraph(g)
      PROVE  Goal
  <2>1. graphs' = [graphs EXCEPT ![g] = Free] /\ UNCHANGED <<builders, refs>>
    BY <1>6 DEF DestroyTaskGraph
  <2> QED
    BY <1>a, <2>1 DEF IdsCount, TypeOK
<1>7. ASSUME NEW t \in Threads, PublishGraph(t)
      PROVE  Goal
  <2> DEFINE g == calls[t].graph
             graph == [graphs[g] EXCEPT !.published = TRUE]
  <2>1. g \in Graphs /\ graphs[g] # Free /\ graphs[g] \in GraphObjects
    BY <1>7 DEF PublishGraph, TypeOK, CallsAlive, Submits, Idle
  <2>2. graph.tasks = graphs[g].tasks /\ graph.ids = graphs[g].ids
    BY <2>1 DEF GraphObjects
  <2>3. graphs' = [graphs EXCEPT ![g] = graph] /\ UNCHANGED <<builders, refs>>
    BY <1>7 DEF PublishGraph, ClientUnchanged
  <2> HIDE DEF g, graph
  <2>4. TasksGood(graph, refs)
    BY <1>a, <2>1, <2>2 DEF TasksGood
  <2> QED
    BY <1>a, <2>3, <2>4 DEF IdsCount, TypeOK
<1>8. ASSUME UNCHANGED <<builders, graphs, refs>>
      PROVE  Goal
  BY <1>a, <1>8 DEF IdsCount
<1> QED
  <2>1. CASE Manage
    BY <1>1, <1>8, <2>1
       DEF Manage, CreateDevice, DestroyDevice, DestroyNode, DestroyCodeObject, LoadCodeObject,
           DestroyArena, CreateArena, DestroyEnvelope, CreateEnvelope, children
  <2>2. CASE Build
    BY <1>2, <1>3, <1>4, <1>5, <1>6, <2>2 DEF Build
  <2>3. CASE \E t \in Threads : Submit(t)
    BY <1>7, <1>8, <2>3 DEF Submit, CheckSubmit, ResolveNode, Run, ClientUnchanged
  <2>4. CASE UNCHANGED vars
    BY <1>8, <2>4 DEF vars, children
  <2> QED
    BY <2>1, <2>2, <2>3, <2>4 DEF Next

----------------------------------------------------------------------------
(* CallsAlive of one thread *)
Alive(call) ==
  /\ devices[call.device] # Free
  /\ graphs[call.graph] # Free
  /\ envelopes[call.envelope] # Free
  /\ arenas[envelopes[call.envelope].arena] # Free
  /\ \A i \in 1..call.resolved :
       /\ i \in DOMAIN graphs[call.graph].tasks
       /\ graphs[call.graph].tasks[i].of = devices[call.device].id

(* A step that keeps what the calls reach, keeps the calls alive *)
LEMMA AliveKept ==
  ASSUME TypeOK, CallsAlive,
         calls' = calls,
         \A d \in Devices : devices[d] # Free /\ (\E t \in Threads : Reaches(t, "device", d))
           => devices'[d] # Free /\ devices'[d].id = devices[d].id,
         \A g \in Graphs : graphs[g] # Free /\ (\E t \in Threads : Reaches(t, "graph", g))
           => graphs'[g] # Free /\ graphs'[g].tasks = graphs[g].tasks,
         \A e \in Envelopes : envelopes[e] # Free /\ (\E t \in Threads : Reaches(t, "envelope", e))
           => envelopes'[e] = envelopes[e] /\ arenas'[envelopes[e].arena] # Free
  PROVE  CallsAlive'
<1> SUFFICES ASSUME NEW t \in Threads, calls[t] # Idle
             PROVE  Alive(calls[t])'
  BY DEF CallsAlive, Alive
<1>1. calls[t] \in Submits
  BY DEF TypeOK
<1> DEFINE d == calls[t].device
           g == calls[t].graph
           e == calls[t].envelope
<1>2. d \in Devices /\ g \in Graphs /\ e \in Envelopes
  BY <1>1 DEF Submits
<1>3. Reaches(t, "device", d) /\ Reaches(t, "graph", g) /\ Reaches(t, "envelope", e)
  BY DEF Reaches
<1>4. Alive(calls[t])
  BY DEF CallsAlive, Alive
<1>5. /\ devices[d] # Free /\ devices'[d] # Free /\ devices'[d].id = devices[d].id
      /\ graphs[g] # Free /\ graphs'[g] # Free /\ graphs'[g].tasks = graphs[g].tasks
      /\ envelopes'[e] = envelopes[e] /\ envelopes[e] # Free /\ arenas'[envelopes[e].arena] # Free
  BY <1>2, <1>3, <1>4 DEF Alive
<1> QED
  BY <1>4, <1>5 DEF Alive

(* Steps of one thread that change no object leave the other calls alive. *)
LEMMA AliveBeside ==
  ASSUME TypeOK, CallsAlive, NEW t \in Threads, NEW call \in Submits \cup {Idle}, Step(t, call),
         ClientUnchanged,
         \A g \in Graphs : graphs[g] # Free => graphs'[g] # Free /\ graphs'[g].tasks = graphs[g].tasks,
         call # Idle => Alive(call)
  PROVE  CallsAlive'
<1>1. \A c \in Submits : Alive(c) => Alive(c)'
  BY DEF Alive, ClientUnchanged, Submits
<1>2. \A u \in Threads : calls'[u] # Idle => calls'[u] \in Submits /\ Alive(calls'[u])
  BY DEF Step, CallsAlive, Alive, TypeOK
<1> QED
  BY <1>1, <1>2 DEF CallsAlive, Alive

(* A step destroys nothing a submission reaches, and resolves only nodes   *)
(* of the submission's device.                                             *)
LEMMA CallsAliveStep ==
  TypeOK /\ Distinct /\ NodesOwned /\ TableIsExact /\ TasksKnown /\ CallsAlive /\ [Next]_vars
    => CallsAlive'
<1> SUFFICES ASSUME TypeOK, Distinct, NodesOwned, TableIsExact, TasksKnown, CallsAlive, [Next]_vars
             PROVE  CallsAlive'
  OBVIOUS
<1> DEFINE DevicesKept == \A d \in Devices : devices[d] # Free /\ (\E t \in Threads : Reaches(t, "device", d))
                            => devices'[d] # Free /\ devices'[d].id = devices[d].id
           GraphsKept == \A g \in Graphs : graphs[g] # Free /\ (\E t \in Threads : Reaches(t, "graph", g))
                            => graphs'[g] # Free /\ graphs'[g].tasks = graphs[g].tasks
           EnvelopesKept == \A e \in Envelopes : envelopes[e] # Free /\ (\E t \in Threads : Reaches(t, "envelope", e))
                            => envelopes'[e] = envelopes[e] /\ arenas'[envelopes[e].arena] # Free
<1>a. ASSUME calls' = calls, DevicesKept, GraphsKept, EnvelopesKept
      PROVE  CallsAlive'
  BY <1>a, AliveKept
<1>b. \A e \in Envelopes : envelopes[e] # Free /\ (\E t \in Threads : Reaches(t, "envelope", e))
        => arenas[envelopes[e].arena] # Free
  BY DEF CallsAlive, Reaches
<1>c. UNCHANGED devices => DevicesKept
  OBVIOUS
<1>d. UNCHANGED graphs => GraphsKept
  OBVIOUS
<1>e. UNCHANGED <<envelopes, arenas>> => EnvelopesKept
  BY <1>b
<1>f. ASSUME NEW d \in Devices, devices[d] # Free, NEW table \in SUBSET (1..LastToken), Follow(d, table)
      PROVE  DevicesKept
  BY <1>f, FollowLive
<1>1. ASSUME NEW d \in Devices, CreateDevice(d)
      PROVE  CallsAlive'
  <2>1. DevicesKept
    BY <1>1 DEF CreateDevice, TypeOK
  <2>2. calls' = calls /\ UNCHANGED <<graphs, envelopes, arenas>>
    BY <1>1 DEF CreateDevice, children
  <2> HIDE DEF DevicesKept, GraphsKept, EnvelopesKept
  <2> QED
    BY <2>1, <2>2, <1>a, <1>d, <1>e
<1>2. ASSUME NEW d \in Devices, DestroyDevice(d)
      PROVE  CallsAlive'
  <2>1. DevicesKept
    BY <1>2 DEF DestroyDevice, TypeOK
  <2>2. calls' = calls /\ UNCHANGED <<graphs, envelopes, arenas>>
    BY <1>2 DEF DestroyDevice, children
  <2> HIDE DEF DevicesKept, GraphsKept, EnvelopesKept
  <2> QED
    BY <2>1, <2>2, <1>a, <1>d, <1>e
<1>3. ASSUME NEW n \in Nodes, NEW c \in CodeObjects, CreateNode(c, n)
      PROVE  CallsAlive'
  <2> DEFINE d == codeObjects[c].owner
  <2>1. d \in Devices /\ devices[d] # Free /\ devices[d] \in DeviceObjects
    BY <1>3 DEF CreateNode, TypeOK, IsValidDevice
  <2>2. Follow(d, devices[d].table \cup {nextToken})
        /\ calls' = calls /\ UNCHANGED <<graphs, envelopes, arenas>>
    BY <1>3, <2>1 DEF CreateNode, TableAt, TokenFor, children
  <2>3. devices[d].table \cup {nextToken} \in SUBSET (1..LastToken)
    BY <2>1 DEF DeviceObjects, TypeOK
  <2> HIDE DEF d
  <2>4. DevicesKept
    BY <2>1, <2>2, <2>3, <1>f
  <2> HIDE DEF DevicesKept, GraphsKept, EnvelopesKept
  <2> QED
    BY <2>2, <2>4, <1>a, <1>d, <1>e
<1>4. ASSUME NEW n \in Nodes, DestroyNode(n)
      PROVE  CallsAlive'
  <2> DEFINE d == nodes[n].owner
  <2>1. d \in Devices /\ calls' = calls /\ UNCHANGED <<graphs, envelopes, arenas>>
    BY <1>4 DEF DestroyNode, TypeOK, NodeObjects, children
  <2>2. CASE devices[d] = Free
    BY <1>4, <2>1, <2>2, <1>a, <1>c, <1>d, <1>e DEF DestroyNode, IsValidDevice
  <2>3. CASE devices[d] # Free
    <3>1. Follow(d, devices[d].table \ {nodes[n].ref.token})
      BY <1>4, <2>3 DEF DestroyNode, IsValidDevice, TableAt
    <3>2. devices[d].table \ {nodes[n].ref.token} \in SUBSET (1..LastToken)
      BY <2>1, <2>3 DEF TypeOK, DeviceObjects
    <3> HIDE DEF d
    <3>3. DevicesKept
      BY <2>1, <2>3, <3>1, <3>2, <1>f
    <3> HIDE DEF DevicesKept, GraphsKept, EnvelopesKept
    <3> QED
      BY <2>1, <3>3, <1>a, <1>d, <1>e
  <2> QED
    BY <2>2, <2>3
<1>5. ASSUME NEW a \in Arenas, DestroyArena(a)
      PROVE  CallsAlive'
  <2>1. EnvelopesKept
    BY <1>5, <1>b DEF DestroyArena, TypeOK, Reaches, EnvelopeObjects
  <2>2. calls' = calls /\ UNCHANGED <<devices, graphs>>
    BY <1>5 DEF DestroyArena
  <2> HIDE DEF DevicesKept, GraphsKept, EnvelopesKept
  <2> QED
    BY <2>1, <2>2, <1>a, <1>c, <1>d
<1>6. ASSUME NEW a \in Arenas, NEW d \in Devices, CreateArena(d, a)
      PROVE  CallsAlive'
  <2>1. EnvelopesKept
    BY <1>6, <1>b, HandleAssumption DEF CreateArena, TypeOK, EnvelopeObjects
  <2>2. calls' = calls /\ UNCHANGED <<devices, graphs>>
    BY <1>6 DEF CreateArena
  <2> HIDE DEF DevicesKept, GraphsKept, EnvelopesKept
  <2> QED
    BY <2>1, <2>2, <1>a, <1>c, <1>d
<1>7. ASSUME NEW e \in Envelopes, DestroyEnvelope(e)
      PROVE  CallsAlive'
  <2>1. EnvelopesKept
    BY <1>7, <1>b DEF DestroyEnvelope, TypeOK
  <2>2. calls' = calls /\ UNCHANGED <<devices, graphs>>
    BY <1>7 DEF DestroyEnvelope
  <2> HIDE DEF DevicesKept, GraphsKept, EnvelopesKept
  <2> QED
    BY <2>1, <2>2, <1>a, <1>c, <1>d
<1>8. ASSUME NEW e \in Envelopes, NEW d \in Devices, NEW a \in Arenas, NEW allowed \in SUBSET refs,
             CreateEnvelope(d, a, allowed, e)
      PROVE  CallsAlive'
  <2>1. EnvelopesKept
    BY <1>8, <1>b DEF CreateEnvelope, TypeOK
  <2>2. calls' = calls /\ UNCHANGED <<devices, graphs>>
    BY <1>8 DEF CreateEnvelope
  <2> HIDE DEF DevicesKept, GraphsKept, EnvelopesKept
  <2> QED
    BY <2>1, <2>2, <1>a, <1>c, <1>d
<1>9. ASSUME NEW b \in Builders, NEW ref \in refs, NEW wellFormed \in BOOLEAN,
             AppendTask(b, ref, wellFormed)
      PROVE  CallsAlive'
  <2> DEFINE d == builders[b].owner
  <2>1. d \in Devices /\ devices[d] # Free /\ devices[d] \in DeviceObjects
    BY <1>9 DEF AppendTask, IsValidDevice, TypeOK, BuilderObjects
  <2>2. Follow(d, devices[d].table) /\ calls' = calls /\ UNCHANGED <<graphs, envelopes, arenas>>
    BY <1>9, <2>1 DEF AppendTask, TableAt
  <2>3. devices[d].table \in SUBSET (1..LastToken)
    BY <2>1 DEF DeviceObjects
  <2> HIDE DEF d
  <2>4. DevicesKept
    BY <2>1, <2>2, <2>3, <1>f
  <2> HIDE DEF DevicesKept, GraphsKept, EnvelopesKept
  <2> QED
    BY <2>2, <2>4, <1>a, <1>d, <1>e
<1>10. ASSUME NEW b \in Builders, NEW g \in Graphs, SealTaskGraph(b, g)
       PROVE  CallsAlive'
  <2>1. GraphsKept
    BY <1>10 DEF SealTaskGraph, TypeOK
  <2>2. calls' = calls /\ UNCHANGED <<devices, envelopes, arenas>>
    BY <1>10 DEF SealTaskGraph
  <2> HIDE DEF DevicesKept, GraphsKept, EnvelopesKept
  <2> QED
    BY <2>1, <2>2, <1>a, <1>c, <1>e
<1>11. ASSUME NEW g \in Graphs, DestroyTaskGraph(g)
       PROVE  CallsAlive'
  <2>1. GraphsKept
    BY <1>11 DEF DestroyTaskGraph, TypeOK
  <2>2. calls' = calls /\ UNCHANGED <<devices, envelopes, arenas>>
    BY <1>11 DEF DestroyTaskGraph
  <2> HIDE DEF DevicesKept, GraphsKept, EnvelopesKept
  <2> QED
    BY <2>1, <2>2, <1>a, <1>c, <1>e
<1>12. ASSUME NEW t \in Threads, NEW d \in Devices, NEW g \in Graphs, NEW e \in Envelopes,
              CheckSubmit(t, d, g, e)
       PROVE  CallsAlive'
  <2> DEFINE call == [at |-> IF graphs[g].published THEN "assembling" ELSE "publishing",
                      device |-> d, graph |-> g, envelope |-> e, resolved |-> 0]
  <2>1. call \in Submits
    BY DEF Submits
  <2>2. call.device = d /\ call.graph = g /\ call.envelope = e /\ call.resolved = 0
    OBVIOUS
  <2>3. Step(t, call) /\ ClientUnchanged /\ UNCHANGED graphs
    BY <1>12 DEF CheckSubmit
  <2> HIDE DEF call
  <2>4. Alive(call)
    BY <1>12, <2>2 DEF CheckSubmit, Alive
  <2> QED
    BY <2>1, <2>3, <2>4, AliveBeside
<1>13. ASSUME NEW t \in Threads, PublishGraph(t)
       PROVE  CallsAlive'
  <2>1. calls[t] \in Submits /\ calls[t] # Idle
    BY <1>13 DEF PublishGraph, TypeOK, Idle
  <2> DEFINE next == [calls[t] EXCEPT !.at = "assembling"]
             call == IF graphs[calls[t].graph].published THEN Idle ELSE next
  <2>2. /\ next \in Submits /\ next.device = calls[t].device /\ next.graph = calls[t].graph
        /\ next.envelope = calls[t].envelope /\ next.resolved = calls[t].resolved
    BY <2>1 DEF Submits
  <2>3. Step(t, call) /\ ClientUnchanged
    BY <1>13 DEF PublishGraph
  <2> HIDE DEF next
  <2>4. call \in Submits \cup {Idle} /\ (call # Idle => Alive(call))
    BY <2>1, <2>2 DEF CallsAlive, Alive
  <2>5. ASSUME NEW g \in Graphs, graphs[g] # Free
        PROVE  graphs'[g] # Free /\ graphs'[g].tasks = graphs[g].tasks
    <3>1. graphs[g] \in GraphObjects
      BY <2>5 DEF TypeOK
    <3> DEFINE graph == [graphs[g] EXCEPT !.published = TRUE]
    <3>2. graph \in GraphObjects /\ graph.tasks = graphs[g].tasks
      BY <3>1 DEF GraphObjects
    <3>3. graphs'[g] = graphs[g] \/ graphs'[g] = graph
      BY <1>13 DEF PublishGraph, TypeOK
    <3> HIDE DEF graph
    <3> QED
      BY <2>5, <3>2, <3>3, HandleAssumption
  <2> HIDE DEF call
  <2> QED
    BY <2>3, <2>4, <2>5, AliveBeside
<1>14. ASSUME NEW t \in Threads, ResolveNode(t)
       PROVE  CallsAlive'
  <2>1. calls[t] \in Submits /\ calls[t] # Idle /\ Alive(calls[t])
    BY <1>14 DEF ResolveNode, TypeOK, Idle, CallsAlive, Alive
  <2> DEFINE d == calls[t].device
             tasks == graphs[calls[t].graph].tasks
             i == calls[t].resolved + 1
             next == [calls[t] EXCEPT !.resolved = i, !.at = IF i = Len(tasks) THEN "running" ELSE @]
             found == i \in DOMAIN tasks /\ Snapshot(t, tasks[i])
                        /\ Authorizes(calls[t].envelope, tasks[i])
             call == IF found THEN next ELSE Idle
  <2>2. Step(t, call) /\ ClientUnchanged /\ UNCHANGED graphs
    BY <1>14 DEF ResolveNode
  <2>3. i \in Nat /\ d \in Devices /\ calls[t].graph \in Graphs
    BY <2>1 DEF Submits
  <2>4. ASSUME found
        PROVE  tasks[i].of = devices[d].id
    <3>1. devices[d] # Free /\ tasks[i].token \in devices[d].table /\ tasks[i] \in refs
      BY <2>1, <2>3, <2>4 DEF Alive, Snapshot, Contains, TableAt, TasksKnown
    <3>2. PICK n \in Nodes : nodes[n] # Free /\ nodes[n].ref.of = devices[d].id
                               /\ nodes[n].ref.token = tasks[i].token
      BY <2>3, <3>1 DEF TableIsExact
    <3>3. nodes[n].ref = tasks[i]
      BY <3>1, <3>2 DEF NodesOwned, Distinct
    <3> QED
      BY <3>2, <3>3
  <2>5. /\ next.device = d /\ next.graph = calls[t].graph /\ next.envelope = calls[t].envelope
        /\ next.resolved = i
    BY <2>1 DEF Submits
  <2>6. next \in Submits
    <3> HIDE DEF i
    <3> QED
      BY <2>1, <2>3 DEF Submits
  <2>7. ASSUME found
        PROVE  Alive(next)
    <3>1. \A j \in 1..i : j \in 1..calls[t].resolved \/ j = i
      BY <2>1, <2>3 DEF Submits
    <3>2. i \in DOMAIN tasks
      BY <2>7
    <3>3. tasks[i].of = devices[d].id
      BY <2>4, <2>7
    <3> HIDE DEF next, i, found
    <3> QED
      BY <2>1, <2>5, <3>1, <3>2, <3>3 DEF Alive
  <2> HIDE DEF next, found, i, d, tasks
  <2>8. call \in Submits \cup {Idle} /\ (call # Idle => Alive(call))
    BY <2>6, <2>7
  <2> HIDE DEF call
  <2> QED
    BY <2>2, <2>8, AliveBeside
<1>15. ASSUME NEW t \in Threads, Run(t)
       PROVE  CallsAlive'
  <2>1. Step(t, Idle) /\ ClientUnchanged /\ UNCHANGED graphs
    BY <1>15 DEF Run
  <2> QED
    BY <2>1, AliveBeside
<1>16. ASSUME UNCHANGED <<devices, graphs, envelopes, arenas, calls>>
       PROVE  CallsAlive'
  BY <1>16, <1>a, <1>c, <1>d, <1>e
<1> HIDE DEF DevicesKept, GraphsKept, EnvelopesKept
<1> QED
  <2>1. CASE Manage
    BY <1>1, <1>2, <1>3, <1>4, <1>5, <1>6, <1>7, <1>8, <1>16, <2>1
       DEF Manage, DestroyCodeObject, LoadCodeObject
  <2>2. CASE Build
    BY <1>9, <1>10, <1>11, <1>16, <2>2 DEF Build, DestroyBuilder, CreateBuilder
  <2>3. CASE \E t \in Threads : Submit(t)
    BY <1>12, <1>13, <1>14, <1>15, <2>3 DEF Submit
  <2>4. CASE UNCHANGED vars
    BY <1>16, <2>4 DEF vars, children
  <2> QED
    BY <2>1, <2>2, <2>3, <2>4 DEF Next

----------------------------------------------------------------------------
(* A step follows only addresses of objects. *)
LEMMA NoDanglingStep ==
  TypeOK /\ CallsAlive /\ NoDangling /\ [Next]_vars => NoDangling'
<1> SUFFICES ASSUME TypeOK, CallsAlive, NoDangling, [Next]_vars
             PROVE  NoDangling'
  OBVIOUS
<1>1. ASSUME NEW c \in CodeObjects, NEW n \in Nodes, CreateNode(c, n)
      PROVE  NoDangling'
  BY <1>1 DEF CreateNode, Follow, IsValidDevice, NoDangling
<1>2. ASSUME NEW n \in Nodes, DestroyNode(n)
      PROVE  NoDangling'
  BY <1>2 DEF DestroyNode, Follow, IsValidDevice, NoDangling
<1>3. ASSUME NEW b \in Builders, NEW ref \in refs, NEW wellFormed \in BOOLEAN,
             AppendTask(b, ref, wellFormed)
      PROVE  NoDangling'
  BY <1>3 DEF AppendTask, Follow, IsValidDevice, NoDangling
<1>4. ASSUME NEW t \in Threads, ResolveNode(t) \/ Run(t)
      PROVE  NoDangling'
  <2>1. calls[t] # Idle /\ FollowDeviceAndArena(t)
    BY <1>4 DEF ResolveNode, Run, Idle
  <2> QED
    BY <2>1 DEF FollowDeviceAndArena, CallsAlive, NoDangling
<1>5. ASSUME UNCHANGED dangling
      PROVE  NoDangling'
  BY <1>5 DEF NoDangling
<1> QED
  <2>1. CASE Manage
    BY <1>1, <1>2, <1>5, <2>1
       DEF Manage, CreateDevice, DestroyDevice, DestroyCodeObject, LoadCodeObject,
           DestroyArena, CreateArena, DestroyEnvelope, CreateEnvelope
  <2>2. CASE Build
    BY <1>3, <1>5, <2>2
       DEF Build, DestroyBuilder, CreateBuilder, SealTaskGraph, DestroyTaskGraph
  <2>3. CASE \E t \in Threads : Submit(t)
    BY <1>4, <1>5, <2>3 DEF Submit, CheckSubmit, PublishGraph
  <2>4. CASE UNCHANGED vars
    BY <1>5, <2>4 DEF vars
  <2> QED
    BY <2>1, <2>2, <2>3, <2>4 DEF Next

----------------------------------------------------------------------------
LEMMA HandleInvInit == Init => HandleInv
<1> SUFFICES ASSUME Init
             PROVE  HandleInv
  OBVIOUS
<1> USE HandleAssumption
<1>1. TypeOK
  <2>1. created \in 0..MaxDevices /\ nextToken \in 1..LastToken
    BY DEF Init
  <2>2. calls \in [Threads -> Submits \cup {Idle}]
    BY DEF Init
  <2> QED
    BY <2>1, <2>2 DEF Init, Nothing, TypeOK
<1>2. Distinct /\ NodesOwned /\ TableIsExact
  BY DEF Init, Nothing, Distinct, NodesOwned, TableIsExact
<1>3. TasksKnown /\ IdsCount /\ IdsNameTasks
  BY DEF Init, Nothing, TasksKnown, IdsCount, IdsNameTasks
<1>4. CallsAlive /\ NoDangling
  BY DEF Init, CallsAlive, NoDangling
<1> QED
  BY <1>1, <1>2, <1>3, <1>4 DEF HandleInv

LEMMA HandleInvStep == HandleInv /\ [Next]_vars => HandleInv'
BY TypeOKStep, TablesStep, TasksStep, CallsAliveStep, NoDanglingStep DEF HandleInv

LEMMA HandleInvariant == Spec => []HandleInv
BY HandleInvInit, HandleInvStep, PTL DEF Spec

(* No code object, node, builder, graph, envelope or submission ever makes *)
(* a call follow the address of a destroyed device or arena                *)
(* (the owner checks of vg_api_code.cpp and vg_api_taskgraph.cpp, and the  *)
(* caller contract of vg_api_internal.h:109-124 for submit).               *)
THEOREM NoDanglingHolds == Spec => []NoDangling
<1>1. HandleInv => NoDangling
  BY DEF HandleInv
<1> QED
  BY <1>1, HandleInvariant, PTL

(* A device's node table always holds just the nodes of its own node       *)
(* handles, however often its address was used before (node.cpp:40-48).    *)
THEOREM TableIsExactHolds == Spec => []TableIsExact
<1>1. HandleInv => TableIsExact
  BY DEF HandleInv
<1> QED
  BY <1>1, HandleInvariant, PTL

(* A submission runs only nodes of the device it was submitted to          *)
(* (execution_plan.cpp:1406-1420).                                         *)
THEOREM RunsOwnNodesHolds == Spec => []RunsOwnNodes
<1>1. HandleInv => RunsOwnNodes
  BY DEF HandleInv, CallsAlive, RunsOwnNodes
<1> QED
  BY <1>1, HandleInvariant, PTL

(* A task id names the task it was given out for, before and after the     *)
(* builder is sealed (vg_api_taskgraph.cpp:17-32).                         *)
THEOREM IdsNameTasksHold == Spec => []IdsNameTasks
<1>1. HandleInv => IdsNameTasks
  BY DEF HandleInv
<1> QED
  BY <1>1, HandleInvariant, PTL
=============================================================================
