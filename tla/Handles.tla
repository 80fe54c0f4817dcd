------------------------------- MODULE Handles -------------------------------
(***************************************************************************)
(* The C ABI's handles and the node tables of its devices (src/src/api/,   *)
(* src/src/core/node.cpp).  A handle is the address of an object a         *)
(* registry owns; the allocator may give a destroyed object's address to   *)
(* the next object of its kind.  Children keep their device's address.     *)
(*                                                                         *)
(* The client keeps the contract of vg_api_internal.h:109-124: no destroy  *)
(* runs beside a call that reaches the same object; and a builder has one  *)
(* user.  The contract also asks that a parent outlive its children, but   *)
(* the calls check for it, and here a device may be destroyed before its   *)
(* children and an arena before the envelopes that name it.                *)
(* Under this contract only submit() needs steps: every other call touches *)
(* one registry or one table, under its lock, and otherwise objects that   *)
(* nobody destroys meanwhile.  Handles that the registries refuse change   *)
(* nothing and are no steps.                                               *)
(***************************************************************************)
EXTENDS Integers, Sequences, FiniteSets

CONSTANTS
  Devices, CodeObjects, Nodes, Builders, Graphs, Envelopes, Arenas,
              \* for each kind the addresses its objects can have
  Free,       \* no object at an address
  Threads,    \* the client's threads that submit
  MaxDevices, \* bound on the devices created
  LastToken,  \* the token nobody gets; UINT64_MAX in the code
  MaxTasks    \* the quota of a builder

VARIABLES
  devices,      \* g_devices, with each device's NodeTable
  codeObjects, nodes, builders, graphs, envelopes, arenas,
  created,      \* how many devices there have been
  nextToken,    \* g_next_node_token
  refs,         \* the NodeRefs the client has been given
  calls,        \* the submit each thread is in
  dangling      \* an address without an object has been followed

children == <<codeObjects, builders, graphs, envelopes, arenas>>
vars == <<devices, nodes, children, created, nextToken, refs, calls, dangling>>

(* A NodeRef is its token; of is the device on which it was created *)
NodeRefs == [token : 1..LastToken, of : 1..MaxDevices]
TaskIds == [id : Nat, ref : NodeRefs]

DeviceObjects == [id : 1..MaxDevices, table : SUBSET (1..LastToken)]
NodeObjects == [owner : Devices, ref : NodeRefs]
BuilderObjects == [owner : Devices, tasks : Seq(NodeRefs), nextId : Nat, ids : SUBSET TaskIds,
                   sealed : BOOLEAN]
GraphObjects == [owner : Devices, tasks : Seq(NodeRefs), ids : SUBSET TaskIds, published : BOOLEAN]
EnvelopeObjects == [owner : Devices, arena : Arenas, allowed : SUBSET NodeRefs]

Idle == [at |-> "idle"]
Submits == [at : {"publishing", "assembling", "running"}, device : Devices, graph : Graphs,
            envelope : Envelopes, resolved : Nat]

ASSUME HandleAssumption ==
  /\ MaxDevices \in Nat /\ LastToken \in Nat \ {0} /\ MaxTasks \in Nat
  /\ Free \notin DeviceObjects /\ Free \notin [owner : Devices] /\ Free \notin NodeObjects
  /\ Free \notin BuilderObjects /\ Free \notin GraphObjects /\ Free \notin EnvelopeObjects
  /\ Free # "arena"

Nothing(addresses) == [a \in addresses |-> Free]

Init ==
  /\ devices = Nothing(Devices) /\ created = 0
  /\ codeObjects = Nothing(CodeObjects) /\ nodes = Nothing(Nodes)
  /\ builders = Nothing(Builders) /\ graphs = Nothing(Graphs)
  /\ envelopes = Nothing(Envelopes) /\ arenas = Nothing(Arenas)
  /\ nextToken = 1 /\ refs = {}
  /\ calls = [t \in Threads |-> Idle]
  /\ dangling = FALSE

----------------------------------------------------------------------------
(* Devices and their node tables *)

(* Mutant: the address of the owner is taken for the owner *)
OwnerIsTrusted(d) == TRUE
IsValidDevice(d) == devices[d] # Free

(* What is found at the address of a device *)
IdAt(d) == IF devices[d] = Free THEN 0 ELSE devices[d].id
TableAt(d) == IF devices[d] = Free THEN {} ELSE devices[d].table

(* The address is followed, and the table there becomes another *)
Follow(d, table) ==
  /\ dangling' = (dangling \/ devices[d] = Free)
  /\ devices' = IF devices[d] = Free THEN devices ELSE [devices EXCEPT ![d].table = table]

Contains(d, ref) == ref.token \in TableAt(d)

(* Mutant: every table numbers its nodes by itself *)
TokenOfTable(d) == 1 + Cardinality({ref \in refs : ref.of = IdAt(d)})
TokenFor(d) == nextToken

CreateDevice(d) ==
  /\ devices[d] = Free
  /\ created < MaxDevices
  /\ created' = created + 1
  /\ devices' = [devices EXCEPT ![d] = [id |-> created + 1, table |-> {}]]
  /\ UNCHANGED <<nodes, children, nextToken, refs, calls, dangling>>

Reaches(t, field, a) == calls[t] # Idle /\ calls[t][field] = a

DestroyDevice(d) ==
  /\ devices[d] # Free
  /\ \A t \in Threads : ~Reaches(t, "device", d)
  /\ devices' = [devices EXCEPT ![d] = Free]
  /\ UNCHANGED <<nodes, children, created, nextToken, refs, calls, dangling>>

----------------------------------------------------------------------------
(* Code objects and nodes.  The table shares the program of a node with    *)
(* the code object, so that either may go first.                           *)

LoadCodeObject(d, c) ==
  /\ devices[d] # Free
  /\ codeObjects[c] = Free
  /\ codeObjects' = [codeObjects EXCEPT ![c] = [owner |-> d]]
  /\ UNCHANGED <<devices, nodes, builders, graphs, envelopes, arenas, created, nextToken,
                 refs, calls, dangling>>

DestroyCodeObject(c) ==
  /\ codeObjects[c] # Free
  /\ codeObjects' = [codeObjects EXCEPT ![c] = Free]
  /\ UNCHANGED <<devices, nodes, builders, graphs, envelopes, arenas, created, nextToken,
                 refs, calls, dangling>>

(* The client asks for the NodeRef at once *)
CreateNode(c, n) ==
  /\ codeObjects[c] # Free
  /\ nodes[n] = Free
  /\ IsValidDevice(codeObjects[c].owner)
  /\ nextToken < LastToken
  /\ LET d == codeObjects[c].owner
         ref == [token |-> TokenFor(d), of |-> IdAt(d)] IN
       /\ Follow(d, TableAt(d) \cup {ref.token})
       /\ nodes' = [nodes EXCEPT ![n] = [owner |-> d, ref |-> ref]]
       /\ refs' = refs \cup {ref}
  /\ nextToken' = nextToken + 1
  /\ UNCHANGED <<children, created, calls>>

DestroyNode(n) ==
  /\ nodes[n] # Free
  /\ IF IsValidDevice(nodes[n].owner)
       THEN Follow(nodes[n].owner, TableAt(nodes[n].owner) \ {nodes[n].ref.token})
       ELSE UNCHANGED <<devices, dangling>>
  /\ nodes' = [nodes EXCEPT ![n] = Free]
  /\ UNCHANGED <<children, created, nextToken, refs, calls>>

----------------------------------------------------------------------------
(* Builders and graphs *)

CreateBuilder(d, b) ==
  /\ devices[d] # Free
  /\ builders[b] = Free
  /\ builders' = [builders EXCEPT
       ![b] = [owner |-> d, tasks |-> <<>>, nextId |-> 0, ids |-> {}, sealed |-> FALSE]]
  /\ UNCHANGED <<devices, codeObjects, nodes, graphs, envelopes, arenas, created, nextToken,
                 refs, calls, dangling>>

DestroyBuilder(b) ==
  /\ builders[b] # Free
  /\ builders' = [builders EXCEPT ![b] = Free]
  /\ UNCHANGED <<devices, codeObjects, nodes, graphs, envelopes, arenas, created, nextToken,
                 refs, calls, dangling>>

(* TaskGraphBuilder::append; a malformed record is refused as well *)
Appendable(b, wellFormed) ==
  ~builders[b].sealed /\ wellFormed /\ Len(builders[b].tasks) < MaxTasks

(* Mutant: an id is taken for every record that is looked at *)
NextIdAlways(b, appended) == builders[b].nextId + 1
NextId(b, appended) == builders[b].nextId + (IF appended THEN 1 ELSE 0)

Appended(b, ref, appended) ==
  [builders[b] EXCEPT
     !.tasks = IF appended THEN Append(@, ref) ELSE @,
     !.ids = IF appended THEN @ \cup {[id |-> builders[b].nextId, ref |-> ref]} ELSE @,
     !.nextId = NextId(b, appended)]

(* One record of taskGraphAppend; the call stops at the first refused and  *)
(* keeps those before it.                                                  *)
AppendTask(b, ref, wellFormed) ==
  /\ builders[b] # Free
  /\ IsValidDevice(builders[b].owner)
  /\ Follow(builders[b].owner, TableAt(builders[b].owner))
  /\ Contains(builders[b].owner, ref)
  /\ builders' = [builders EXCEPT ![b] = Appended(b, ref, Appendable(b, wellFormed))]
  /\ UNCHANGED <<codeObjects, nodes, graphs, envelopes, arenas, created, nextToken, refs, calls>>

SealTaskGraph(b, g) ==
  /\ builders[b] # Free
  /\ graphs[g] = Free
  /\ IsValidDevice(builders[b].owner)
  /\ ~builders[b].sealed
  /\ builders' = [builders EXCEPT ![b].sealed = TRUE]
  /\ graphs' = [graphs EXCEPT ![g] = [owner |-> builders[b].owner, tasks |-> builders[b].tasks,
                                      ids |-> builders[b].ids, published |-> FALSE]]
  /\ UNCHANGED <<devices, codeObjects, nodes, envelopes, arenas, created, nextToken, refs,
                 calls, dangling>>

DestroyTaskGraph(g) ==
  /\ graphs[g] # Free
  /\ \A t \in Threads : ~Reaches(t, "graph", g)
  /\ graphs' = [graphs EXCEPT ![g] = Free]
  /\ UNCHANGED <<devices, codeObjects, nodes, builders, envelopes, arenas, created, nextToken,
                 refs, calls, dangling>>

----------------------------------------------------------------------------
(* Arenas and envelopes *)

CreateArena(d, a) ==
  /\ devices[d] # Free
  /\ arenas[a] = Free
  /\ arenas' = [arenas EXCEPT ![a] = "arena"]
  /\ UNCHANGED <<devices, codeObjects, nodes, builders, graphs, envelopes, created, nextToken,
                 refs, calls, dangling>>

DestroyArena(a) ==
  /\ arenas[a] # Free
  /\ \A t \in Threads : calls[t] # Idle => envelopes[calls[t].envelope].arena # a
  /\ arenas' = [arenas EXCEPT ![a] = Free]
  /\ UNCHANGED <<devices, codeObjects, nodes, builders, graphs, envelopes, created, nextToken,
                 refs, calls, dangling>>

CreateEnvelope(d, a, allowed, e) ==
  /\ devices[d] # Free
  /\ arenas[a] # Free
  /\ envelopes[e] = Free
  /\ \A ref \in allowed : Contains(d, ref)
  /\ envelopes' = [envelopes EXCEPT ![e] = [owner |-> d, arena |-> a, allowed |-> allowed]]
  /\ UNCHANGED <<devices, codeObjects, nodes, builders, graphs, arenas, created, nextToken,
                 refs, calls, dangling>>

DestroyEnvelope(e) ==
  /\ envelopes[e] # Free
  /\ \A t \in Threads : ~Reaches(t, "envelope", e)
  /\ envelopes' = [envelopes EXCEPT ![e] = Free]
  /\ UNCHANGED <<devices, codeObjects, nodes, builders, graphs, arenas, created, nextToken,
                 refs, calls, dangling>>

----------------------------------------------------------------------------
(* submit(): checks, publication, the nodes of the tasks one by one, and   *)
(* the device.  Threads submit at the same time, also the same graph.      *)

Step(t, call) == calls' = [calls EXCEPT ![t] = call]
ClientUnchanged == UNCHANGED <<devices, codeObjects, nodes, builders, envelopes, arenas, created,
                               nextToken, refs>>

CheckSubmit(t, d, g, e) ==
  /\ calls[t] = Idle
  /\ devices[d] # Free /\ graphs[g] # Free /\ envelopes[e] # Free
  /\ graphs[g].owner = d /\ envelopes[e].owner = d
  /\ arenas[envelopes[e].arena] # Free
  /\ Step(t, [at |-> IF graphs[g].published THEN "assembling" ELSE "publishing",
              device |-> d, graph |-> g, envelope |-> e, resolved |-> 0])
  /\ ClientUnchanged /\ UNCHANGED <<graphs, dangling>>

(* TaskGraph::publish(), without a lock; refused when it comes too late *)
PublishGraph(t) ==
  /\ calls[t].at = "publishing"
  /\ graphs' = [graphs EXCEPT ![calls[t].graph].published = TRUE]
  /\ Step(t, IF graphs[calls[t].graph].published THEN Idle ELSE [calls[t] EXCEPT !.at = "assembling"])
  /\ ClientUnchanged /\ UNCHANGED dangling

(* Mutant: assembly takes what the builder once found for granted *)
NoSnapshot(t, ref) == TRUE
Snapshot(t, ref) == Contains(calls[t].device, ref)

Authorizes(e, ref) == envelopes[e].allowed = {} \/ ref \in envelopes[e].allowed

(* Both are followed without a registry being asked *)
FollowDeviceAndArena(t) ==
  dangling' = (dangling \/ devices[calls[t].device] = Free
                        \/ arenas[envelopes[calls[t].envelope].arena] = Free)

(* A graph without tasks is refused here as well *)
ResolveNode(t) ==
  /\ calls[t].at = "assembling"
  /\ LET tasks == graphs[calls[t].graph].tasks
         i == calls[t].resolved + 1 IN
       Step(t, IF i \in DOMAIN tasks /\ Snapshot(t, tasks[i]) /\ Authorizes(calls[t].envelope, tasks[i])
                 THEN [calls[t] EXCEPT !.resolved = i,
                                       !.at = IF i = Len(tasks) THEN "running" ELSE @]
                 ELSE Idle)
  /\ FollowDeviceAndArena(t)
  /\ ClientUnchanged /\ UNCHANGED graphs

(* hal->compile and hal->submit, with whatever result *)
Run(t) ==
  /\ calls[t].at = "running"
  /\ Step(t, Idle)
  /\ FollowDeviceAndArena(t)
  /\ ClientUnchanged /\ UNCHANGED graphs

----------------------------------------------------------------------------
Manage ==
  \/ \E d \in Devices : CreateDevice(d) \/ DestroyDevice(d)
  \/ \E c \in CodeObjects : DestroyCodeObject(c) \/ \E d \in Devices : LoadCodeObject(d, c)
  \/ \E n \in Nodes : DestroyNode(n) \/ \E c \in CodeObjects : CreateNode(c, n)
  \/ \E a \in Arenas : DestroyArena(a) \/ \E d \in Devices : CreateArena(d, a)
  \/ \E e \in Envelopes : \/ DestroyEnvelope(e)
                          \/ \E d \in Devices, a \in Arenas, allowed \in SUBSET refs :
                               CreateEnvelope(d, a, allowed, e)

Build ==
  \/ \E b \in Builders :
       \/ DestroyBuilder(b)
       \/ \E d \in Devices : CreateBuilder(d, b)
       \/ \E ref \in refs, wellFormed \in BOOLEAN : AppendTask(b, ref, wellFormed)
       \/ \E g \in Graphs : SealTaskGraph(b, g)
  \/ \E g \in Graphs : DestroyTaskGraph(g)

Submit(t) ==
  \/ \E d \in Devices, g \in Graphs, e \in Envelopes : CheckSubmit(t, d, g, e)
  \/ PublishGraph(t)
  \/ ResolveNode(t)
  \/ Run(t)

Next == Manage \/ Build \/ \E t \in Threads : Submit(t)

Spec == Init /\ [][Next]_vars

----------------------------------------------------------------------------
(* No call follows the address of a device or an arena that has been       *)
(* destroyed, although code objects, nodes, builders, graphs and envelopes *)
(* outlive their device and are destroyed after it in any order            *)
(* (vg_api_internal.h:16-29, the owner checks of vg_api_code.cpp and       *)
(* vg_api_taskgraph.cpp).                                                  *)
NoDangling == ~dangling

(* The table of a device holds the node of every node handle created on    *)
(* it that is not yet destroyed, and nothing else: destroying a node of a  *)
(* dead device whose address a new device got takes away nothing of the    *)
(* new one's (NodeTable::destroy looks a token up, node.cpp).              *)
TableIsExact == \A d \in Devices : devices[d] # Free =>
  devices[d].table = {nodes[n].ref.token : n \in {n \in Nodes :
                        nodes[n] # Free /\ nodes[n].ref.of = devices[d].id}}

(* What a submission has resolved are nodes of the very device it runs on, *)
(* never those of an earlier device at the same address with which graph   *)
(* and envelope were made (the snapshots of TaskGraphAssembler::assemble). *)
RunsOwnNodes == \A t \in Threads :
  calls[t] # Idle =>
    \A i \in 1..calls[t].resolved :
      graphs[calls[t].graph].tasks[i].of = devices[calls[t].device].id

(* An id taskGraphAppend or taskGraphAppendV2 hands out names the task it  *)
(* was handed out for, in the builder and in the graph sealed from it,     *)
(* also after batches that were refused half way                           *)
(* (vg_api_taskgraph.cpp:17-32).                                           *)
IdsNameTasks == \A g \in {builders[b] : b \in Builders} \cup {graphs[g] : g \in Graphs} :
  g # Free => \A given \in g.ids :
    given.id + 1 \in DOMAIN g.tasks /\ g.tasks[given.id + 1] = given.ref
=============================================================================
