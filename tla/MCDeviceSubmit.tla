--------------------------- MODULE MCDeviceSubmit ---------------------------
(* Plans over two regions.  The orders are written out, and checked to be  *)
(* those the operators of ExecutionSchedule seal.                          *)
EXTENDS DeviceSubmit

S == INSTANCE ExecutionSchedule

CONSTANTS A, B

Reads(region) == [region |-> region, access |-> "Read"]
Writes(region) == [region |-> region, access |-> "Write"]
NoQuota == 9

(* Two chains, one after the other: compute writes A, compute reads it;    *)
(* raster writes B, compute reads it                                       *)
TwoChains ==
  [tasks |-> 0 .. 3, raster |-> {1},
   effects |-> (0 :> {Writes(A)} @@ 1 :> {Writes(B)} @@ 2 :> {Reads(A)} @@ 3 :> {Reads(B)}),
   below |-> (0 :> {2} @@ 1 :> {3} @@ 2 :> {} @@ 3 :> {}),
   order |-> <<0, 1, 2, 3>>, steps |-> <<0, 2, 1, 3>>,
   quota |-> NoQuota, wait |-> 0, signal |-> 0]

(* One chain through both domains *)
Chain ==
  [tasks |-> 0 .. 2, raster |-> {1},
   effects |-> (0 :> {Writes(A)} @@ 1 :> {Reads(A), Writes(B)} @@ 2 :> {Reads(B), Writes(A)}),
   below |-> (0 :> {1, 2} @@ 1 :> {2} @@ 2 :> {}),
   order |-> <<0, 1, 2>>, steps |-> <<0, 1, 2>>,
   quota |-> NoQuota, wait |-> 0, signal |-> 0]

(* A raster task that draws over what was computed *)
DrawOver ==
  [tasks |-> 0 .. 2, raster |-> {2},
   effects |-> (0 :> {Writes(A)} @@ 1 :> {Reads(A), Writes(B)} @@ 2 :> {Writes(A)}),
   below |-> (0 :> {1, 2} @@ 1 :> {2} @@ 2 :> {}),
   order |-> <<0, 1, 2>>, steps |-> <<0, 1, 2>>,
   quota |-> NoQuota, wait |-> 0, signal |-> 0]

(* Two compute tasks with nothing in common *)
Pair ==
  [tasks |-> 0 .. 1, raster |-> {},
   effects |-> (0 :> {Writes(A)} @@ 1 :> {Writes(B)}),
   below |-> (0 :> {} @@ 1 :> {}),
   order |-> <<0, 1>>, steps |-> <<0, 1>>,
   quota |-> NoQuota, wait |-> 0, signal |-> 0]

(* A raster task first *)
DrawFirst ==
  [tasks |-> 0 .. 1, raster |-> {0},
   effects |-> (0 :> {Writes(A)} @@ 1 :> {Reads(A)}),
   below |-> (0 :> {1} @@ 1 :> {}),
   order |-> <<0, 1>>, steps |-> <<0, 1>>,
   quota |-> NoQuota, wait |-> 0, signal |-> 0]

ASSUME ShapesAreSealed ==
  \A p \in {TwoChains, Chain, DrawOver, Pair, DrawFirst} :
    LET n == Cardinality(p.tasks)
        edges == S!SealedEdges(n, {}, p.effects)
        schedule == S!Schedule(n, edges, {}, p.effects)
    IN  /\ p.order = schedule.order
        /\ p.steps = S!Steps(schedule.components)
        /\ \A t \in p.tasks : p.below[t] = {u \in p.tasks \ {t} : <<t, u>> \in S!Reaches(n, edges)}

With(shape, quota, wait, signal) ==
  [shape EXCEPT !.quota = quota, !.wait = wait, !.signal = signal]

MCPlans ==
  {With(TwoChains, NoQuota, 0, 1), With(TwoChains, 2, 1, 2),
   With(Chain, NoQuota, 1, 2), With(Chain, 3, 0, 0), With(Chain, 1, 0, 0),
   With(DrawOver, 1, 0, 0), With(DrawOver, NoQuota, 0, 1),
   With(Pair, 0, 1, 0), With(DrawFirst, NoQuota, 1, 0)}
=============================================================================
