------------------------ MODULE MCSubmissionLifetime ------------------------
(* Small instances of SubmissionLifetime for TLC.                          *)
EXTENDS SubmissionLifetime, TLC

(* No replay into this arena.                                              *)
MCNoImports == {}

(* A replay that brings back a generation-2 allocation, live or retired.   *)
MCImports ==
  {[allocation |-> 2, generation |-> 2, representation_epoch |-> 1, state |-> state] :
     state \in {"Active", "Retired"}}

MCSymmetry == Permutations(Holds) \cup Permutations(Scopes)
=============================================================================
