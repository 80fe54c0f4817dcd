---------------------------- MODULE MCTaskGraph ----------------------------
(* Programs over two regions; the last is raster with the depth region D.  *)
EXTENDS TaskGraph

CONSTANTS A, D, Token

Reads(region) == [region |-> region, access |-> "Read"]
Program(effects) == [effects |-> effects, depth |-> NoDepth]

MCPrograms ==
  {Program({Writes(A)}), Program({Reads(A)}),
   [effects |-> {Reads(A), Writes(D)}, depth |-> Token]}

MCDeclaredEffects == {Writes(A)}
MCOperations == {A}
=============================================================================
