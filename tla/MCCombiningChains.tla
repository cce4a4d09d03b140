------------------------- MODULE MCCombiningChains -------------------------
(* Instances of CombiningChains for TLC. *)
EXTENDS CombiningChains

AllKinds == {"stuff", "refine", "map_reduce", "map_rerank", "constitutional"}
FewScores == {-1, 0, 1}
==============================================================================
