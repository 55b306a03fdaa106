---------------------------- MODULE MCAlertQueue ----------------------------
(* Instances of AlertQueue: two incidents, whose details may or may not be  *)
(* selected by the rules.                                                   *)
EXTENDS AlertQueue, TLC

CONSTANTS e1, e2, near, changed, far

MCPair     == {e1, e2}
MCDetails  == {near, changed, far}
MCRelevant == {near, changed}

PairSymmetry == Permutations(MCPair)
=============================================================================
