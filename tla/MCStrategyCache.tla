--------------------------- MODULE MCStrategyCache ---------------------------
(* Instances of StrategyCache for TLC.                                     *)
EXTENDS StrategyCache, TLC

Symmetry == Permutations(Strategies) \cup Permutations(Editors) \cup Permutations(Hooks)
=============================================================================
