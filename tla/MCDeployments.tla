--------------------------- MODULE MCDeployments ---------------------------
(* Instances of Deployments for TLC.                                       *)
EXTENDS Deployments, TLC

Symmetry == Permutations(Deps) \cup Permutations(Calls)
OneOfEach == [m \in Modes |-> 1]
=============================================================================
