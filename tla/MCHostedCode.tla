----------------------------- MODULE MCHostedCode -----------------------------
(* Instances of HostedCode for TLC.                                        *)
EXTENDS HostedCode, TLC

Symmetry == Permutations(Clients) \cup Permutations(Deployments)
=============================================================================
