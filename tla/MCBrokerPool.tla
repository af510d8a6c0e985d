---------------------------- MODULE MCBrokerPool ----------------------------
(* Instances of BrokerPool for TLC.                                        *)
EXTENDS BrokerPool, TLC

TaskSymmetry == Permutations(Tasks)
=============================================================================
