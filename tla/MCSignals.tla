----------------------------- MODULE MCSignals -----------------------------
(* Instances of Signals for TLC.                                           *)
EXTENDS Signals, TLC

CONSTANTS live, paper

LiveAndPaper == live :> "live" @@ paper :> "paper"
OnlyPaper == live :> 0 @@ paper :> 1
OnlyLive == live :> 1 @@ paper :> 0
HookSymmetry == Permutations(Hooks)
=============================================================================
