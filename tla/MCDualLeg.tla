----------------------------- MODULE MCDualLeg -----------------------------
(* Model-checking instances of DualLeg.                                    *)
EXTENDS DualLeg, TLC

SlotSymmetry == Permutations(Slots)

Setting(n, h, s, e) == [maxTrades |-> n, hours |-> h, serial |-> s, env |-> e]

(* Benign settings, concurrent signals with a reliable booking, and        *)
(* everything at once.                                                     *)
AllSettings ==
    {Setting(0, FALSE, TRUE, {"reject", "external"}),
     Setting(2, TRUE, FALSE, {"timeout", "midnight", "crash", "limit"}),
     Setting(1, FALSE, FALSE, Events)}

(* One signal at a time, a limit of one trade, no fault.                   *)
OneTrade == {Setting(1, FALSE, TRUE, {})}
=============================================================================
