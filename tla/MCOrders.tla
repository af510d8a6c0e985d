------------------------------ MODULE MCOrders ------------------------------
(* Model-checking instances of Orders.                                     *)
EXTENDS Orders, TLC

Symmetry == Permutations(Orders) \cup Permutations(Slots)

Setting(m, b, p, s, e) ==
    [mode |-> m, broker |-> b, product |-> p, policy |-> s, env |-> e]

(* Both brokers and both products under every fault, a strategy that buys  *)
(* once, paper trading, and a strategy that looks at its position.         *)
AllSettings ==
    {Setting("live", "exchange1", "FUTURES", "any", {"reject", "lost"}),
     Setting("live", "binance", "SPOT", "any", {"reject", "lost"}),
     Setting("live", "exchange1", "SPOT", "once", Events),
     Setting("paper", "binance", "SPOT", "once", {"crash", "rollback"}),
     Setting("live", "binance", "SPOT", "position", {})}
=============================================================================
