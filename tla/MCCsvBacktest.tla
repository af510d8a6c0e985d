---------------------------- MODULE MCCsvBacktest ----------------------------
(* Instances of CsvBacktest for TLC.                                       *)
EXTENDS CsvBacktest, TLC

(* Some averages of fills at these prices are whole numbers, others not.   *)
NoneLowHigh == {0, 2500, 5000}

(* A file may say what makes no sense.                                     *)
Some == {-1, 0, 1, 2}

(* Nothing to trade with; one expensive fill and a cheap one; fees; a      *)
(* commission that is paid out and a slippage that turns prices round.     *)
SomeConfigs ==
    {[capital |-> 0, slippage |-> 10, commission |-> 10],
     [capital |-> 10400, slippage |-> 0, commission |-> 0],
     [capital |-> 10400, slippage |-> 10, commission |-> 10],
     [capital |-> -100, slippage |-> 200, commission |-> -10]}

Symmetry == Permutations(Symbols)
=============================================================================
