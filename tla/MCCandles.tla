----------------------------- MODULE MCCandles -----------------------------
(* Instances of Candles for TLC.                                           *)
EXTENDS Candles

(* One page and a part, one page and the end date, no page, a late start.  *)
SomeRanges == {<<1, 4>>, <<1, 3>>, <<3, 3>>, <<2, 4>>}
=============================================================================
