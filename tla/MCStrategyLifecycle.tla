------------------------- MODULE MCStrategyLifecycle -------------------------
(* Model checking StrategyLifecycle.  The strategies trade one symbol, so  *)
(* that they can conflict.                                                 *)
EXTENDS StrategyLifecycle, TLC

MCOneSymbol == [s \in Strategies |-> "BTCUSDT"]

MCSymmetry == Permutations(Requests) \cup Permutations(Tasks) \cup Permutations(Strategies)
=============================================================================
