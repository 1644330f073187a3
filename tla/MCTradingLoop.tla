---------------------------- MODULE MCTradingLoop ----------------------------
(* Model checking TradingLoop, with the sides given in the configuration.  *)
EXTENDS TradingLoop

MCLong == {1}
=============================================================================
