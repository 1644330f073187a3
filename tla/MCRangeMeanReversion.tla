------------------------ MODULE MCRangeMeanReversion ------------------------
(* Model checking RangeMeanReversion: a live strategy with a cooldown.     *)
EXTENDS RangeMeanReversion

Live == {[live |-> TRUE, cooldown |-> 1]}
=============================================================================
