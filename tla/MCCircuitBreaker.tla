-------------------------- MODULE MCCircuitBreaker --------------------------
(* Model checking CircuitBreaker: four threads, so that a probe, a refused *)
(* probe and two calls from before the half-open period can be in flight   *)
(* together; both thresholds are 2, the code's own success_threshold.      *)
EXTENDS CircuitBreaker

MCFailureThreshold == 2
MCSuccessThreshold == 2
=============================================================================
