------------------------------- MODULE Traders -------------------------------
(***************************************************************************)
(* What the strategy runner promises of the trading loops, whatever its    *)
(* registry, rows and requests do (app/services/strategy_runner.py): a     *)
(* strategy has one loop at most, max_concurrent of them trade at once,    *)
(* loops begin one at a time, and one that has ended or lost its strategy  *)
(* does not trade again.  StrategyLifecycle implements this.               *)
(***************************************************************************)
EXTENDS Integers, FiniteSets

CONSTANTS
    Strategies,
    Tasks,          \* identities of loops, which may be given out again
    MaxConcurrent   \* max_concurrent

VARIABLE trading    \* the loops that trade, each with its strategy

TypeOK == trading \subseteq Strategies \X Tasks

Init == trading = {}

(* The loop is a new one and its strategy has none.                        *)
Begin(s, t) ==
    /\ Cardinality(trading) < MaxConcurrent
    /\ \A pair \in trading : pair[1] # s /\ pair[2] # t
    /\ trading' = trading \cup {<<s, t>>}

(* Some stop trading, all of them when the server goes down.               *)
End ==
    /\ trading # {}
    /\ \E rest \in SUBSET trading : rest # trading /\ trading' = rest

Next == (\E s \in Strategies, t \in Tasks : Begin(s, t)) \/ End

Spec == Init /\ [][Next]_trading
=============================================================================
