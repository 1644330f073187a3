------------------------------ MODULE MCMoney -------------------------------
(* Model checking the components that move money: what may stop a strategy *)
(* or forbid an order, the orders themselves, and what is accounted for.   *)
(* Their behaviours do not touch one another here, so that a behaviour is  *)
(* one of one component, named by part, and the variables of the others    *)
(* rest at their initial values.                                           *)
EXTENDS Integers, FiniteSets, Sequences, TLC

CONSTANTS
    Strategies, Three, Account, Runners, Positions, Exits, Calls, Loops, None,
    loop1, stream1, manual2, exit1, exit2,
    Side,                                           \* of manual positions
    Threshold, Cooldown,                            \* of the risk breaker
    EntryQty, Named, ExitQty, ExitOf, External,     \* of completed trades
    ExposureLimit, Estimate,
    AccountLimits, Configs, Balance, Gains,         \* of the loss limits
    Prices, Quantities, Rate,                       \* of matched trades, and their fees
    ReadLimit, Kept,                                \* trades that a reader asks for, or Redis keeps
    MaxPositions, MaxEvents,                        \* bounds: see Protection, ManualTrading
    MaxChecks, MaxRiskEvents,                       \* bounds: see RiskPause
    MaxFills, MaxOrders, MaxClosed                  \* bounds: see FifoMatching, TradeRows, RiskLimits

VARIABLES
    part,                                           \* the component this behaviour is of
    riskRow, riskLoop, placing, breaker, riskEvents, streak, checks, blocked,
    resting,
    saved, matched, entryLock, exitLock, at, todo, remaining, unmatched, cut,
    position, opened, held, orders, ids, placed, loop, stopper,
    paper, amount, row, stops, call, events, last,
    ordering, exposed, reservation,
    db, mem, tasks, task, req, first, restarts,
    minute, executor, recent, sent, attempt, accepted,
    trades, memory, batch, turn, leftover, queue, fees, positions,
    executed, saving, noticed, closing, tradeRows, completed, cache, old,
    shown,
    limited, own, clock, realized, openings, looping, allowed, pausing, closed

riskVars ==
    <<riskRow, riskLoop, placing, breaker, riskEvents, streak, checks,
    blocked, resting>>
tradeVars ==
    <<saved, matched, entryLock, exitLock, at, todo, remaining, unmatched,
    cut>>
protectionVars == <<position, opened, held, orders, ids, placed, loop, stopper>>
manualVars == <<paper, amount, row, stops, call, events, last>>
exposureVars == <<ordering, exposed, reservation>>
loopVars == <<db, mem, tasks, task, req, first, restarts>>
orderVars == <<minute, executor, recent, sent, attempt, accepted>>
matchingVars == <<trades, memory, batch, turn, leftover, queue, fees, positions>>
rowVars ==
    <<executed, saving, noticed, closing, tradeRows, completed, cache, old,
    shown>>
limitVars ==
    <<limited, own, clock, realized, openings, looping, allowed, pausing,
    closed>>
vars ==
    <<part, riskVars, tradeVars, protectionVars, manualVars, exposureVars,
    loopVars, orderVars, matchingVars, rowVars, limitVars>>

-----------------------------------------------------------------------------
Risk == INSTANCE RiskPause WITH
    row <- riskRow, loop <- riskLoop, events <- riskEvents, MaxEvents <- MaxRiskEvents

(* Two entries of the position and two exits that share the second entry;  *)
(* one exit has two calls, of which one is for a close noticed outside.  A *)
(* third entry has no position.                                            *)
MCEntryQty == <<2, 2, 2>>
MCExitQty == exit1 :> 3 @@ exit2 :> 1
MCExitOf == loop1 :> exit1 @@ stream1 :> exit1 @@ manual2 :> exit2
MCExternal == {stream1}

Trades == INSTANCE CompletedTrades WITH left <- unmatched, Free <- None

(* The account is a real one.                                              *)
Guard == INSTANCE Protection WITH Algo <- TRUE

Manual == INSTANCE ManualTrading WITH Calls <- Runners

(* Three strategies of two units each under a limit of four.               *)
MCEstimate == [s \in Three |-> 2]

Portfolio == INSTANCE Exposure WITH
    Strategies <- Three, position <- exposed, Limit <- ExposureLimit

(* Two strategies of one symbol and requests that come one at a time.      *)
Serial == INSTANCE StrategyLifecycle WITH
    Symbol <- [s \in Strategies |-> "BTCUSDT"], Requests <- {loop1},
    Ops <- {"start", "stop", "delete", "pause"}, Tasks <- Loops,
    MaxConcurrent <- 2, MaxRestarts <- 1

(* Two threads of a strategy with one signal, within a minute and after it. *)
Orders == INSTANCE OrderExecution WITH
    orders <- sent, call <- attempt, Calls <- Runners, Signals <- {"signal"},
    MaxMinute <- 1, MaxExecutors <- 1

(* Prices and quantities by which an entry is used up in one, two or three *)
(* exits, at a fee that divides by every rest.                             *)
MCQuantities == 1..3
Fifo == INSTANCE FifoMatching WITH MaxTrades <- MaxFills

Recorded == INSTANCE TradeRows WITH
    rows <- tradeRows, Limit <- ReadLimit

(* Limits in money on the day and in percent on the week, own ones that    *)
(* tighten or replace them.                                                *)
Lim(usdt, percent) == [usdt |-> usdt, pct |-> percent]
MCAccountLimits == {[day |-> Lim(3, 0), week |-> Lim(0, 3)]}
MCConfigs == {
    [mode |-> "restrictive", limits |-> [day |-> Lim(1, 0), week |-> Lim(0, 0)], reset |-> TRUE],
    [mode |-> "override", limits |-> [day |-> Lim(0, 0), week |-> Lim(0, 1)], reset |-> FALSE]}
MCGains == {-2, 1}

Limits == INSTANCE RiskLimits WITH
    account <- limited, config <- own, open <- openings, ordering <- allowed,
    MaxTrades <- MaxClosed

Symmetry ==
    Permutations(Runners) \cup Permutations(Strategies) \cup Permutations(Positions)

ASSUME ConstantsAssumption ==
    /\ Risk!ConstantsOK /\ Trades!ConstantsOK /\ Guard!ConstantsOK /\ Manual!ConstantsOK
    /\ Portfolio!ConstantsOK /\ Orders!ConstantsOK /\ Fifo!ConstantsOK /\ Recorded!ConstantsOK
    /\ Limits!ConstantsOK
    /\ IsFiniteSet(Strategies) /\ IsFiniteSet(Three) /\ None \notin Loops

-----------------------------------------------------------------------------
Init ==
    /\ part \in {
        "risk", "trades", "protection", "manual", "portfolio", "serial",
        "orders", "matching", "rows", "limits"}
    /\ Risk!Init /\ Trades!Init /\ Guard!Init /\ Manual!Init /\ Portfolio!Init
    /\ Serial!Init /\ Orders!Init /\ Fifo!Init /\ Recorded!Init /\ Limits!Init
    /\ part # "serial" => \A s \in Strategies : mem[s] = "absent"
    /\ part # "manual" => ~paper
    /\ part # "limits" => \A s \in Strategies : own[s] = None

RiskNext ==
    /\ part = "risk" /\ Risk!Next
    /\ UNCHANGED
        <<part, tradeVars, protectionVars, manualVars, exposureVars, loopVars,
        orderVars, matchingVars, rowVars, limitVars>>

TradesNext ==
    /\ part = "trades" /\ Trades!Next
    /\ UNCHANGED
        <<part, riskVars, protectionVars, manualVars, exposureVars, loopVars,
        orderVars, matchingVars, rowVars, limitVars>>

ProtectionNext ==
    /\ part = "protection" /\ Guard!Next
    /\ UNCHANGED
        <<part, riskVars, tradeVars, manualVars, exposureVars, loopVars,
        orderVars, matchingVars, rowVars, limitVars>>

ManualNext ==
    /\ part = "manual" /\ Manual!Next
    /\ UNCHANGED
        <<part, riskVars, tradeVars, protectionVars, exposureVars, loopVars,
        orderVars, matchingVars, rowVars, limitVars>>

PortfolioNext ==
    /\ part = "portfolio" /\ Portfolio!Next
    /\ UNCHANGED
        <<part, riskVars, tradeVars, protectionVars, manualVars, loopVars,
        orderVars, matchingVars, rowVars, limitVars>>

SerialNext ==
    /\ part = "serial" /\ Serial!Next
    /\ UNCHANGED
        <<part, riskVars, tradeVars, protectionVars, manualVars, exposureVars,
        orderVars, matchingVars, rowVars, limitVars>>

OrdersNext ==
    /\ part = "orders" /\ Orders!Next
    /\ UNCHANGED
        <<part, riskVars, tradeVars, protectionVars, manualVars, exposureVars,
        loopVars, matchingVars, rowVars, limitVars>>

MatchingNext ==
    /\ part = "matching" /\ Fifo!Next
    /\ UNCHANGED
        <<part, riskVars, tradeVars, protectionVars, manualVars, exposureVars,
        loopVars, orderVars, rowVars, limitVars>>

RowsNext ==
    /\ part = "rows" /\ Recorded!Next
    /\ UNCHANGED
        <<part, riskVars, tradeVars, protectionVars, manualVars, exposureVars,
        loopVars, orderVars, matchingVars, limitVars>>

LimitsNext ==
    /\ part = "limits" /\ Limits!Next
    /\ UNCHANGED
        <<part, riskVars, tradeVars, protectionVars, manualVars, exposureVars,
        loopVars, orderVars, matchingVars, rowVars>>

Next ==
    \/ RiskNext \/ TradesNext \/ ProtectionNext \/ ManualNext
    \/ PortfolioNext \/ SerialNext \/ OrdersNext \/ MatchingNext
    \/ RowsNext \/ LimitsNext

Spec == Init /\ [][Next]_vars

-----------------------------------------------------------------------------
(* The properties of the components.                                       *)

\* Every component keeps its variables within their types.
TypesOK ==
    /\ part = "risk" => Risk!TypeOK
    /\ part = "trades" => Trades!TypeOK
    /\ part = "protection" => Guard!TypeOK
    /\ part = "manual" => Manual!TypeOK
    /\ part = "portfolio" => Portfolio!TypeOK
    /\ part = "serial" => Serial!TypeOK
    /\ part = "orders" => Orders!TypeOK
    /\ part = "matching" => Fifo!TypeOK
    /\ part = "rows" => Recorded!TypeOK
    /\ part = "limits" => Limits!TypeOK

\* RiskPause: a strategy stays blocked after its losses, in whatever runner and
\* after a crash, and after a rapid loss none of the account goes on.
RiskStops == Risk!StaysBlocked /\ []Risk!AccountRests

\* CompletedTrades: no quantity is accounted for twice, and an exit none of whose
\* calls ended early is matched in full.
AccountedOnce == Trades!WithinQuantities /\ Trades!MatchedInFull

\* FifoMatching: every unit is matched once and its gain is what was paid.
TradesMatched == Fifo!EveryUnitOnce /\ Fifo!GainsAreCash /\ Fifo!FeesAsPaid

\* TradeRows: row and completed trade tell one reason, and readers miss nothing.
TradesRecorded == Recorded!ReasonsAgree /\ Recorded!NothingHidden

\* ManualTrading: but for openings that were not saved, the rows tell of all that is
\* open on the exchange.
NothingForgotten == Manual!NothingForgotten

\* Exposure: positions and the orders on their way stay within the limit.
\* RiskLimits: no order goes out that the realized losses forbid.
LimitsKept == []Portfolio!WithinLimit /\ Limits!LimitsRespected

\* StrategyLifecycle: as long as requests come one at a time a loop that trades has
\* a row that says so, and its symbol for itself.
RowsTellLoops == Serial!LiveHasRunningRow /\ Serial!SymbolExclusive

\* OrderExecution: an order is taken once a minute, and the answer is true.
OrderOnce == Orders!OncePerMinute /\ Orders!AnswersTrue
=============================================================================
