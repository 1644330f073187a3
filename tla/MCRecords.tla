----------------------------- MODULE MCRecords ------------------------------
(* Model checking the components that decide, simulate, record and tell:   *)
(* strategies, paper accounts, backtests and analyses, clients, messages.   *)
(* Their behaviours do not touch one another here, so that a behaviour is  *)
(* one of one component, named by part, and the variables of the others    *)
(* rest at their initial values.                                           *)
EXTENDS Integers, FiniteSets, Sequences, TLC

CONSTANTS
    Studied, Env, None,
    Analyzed, Owners, Reader, PageLimit,            \* of the rows of analyses
    RowThreads, MaxVersion                          \* of the rows of strategies; bound

VARIABLES
    part,                                           \* the component this behaviour is of
    params, st, actual, left, taken,
    candle, believed, rest, trade, balance, booked, leftAt, refused,
    existing, mainnet, got, start, chunks, state, skipped,
    status, flag, kind, config, phase, number, combo, best, top,
    side, entry, managed, bestPrice, activated, tp, sl, reinits,
    net, funds, persisting, kept, paperRow, fills, clients, fees, cash, torn,
    use, ranging, account, gaveUp, waited, reboots,
    alertRows, step, loaded, pushes, told, quoted, mixed,
    accountRows, creating, used, accountClients, known, loader, handed, behind,
    serviceUp, lastState, since, heard, missed, hushed,
    updates, undelivered, offset, batch, busy, carried, raised, cleared, boots,
    job, archived, created, details, halved, page,
    summaryRow, version, cached, thread, has, stale

scalpingVars == <<params, st, actual, left, taken>>
backtestVars ==
    <<candle, believed, rest, trade, balance, booked, leftAt, refused>>
pageVars == <<existing, mainnet, got, start, chunks, state, skipped>>
analysisVars == <<status, flag, kind, config, phase, number, combo, best, top>>
trailingVars == <<side, entry, managed, bestPrice, activated, tp, sl, reinits>>
paperVars ==
    <<net, funds, persisting, kept, paperRow, fills, clients, fees, cash,
    torn>>
rangeVars == <<use, ranging, account, gaveUp, waited, reboots>>
alertVars == <<alertRows, step, loaded, pushes, told, quoted, mixed>>
clientVars ==
    <<accountRows, creating, used, accountClients, known, loader, handed,
    behind>>
monitorVars == <<serviceUp, lastState, since, heard, missed, hushed>>
commandVars ==
    <<updates, undelivered, offset, batch, busy, carried, raised, cleared,
    boots>>
analysisRowVars == <<job, archived, created, details, halved, page>>
strategyRowVars == <<summaryRow, version, cached, thread, has, stale>>
vars ==
    <<part, scalpingVars, backtestVars, pageVars, analysisVars, trailingVars,
    paperVars, rangeVars, alertVars, clientVars, monitorVars, commandVars,
    analysisRowVars, strategyRowVars>>

-----------------------------------------------------------------------------
(* A strategy of each mode: entries on crosses, with follow-ups, and with  *)
(* the averages.                                                           *)
Params == {
    [mode |-> "cross_only", trailing |-> FALSE, crossExit |-> TRUE,
     unlimited |-> FALSE, separate |-> TRUE],
    [mode |-> "cross_or_trend", trailing |-> TRUE, crossExit |-> TRUE,
     unlimited |-> TRUE, separate |-> FALSE],
    [mode |-> "cross_or_trend", trailing |-> FALSE, crossExit |-> FALSE,
     unlimited |-> FALSE, separate |-> TRUE],
    [mode |-> "ema_alignment", trailing |-> FALSE, crossExit |-> TRUE,
     unlimited |-> FALSE, separate |-> TRUE]}

Classic == INSTANCE Scalping WITH
    Side <- [golden |-> "LONG", death |-> "SHORT"], Biased <- {"SHORT"},
    EnableShort <- TRUE, Cooldown <- 1, Window <- 2, PerRegime <- 1, MaxCandle <- 5

Reverse == INSTANCE ReverseScalping WITH
    EnableShort <- TRUE, Cooldown <- 1, Window <- 2, PerRegime <- 1, MaxCandle <- 5

Simulated == INSTANCE Backtest WITH
    Initial <- 2, Fee <- 1, Gains <- {-1, 2}, Cooldown <- 1, Last <- 6

Pages == INSTANCE HistoryPages WITH Page <- 2, Patience <- 3, Minimum <- 1, End <- 6

(* Two tasks of one user: rolling windows with a grid search of two        *)
(* combinations of which one is kept, and expanding ones that overlap.     *)
Windows == {
    [type |-> "rolling", training |-> 2, test |-> 1, step |-> 1, optimize |-> TRUE],
    [type |-> "expanding", training |-> 1, test |-> 2, step |-> 1, optimize |-> FALSE]}

Studies == INSTANCE Analyses WITH
    Tasks <- Studied, Owner <- [t \in Studied |-> "user"], MaxAll <- 2, MaxOwn <- 1,
    End <- 4, Configs <- Windows, Combos <- 2, Scores <- 0..2, Stored <- 1

(* A take-profit of a third, a stop of a fifth, a step of a fifth.         *)
Trailing == INSTANCE TrailingStop WITH
    best <- bestPrice, restarts <- reinits,
    Denominator <- 10, TakeProfit <- 3, StopLoss <- 2, Activation <- 2,
    Prices <- {8, 9, 10, 11, 12, 14, 16}, MaxRestarts <- 1

(* Prices that halves, thirds and quarters of are whole.                   *)
Paper == INSTANCE PaperAccount WITH
    position <- net, balance <- funds, row <- paperRow, orders <- fills,
    Initial <- 1000, Prices <- {144, 288}, Quantities <- {1, 2}, FeeShare <- 144,
    MaxOrders <- 3, MaxSize <- 4, MaxClients <- 1

(* With a cooldown in backtests only: see WaitsNoLonger.                   *)
Ranges == INSTANCE RangeMeanReversion WITH
    st <- ranging, held <- account, left <- gaveUp, restarts <- reboots,
    Uses <- {[live |-> TRUE, cooldown |-> 0], [live |-> FALSE, cooldown |-> 1]},
    MaxInvalid <- 2, EnableShort <- TRUE, MaxCandle <- 5, MaxRestarts <- 1

Alarms == INSTANCE PriceAlerts WITH
    rows <- alertRows, Alerts <- {"alert"}, Symbols <- {"BTCUSDT", "ETHUSDT"},
    Prices <- 1..3, Target <- 2, Nothing <- None,
    Kinds <- {[type |-> "PRICE_RISES_ABOVE", once |-> TRUE],
              [type |-> "PRICE_REACHES", once |-> FALSE]}

(* The default account and another, three keys that replace one another.   *)
Keys == INSTANCE AccountClients WITH
    rows <- accountRows, clients <- accountClients,
    Names <- {"default", "second"}, Default <- "default", MaxKeys <- 3,
    Loaders <- {"loader"}

Monitor == INSTANCE ServiceMonitor WITH
    up <- serviceUp, last <- lastState, told <- heard, lost <- missed, Cooldown <- 3

Commands == INSTANCE TelegramCommands WITH
    sent <- updates, kept <- undelivered, failed <- raised, starts <- boots,
    MaxCommands <- 3, MaxRestarts <- 2

(* Two analyses of the reader and one of another user, a page for each.    *)
MCOwners == [a |-> "reader", b |-> "reader", c |-> "another"]

Archive == INSTANCE AnalysisRows WITH
    rows <- archived, torn <- halved, Tasks <- Analyzed, Owner <- Owners, Limit <- PageLimit

Summaries == INSTANCE StrategyRows WITH
    row <- summaryRow, at <- thread, behind <- stale, Threads <- RowThreads

ASSUME ConstantsAssumption ==
    /\ Classic!ConstantsOK /\ Simulated!ConstantsOK /\ Pages!ConstantsOK /\ Studies!ConstantsOK
    /\ Trailing!ConstantsOK /\ Paper!ConstantsOK /\ Ranges!ConstantsOK /\ Alarms!ConstantsOK
    /\ Keys!ConstantsOK /\ Monitor!ConstantsOK /\ Commands!ConstantsOK /\ Archive!ConstantsOK
    /\ Summaries!ConstantsOK

-----------------------------------------------------------------------------
Init ==
    /\ part \in {
        "classic", "reverse", "backtest", "history", "analyses", "trailing",
        "paper", "range", "alerts", "clients", "monitor", "commands",
        "archive", "summaries"}
    /\ Classic!Init /\ Simulated!Init /\ Pages!Init /\ Studies!Init /\ Trailing!Init
    /\ Paper!Init /\ Ranges!Init /\ Alarms!Init /\ Keys!Init /\ Monitor!Init
    /\ Commands!Init /\ Archive!Init /\ Summaries!Init
    /\ part # "classic" => params.mode = "cross_or_trend" /\ params.unlimited = FALSE
    /\ part # "history" => existing = {} /\ mainnet
    /\ part # "analyses" => \A t \in Studied : config[t].optimize
    /\ part # "trailing" => \A price \in {8, 9, 10, 11, 12, 14, 16} : entry =< price
    /\ part # "paper" => persisting
    /\ part # "range" => use.live
    /\ part # "clients" => accountClients["default"] = None

ScalpingNext ==
    /\ \/ part = "classic" /\ Classic!Next
       \/ part = "reverse" /\ Reverse!Next
    /\ UNCHANGED
        <<part, backtestVars, pageVars, analysisVars, trailingVars, paperVars,
        rangeVars, alertVars, clientVars, monitorVars, commandVars,
        analysisRowVars, strategyRowVars>>

BacktestNext ==
    /\ part = "backtest" /\ Simulated!Next
    /\ UNCHANGED
        <<part, scalpingVars, pageVars, analysisVars, trailingVars, paperVars,
        rangeVars, alertVars, clientVars, monitorVars, commandVars,
        analysisRowVars, strategyRowVars>>

PagesNext ==
    /\ part = "history" /\ Pages!Next
    /\ UNCHANGED
        <<part, scalpingVars, backtestVars, analysisVars, trailingVars,
        paperVars, rangeVars, alertVars, clientVars, monitorVars, commandVars,
        analysisRowVars, strategyRowVars>>

AnalysesNext ==
    /\ part = "analyses" /\ Studies!Next
    /\ UNCHANGED
        <<part, scalpingVars, backtestVars, pageVars, trailingVars, paperVars,
        rangeVars, alertVars, clientVars, monitorVars, commandVars,
        analysisRowVars, strategyRowVars>>

TrailingNext ==
    /\ part = "trailing" /\ Trailing!Next
    /\ UNCHANGED
        <<part, scalpingVars, backtestVars, pageVars, analysisVars, paperVars,
        rangeVars, alertVars, clientVars, monitorVars, commandVars,
        analysisRowVars, strategyRowVars>>

PaperNext ==
    /\ part = "paper" /\ Paper!Next
    /\ UNCHANGED
        <<part, scalpingVars, backtestVars, pageVars, analysisVars,
        trailingVars, rangeVars, alertVars, clientVars, monitorVars,
        commandVars, analysisRowVars, strategyRowVars>>

RangeNext ==
    /\ part = "range" /\ Ranges!Next
    /\ UNCHANGED
        <<part, scalpingVars, backtestVars, pageVars, analysisVars,
        trailingVars, paperVars, alertVars, clientVars, monitorVars,
        commandVars, analysisRowVars, strategyRowVars>>

AlertsNext ==
    /\ part = "alerts" /\ Alarms!Next
    /\ UNCHANGED
        <<part, scalpingVars, backtestVars, pageVars, analysisVars,
        trailingVars, paperVars, rangeVars, clientVars, monitorVars,
        commandVars, analysisRowVars, strategyRowVars>>

ClientsNext ==
    /\ part = "clients" /\ Keys!Next
    /\ UNCHANGED
        <<part, scalpingVars, backtestVars, pageVars, analysisVars,
        trailingVars, paperVars, rangeVars, alertVars, monitorVars,
        commandVars, analysisRowVars, strategyRowVars>>

MonitorNext ==
    /\ part = "monitor" /\ Monitor!Next
    /\ UNCHANGED
        <<part, scalpingVars, backtestVars, pageVars, analysisVars,
        trailingVars, paperVars, rangeVars, alertVars, clientVars,
        commandVars, analysisRowVars, strategyRowVars>>

CommandsNext ==
    /\ part = "commands" /\ Commands!Next
    /\ UNCHANGED
        <<part, scalpingVars, backtestVars, pageVars, analysisVars,
        trailingVars, paperVars, rangeVars, alertVars, clientVars,
        monitorVars, analysisRowVars, strategyRowVars>>

AnalysisRowsNext ==
    /\ part = "archive" /\ Archive!Next
    /\ UNCHANGED
        <<part, scalpingVars, backtestVars, pageVars, analysisVars,
        trailingVars, paperVars, rangeVars, alertVars, clientVars,
        monitorVars, commandVars, strategyRowVars>>

StrategyRowsNext ==
    /\ part = "summaries" /\ Summaries!Next
    /\ UNCHANGED
        <<part, scalpingVars, backtestVars, pageVars, analysisVars,
        trailingVars, paperVars, rangeVars, alertVars, clientVars,
        monitorVars, commandVars, analysisRowVars>>

Next ==
    \/ ScalpingNext \/ BacktestNext \/ PagesNext \/ AnalysesNext
    \/ TrailingNext \/ PaperNext \/ RangeNext \/ AlertsNext
    \/ ClientsNext \/ MonitorNext \/ CommandsNext \/ AnalysisRowsNext
    \/ StrategyRowsNext

Spec == Init /\ [][Next]_vars

-----------------------------------------------------------------------------
(* The properties of the components.                                       *)

\* Every component keeps its variables within their types.
TypesOK ==
    /\ part \in {"classic", "reverse"} => Classic!TypeOK
    /\ part = "backtest" => Simulated!TypeOK
    /\ part = "history" => Pages!TypeOK
    /\ part = "analyses" => Studies!TypeOK
    /\ part = "trailing" => Trailing!TypeOK
    /\ part = "paper" => Paper!TypeOK
    /\ part = "range" => Ranges!TypeOK
    /\ part = "alerts" => Alarms!TypeOK
    /\ part = "clients" => Keys!TypeOK
    /\ part = "monitor" => Monitor!TypeOK
    /\ part = "commands" => Commands!TypeOK
    /\ part = "archive" => Archive!TypeOK
    /\ part = "summaries" => Summaries!TypeOK

\* Scalping and ReverseScalping: a cross is traded once, and followed up no more
\* often than allowed.  They, RangeMeanReversion and Backtest: no entry during the
\* candles of the cooldown, and in a backtest none turned away after them.
CrossesTraded ==
    /\ []Classic!OneCrossOneTrade /\ Classic!Rested
    /\ Simulated!Rested
    /\ Ranges!Rested /\ []Ranges!WaitsNoLonger

\* TrailingStop and RangeMeanReversion: an open position has levels to be closed
\* at, and while it keeps its entry price none of them moves back.
LevelsKept ==
    /\ []Trailing!LevelsFollowBest /\ Trailing!Tightens
    /\ []Ranges!OwnLevelsKnown

\* Backtest and PaperAccount: the balance is explained by the trades, and the
\* strategy holds what the account of its backtest does.
BooksBalance ==
    Simulated!BooksBalance /\ Simulated!InStep /\ Paper!BooksBalance

\* HistoryPages: no candle is lost between two pages.  Analyses: a window is tested
\* on what its parameters were not chosen by, with the best of them, and not at all
\* once the user has cancelled.
StudiesHonest ==
    /\ []Pages!NothingSkipped
    /\ []Studies!OutOfSample /\ []Studies!BestIsKept /\ Studies!CancelStops

\* AccountClients: a client is made of its account's keys, and who asks for it is
\* given no other's.
ClientsOwn == []Keys!KeysOfRow /\ Keys!OwnClient

\* AnalysisRows: an analysis is saved as a whole, and reading on misses none.
\* StrategyRows: the summary in Redis is that of the row.
RowsKept == Archive!NothingMissed /\ Archive!Whole /\ Summaries!CacheTrue

\* PriceAlerts: an alarm is raised once, for a price that was crossed.
\* ServiceMonitor: the last message tells what has become of the service.
\* TelegramCommands: every command that was kept is carried out once.
MessagesTrue ==
    /\ Alarms!PushedOnce /\ Alarms!RealCrossings
    /\ Monitor!NewsTold /\ Commands!CommandsCarriedOut
=============================================================================
