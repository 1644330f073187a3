------------------------------ MODULE MCMarket ------------------------------
(* Model checking the components between the exchange and the strategies,  *)
(* with their liveness: the circuit breaker, the streams of candles, mark  *)
(* prices and user data, the sessions of the database and the ends of      *)
(* trading loops.  Their behaviours do not touch one another here, so that *)
(* a behaviour is one of one component, named by part, and the variables   *)
(* of the others rest at their initial values.  Four threads of the        *)
(* breaker, so that a probe, a refused probe and two calls from before the *)
(* half-open period can be in flight together.                             *)
EXTENDS CircuitBreaker, TLC

CONSTANTS
    Strategies, Positions, Connections, Askers, Sockets, Requests, Tasks, Sessions, None,
    MaxRows,                                        \* Limit of KlineStreams
    MaxCandle, MaxCount, MaxKey                     \* bounds: see KlineStreams, UserStreams

VARIABLES
    part,                                           \* the component this behaviour is of
    now, socket, link, subscribed, lock, buffer, step, seen, misread, trouble,
    registry, connection, count, sleeping, running, polling, superseded,
    key, valid, holder, asking, current, streams, ended,
    up, engine, factory, dbLock, at, retried,
    db, mem, tasks, task, req, first, restarts

breakerVars == <<breaker, call, lost>>
klineVars == <<now, socket, link, subscribed, lock, buffer, step, seen, misread, trouble>>
markVars == <<registry, connection, count, sleeping, running, polling, superseded>>
userVars == <<key, valid, holder, asking, current, streams, ended>>
databaseVars == <<up, engine, factory, dbLock, at, retried>>
loopVars == <<db, mem, tasks, task, req, first, restarts>>
marketVars ==
    <<part, breakerVars, klineVars, markVars, userVars, databaseVars, loopVars>>

MCFailureThreshold == 2
MCSuccessThreshold == 2

-----------------------------------------------------------------------------
Klines == INSTANCE KlineStreams WITH
    count <- subscribed, Nobody <- None, Limit <- MaxRows

Marks == INSTANCE MarkPrices

Users == INSTANCE UserStreams WITH Nobody <- None

(* Outages that are over before init_database has given up: see README.    *)
Store == INSTANCE Database WITH
    holder <- dbLock, Threads <- Sessions, Nobody <- None, LongOutages <- FALSE

(* Two requests on one strategy, every kind of request.                    *)
OneStrategy == {CHOOSE s \in Strategies : TRUE}
Loops == INSTANCE StrategyLifecycle WITH
    Strategies <- OneStrategy, Symbol <- [s \in OneStrategy |-> "BTCUSDT"],
    Ops <- {"start", "stop", "delete", "pause"}, MaxConcurrent <- 1, MaxRestarts <- 0

ASSUME ConstantsAssumption ==
    /\ Klines!ConstantsOK /\ Marks!ConstantsOK /\ Users!ConstantsOK /\ Store!ConstantsOK
    /\ None \notin Tasks

-----------------------------------------------------------------------------
MarketInit ==
    /\ part \in {"breaker", "klines", "marks", "users", "database", "loops"}
    /\ Init /\ Klines!Init /\ Marks!Init /\ Users!Init /\ Store!Init /\ Loops!Init
    /\ part # "loops" => \A s \in OneStrategy : mem[s] = "absent"
    /\ part # "database" => up

BreakerNext ==
    /\ part = "breaker" /\ Next
    /\ UNCHANGED <<part, klineVars, markVars, userVars, databaseVars, loopVars>>

KlinesNext ==
    /\ part = "klines" /\ Klines!Next
    /\ UNCHANGED <<part, breakerVars, markVars, userVars, databaseVars, loopVars>>

MarksNext ==
    /\ part = "marks" /\ Marks!Next
    /\ UNCHANGED <<part, breakerVars, klineVars, userVars, databaseVars, loopVars>>

UsersNext ==
    /\ part = "users" /\ Users!Next
    /\ UNCHANGED <<part, breakerVars, klineVars, markVars, databaseVars, loopVars>>

DatabaseNext ==
    /\ part = "database" /\ Store!Next
    /\ UNCHANGED <<part, breakerVars, klineVars, markVars, userVars, loopVars>>

LoopsNext ==
    /\ part = "loops" /\ Loops!Next
    /\ UNCHANGED <<part, breakerVars, klineVars, markVars, userVars, databaseVars>>

MarketNext ==
    \/ BreakerNext \/ KlinesNext \/ MarksNext
    \/ UsersNext \/ DatabaseNext \/ LoopsNext

(* The fairness of each component.  What candles and loops are fair to is  *)
(* not enabled in their initial states; what breaker and database are fair *)
(* to may be, and is asked for in their own behaviours only.               *)
MarketFairness ==
    /\ WF_vars(part = "breaker" /\ Cool)
    /\ \A c \in Calls :
        WF_vars(part = "breaker" /\ Enter(c)) /\ WF_vars(part = "breaker" /\ Leave(c))
    /\ \A t \in Sessions : WF_databaseVars(part = "database" /\ Store!Step(t))
    /\ Klines!Fairness
    /\ Loops!Fairness

MarketSpec == MarketInit /\ [][MarketNext]_marketVars /\ MarketFairness

-----------------------------------------------------------------------------
(* The properties of the components, besides those of CircuitBreaker.      *)

\* Every component keeps its variables within their types.
TypesOK ==
    TypeOK /\ Klines!TypeOK /\ Marks!TypeOK /\ Users!TypeOK /\ Store!TypeOK /\ Loops!TypeOK

\* CircuitBreaker: it does not stay open, nor half-open unless its slots were lost.
BreakerRecovers == OpenIsRetried /\ HalfOpenEndsIfNoneLost

\* KlineStreams: no stream is closed under a strategy that goes on; its rows stay in
\* order unless a fetch overtook the socket, and no forming candle is taken for a
\* closed one.
CandlesServed ==
    Klines!RunningHasStream /\ Klines!BufferOrdered /\ Klines!OnlyClosedProcessed

\* KlineStreams: every closed candle is processed, one candle late at most.
ClosedIsProcessed == Klines!ClosedIsProcessed

\* MarkPrices: a registered position has its prices, of one connection per
\* symbol, and a connection that nobody needs is closed.
PositionsStreamed ==
    Marks!OneConnection /\ Marks!RegisteredIsStreamed /\ Marks!UnusedIsClosed

\* UserStreams: one stream of the account, by a key that is valid as long as its
\* keep-alives succeed.
StreamKept == Users!OneStream /\ Users!KeyKept

\* Database: sessions are given again when the database has come back.
Recovers == Store!Recovers

\* StrategyLifecycle: a loop whose row says stopped_by_risk ends, and one that has
\* ended is taken out of the registry.
LoopsEnd == Loops!PausedLoopsExit /\ Loops!DeadTasksReaped
=============================================================================
