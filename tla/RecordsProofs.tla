----------------------------- MODULE RecordsProofs -----------------------------
(***************************************************************************)
(* Proofs about the components of MCRecords as they are composed there:    *)
(* each has an invariant of its own, which the steps of the others leave   *)
(* alone.                                                                  *)
(***************************************************************************)
EXTENDS MCRecords, FiniteSetTheorems, TLAPS

LEMMA PartsApart ==
    ASSUME [Next]_vars
    PROVE  /\ Alarms!Next \/ UNCHANGED alertVars
           /\ Monitor!Next \/ UNCHANGED monitorVars
           /\ Commands!Next \/ UNCHANGED commandVars
           /\ Keys!Next \/ UNCHANGED clientVars
           /\ Simulated!Next \/ UNCHANGED backtestVars
           /\ Paper!Next \/ UNCHANGED paperVars
           /\ Ranges!Next \/ UNCHANGED rangeVars
           /\ Trailing!Next \/ UNCHANGED trailingVars
           /\ Classic!Next \/ Reverse!Next \/ UNCHANGED scalpingVars
           /\ Summaries!Next \/ UNCHANGED strategyRowVars
           /\ Archive!Next \/ UNCHANGED analysisRowVars
           /\ Pages!Next \/ UNCHANGED pageVars
           /\ Studies!Next \/ UNCHANGED analysisVars
BY DEF Next, vars, ScalpingNext, BacktestNext, PagesNext, AnalysesNext, TrailingNext, PaperNext,
       RangeNext, AlertsNext, ClientsNext, MonitorNext, CommandsNext, AnalysisRowsNext,
       StrategyRowsNext, scalpingVars, backtestVars, pageVars, analysisVars, trailingVars,
       paperVars, rangeVars, alertVars, clientVars, monitorVars, commandVars, analysisRowVars,
       strategyRowVars

-----------------------------------------------------------------------------
(* ServiceMonitor.                                                         *)

\* Before the first round the user has heard nothing.
MonitorInv ==
    /\ Monitor!TypeOK /\ Monitor!NewsTold
    /\ lastState = "unknown" => heard = "nothing"

LEMMA MonitorKept ==
    ASSUME MonitorInv, Monitor!Next \/ UNCHANGED monitorVars
    PROVE  MonitorInv'
<1>1. /\ serviceUp \in BOOLEAN /\ lastState \in {"unknown", "up", "down"} /\ since \in 0..3
      /\ heard \in {"nothing", "up", "down"} /\ missed \in BOOLEAN /\ hushed \in BOOLEAN
    BY DEF MonitorInv, Monitor!TypeOK
<1>2. Monitor!Later(since) \in 0..3
    BY <1>1 DEF Monitor!Later
<1>3. ASSUME NEW news \in {"up", "down"}, Monitor!Send(news)
      PROVE  /\ heard' \in {"nothing", "up", "down"} /\ missed' \in BOOLEAN
             /\ missed' \/ heard' = news
    BY <1>1, <1>3 DEF Monitor!Send
<1>4. CASE Monitor!Round
  <2>1. lastState' = (IF serviceUp THEN "up" ELSE "down") /\ serviceUp' = serviceUp
      BY <1>4 DEF Monitor!Round
  <2>2. CASE ~serviceUp /\ lastState # "down" /\ since = 3
    <3>1. Monitor!Send("down") /\ since' = 1 /\ hushed' = FALSE
        BY <1>4, <2>2 DEF Monitor!Round
    <3>2. Monitor!TypeOK'
      <4>1. heard' \in {"nothing", "up", "down"} /\ missed' \in BOOLEAN
          BY <1>3, <3>1
      <4>2. since' = 1 /\ hushed' = FALSE
          BY <3>1
      <4>4. since' \in 0..3
          BY <4>2
      <4>5. hushed' \in BOOLEAN
          BY <4>2, Zenon
      <4>3. serviceUp' \in BOOLEAN /\ lastState' \in {"unknown", "up", "down"}
          BY <1>1, <2>1
      <4> QED BY <4>1, <4>3, <4>4, <4>5 DEF Monitor!TypeOK
    <3>3. lastState' = "down" /\ (missed' \/ heard' = "down")
        BY <1>3, <2>1, <2>2, <3>1
    <3> QED BY <3>2, <3>3 DEF MonitorInv, Monitor!NewsTold
  <2>3. CASE ~serviceUp /\ lastState # "down" /\ since < 3
    <3>1. since' = Monitor!Later(since) /\ hushed' = TRUE /\ UNCHANGED <<heard, missed>>
        BY <1>4, <2>3 DEF Monitor!Round
    <3> QED BY <1>1, <1>2, <2>1, <2>3, <3>1 DEF MonitorInv, Monitor!TypeOK, Monitor!NewsTold
  <2>4. CASE serviceUp /\ lastState = "down"
    <3>1. Monitor!Send("up") /\ since' = Monitor!Later(since) /\ hushed' = FALSE
        BY <1>4, <2>4 DEF Monitor!Round, Monitor!Recovery
    <3> QED BY <1>1, <1>2, <1>3, <2>1, <2>4, <3>1 DEF MonitorInv, Monitor!TypeOK, Monitor!NewsTold
  <2>5. CASE serviceUp <=> lastState # "down"
    <3>1. since' = Monitor!Later(since) /\ UNCHANGED <<heard, missed, hushed>>
        BY <1>1, <1>4, <2>5 DEF Monitor!Round
    <3> QED BY <1>1, <1>2, <2>1, <2>5, <3>1 DEF MonitorInv, Monitor!TypeOK, Monitor!NewsTold
  <2> QED BY <1>1, <2>2, <2>3, <2>4, <2>5
<1>5. CASE Monitor!Failed
  <2>1. Monitor!Send("down") /\ since' = 0 /\ lastState' = "down" /\ hushed' = FALSE
        /\ serviceUp' = serviceUp
      BY <1>5 DEF Monitor!Failed
  <2>2. Monitor!TypeOK'
    <3>1. heard' \in {"nothing", "up", "down"} /\ missed' \in BOOLEAN
        BY <1>3, <2>1
    <3>2. since' = 0 /\ hushed' = FALSE
        BY <2>1
    <3>4. since' \in 0..3
        BY <3>2
    <3>5. hushed' \in BOOLEAN
        BY <3>2, Zenon
    <3>3. serviceUp' \in BOOLEAN /\ lastState' \in {"unknown", "up", "down"}
        BY <1>1, <2>1
    <3> QED BY <3>1, <3>3, <3>4, <3>5 DEF Monitor!TypeOK
  <2>3. missed' \/ heard' = "down"
      BY <1>3, <2>1
  <2> QED BY <2>1, <2>2, <2>3 DEF MonitorInv, Monitor!NewsTold
<1>6. CASE Monitor!Turn \/ UNCHANGED monitorVars
    BY <1>1, <1>6 DEF Monitor!Turn, monitorVars, MonitorInv, Monitor!TypeOK, Monitor!NewsTold
<1> QED BY <1>4, <1>5, <1>6 DEF Monitor!Next

LEMMA MonitorStarts == Monitor!Init => MonitorInv
<1> SUFFICES ASSUME Monitor!Init PROVE MonitorInv
    OBVIOUS
<1>1. /\ serviceUp \in BOOLEAN /\ lastState = "unknown" /\ since = 3
      /\ heard = "nothing" /\ missed = FALSE /\ hushed = FALSE
    BY DEF Monitor!Init
<1>2. since \in 0..3
    BY <1>1
<1>3. missed \in BOOLEAN /\ hushed \in BOOLEAN
    BY <1>1, Zenon
<1> QED BY <1>1, <1>2, <1>3 DEF MonitorInv, Monitor!TypeOK, Monitor!NewsTold

-----------------------------------------------------------------------------
(* TelegramCommands.                                                       *)

\* What Telegram has forgotten is dealt with; what the offset has passed is, too, or is
\* being processed, unless Telegram has it still and will be asked again.
Dealt(u) == carried[u] > 0 \/ u \in raised \cup cleared

CommandsInv ==
    /\ Commands!TypeOK
    /\ \A u \in Commands!Updates :
         /\ u < undelivered => Dealt(u)
         /\ u < offset => Dealt(u) \/ u = busy
         /\ carried[u] =< 1 + boots
         /\ u >= offset /\ u >= undelivered => carried[u] =< boots
    /\ \A v \in batch :
         /\ v >= offset /\ v >= undelivered
         /\ \A u \in Commands!Updates : u < v /\ u >= offset /\ u >= undelivered => u \in batch
    /\ busy # 0 => busy < offset /\ carried[busy] =< boots

LEMMA FirstOfBatch ==
    ASSUME batch \subseteq Commands!Updates, batch # {}
    PROVE  Commands!First \in batch /\ \A v \in batch : Commands!First <= v
<1>1. \E u \in batch : \A v \in batch : u <= v
  <2>1. batch \subseteq {1, 2, 3}
      BY DEF Commands!Updates
  <2>2. CASE 1 \in batch
      BY <2>1, <2>2
  <2>3. CASE 1 \notin batch /\ 2 \in batch
      BY <2>1, <2>3
  <2>4. CASE 1 \notin batch /\ 2 \notin batch
    <3>1. 3 \in batch /\ batch = {3}
        BY <2>1, <2>4
    <3> QED BY <3>1
  <2> QED BY <2>2, <2>3, <2>4
<1> QED BY <1>1 DEF Commands!First

LEMMA CommandsKept ==
    ASSUME CommandsInv, Commands!Next \/ UNCHANGED commandVars
    PROVE  CommandsInv'
<1> USE DEF Commands!Updates, Dealt
<1>1. /\ updates \in 0..3 /\ undelivered \in 1..4 /\ offset \in 0..4 /\ batch \subseteq 1..3
      /\ busy \in 0..3 /\ carried \in [1..3 -> Nat] /\ raised \subseteq 1..3
      /\ cleared \subseteq 1..3 /\ boots \in 0..2
    BY DEF CommandsInv, Commands!TypeOK
<1>2. CASE Commands!Command
    BY <1>1, <1>2 DEF Commands!Command, CommandsInv, Commands!TypeOK
<1>3. CASE Commands!Poll
  <2>1. undelivered' = Commands!Greater(undelivered, offset)
        /\ (batch' = {} \/ batch' = undelivered'..updates) /\ busy = 0
        /\ UNCHANGED <<updates, offset, busy, carried, raised, cleared, boots>>
      BY <1>3 DEF Commands!Poll, Commands!Polling
  <2>2. undelivered' \in 1..4 /\ undelivered' >= undelivered /\ undelivered' >= offset
        /\ undelivered' \in {undelivered, offset}
      BY <1>1, <2>1 DEF Commands!Greater
  <2>3. batch' \subseteq 1..3
      BY <1>1, <2>1, <2>2
  <2>4. Commands!TypeOK'
      BY <1>1, <2>1, <2>2, <2>3 DEF Commands!TypeOK
  <2>5. \A u \in 1..3 : u < undelivered' => u < undelivered \/ u < offset
      BY <1>1, <2>2
  <2>6. \A u \in 1..3 : u < undelivered' => Dealt(u)'
      BY <1>1, <2>1, <2>5 DEF CommandsInv
  <2>7. \A v \in batch' :
         /\ v >= offset /\ v >= undelivered'
         /\ \A u \in Commands!Updates : u < v /\ u >= offset /\ u >= undelivered' => u \in batch'
      BY <1>1, <2>1, <2>2
  <2>8. \A u \in 1..3 : u >= offset /\ u >= undelivered' => carried[u] =< boots
      BY <1>1, <2>2 DEF CommandsInv
  <2> QED BY <2>1, <2>4, <2>6, <2>7, <2>8 DEF CommandsInv
<1>4. CASE Commands!Conflict
  <2>1. undelivered' = Commands!Greater(Commands!Greater(undelivered, updates), 1)
        /\ cleared' = cleared \cup (Commands!Greater(undelivered, offset)..undelivered' - 1)
        /\ busy = 0 /\ batch = {}
        /\ UNCHANGED <<updates, offset, batch, busy, carried, raised, boots>>
      BY <1>4 DEF Commands!Conflict, Commands!Polling
  <2>2. undelivered' \in 1..4 /\ undelivered' >= undelivered
      BY <1>1, <2>1 DEF Commands!Greater
  <2>3. \A u \in 1..3 : u < undelivered' => u < undelivered \/ u < offset \/ u \in cleared'
      BY <1>1, <2>1, <2>2 DEF Commands!Greater
  <2>4. cleared' \subseteq 1..3 /\ cleared \subseteq cleared'
      BY <1>1, <2>1, <2>2 DEF Commands!Greater
  <2>5. Commands!TypeOK'
      BY <1>1, <2>1, <2>2, <2>4 DEF Commands!TypeOK
  <2>6. \A u \in 1..3 : u < undelivered' => Dealt(u)'
      BY <1>1, <2>1, <2>3, <2>4 DEF CommandsInv
  <2>7. \A u \in 1..3 : u < offset => Dealt(u)'
      BY <1>1, <2>1, <2>4 DEF CommandsInv
  <2>8. \A u \in 1..3 : u >= offset /\ u >= undelivered' => carried[u] =< boots
      BY <1>1, <2>2 DEF CommandsInv
  <2> QED BY <2>1, <2>5, <2>6, <2>7, <2>8 DEF CommandsInv
<1>5. CASE Commands!Take
  <2> DEFINE f == Commands!First
  <2>1. /\ busy = 0 /\ busy' = f /\ batch' = batch \ {f} /\ offset' = f + 1
        /\ UNCHANGED <<updates, undelivered, carried, raised, cleared, boots>>
      BY <1>5 DEF Commands!Take
  <2>2. f \in 1..3 /\ f \in batch /\ \A v \in batch : f <= v
      BY <1>1, <1>5, FirstOfBatch DEF Commands!Take
  <2> HIDE DEF f
  <2>3. Commands!TypeOK'
      BY <1>1, <2>1, <2>2 DEF Commands!TypeOK
  <2>4. f >= offset /\ f >= undelivered /\ carried[f] =< boots
      BY <1>1, <2>2 DEF CommandsInv
  <2>5. \A u \in 1..3 : u < f => u < offset \/ u < undelivered
      BY <1>1, <2>2 DEF CommandsInv
  <2>6. \A u \in 1..3 : u < f + 1 => Dealt(u) \/ u = f
      BY <1>1, <2>1, <2>2, <2>5 DEF CommandsInv
  <2>7. \A v \in batch \ {f} : v >= f + 1
      BY <1>1, <2>2
  <2>8. \A v \in batch \ {f} :
          \A u \in 1..3 : u < v /\ u >= f + 1 /\ u >= undelivered => u \in batch \ {f}
    <3> SUFFICES ASSUME NEW v \in batch \ {f}, NEW u \in 1..3, u < v, u >= f + 1, u >= undelivered
                 PROVE  u \in batch \ {f}
        OBVIOUS
    <3>1. u >= offset /\ u # f
        BY <1>1, <2>2, <2>4
    <3> QED BY <1>1, <3>1 DEF CommandsInv
  <2>9. \A u \in 1..3 : u >= f + 1 /\ u >= undelivered => carried[u] =< boots
      BY <1>1, <2>2, <2>4 DEF CommandsInv
  <2>10. \A v \in batch \ {f} : v >= undelivered
      BY DEF CommandsInv
  <2> QED BY <1>1, <2>1, <2>2, <2>3, <2>4, <2>6, <2>7, <2>8, <2>9, <2>10 DEF CommandsInv
<1>6. CASE Commands!Done \/ Commands!Raise
  <2>1. /\ busy \in 1..3 /\ busy' = 0 /\ batch' \subseteq batch /\ batch' \in {batch, {}}
        /\ UNCHANGED <<updates, undelivered, offset, cleared, boots>>
        /\ \/ carried' = [carried EXCEPT ![busy] = @ + 1] /\ raised' = raised
           \/ carried' = carried /\ raised' = raised \cup {busy}
      BY <1>1, <1>6 DEF Commands!Done, Commands!Raise
  <2>2. PICK b \in 1..3 : b = busy
      BY <2>1
  <2>3. /\ carried' \in [1..3 -> Nat]
        /\ \A u \in 1..3 : u # b => carried'[u] = carried[u]
        /\ carried'[b] \in {carried[b], carried[b] + 1}
        /\ carried'[b] > 0 \/ b \in raised'
        /\ raised' \subseteq 1..3 /\ raised \subseteq raised'
    <3>1. CASE carried' = [carried EXCEPT ![b] = @ + 1] /\ raised' = raised
        BY <1>1, <3>1
    <3>2. CASE carried' = carried /\ raised' = raised \cup {b}
        BY <1>1, <3>2
    <3> QED BY <2>1, <2>2, <3>1, <3>2
  <2>4. Commands!TypeOK'
      BY <1>1, <2>1, <2>3 DEF Commands!TypeOK
  <2>5. b < offset /\ carried[b] =< boots
      BY <1>1, <2>1, <2>2 DEF CommandsInv
  <2>6. \A u \in 1..3 : Dealt(u) => Dealt(u)'
      BY <1>1, <2>1, <2>3
  <2>7. Dealt(b)'
      BY <2>3
  <2>8. \A u \in 1..3 : carried'[u] =< 1 + boots
      BY <1>1, <2>1, <2>3, <2>5 DEF CommandsInv
  <2>9. \A u \in 1..3 : u >= offset /\ u >= undelivered => carried'[u] =< boots
      BY <1>1, <2>1, <2>3, <2>5 DEF CommandsInv
  <2>10. ASSUME NEW u \in 1..3, u < undelivered \/ u < offset PROVE Dealt(u)'
    <3>1. Dealt(u) \/ u = b
        BY <2>2, <2>10 DEF CommandsInv
    <3> QED BY <2>6, <2>7, <3>1
  <2>11. \A v \in batch' :
           /\ v >= offset /\ v >= undelivered
           /\ \A u \in 1..3 : u < v /\ u >= offset /\ u >= undelivered => u \in batch'
      BY <2>1 DEF CommandsInv
  <2> QED BY <2>1, <2>4, <2>8, <2>9, <2>10, <2>11 DEF CommandsInv
<1>7. CASE Commands!Restart
  <2>1. /\ boots' = boots + 1 /\ boots < 2 /\ offset' = 0 /\ batch' = {} /\ busy' = 0
        /\ UNCHANGED <<updates, undelivered, raised, cleared>>
        /\ \/ carried' = carried
           \/ busy # 0 /\ carried' = [carried EXCEPT ![busy] = @ + 1]
      BY <1>7 DEF Commands!Restart
  <2>2. /\ carried' \in [1..3 -> Nat]
        /\ \A u \in 1..3 : u # busy => carried'[u] = carried[u]
        /\ busy # 0 => carried'[busy] \in {carried[busy], carried[busy] + 1}
      BY <1>1, <2>1
  <2>3. Commands!TypeOK'
      BY <1>1, <2>1, <2>2 DEF Commands!TypeOK
  <2>4. \A u \in 1..3 : carried'[u] =< 1 + boots /\ carried'[u] >= carried[u]
      BY <1>1, <2>1, <2>2 DEF CommandsInv
  <2>5. \A u \in 1..3 : Dealt(u) => Dealt(u)'
      BY <1>1, <2>1, <2>2, <2>4
  <2>6. \A u \in 1..3 : carried'[u] =< boots' /\ carried'[u] =< 1 + boots'
      BY <1>1, <2>1, <2>2, <2>4
  <2>7. \A u \in 1..3 : u < undelivered => Dealt(u)'
      BY <2>5 DEF CommandsInv
  <2> QED BY <1>1, <2>1, <2>3, <2>6, <2>7 DEF CommandsInv
<1>8. CASE UNCHANGED commandVars
    BY <1>8 DEF commandVars, CommandsInv, Commands!TypeOK
<1> QED BY <1>2, <1>3, <1>4, <1>5, <1>6, <1>7, <1>8 DEF Commands!Next

LEMMA CommandsStart == Commands!Init => CommandsInv
BY DEF Commands!Init, CommandsInv, Commands!TypeOK, Commands!Updates, Dealt

-----------------------------------------------------------------------------
(* PriceAlerts.                                                            *)

Spent(row) == IF row.kind.once THEN ~row.enabled ELSE row.cooling

\* An alert that has raised its alarm is disabled or cools, in its row and in the session
\* of a round; and its last price is one of its symbol, unless it was edited while a round
\* had it loaded.
RowTrue(a) ==
    /\ alertRows[a] \in Alarms!Row
    /\ told[a] > 0 => Spent(alertRows[a])
    /\ alertRows[a].last = None \/ quoted[a] = alertRows[a].symbol \/ a \in mixed

LoadedTrue(a) ==
    /\ loaded[a] \in Alarms!Row /\ loaded[a].enabled
    /\ told[a] > 0 => Spent(loaded[a])
    /\ loaded[a].last = None \/ quoted[a] = loaded[a].symbol \/ a \in mixed
    /\ a \in DOMAIN alertRows =>
        /\ alertRows[a].kind = loaded[a].kind
        /\ alertRows[a].symbol = loaded[a].symbol \/ a \in mixed

AlarmsInv ==
    /\ told \in [{"alert"} -> {0, 1}]
    /\ quoted \in [{"alert"} -> {"BTCUSDT", "ETHUSDT"} \cup {None}]
    /\ \A a \in DOMAIN alertRows : a \in {"alert"} /\ RowTrue(a)
    /\ \A a \in DOMAIN loaded : a \in {"alert"} /\ LoadedTrue(a)
    /\ (\E S : pushes \in Seq(S)) /\ Alarms!RealCrossings

LEMMA RowFields ==
    ASSUME NEW row \in Alarms!Row
    PROVE  /\ row.kind.once \in BOOLEAN /\ row.enabled \in BOOLEAN /\ row.cooling \in BOOLEAN
           /\ row.symbol \in {"BTCUSDT", "ETHUSDT"} /\ row.last \in 1..3 \cup {None}
<1>1. /\ row.kind \in {[type |-> "PRICE_RISES_ABOVE", once |-> TRUE],
                        [type |-> "PRICE_REACHES", once |-> FALSE]}
      /\ row.enabled \in BOOLEAN /\ row.cooling \in BOOLEAN
      /\ row.symbol \in {"BTCUSDT", "ETHUSDT"} /\ row.last \in 1..3 \cup {None}
    BY DEF Alarms!Row
<1>2. row.kind.once = TRUE \/ row.kind.once = FALSE
    BY <1>1
<1>3. row.kind.once \in BOOLEAN
    BY <1>2, Zenon
<1> QED BY <1>1, <1>3

\* A row after some of its columns were written.
LEMMA RowWritten ==
    ASSUME NEW row \in Alarms!Row, NEW symbol \in {"BTCUSDT", "ETHUSDT"}, NEW enabled \in BOOLEAN,
           NEW last \in 1..3 \cup {None}, NEW cooling \in BOOLEAN, NEW new,
           new = [row EXCEPT !.symbol = symbol, !.enabled = enabled, !.last = last,
                             !.cooling = cooling]
    PROVE  /\ new \in Alarms!Row /\ new.kind = row.kind /\ new.symbol = symbol
           /\ new.enabled = enabled /\ new.last = last /\ new.cooling = cooling
BY DEF Alarms!Row

LEMMA AlarmsCreated ==
    ASSUME AlarmsInv, NEW a \in {"alert"}, NEW symbol \in {"BTCUSDT", "ETHUSDT"},
           NEW sort \in {[type |-> "PRICE_RISES_ABOVE", once |-> TRUE],
                         [type |-> "PRICE_REACHES", once |-> FALSE]},
           Alarms!Create(a, sort, symbol)
    PROVE  AlarmsInv'
<1> DEFINE new == [kind |-> sort, symbol |-> symbol, enabled |-> TRUE, last |-> None,
                   cooling |-> FALSE]
<1>1. /\ alertRows' = [b \in DOMAIN alertRows \cup {a} |-> IF b = a THEN new ELSE alertRows[b]]
      /\ told' = [told EXCEPT ![a] = 0] /\ quoted' = [quoted EXCEPT ![a] = None]
      /\ mixed' = mixed \ {a} /\ UNCHANGED <<step, loaded, pushes>> /\ a \notin DOMAIN loaded
    BY DEF Alarms!Create, Alarms!With
<1>2. new \in Alarms!Row /\ new.last = None
    BY DEF Alarms!Row
<1> HIDE DEF new
<1>3. /\ told' \in [{"alert"} -> {0, 1}] /\ told'[a] = 0
      /\ quoted' \in [{"alert"} -> {"BTCUSDT", "ETHUSDT"} \cup {None}]
    BY <1>1 DEF AlarmsInv
<1>4. DOMAIN alertRows' = DOMAIN alertRows \cup {a} /\ alertRows'[a] = new
    BY <1>1
<1>5. \A b \in DOMAIN alertRows' : b = a
    BY <1>4 DEF AlarmsInv
<1>6. RowTrue(a)'
    BY <1>2, <1>3, <1>4 DEF RowTrue
<1>7. loaded' = loaded /\ \A b \in DOMAIN loaded : FALSE
    BY <1>1 DEF AlarmsInv
<1>8. (\E S : pushes' \in Seq(S)) /\ Alarms!RealCrossings'
    BY <1>1 DEF AlarmsInv, Alarms!RealCrossings
<1> QED BY <1>3, <1>5, <1>6, <1>7, <1>8 DEF AlarmsInv

LEMMA AlarmsUpdated ==
    ASSUME AlarmsInv, NEW a \in {"alert"}, NEW symbol \in {"BTCUSDT", "ETHUSDT"},
           NEW enabled \in BOOLEAN, Alarms!Update(a, symbol, enabled)
    PROVE  AlarmsInv'
<1> DEFINE old == alertRows[a]
           moved == symbol # old.symbol
           last == IF moved THEN None ELSE old.last
           new == [old EXCEPT !.symbol = symbol, !.enabled = enabled, !.last = last,
                              !.cooling = old.cooling]
<1>1. /\ a \in DOMAIN alertRows
      /\ alertRows' = [b \in DOMAIN alertRows \cup {a} |->
                         IF b = a THEN [old EXCEPT !.symbol = symbol, !.enabled = enabled,
                                                   !.last = IF moved THEN None ELSE @]
                         ELSE alertRows[b]]
      /\ quoted' = [quoted EXCEPT ![a] = IF moved THEN None ELSE @]
      /\ told' = [told EXCEPT ![a] = IF enabled /\ ~old.enabled THEN 0 ELSE @]
      /\ mixed' = (IF a \in DOMAIN loaded THEN mixed \cup {a}
                   ELSE IF moved THEN mixed \ {a} ELSE mixed)
      /\ UNCHANGED <<step, loaded, pushes>>
    BY DEF Alarms!Update, Alarms!With
<1>2. RowTrue(a) /\ old \in Alarms!Row
    BY <1>1 DEF AlarmsInv, RowTrue
<1>3. /\ old.kind.once \in BOOLEAN /\ old.enabled \in BOOLEAN /\ old.cooling \in BOOLEAN
      /\ old.last \in 1..3 \cup {None}
    BY <1>2, RowFields
<1>4. /\ new \in Alarms!Row /\ new.kind = old.kind /\ new.symbol = symbol
      /\ new.enabled = enabled /\ new.last = last /\ new.cooling = old.cooling
  <2> HIDE DEF old
  <2>1. last \in 1..3 \cup {None}
      BY <1>3
  <2> HIDE DEF last
  <2>2. old.enabled \in BOOLEAN /\ old.cooling \in BOOLEAN
      BY <1>3
  <2>3. \E n : n = new
      OBVIOUS
  <2>4. PICK n : n = new
      BY <2>3
  <2>5. n = [old EXCEPT !.symbol = symbol, !.enabled = enabled, !.last = last,
                        !.cooling = old.cooling]
      BY <2>4
  <2> HIDE DEF new
  <2>6. /\ n \in Alarms!Row /\ n.kind = old.kind /\ n.symbol = symbol
        /\ n.enabled = enabled /\ n.last = last /\ n.cooling = old.cooling
      BY <1>2, <2>1, <2>2, <2>5 DEF Alarms!Row
  <2> QED BY <2>4, <2>6
<1>5. [old EXCEPT !.symbol = symbol, !.enabled = enabled, !.last = IF moved THEN None ELSE @] = new
    BY <1>2 DEF Alarms!Row
<1>6. DOMAIN alertRows' = DOMAIN alertRows /\ alertRows'[a] = new
    BY <1>1, <1>5
<1> HIDE DEF new
<1>7. /\ told' \in [{"alert"} -> {0, 1}] /\ (told'[a] = told[a] \/ told'[a] = 0)
      /\ told'[a] = told[a] => ~(enabled /\ ~old.enabled) \/ told[a] = 0
    BY <1>1 DEF AlarmsInv
<1>8. /\ quoted' \in [{"alert"} -> {"BTCUSDT", "ETHUSDT"} \cup {None}]
      /\ ~moved => quoted'[a] = quoted[a]
    BY <1>1 DEF AlarmsInv
<1>9. \A b \in DOMAIN alertRows' : b = a
    BY <1>6 DEF AlarmsInv
<1>10. told'[a] > 0 => Spent(new)
    BY <1>2, <1>3, <1>4, <1>7 DEF RowTrue, Spent, AlarmsInv
<1>11. new.last = None \/ quoted'[a] = new.symbol \/ a \in mixed'
    BY <1>1, <1>2, <1>4, <1>8 DEF RowTrue
<1>12. RowTrue(a)'
    BY <1>4, <1>6, <1>10, <1>11 DEF RowTrue, Spent
<1>13. loaded' = loaded /\ \A b \in DOMAIN loaded : b = a /\ LoadedTrue(b)
    BY <1>1 DEF AlarmsInv
<1>14. ASSUME a \in DOMAIN loaded PROVE LoadedTrue(a)'
  <2>1. LoadedTrue(a) /\ a \in mixed' /\ loaded'[a] = loaded[a]
      BY <1>1, <1>13, <1>14
  <2>2. told'[a] > 0 => told[a] > 0
      BY <1>7 DEF AlarmsInv
  <2> QED BY <1>1, <1>4, <1>6, <2>1, <2>2 DEF LoadedTrue, Spent
<1>15. (\E S : pushes' \in Seq(S)) /\ Alarms!RealCrossings'
    BY <1>1 DEF AlarmsInv, Alarms!RealCrossings
<1> QED BY <1>7, <1>8, <1>9, <1>12, <1>13, <1>14, <1>15 DEF AlarmsInv

LEMMA AlarmsCooled ==
    ASSUME AlarmsInv, NEW a \in {"alert"}, Alarms!Cooled(a)
    PROVE  AlarmsInv'
<1> DEFINE old == alertRows[a]
           new == [old EXCEPT !.cooling = FALSE]
<1>1. /\ a \in DOMAIN alertRows /\ a \notin DOMAIN loaded
      /\ alertRows' = [b \in DOMAIN alertRows \cup {a} |-> IF b = a THEN new ELSE alertRows[b]]
      /\ told' = [told EXCEPT ![a] = IF old.kind.once THEN @ ELSE 0]
      /\ UNCHANGED <<step, loaded, pushes, quoted, mixed>>
    BY DEF Alarms!Cooled, Alarms!With
<1>2. RowTrue(a) /\ old \in Alarms!Row
    BY <1>1 DEF AlarmsInv, RowTrue
<1>3. old.kind.once \in BOOLEAN
    BY <1>2, RowFields
<1>4. /\ new \in Alarms!Row /\ new.kind = old.kind /\ new.symbol = old.symbol
      /\ new.enabled = old.enabled /\ new.last = old.last
    BY <1>2 DEF Alarms!Row
<1>5. DOMAIN alertRows' = DOMAIN alertRows /\ alertRows'[a] = new
    BY <1>1
<1> HIDE DEF new
<1>6. told' \in [{"alert"} -> {0, 1}] /\ told'[a] = (IF old.kind.once THEN told[a] ELSE 0)
    BY <1>1 DEF AlarmsInv
<1>7. RowTrue(a)'
    BY <1>1, <1>2, <1>3, <1>4, <1>5, <1>6 DEF RowTrue, Spent
<1>8. \A b \in DOMAIN alertRows' : b = a
    BY <1>5 DEF AlarmsInv
<1>9. loaded' = loaded /\ \A b \in DOMAIN loaded : FALSE
    BY <1>1 DEF AlarmsInv
<1>10. (\E S : pushes' \in Seq(S)) /\ Alarms!RealCrossings'
    BY <1>1 DEF AlarmsInv, Alarms!RealCrossings
<1> QED BY <1>1, <1>6, <1>7, <1>8, <1>9, <1>10 DEF AlarmsInv

LEMMA AlarmsDeleted ==
    ASSUME AlarmsInv, NEW a \in {"alert"}, Alarms!Delete(a)
    PROVE  AlarmsInv'
<1>1. /\ alertRows' = [b \in DOMAIN alertRows \ {a} |-> alertRows[b]]
      /\ UNCHANGED <<step, loaded, pushes, told, quoted, mixed>>
    BY DEF Alarms!Delete, Alarms!Keeping
<1>2. \A b \in DOMAIN alertRows' : FALSE
    BY <1>1 DEF AlarmsInv
<1>3. \A b \in DOMAIN loaded' : b \in {"alert"} /\ LoadedTrue(b)'
    BY <1>1, <1>2 DEF AlarmsInv, LoadedTrue, Spent
<1>4. (\E S : pushes' \in Seq(S)) /\ Alarms!RealCrossings'
    BY <1>1 DEF AlarmsInv, Alarms!RealCrossings
<1> QED BY <1>1, <1>2, <1>3, <1>4 DEF AlarmsInv

LEMMA AlarmsLoaded ==
    ASSUME AlarmsInv, Alarms!Load
    PROVE  AlarmsInv'
<1> DEFINE enabled == {a \in DOMAIN alertRows : alertRows[a].enabled}
<1>1. /\ loaded' = [a \in enabled |-> alertRows[a]]
      /\ UNCHANGED <<alertRows, pushes, told, quoted, mixed>>
    BY DEF Alarms!Load, Alarms!Keeping
<1>2. \A a \in DOMAIN alertRows : a \in {"alert"} /\ RowTrue(a)'
    BY <1>1 DEF AlarmsInv, RowTrue, Spent
<1>3. ASSUME NEW a \in DOMAIN loaded' PROVE a \in {"alert"} /\ LoadedTrue(a)'
  <2>1. a \in DOMAIN alertRows /\ alertRows[a].enabled /\ loaded'[a] = alertRows[a]
      BY <1>1, <1>3
  <2> QED BY <1>1, <1>2, <2>1 DEF LoadedTrue, RowTrue, Spent
<1>4. (\E S : pushes' \in Seq(S)) /\ Alarms!RealCrossings'
    BY <1>1 DEF AlarmsInv, Alarms!RealCrossings
<1> QED BY <1>1, <1>2, <1>3, <1>4 DEF AlarmsInv

\* The round ends, with all of it done or not.
LEMMA AlarmsQuit ==
    ASSUME AlarmsInv, Alarms!Quit, UNCHANGED <<alertRows, told, quoted, mixed>>
    PROVE  AlarmsInv'
<1>1. (\A a \in DOMAIN loaded' : FALSE) /\ pushes' = <<>>
    BY DEF Alarms!Quit, Alarms!NoRows
<1>2. pushes' \in Seq({}) /\ Alarms!RealCrossings'
    BY <1>1 DEF Alarms!RealCrossings
<1>3. \A a \in DOMAIN alertRows' : a \in {"alert"} /\ RowTrue(a)'
    BY DEF AlarmsInv, RowTrue, Spent
<1> QED BY <1>1, <1>2, <1>3 DEF AlarmsInv

LEMMA AlarmsSent ==
    ASSUME AlarmsInv, Alarms!Send
    PROVE  AlarmsInv'
<1>1. pushes # <<>> /\ pushes' = Tail(pushes)
      /\ UNCHANGED <<alertRows, loaded, told, quoted, mixed>>
    BY DEF Alarms!Send
<1>2. (\E S : pushes' \in Seq(S)) /\ Alarms!RealCrossings'
  <2>1. PICK S : pushes \in Seq(S)
      BY DEF AlarmsInv
  <2>2. pushes' \in Seq(S) /\ \A i \in DOMAIN pushes' : i + 1 \in DOMAIN pushes /\ pushes'[i] = pushes[i + 1]
      BY <1>1, <2>1
  <2> QED BY <2>2 DEF AlarmsInv, Alarms!RealCrossings
<1>3. \A a \in DOMAIN alertRows : a \in {"alert"} /\ RowTrue(a)'
    BY <1>1 DEF AlarmsInv, RowTrue, Spent
<1>4. \A a \in DOMAIN loaded : a \in {"alert"} /\ LoadedTrue(a)'
    BY <1>1 DEF AlarmsInv, LoadedTrue, Spent
<1> QED BY <1>1, <1>2, <1>3, <1>4 DEF AlarmsInv

\* A round that ends raises no alarm twice: what triggers is not spent, and is from then on.
LEMMA AlarmsEvaluated ==
    ASSUME AlarmsInv,
           NEW prices \in [{"BTCUSDT", "ETHUSDT"} -> 1..3 \cup {None}], Alarms!Evaluate(prices)
    PROVE  AlarmsInv'
<1> DEFINE seen == {a \in DOMAIN loaded : prices[loaded[a].symbol] # None}
           result == [a \in seen |-> Alarms!Checked(a, prices[loaded[a].symbol])]
           changed == {a \in seen : result[a] # loaded[a]}
           fired == {a \in seen : Alarms!Triggers(a, prices[loaded[a].symbol])}
           price == prices[loaded["alert"].symbol]
<1>1. /\ changed \subseteq DOMAIN alertRows
      /\ alertRows' = [a \in DOMAIN alertRows |->
                         IF a \in changed THEN Alarms!Written(a, result[a]) ELSE alertRows[a]]
      /\ quoted' = [a \in {"alert"} |->
                      IF a \in changed /\ result[a].last # loaded[a].last THEN loaded[a].symbol
                      ELSE quoted[a]]
      /\ told' = [a \in {"alert"} |-> IF a \in fired /\ told[a] < 2 THEN told[a] + 1 ELSE told[a]]
      /\ loaded' = Alarms!NoRows /\ UNCHANGED mixed
    BY DEF Alarms!Evaluate
<1>2. PICK order \in [1..Alarms!Cardinality(fired) -> fired] :
        pushes' = [i \in DOMAIN order |->
                    [of |-> order[i], real |-> quoted[order[i]] = loaded[order[i]].symbol,
                     edited |-> order[i] \in mixed]]
    BY DEF Alarms!Evaluate
<1>3. seen \subseteq {"alert"} /\ fired \subseteq seen
    BY DEF AlarmsInv
<1>4. ASSUME "alert" \in seen
      PROVE  /\ LoadedTrue("alert") /\ loaded["alert"].symbol \in {"BTCUSDT", "ETHUSDT"}
             /\ loaded["alert"].kind.once \in BOOLEAN /\ loaded["alert"].cooling \in BOOLEAN
             /\ price \in 1..3
  <2>1. LoadedTrue("alert") /\ price # None
      BY <1>4 DEF AlarmsInv
  <2>2. loaded["alert"] \in Alarms!Row
      BY <2>1 DEF LoadedTrue
  <2> QED BY <2>1, <2>2, RowFields
<1>5. ASSUME "alert" \in fired
      PROVE  /\ told["alert"] = 0 /\ loaded["alert"].last # None
             /\ loaded["alert"].kind.once \/ ~loaded["alert"].cooling
  <2>1. /\ loaded["alert"].last # None
        /\ loaded["alert"].kind.once \/ ~loaded["alert"].cooling
      BY <1>5 DEF Alarms!Triggers
  <2> QED BY <1>3, <1>4, <1>5, <2>1 DEF LoadedTrue, Spent, AlarmsInv
<1>6. ASSUME "alert" \in seen
      PROVE  /\ result["alert"].last = price
             /\ "alert" \in fired =>
                  result["alert"].cooling = TRUE /\ result["alert"].enabled = ~loaded["alert"].kind.once
             /\ "alert" \notin fired =>
                  /\ result["alert"].cooling = loaded["alert"].cooling
                  /\ result["alert"].enabled = loaded["alert"].enabled
  <2>1. result["alert"] = Alarms!Checked("alert", price)
      BY <1>6
  <2>2. loaded["alert"] \in Alarms!Row
      BY <1>4, <1>6 DEF LoadedTrue
  <2>3. "alert" \in fired <=> Alarms!Triggers("alert", price)
      BY <1>6
  <2> HIDE DEF result, fired, price
  <2> QED BY <2>1, <2>2, <2>3 DEF Alarms!Checked, Alarms!Row
<1>7. "alert" \in fired => "alert" \in changed
  <2>1. SUFFICES ASSUME "alert" \in fired PROVE result["alert"] # loaded["alert"]
      BY <1>3
  <2>2. result["alert"].cooling = TRUE /\ result["alert"].enabled = ~loaded["alert"].kind.once
      BY <1>3, <1>6, <2>1
  <2>3. loaded["alert"].enabled = TRUE
    <3>1. loaded["alert"] \in Alarms!Row /\ loaded["alert"].enabled
        BY <1>3, <1>4, <2>1 DEF LoadedTrue
    <3> QED BY <3>1, RowFields
  <2> HIDE DEF result, fired, changed, price
  <2> QED BY <1>5, <2>1, <2>2, <2>3
<1> HIDE DEF result, fired, price
<1>8. told' \in [{"alert"} -> {0, 1}] /\ quoted' \in [{"alert"} -> {"BTCUSDT", "ETHUSDT"} \cup {None}]
  <2>1. told["alert"] \in {0, 1} /\ told'["alert"] \in {0, 1}
      BY <1>1, <1>5 DEF AlarmsInv
  <2>2. quoted'["alert"] \in {"BTCUSDT", "ETHUSDT"} \cup {None}
      BY <1>1, <1>4 DEF AlarmsInv
  <2> QED BY <1>1, <2>1, <2>2
<1>9. ASSUME "alert" \in DOMAIN alertRows PROVE RowTrue("alert")'
  <2>1. RowTrue("alert") /\ alertRows["alert"] \in Alarms!Row
      BY <1>9 DEF AlarmsInv, RowTrue
  <2>2. CASE "alert" \notin changed
    <3>1. /\ alertRows'["alert"] = alertRows["alert"] /\ told'["alert"] = told["alert"]
          /\ quoted'["alert"] = quoted["alert"] /\ mixed' = mixed
        BY <1>1, <1>7, <1>9, <2>2
    <3> QED BY <2>1, <3>1 DEF RowTrue, Spent
  <2>3. CASE "alert" \in changed
    <3> DEFINE old == alertRows["alert"]
               was == loaded["alert"]
               row == result["alert"]
               new == alertRows'["alert"]
    <3>1. /\ LoadedTrue("alert") /\ was.kind.once \in BOOLEAN /\ was.cooling \in BOOLEAN
          /\ price \in 1..3 /\ "alert" \in seen
        BY <1>4, <2>3
    <3>2. new = [old EXCEPT !.last = IF row.last # was.last THEN row.last ELSE @,
                            !.cooling = IF row.cooling # was.cooling THEN row.cooling ELSE @,
                            !.enabled = IF row.enabled # was.enabled THEN row.enabled ELSE @]
        BY <1>1, <1>9, <2>3 DEF Alarms!Written
    <3>3. /\ old.kind = was.kind /\ (old.symbol = was.symbol \/ "alert" \in mixed)
          /\ was.enabled = TRUE
      <4>1. /\ old.kind = was.kind /\ (old.symbol = was.symbol \/ "alert" \in mixed)
            /\ was.enabled /\ was \in Alarms!Row
          BY <1>9, <3>1 DEF LoadedTrue
      <4> QED BY <4>1, RowFields
    <3>4. row.last = price
        BY <1>6, <3>1
    <3>5. CASE "alert" \in fired
      <4>1. told'["alert"] = 1 /\ (was.kind.once \/ was.cooling = FALSE)
          BY <1>1, <1>5, <3>1, <3>5
      <4>2. row.cooling = TRUE /\ row.enabled = ~was.kind.once
          BY <1>6, <3>1, <3>5
      <4>3. /\ new \in Alarms!Row /\ new.kind = old.kind /\ new.symbol = old.symbol
            /\ new.last = (IF price # was.last THEN price ELSE old.last)
          BY <2>1, <3>1, <3>2, <3>4, <4>2 DEF Alarms!Row
      <4>4. Spent(new)
        <5>1. CASE was.kind.once = TRUE
          <6>1. row.enabled = FALSE
              BY <4>2, <5>1
          <6>2. new.enabled = FALSE
              BY <2>1, <3>2, <3>3, <6>1 DEF Alarms!Row
          <6> QED BY <3>3, <4>3, <5>1, <6>2 DEF Spent
        <5>2. CASE was.kind.once = FALSE
          <6>1. new.cooling = TRUE
              BY <2>1, <3>2, <4>1, <4>2, <5>2 DEF Alarms!Row
          <6> QED BY <3>3, <4>3, <5>2, <6>1 DEF Spent
        <5> QED BY <3>1, <5>1, <5>2
      <4>5. new.last = None \/ quoted'["alert"] = new.symbol \/ "alert" \in mixed'
          BY <1>1, <2>1, <2>3, <3>3, <3>4, <4>3 DEF RowTrue
      <4> QED BY <4>3, <4>4, <4>5 DEF RowTrue, Spent
    <3>6. CASE "alert" \notin fired
      <4>1. told'["alert"] = told["alert"]
          BY <1>1, <3>6
      <4>2. row.cooling = was.cooling /\ row.enabled = was.enabled
          BY <1>6, <3>1, <3>6
      <4>3. /\ new \in Alarms!Row /\ new.kind = old.kind /\ new.symbol = old.symbol
            /\ new.last = (IF price # was.last THEN price ELSE old.last)
            /\ new.cooling = old.cooling /\ new.enabled = old.enabled
          BY <2>1, <3>1, <3>2, <3>4, <4>2 DEF Alarms!Row
      <4>4. told'["alert"] > 0 => Spent(new)
          BY <2>1, <4>1, <4>3 DEF RowTrue, Spent
      <4>5. new.last = None \/ quoted'["alert"] = new.symbol \/ "alert" \in mixed'
          BY <1>1, <2>1, <2>3, <3>3, <3>4, <4>3 DEF RowTrue
      <4> QED BY <4>3, <4>4, <4>5 DEF RowTrue, Spent
    <3> QED BY <3>5, <3>6
  <2> QED BY <2>2, <2>3
<1>10. \A a \in DOMAIN alertRows' : a = "alert" /\ a \in DOMAIN alertRows
    BY <1>1 DEF AlarmsInv
<1>11. \A a \in DOMAIN loaded' : FALSE
    BY <1>1 DEF Alarms!NoRows
<1>12. Alarms!Cardinality(fired) \in Nat
  <2>1. IsFiniteSet({"alert"}) /\ fired \subseteq {"alert"}
      BY <1>3, FS_Singleton
  <2>2. Cardinality(fired) \in Nat
      BY <2>1, FS_Subset, FS_CardinalityType
  <2> QED BY <2>2 DEF Alarms!Cardinality, Cardinality
<1>13. /\ \E S : pushes' \in Seq(S)
       /\ Alarms!RealCrossings'
  <2>1. PICK n \in Nat : n = Alarms!Cardinality(fired)
      BY <1>12
  <2>2. DOMAIN pushes' = 1..n /\ pushes' = [i \in 1..n |-> pushes'[i]]
      BY <1>2, <2>1
  <2>3. pushes' \in Seq({pushes'[i] : i \in 1..n})
      BY <2>2
  <2>4. ASSUME NEW i \in DOMAIN pushes' PROVE pushes'[i].real \/ pushes'[i].edited
    <3>1. /\ order[i] \in fired /\ pushes'[i].real = (quoted[order[i]] = loaded[order[i]].symbol)
          /\ pushes'[i].edited = (order[i] \in mixed)
        BY <1>2, <2>4
    <3>2. order[i] = "alert"
        BY <1>3, <3>1
    <3>3. quoted["alert"] = loaded["alert"].symbol \/ "alert" \in mixed
        BY <1>3, <1>4, <1>5, <3>1, <3>2 DEF LoadedTrue
    <3> QED BY <3>1, <3>2, <3>3
  <2> QED BY <2>3, <2>4 DEF Alarms!RealCrossings
<1> QED BY <1>8, <1>9, <1>10, <1>11, <1>13 DEF AlarmsInv

LEMMA AlarmsKept ==
    ASSUME AlarmsInv, Alarms!Next \/ UNCHANGED alertVars
    PROVE  AlarmsInv'
<1>1. CASE Alarms!Next
  <2>1. CASE \E a \in {"alert"} : Alarms!Delete(a) \/ Alarms!Cooled(a)
      BY <2>1, AlarmsDeleted, AlarmsCooled
  <2>2. CASE \E a \in {"alert"} : \E symbol \in {"BTCUSDT", "ETHUSDT"} :
               \E enabled \in BOOLEAN : Alarms!Update(a, symbol, enabled)
      BY <2>2, AlarmsUpdated
  <2>3. CASE \E a \in {"alert"} : \E symbol \in {"BTCUSDT", "ETHUSDT"} :
               \E sort \in {[type |-> "PRICE_RISES_ABOVE", once |-> TRUE],
                           [type |-> "PRICE_REACHES", once |-> FALSE]} :
                 Alarms!Create(a, sort, symbol)
      BY <2>3, AlarmsCreated
  <2>4. CASE \E prices \in [{"BTCUSDT", "ETHUSDT"} -> 1..3 \cup {None}] : Alarms!Evaluate(prices)
      BY <2>4, AlarmsEvaluated
  <2>5. CASE Alarms!Load \/ Alarms!Send
      BY <2>5, AlarmsLoaded, AlarmsSent
  <2>6. CASE Alarms!RoundFails \/ Alarms!SendFails \/ Alarms!Rest \/ Alarms!Crash
    <3>1. Alarms!Quit /\ UNCHANGED <<alertRows, told, quoted, mixed>>
        BY <2>6 DEF Alarms!RoundFails, Alarms!SendFails, Alarms!Rest, Alarms!Crash
    <3> QED BY <3>1, AlarmsQuit
  <2> QED BY <1>1, <2>1, <2>2, <2>3, <2>4, <2>5, <2>6 DEF Alarms!Next
<1>2. CASE UNCHANGED alertVars
  <2>1. UNCHANGED <<alertRows, loaded, told, quoted, mixed, pushes>>
      BY <1>2 DEF alertVars
  <2>2. \A a \in DOMAIN alertRows : a \in {"alert"} /\ RowTrue(a)'
      BY <2>1 DEF AlarmsInv, RowTrue, Spent
  <2>3. \A a \in DOMAIN loaded : a \in {"alert"} /\ LoadedTrue(a)'
      BY <2>1 DEF AlarmsInv, LoadedTrue, Spent
  <2>4. (\E S : pushes' \in Seq(S)) /\ Alarms!RealCrossings'
      BY <2>1 DEF AlarmsInv, Alarms!RealCrossings
  <2> QED BY <2>1, <2>2, <2>3, <2>4 DEF AlarmsInv
<1> QED BY <1>1, <1>2

LEMMA AlarmsStart == Alarms!Init => AlarmsInv
BY DEF Alarms!Init, Alarms!NoRows, AlarmsInv, Alarms!RealCrossings

\* A message is of an alarm, and says whether it was real and whether the row was edited.
Push == [of : {"alert"}, real : BOOLEAN, edited : BOOLEAN]

AlarmsTyped ==
    /\ step \in {"idle", "fetch", "send"} /\ mixed \subseteq {"alert"}
    /\ \A i \in DOMAIN pushes : pushes[i] \in Push

LEMMA AlarmsTypesStart == Alarms!Init => AlarmsTyped
BY DEF Alarms!Init, AlarmsTyped
\* A round pushes what it has loaded.
LEMMA AlarmsTypesKept ==
    ASSUME AlarmsInv, AlarmsTyped, Alarms!Next \/ UNCHANGED alertVars
    PROVE  AlarmsTyped'
<1>1. CASE \/ \E a \in {"alert"} :
                \/ \E symbol \in {"BTCUSDT", "ETHUSDT"} :
                     \/ \E sort \in {[type |-> "PRICE_RISES_ABOVE", once |-> TRUE],
                                     [type |-> "PRICE_REACHES", once |-> FALSE]} :
                          Alarms!Create(a, sort, symbol)
                     \/ \E enabled \in BOOLEAN : Alarms!Update(a, symbol, enabled)
                \/ Alarms!Delete(a) \/ Alarms!Cooled(a)
           \/ UNCHANGED alertVars
  <2>1. mixed' \subseteq {"alert"} /\ UNCHANGED <<step, pushes>>
      BY <1>1 DEF AlarmsTyped, Alarms!Create, Alarms!Update, Alarms!Delete, Alarms!Cooled, alertVars
  <2> QED BY <2>1 DEF AlarmsTyped
<1>2. ASSUME NEW prices \in [{"BTCUSDT", "ETHUSDT"} -> 1..3 \cup {None}], Alarms!Evaluate(prices)
      PROVE  AlarmsTyped'
  <2> DEFINE fired == {a \in {a \in DOMAIN loaded : prices[loaded[a].symbol] # None} :
                          Alarms!Triggers(a, prices[loaded[a].symbol])}
  <2>1. PICK order \in [1..Alarms!Cardinality(fired) -> fired] :
          pushes' = [i \in DOMAIN order |->
                      [of |-> order[i], real |-> quoted[order[i]] = loaded[order[i]].symbol,
                       edited |-> order[i] \in mixed]]
      BY <1>2 DEF Alarms!Evaluate
  <2>2. fired \subseteq {"alert"}
      BY DEF AlarmsInv
  <2> HIDE DEF fired
  <2>3. ASSUME NEW i \in DOMAIN pushes' PROVE pushes'[i] \in Push
    <3> DEFINE real == quoted[order[i]] = loaded[order[i]].symbol
               edited == order[i] \in mixed
    <3>1. order[i] \in {"alert"}
        BY <2>1, <2>2, <2>3
    <3>2. pushes'[i] = [of |-> order[i], real |-> real, edited |-> edited]
        BY <2>1, <2>3, Zenon
    <3>3. real \in BOOLEAN
        OBVIOUS
    <3>4. edited \in BOOLEAN
        OBVIOUS
    <3> HIDE DEF real, edited
    <3> QED BY <3>1, <3>2, <3>3, <3>4 DEF Push
  <2>4. step' = "send" /\ mixed' = mixed
      BY <1>2 DEF Alarms!Evaluate
  <2> QED BY <2>3, <2>4 DEF AlarmsTyped
<1>3. CASE Alarms!Load
    BY <1>3 DEF AlarmsTyped, Alarms!Load
<1>4. CASE Alarms!Send
  <2>1. pushes # <<>> /\ pushes' = Tail(pushes) /\ UNCHANGED <<step, mixed>>
      BY <1>4 DEF Alarms!Send
  <2>2. PICK S : pushes \in Seq(S)
      BY DEF AlarmsInv
  <2>3. \A i \in DOMAIN pushes' : i + 1 \in DOMAIN pushes /\ pushes'[i] = pushes[i + 1]
      BY <2>1, <2>2
  <2> QED BY <2>1, <2>3 DEF AlarmsTyped
<1>5. CASE Alarms!RoundFails \/ Alarms!SendFails \/ Alarms!Rest \/ Alarms!Crash
  <2>1. step' = "idle" /\ pushes' = <<>> /\ mixed' = mixed
      BY <1>5 DEF Alarms!RoundFails, Alarms!SendFails, Alarms!Rest, Alarms!Crash, Alarms!Quit
  <2> QED BY <2>1 DEF AlarmsTyped
<1> QED BY <1>1, <1>2, <1>3, <1>4, <1>5 DEF Alarms!Next

LEMMA AlarmsTypes == AlarmsInv /\ AlarmsTyped => Alarms!TypeOK
<1> SUFFICES ASSUME AlarmsInv, AlarmsTyped PROVE Alarms!TypeOK
    OBVIOUS
<1>1. \A a \in DOMAIN alertRows : a \in {"alert"} /\ alertRows[a] \in Alarms!Row
    BY DEF AlarmsInv, RowTrue
<1>2. \A a \in DOMAIN loaded : a \in {"alert"} /\ loaded[a] \in Alarms!Row
    BY DEF AlarmsInv, LoadedTrue
<1>3. told \in [{"alert"} -> 0..2] /\ quoted \in [{"alert"} -> {"BTCUSDT", "ETHUSDT"} \cup {None}]
    BY DEF AlarmsInv
<1> QED BY <1>1, <1>2, <1>3 DEF AlarmsTyped, Push, Alarms!TypeOK

-----------------------------------------------------------------------------
(* AccountClients.                                                         *)

AccountNames == {"default", "second"}

\* Only the default account's client is the environment's; a name is one of a row or one
\* of a row that is being written; and what was made since the last of these has its keys.
ClientsInv ==
    /\ accountRows \in [AccountNames -> Keys!Row \cup {None}]
    /\ creating \in [AccountNames -> 1..3 \cup {None}] /\ used \in 0..3
    /\ accountClients \in [AccountNames -> 1..3 \cup {Env, None}]
    /\ loader \in [{"loader"} -> [name : AccountNames, keys : 1..3] \cup {Keys!Idle}]
    /\ \A n \in AccountNames :
        /\ accountClients[n] \in 1..3 \cup {None} \/ n = "default"
        /\ creating[n] = None \/ accountRows[n] = None
        /\ n \notin behind /\ accountClients[n] \notin {Env, None} =>
            /\ creating[n] # None => accountClients[n] = creating[n]
            /\ accountRows[n] # None => accountClients[n] = accountRows[n].keys

\* New clients, each of its account's keys, and nothing else.
LEMMA ClientsMade ==
    ASSUME ClientsInv, NEW names \in SUBSET AccountNames, NEW keysOf \in [names -> 1..3],
           Keys!AddClients(names, keysOf)
    PROVE  /\ accountClients' \in [AccountNames -> 1..3 \cup {Env, None}]
           /\ \A n \in AccountNames :
                /\ accountClients'[n] = IF n \in names THEN keysOf[n] ELSE accountClients[n]
                /\ accountClients'[n] \in 1..3 \cup {None} \/ n = "default"
<1>1. accountClients' = [n \in AccountNames |->
                          IF n \in names THEN keysOf[n] ELSE accountClients[n]]
    BY DEF Keys!AddClients, AccountNames
<1>2. \A n \in AccountNames : n \in names => keysOf[n] \in 1..3
    OBVIOUS
<1> QED BY <1>1, <1>2 DEF ClientsInv

LEMMA ClientsKept ==
    ASSUME ClientsInv, Keys!Next \/ UNCHANGED clientVars
    PROVE  /\ ClientsInv'
           /\ handed' # handed /\ handed'.client # None =>
                \/ handed'.client = Env /\ handed'.name = "default"
                \/ handed'.client \in 1..3 /\ accountClients'[handed'.name] = handed'.client
<1> DEFINE Own == handed' # handed /\ handed'.client # None =>
                    \/ handed'.client = Env /\ handed'.name = "default"
                    \/ /\ handed'.client \in 1..3
                       /\ accountClients'[handed'.name] = handed'.client
<1>1. CASE Keys!Restart
  <2>1. PICK env \in {Env, None} :
          accountClients' = [[n \in AccountNames |-> None] EXCEPT !["default"] = env]
      BY <1>1 DEF Keys!Restart, Keys!Started, Keys!NoClients, AccountNames
  <2>2. /\ loader' = [l \in {"loader"} |-> Keys!Idle] /\ handed' = Keys!Nobody
        /\ creating' = [n \in AccountNames |-> None] /\ UNCHANGED <<accountRows, used>>
      BY <1>1 DEF Keys!Restart, Keys!Started, Keys!NoClients, AccountNames
  <2>3. handed'.client = None
      BY <2>2 DEF Keys!Nobody
  <2>4. \A n \in AccountNames :
          accountClients'[n] \in {Env, None} /\ (n = "default" \/ accountClients'[n] = None)
      BY <2>1
  <2> QED BY <2>1, <2>2, <2>3, <2>4 DEF ClientsInv
<1>2. ASSUME NEW name \in AccountNames, Keys!Create(name) PROVE ClientsInv' /\ Own
  <2>1. /\ accountRows[name] = None /\ creating[name] = None /\ used \in 0..2
        /\ used' = used + 1 /\ creating' = [creating EXCEPT ![name] = used + 1]
        /\ UNCHANGED <<accountRows, loader, handed>>
      BY <1>2 DEF Keys!Create, ClientsInv
  <2>2. used + 1 \in 1..3
      BY <2>1
  <2>3. creating' \in [AccountNames -> 1..3 \cup {None}] /\ used' \in 0..3
        /\ \A n \in AccountNames : creating'[n] = IF n = name THEN used + 1 ELSE creating[n]
      BY <2>1, <2>2 DEF ClientsInv
  <2>4. CASE Keys!AddClients({name}, [n \in {name} |-> used + 1]) /\ behind' = behind \ {name}
    <3>1. /\ accountClients' \in [AccountNames -> 1..3 \cup {Env, None}]
          /\ \A n \in AccountNames :
               /\ accountClients'[n] = IF n = name THEN used + 1 ELSE accountClients[n]
               /\ accountClients'[n] \in 1..3 \cup {None} \/ n = "default"
      <4>1. [n \in {name} |-> used + 1] \in [{name} -> 1..3]
          BY <2>2
      <4> QED BY <2>4, <4>1, ClientsMade
    <3> QED BY <2>1, <2>3, <2>4, <3>1 DEF ClientsInv
  <2>5. CASE behind' = behind \cup {name} /\ UNCHANGED <<accountClients, known>>
      BY <2>1, <2>3, <2>5 DEF ClientsInv
  <2> QED BY <1>2, <2>4, <2>5 DEF Keys!Create
<1>3. ASSUME NEW name \in AccountNames, Keys!Commit(name) PROVE ClientsInv' /\ Own
  <2> DEFINE row == [keys |-> creating[name], active |-> TRUE]
  <2>1. /\ creating[name] # None
        /\ accountRows' = [accountRows EXCEPT ![name] = row]
        /\ creating' = [creating EXCEPT ![name] = None]
        /\ UNCHANGED <<used, accountClients, known, loader, handed, behind>>
      BY <1>3 DEF Keys!Commit
  <2>2. row \in Keys!Row /\ row.keys = creating[name]
      BY <2>1 DEF ClientsInv, Keys!Row, Keys!Keys
  <2> HIDE DEF row
  <2> QED BY <2>1, <2>2 DEF ClientsInv
<1>4. ASSUME NEW name \in AccountNames, Keys!CommitFails(name) PROVE ClientsInv' /\ Own
    BY <1>4 DEF Keys!CommitFails, ClientsInv
<1>5. ASSUME NEW name \in AccountNames, NEW active \in BOOLEAN, Keys!Update(name, active)
      PROVE  ClientsInv' /\ Own
  <2> DEFINE row == [accountRows[name] EXCEPT !.active = active]
  <2>1. /\ accountRows[name] # None /\ accountRows' = [accountRows EXCEPT ![name] = row]
        /\ UNCHANGED <<creating, used, accountClients, known, loader, handed, behind>>
      BY <1>5 DEF Keys!Update
  <2>2. row \in Keys!Row /\ row.keys = accountRows[name].keys
      BY <2>1 DEF ClientsInv, Keys!Row
  <2> HIDE DEF row
  <2> QED BY <2>1, <2>2 DEF ClientsInv
<1>6. ASSUME NEW name \in AccountNames, Keys!Delete(name) PROVE ClientsInv' /\ Own
    BY <1>6 DEF Keys!Delete, ClientsInv
<1>7. ASSUME NEW name \in AccountNames, Keys!Get(name) PROVE ClientsInv' /\ Own
  <2>1. UNCHANGED <<accountRows, creating, used, loader>>
      BY <1>7 DEF Keys!Get
  <2>2. CASE /\ accountClients[name] # None /\ Keys!Hand(name, accountClients[name])
             /\ UNCHANGED <<accountClients, known, behind>>
    <3>1. handed'.name = name /\ handed'.client = accountClients[name]
        BY <2>2 DEF Keys!Hand
    <3>2. ClientsInv'
        BY <2>1, <2>2 DEF ClientsInv
    <3>3. accountClients[name] \in 1..3 \/ (accountClients[name] = Env /\ name = "default")
        BY <2>2 DEF ClientsInv
    <3> QED BY <2>2, <3>1, <3>2, <3>3
  <2>3. CASE /\ Keys!Active(name)
             /\ Keys!AddClients({name}, [n \in {name} |-> accountRows[name].keys])
             /\ Keys!Hand(name, accountRows[name].keys) /\ behind' = behind \ {name}
    <3>1. accountRows[name] # None /\ accountRows[name].keys \in 1..3
        BY <2>3 DEF Keys!Active, ClientsInv, Keys!Row, Keys!Keys
    <3>2. /\ accountClients' \in [AccountNames -> 1..3 \cup {Env, None}]
          /\ \A n \in AccountNames :
               /\ accountClients'[n] = IF n = name THEN accountRows[name].keys
                                      ELSE accountClients[n]
               /\ accountClients'[n] \in 1..3 \cup {None} \/ n = "default"
      <4>1. [n \in {name} |-> accountRows[name].keys] \in [{name} -> 1..3]
          BY <3>1
      <4> QED BY <2>3, <4>1, ClientsMade
    <3>3. handed'.name = name /\ handed'.client = accountRows[name].keys
        BY <2>3 DEF Keys!Hand
    <3>4. ClientsInv'
        BY <2>1, <2>3, <3>1, <3>2 DEF ClientsInv
    <3> QED BY <3>1, <3>2, <3>3, <3>4
  <2> QED BY <1>7, <2>2, <2>3 DEF Keys!Get
<1>8. ASSUME NEW name \in AccountNames, Keys!Register(name) PROVE ClientsInv' /\ Own
  <2> DEFINE active == {n \in AccountNames : Keys!Active(n)}
             keysOf == [n \in active |-> accountRows[n].keys]
  <2>1. /\ Keys!AddClients(active, keysOf) /\ behind' = behind \ active
        /\ UNCHANGED <<accountRows, creating, used, loader, handed>>
      BY <1>8 DEF Keys!Register, AccountNames
  <2>2. \A n \in active : n \in AccountNames /\ accountRows[n] # None /\ accountRows[n].keys \in 1..3
      BY DEF Keys!Active, ClientsInv, Keys!Row, Keys!Keys
  <2>3. keysOf \in [active -> 1..3] /\ active \in SUBSET AccountNames
        /\ \A n \in active : keysOf[n] = accountRows[n].keys
      BY <2>2
  <2> HIDE DEF keysOf, active
  <2>4. /\ accountClients' \in [AccountNames -> 1..3 \cup {Env, None}]
        /\ \A n \in AccountNames :
             /\ accountClients'[n] = IF n \in active THEN keysOf[n] ELSE accountClients[n]
             /\ accountClients'[n] \in 1..3 \cup {None} \/ n = "default"
      BY <2>1, <2>3, ClientsMade
  <2>5. ASSUME NEW n \in AccountNames, n \notin behind', accountClients'[n] \notin {Env, None}
        PROVE  /\ creating[n] # None => accountClients'[n] = creating[n]
               /\ accountRows[n] # None => accountClients'[n] = accountRows[n].keys
      BY <2>1, <2>2, <2>3, <2>4, <2>5 DEF ClientsInv
  <2> QED BY <2>1, <2>4, <2>5 DEF ClientsInv
<1>9. ASSUME NEW name \in AccountNames, NEW l \in {"loader"}, Keys!Read(l, name)
      PROVE  ClientsInv' /\ Own
  <2> DEFINE read == [name |-> name, keys |-> accountRows[name].keys]
  <2>1. /\ Keys!Active(name) /\ loader' = [loader EXCEPT ![l] = read]
        /\ UNCHANGED <<accountRows, creating, used, accountClients, known, handed, behind>>
      BY <1>9 DEF Keys!Read
  <2>2. read \in [name : AccountNames, keys : 1..3]
      BY <2>1 DEF Keys!Active, ClientsInv, Keys!Row, Keys!Keys
  <2> HIDE DEF read
  <2> QED BY <2>1, <2>2 DEF ClientsInv
<1>10. ASSUME NEW l \in {"loader"}, Keys!Made(l) PROVE ClientsInv' /\ Own
  <2> DEFINE name == loader[l].name
             keys == loader[l].keys
  <2>1. /\ loader[l] # Keys!Idle
        /\ Keys!AddClients({name}, [n \in {name} |-> keys]) /\ Keys!Hand(name, keys)
        /\ behind' = IF /\ accountRows[name] # None /\ accountRows[name].keys = keys
                        /\ creating[name] = None
                     THEN behind \ {name} ELSE behind \cup {name}
        /\ loader' = [loader EXCEPT ![l] = Keys!Idle]
        /\ UNCHANGED <<accountRows, creating, used>>
      BY <1>10 DEF Keys!Made
  <2>2. name \in AccountNames /\ keys \in 1..3
      BY <2>1 DEF ClientsInv
  <2>3. handed'.name = name /\ handed'.client = keys
      BY <2>1 DEF Keys!Hand
  <2> HIDE DEF name, keys
  <2>4. /\ accountClients' \in [AccountNames -> 1..3 \cup {Env, None}]
        /\ \A n \in AccountNames :
             /\ accountClients'[n] = IF n = name THEN keys ELSE accountClients[n]
             /\ accountClients'[n] \in 1..3 \cup {None} \/ n = "default"
    <3>1. [n \in {name} |-> keys] \in [{name} -> 1..3]
        BY <2>2
    <3> QED BY <2>1, <2>2, <3>1, ClientsMade
  <2>5. loader' \in [{"loader"} -> [name : AccountNames, keys : 1..3] \cup {Keys!Idle}]
      BY <2>1 DEF ClientsInv
  <2>6. ASSUME NEW n \in AccountNames, n \notin behind', accountClients'[n] \notin {Env, None}
        PROVE  /\ creating[n] # None => accountClients'[n] = creating[n]
               /\ accountRows[n] # None => accountClients'[n] = accountRows[n].keys
      BY <2>1, <2>2, <2>4, <2>6 DEF ClientsInv
  <2> QED BY <2>1, <2>2, <2>3, <2>4, <2>5, <2>6 DEF ClientsInv
<1>11. CASE UNCHANGED clientVars
    BY <1>11 DEF clientVars, ClientsInv
<1> QED BY <1>1, <1>2, <1>3, <1>4, <1>5, <1>6, <1>7, <1>8, <1>9, <1>10, <1>11
        DEF Keys!Next, AccountNames

LEMMA ClientsStart == Keys!Init => ClientsInv
<1> SUFFICES ASSUME Keys!Init PROVE ClientsInv
    OBVIOUS
<1>1. PICK env \in {Env, None} :
        accountClients = [[n \in AccountNames |-> None] EXCEPT !["default"] = env]
    BY DEF Keys!Init, Keys!NoClients, AccountNames
<1>2. /\ loader = [l \in {"loader"} |-> Keys!Idle] /\ used = 0
      /\ creating = [n \in AccountNames |-> None] /\ accountRows = [n \in AccountNames |-> None]
    BY DEF Keys!Init, Keys!NoClients, AccountNames
<1>3. \A n \in AccountNames :
        accountClients[n] \in {Env, None} /\ (n = "default" \/ accountClients[n] = None)
    BY <1>1
<1>4. accountClients \in [AccountNames -> 1..3 \cup {Env, None}]
    BY <1>1
<1>5. /\ accountRows \in [AccountNames -> Keys!Row \cup {None}]
      /\ creating \in [AccountNames -> 1..3 \cup {None}] /\ used \in 0..3
      /\ loader \in [{"loader"} -> [name : AccountNames, keys : 1..3] \cup {Keys!Idle}]
    BY <1>2
<1>6. \A n \in AccountNames : creating[n] = None /\ accountRows[n] = None
    BY <1>2
<1> QED BY <1>3, <1>4, <1>5, <1>6 DEF ClientsInv

\* What the invariant leaves open: whom the clients are known of and handed to.
ClientsTyped ==
    /\ known \subseteq AccountNames /\ behind \subseteq AccountNames
    /\ handed \in [name : AccountNames \cup {None}, client : 1..3 \cup {Env, None}]

LEMMA ClientsTypesStart == Keys!Init => ClientsTyped
BY DEF Keys!Init, Keys!Nobody, ClientsTyped, AccountNames
\* Only clients that there are, or that are being made, are handed out.
LEMMA ClientsTypesKept ==
    ASSUME ClientsInv, ClientsTyped, Keys!Next \/ UNCHANGED clientVars
    PROVE  ClientsTyped'
<1>1. /\ accountRows \in [AccountNames -> Keys!Row \cup {None}]
      /\ accountClients \in [AccountNames -> 1..3 \cup {Env, None}]
      /\ loader \in [{"loader"} -> [name : AccountNames, keys : 1..3] \cup {Keys!Idle}]
      /\ known \subseteq AccountNames /\ behind \subseteq AccountNames
      /\ handed \in [name : AccountNames \cup {None}, client : 1..3 \cup {Env, None}]
    BY DEF ClientsInv, ClientsTyped
<1>2. ASSUME NEW name \in AccountNames, NEW client \in 1..3 \cup {Env, None}, Keys!Hand(name, client)
      PROVE  handed' \in [name : AccountNames \cup {None}, client : 1..3 \cup {Env, None}]
    BY <1>2 DEF Keys!Hand
<1>3. CASE Keys!Restart
  <2>1. known' = {} /\ behind' = {} /\ handed' = [name |-> None, client |-> None]
      BY <1>3 DEF Keys!Restart, Keys!Started, Keys!Nobody
  <2> QED BY <2>1 DEF ClientsTyped
<1>4. ASSUME NEW name \in AccountNames,
             \/ Keys!Create(name) \/ Keys!Commit(name) \/ Keys!CommitFails(name)
             \/ \E active \in BOOLEAN : Keys!Update(name, active)
             \/ Keys!Delete(name) \/ Keys!Register(name) \/ Keys!Read("loader", name)
      PROVE  ClientsTyped'
  <2>1. handed' = handed
      BY <1>4 DEF Keys!Create, Keys!Commit, Keys!CommitFails, Keys!Update, Keys!Delete,
                  Keys!Register, Keys!Read
  <2>2. behind' \subseteq AccountNames
      BY <1>1, <1>4 DEF Keys!Create, Keys!Commit, Keys!CommitFails, Keys!Update, Keys!Delete,
                        Keys!Register, Keys!Read
  <2>3. known' \subseteq AccountNames
      BY <1>1, <1>4 DEF Keys!Create, Keys!Commit, Keys!CommitFails, Keys!Update, Keys!Delete,
                        Keys!Register, Keys!Read, Keys!AddClients, AccountNames
  <2> QED BY <1>1, <2>1, <2>2, <2>3 DEF ClientsTyped
<1>5. ASSUME NEW name \in AccountNames, Keys!Get(name) PROVE ClientsTyped'
  <2>1. CASE accountClients[name] # None /\ Keys!Hand(name, accountClients[name])
             /\ UNCHANGED <<accountClients, known, behind>>
    <3>1. accountClients[name] \in 1..3 \cup {Env, None}
        BY <1>1
    <3> QED BY <1>1, <1>2, <2>1, <3>1 DEF ClientsTyped
  <2>2. CASE /\ Keys!Active(name)
             /\ Keys!AddClients({name}, [n \in {name} |-> accountRows[name].keys])
             /\ Keys!Hand(name, accountRows[name].keys) /\ behind' = behind \ {name}
    <3>1. accountRows[name].keys \in 1..3
        BY <1>1, <2>2 DEF Keys!Active, Keys!Row, Keys!Keys
    <3>2. known' = known \cup {name}
        BY <2>2 DEF Keys!AddClients
    <3> QED BY <1>1, <1>2, <2>2, <3>1, <3>2 DEF ClientsTyped
  <2> QED BY <1>5, <2>1, <2>2 DEF Keys!Get
<1>6. ASSUME Keys!Made("loader") PROVE ClientsTyped'
  <2> DEFINE l == loader["loader"]
  <2>1. /\ l # Keys!Idle /\ known' = known \cup {l.name} /\ Keys!Hand(l.name, l.keys)
        /\ behind' \in {behind \ {l.name}, behind \cup {l.name}}
      BY <1>6 DEF Keys!Made, Keys!AddClients
  <2>2. l.name \in AccountNames /\ l.keys \in 1..3
      BY <1>1, <2>1
  <2> HIDE DEF l
  <2> QED BY <1>1, <1>2, <2>1, <2>2 DEF ClientsTyped
<1>7. CASE UNCHANGED clientVars
    BY <1>7 DEF ClientsTyped, clientVars
<1> QED BY <1>3, <1>4, <1>5, <1>6, <1>7 DEF Keys!Next, AccountNames

LEMMA ClientsTypes == ClientsInv /\ ClientsTyped => Keys!TypeOK
BY DEF ClientsInv, ClientsTyped, AccountNames, Keys!TypeOK, Keys!Row, Keys!Keys, Keys!Idle

-----------------------------------------------------------------------------
(* Backtest.                                                               *)

BacktestInv == Simulated!TypeOK /\ Simulated!BooksBalance /\ Simulated!InStep

LEMMA BacktestBegins ==
    ASSUME Simulated!Init
    PROVE  BacktestInv
<1>1. /\ candle = 0 /\ believed = "NONE" /\ trade = "NONE" /\ rest = 0 /\ balance = 2
      /\ booked = 0 /\ leftAt = -1 - 1 /\ refused = FALSE
    BY DEF Simulated!Init
<1>2. candle \in 0..7 /\ rest \in 0..1 /\ balance \in Int /\ booked \in Int /\ leftAt \in -2..6
    BY <1>1
<1>3. refused \in BOOLEAN
    BY <1>1, Zenon
<1>4. Simulated!TypeOK
    BY <1>1, <1>2, <1>3 DEF Simulated!TypeOK, Simulated!Sides
<1>5. Simulated!BooksBalance /\ Simulated!InStep
    BY <1>1 DEF Simulated!BooksBalance, Simulated!InStep
<1> QED BY <1>4, <1>5 DEF BacktestInv

LEMMA BacktestKept ==
    ASSUME BacktestInv, Simulated!Next \/ UNCHANGED backtestVars
    PROVE  BacktestInv'
<1> USE DEF Simulated!Sides
<1>1. /\ candle \in 0..7 /\ believed \in {"LONG", "SHORT", "NONE"}
      /\ trade \in {"LONG", "SHORT", "NONE"} /\ rest \in 0..1 /\ balance \in Int /\ booked \in Int
      /\ leftAt \in -2..6 /\ refused \in BOOLEAN
    BY DEF BacktestInv, Simulated!TypeOK
<1>2. balance = 2 + booked - (IF trade = "NONE" THEN 0 ELSE 1)
    BY DEF BacktestInv, Simulated!BooksBalance
<1>3. candle =< 6 => (trade # "NONE" => believed = trade) /\ (~refused => believed = trade)
    BY DEF BacktestInv, Simulated!InStep
<1>4. ASSUME Simulated!Candle PROVE BacktestInv'
  <2>1. PICK e \in Simulated!Evaluations :
          Simulated!Exit(e) \/ Simulated!Holding(e) \/ Simulated!Enter(e) \/ Simulated!Refuse(e)
      BY <1>4 DEF Simulated!Candle
  <2>2. candle \in 1..6 /\ candle' = candle + 1
      BY <1>4 DEF Simulated!Candle
  <2>3. /\ e.believed \in {"LONG", "SHORT", "NONE"} /\ e.rest \in 0..1
        /\ e.signal.side \in {"LONG", "SHORT", "NONE"}
        /\ e.signal = Simulated!Hold => e.believed = believed
      BY <1>1, <2>1 DEF Simulated!Evaluations, Simulated!Opposite, Simulated!Hold
  <2>4. CASE Simulated!Exit(e)
    <3>1. PICK gain \in {-1, 2} : Simulated!Close(gain)
        BY <2>4 DEF Simulated!Exit
    <3>2. /\ balance' = balance + gain - 1 /\ booked' = booked + gain - 1 - 1
        BY <3>1 DEF Simulated!Close
    <3>3. /\ trade # "NONE" /\ trade' = "NONE" /\ leftAt' = candle /\ refused' = refused
          /\ believed' = "NONE" /\ rest' \in 0..1
        BY <2>3, <2>4 DEF Simulated!Exit, Simulated!Closed
    <3>4. Simulated!TypeOK'
        BY <1>1, <2>2, <3>2, <3>3 DEF Simulated!TypeOK
    <3>5. Simulated!BooksBalance'
        BY <1>1, <1>2, <3>2, <3>3 DEF Simulated!BooksBalance
    <3>6. Simulated!InStep'
        BY <3>3 DEF Simulated!InStep
    <3> QED BY <3>4, <3>5, <3>6 DEF BacktestInv
  <2>5. CASE Simulated!Holding(e)
    <3>1. /\ believed' = believed /\ rest' = e.rest
          /\ UNCHANGED <<trade, balance, booked, leftAt, refused>>
        BY <2>3, <2>5 DEF Simulated!Holding
    <3>2. Simulated!TypeOK'
        BY <1>1, <2>2, <2>3, <3>1 DEF Simulated!TypeOK
    <3>3. Simulated!BooksBalance' /\ Simulated!InStep'
        BY <1>2, <1>3, <2>2, <3>1 DEF Simulated!BooksBalance, Simulated!InStep
    <3> QED BY <3>2, <3>3 DEF BacktestInv
  <2>6. CASE Simulated!Enter(e)
    <3>1. /\ trade = "NONE" /\ trade' = e.signal.side /\ believed' = e.signal.side
          /\ rest' = e.rest /\ balance' = balance - 1 /\ trade' # "NONE"
          /\ UNCHANGED <<booked, leftAt, refused>>
        BY <2>6 DEF Simulated!Enter
    <3>2. Simulated!TypeOK'
        BY <1>1, <2>2, <2>3, <3>1 DEF Simulated!TypeOK
    <3>3. Simulated!BooksBalance' /\ Simulated!InStep'
        BY <1>1, <1>2, <3>1 DEF Simulated!BooksBalance, Simulated!InStep
    <3> QED BY <3>2, <3>3 DEF BacktestInv
  <2>7. CASE Simulated!Refuse(e)
    <3>1. /\ trade = "NONE" /\ believed' = e.believed /\ rest' = e.rest /\ refused' = TRUE
          /\ UNCHANGED <<trade, balance, booked, leftAt>>
        BY <2>7 DEF Simulated!Refuse
    <3>2. refused' \in BOOLEAN
        BY <3>1, Zenon
    <3>3. Simulated!TypeOK'
        BY <1>1, <2>2, <2>3, <3>1, <3>2 DEF Simulated!TypeOK
    <3>4. Simulated!BooksBalance' /\ Simulated!InStep'
        BY <1>2, <3>1 DEF Simulated!BooksBalance, Simulated!InStep
    <3> QED BY <3>3, <3>4 DEF BacktestInv
  <2> QED BY <2>1, <2>4, <2>5, <2>6, <2>7
<1>5. ASSUME Simulated!Warmup PROVE BacktestInv'
  <2>1. /\ candle = 0 /\ candle' = 1
        /\ UNCHANGED <<believed, rest, trade, balance, booked, leftAt, refused>>
      BY <1>5 DEF Simulated!Warmup
  <2>2. Simulated!TypeOK'
      BY <1>1, <2>1 DEF Simulated!TypeOK
  <2> QED BY <1>2, <1>3, <2>1, <2>2 DEF BacktestInv, Simulated!BooksBalance, Simulated!InStep
<1>6. ASSUME Simulated!Finish PROVE BacktestInv'
  <2>1. PICK gain \in {-1, 2} : Simulated!Close(gain)
      BY <1>6 DEF Simulated!Finish
  <2>2. balance' = balance + gain - 1 /\ booked' = booked + gain - 1 - 1
      BY <2>1 DEF Simulated!Close
  <2>3. /\ candle = 7 /\ trade # "NONE" /\ trade' = "NONE" /\ leftAt' = 6
        /\ UNCHANGED <<candle, believed, rest, refused>>
      BY <1>6 DEF Simulated!Finish
  <2>4. Simulated!TypeOK'
      BY <1>1, <2>2, <2>3 DEF Simulated!TypeOK
  <2> QED BY <1>1, <1>2, <2>2, <2>3, <2>4 DEF BacktestInv, Simulated!BooksBalance, Simulated!InStep
<1>7. CASE UNCHANGED backtestVars
  <2>1. Simulated!TypeOK'
      BY <1>1, <1>7 DEF backtestVars, Simulated!TypeOK
  <2> QED BY <1>2, <1>3, <1>7, <2>1
          DEF backtestVars, BacktestInv, Simulated!BooksBalance, Simulated!InStep
<1> QED BY <1>4, <1>5, <1>6, <1>7 DEF Simulated!Next

\* Of a backtest without a trade: the strategy has counted the candles since the last one, or
\* believes in one, which it began after them.
RestInv ==
    trade = "NONE" /\ candle =< 6 =>
        candle >= leftAt + 2 - (IF believed = "NONE" THEN rest ELSE 0)

LEMMA RestKept ==
    ASSUME BacktestInv, RestInv, Simulated!Next \/ UNCHANGED backtestVars
    PROVE  /\ RestInv'
           /\ trade = "NONE" /\ trade' # "NONE" => candle > leftAt + 1
<1> USE DEF Simulated!Sides
<1>1. /\ candle \in 0..7 /\ believed \in {"LONG", "SHORT", "NONE"}
      /\ trade \in {"LONG", "SHORT", "NONE"} /\ rest \in 0..1 /\ leftAt \in -2..6
    BY DEF BacktestInv, Simulated!TypeOK
<1>2. ASSUME Simulated!Candle
      PROVE  RestInv' /\ (trade = "NONE" /\ trade' # "NONE" => candle > leftAt + 1)
  <2>1. PICK e \in Simulated!Evaluations :
          Simulated!Exit(e) \/ Simulated!Holding(e) \/ Simulated!Enter(e) \/ Simulated!Refuse(e)
      BY <1>2 DEF Simulated!Candle
  <2>2. candle \in 1..6 /\ candle' = candle + 1
      BY <1>2 DEF Simulated!Candle
  <2>3. /\ e.believed \in {"LONG", "SHORT", "NONE"} /\ e.rest \in 0..1
        /\ e.signal.side # "NONE" /\ believed = "NONE" => rest = 0
        /\ believed # "NONE" /\ e.believed = "NONE" => e.rest = 1
        /\ believed = "NONE" /\ e.signal.side = "NONE" =>
             e.believed = "NONE" /\ e.rest = IF rest > 0 THEN rest - 1 ELSE 0
        /\ believed # "NONE" /\ e.signal.side = "NONE" => e.believed # "NONE"
        /\ e.signal = Simulated!Hold => e.signal.side = "NONE"
      BY <1>1, <2>1 DEF Simulated!Evaluations, Simulated!Opposite, Simulated!Hold
  <2>4. trade = "NONE" /\ e.signal.side # "NONE" => candle > leftAt + 1
      BY <1>1, <2>2, <2>3 DEF RestInv
  <2>5. CASE Simulated!Exit(e)
    <3>1. /\ trade # "NONE" /\ trade' = "NONE" /\ leftAt' = candle /\ believed' = "NONE"
          /\ rest' = IF e.rest = 0 \/ e.believed # "NONE" THEN 1 ELSE e.rest
        BY <2>5 DEF Simulated!Exit, Simulated!Closed
    <3> QED BY <2>2, <2>3, <3>1 DEF RestInv
  <2>6. CASE Simulated!Holding(e)
    <3>1. /\ believed' = e.believed /\ rest' = e.rest /\ trade' = trade /\ leftAt' = leftAt
          /\ e.signal.side = "NONE"
        BY <2>3, <2>6 DEF Simulated!Holding
    <3> QED BY <1>1, <2>2, <2>3, <3>1 DEF RestInv
  <2>7. CASE Simulated!Enter(e)
    <3>1. trade = "NONE" /\ e.signal.side # "NONE" /\ trade' = e.signal.side
        BY <2>7 DEF Simulated!Enter
    <3> QED BY <2>4, <3>1 DEF RestInv
  <2>8. CASE Simulated!Refuse(e)
    <3>1. /\ trade = "NONE" /\ e.signal.side # "NONE" /\ trade' = "NONE"
          /\ believed' = e.believed /\ rest' = e.rest /\ leftAt' = leftAt
        BY <2>8 DEF Simulated!Refuse
    <3> QED BY <1>1, <2>2, <2>3, <2>4, <3>1 DEF RestInv
  <2> QED BY <2>1, <2>5, <2>6, <2>7, <2>8
<1>3. CASE Simulated!Warmup
    BY <1>1, <1>3 DEF Simulated!Warmup, RestInv
<1>4. CASE Simulated!Finish
    BY <1>1, <1>4 DEF Simulated!Finish, RestInv
<1>5. CASE UNCHANGED backtestVars
    BY <1>5 DEF backtestVars, RestInv
<1> QED BY <1>2, <1>3, <1>4, <1>5 DEF Simulated!Next

-----------------------------------------------------------------------------
(* PaperAccount.                                                           *)

\* The cost of a position is a multiple of 144, and so is its entry price after one order:
\* so that the averages of the next two are whole.
Holds(p, filled) ==
    /\ p.side \in {"NONE", "LONG", "SHORT"} /\ p.size \in 0..4 /\ p.entry \in Nat
    /\ p = [side |-> p.side, size |-> p.size, entry |-> p.entry]
    /\ p.side = "NONE" <=> p.size = 0
    /\ filled = 0 => p.size = 0
    /\ filled =< 1 => \E k \in Nat : p.entry = 144 * k
    /\ filled =< 2 => \E k \in Nat : p.entry * p.size = 144 * k

PaperInv ==
    /\ fills \in 0..3 /\ funds \in Int /\ kept \in Int /\ fees \in Int /\ cash \in Int
    /\ Holds(net, fills) /\ Holds(paperRow, fills)
    /\ Paper!BooksBalance

\* The cost of an averaged position is that of its parts.
LEMMA AverageExact ==
    ASSUME NEW p, Holds(p, 2), p.side # "NONE", NEW quantity \in {1, 2}, NEW price \in {144, 288},
           p.size + quantity =< 4
    PROVE  /\ Paper!Average(p, quantity, price) \in Nat
           /\ Paper!Average(p, quantity, price) * (p.size + quantity)
                = p.entry * p.size + price * quantity
<1>1. p.size \in 1..3 /\ p.entry \in Nat
    BY DEF Holds
<1>2. PICK k \in Nat : p.entry * p.size = 144 * k
    BY DEF Holds
<1>3. PICK j \in Nat : price * quantity = 144 * j
  <2>1. price * quantity \in {144 * 1, 144 * 2, 144 * 4}
      OBVIOUS
  <2> QED BY <2>1
<1>4. PICK n \in 2..4 : n = p.size + quantity
    BY <1>1
<1>5. Paper!Average(p, quantity, price) = (144 * k + 144 * j) \div n
    BY <1>2, <1>3, <1>4 DEF Paper!Average
<1>6. (144 * k + 144 * j) \div n \in Nat /\ ((144 * k + 144 * j) \div n) * n = 144 * k + 144 * j
  <2>1. CASE n = 2
    <3>1. (144 * k + 144 * j) \div 2 = 72 * (k + j)
        OBVIOUS
    <3> QED BY <2>1, <3>1
  <2>2. CASE n = 3
    <3>1. (144 * k + 144 * j) \div 3 = 48 * (k + j)
        OBVIOUS
    <3> QED BY <2>2, <3>1
  <2>3. CASE n = 4
    <3>1. (144 * k + 144 * j) \div 4 = 36 * (k + j)
        OBVIOUS
    <3> QED BY <2>3, <3>1
  <2> QED BY <2>1, <2>2, <2>3
<1> QED BY <1>2, <1>3, <1>4, <1>5, <1>6

LEMMA HoldsLater ==
    ASSUME NEW p, NEW filled \in 0..2, Holds(p, filled)
    PROVE  Holds(p, filled + 1)
<1>1. ~(filled + 1 = 0) /\ (filled + 1 =< 1 => filled =< 1) /\ (filled + 1 =< 2 => filled =< 2)
    OBVIOUS
<1> QED BY <1>1 DEF Holds

\* What an order changes in the position's cost, it brings in or realizes; and the next
\* average is whole.
LEMMA OrderBooked ==
    ASSUME NEW filled \in 0..2, Holds(net, filled), NEW way \in {"BUY", "SELL"},
           NEW quantity \in {1, 2}, NEW price \in {144, 288},
           Paper!Updated(way, quantity, price).size =< 4
    PROVE  LET new == Paper!Updated(way, quantity, price)
               signed == IF way = "BUY" THEN -1 ELSE 1
           IN  /\ Holds(new, filled + 1)
               /\ Paper!Applied(way, quantity) \in 0..4
               /\ Paper!Realized(way, quantity, price) \in Int
               /\ Paper!Cost(new) \in Int /\ Paper!Cost(net) \in Int
               /\ Paper!Realized(way, quantity, price) =
                    signed * Paper!Applied(way, quantity) * price
                      + Paper!Cost(new) - Paper!Cost(net)
<1> DEFINE new == Paper!Updated(way, quantity, price)
           signed == IF way = "BUY" THEN -1 ELSE 1
           applied == Paper!Applied(way, quantity)
           realized == Paper!Realized(way, quantity, price)
           Goal == /\ Holds(new, filled + 1) /\ applied \in 0..4 /\ realized \in Int
                   /\ Paper!Cost(new) \in Int /\ Paper!Cost(net) \in Int
                   /\ realized = signed * applied * price + Paper!Cost(new) - Paper!Cost(net)
<1> SUFFICES Goal
    OBVIOUS
<1>1. /\ net.side \in {"NONE", "LONG", "SHORT"} /\ net.size \in 0..4 /\ net.entry \in Nat
      /\ net = [side |-> net.side, size |-> net.size, entry |-> net.entry]
      /\ net.side = "NONE" <=> net.size = 0
      /\ filled = 0 => net.size = 0
    BY DEF Holds
<1>2. Paper!Opened(way) \in {"LONG", "SHORT"} /\ (Paper!Opened(way) = "LONG" <=> way = "BUY")
    BY DEF Paper!Opened
<1>3. CASE net.side = "NONE"
  <2>1. /\ new = [side |-> Paper!Opened(way), size |-> quantity, entry |-> price]
        /\ applied = quantity /\ realized = 0
      BY <1>2, <1>3 DEF Paper!Updated, Paper!Applied, Paper!Realized
  <2>2. new.side = Paper!Opened(way) /\ new.size = quantity /\ new.entry = price
      BY <2>1
  <2> HIDE DEF new, applied, realized
  <2>3. \E k \in Nat : new.entry = 144 * k
    <3>1. price = 144 * 1 \/ price = 144 * 2
        OBVIOUS
    <3> QED BY <2>2, <3>1
  <2>4. \E k \in Nat : new.entry * new.size = 144 * k
    <3>1. price * quantity \in {144 * 1, 144 * 2, 144 * 4}
        OBVIOUS
    <3> QED BY <2>2, <3>1
  <2>5. Holds(new, filled + 1)
      BY <1>2, <2>1, <2>2, <2>3, <2>4 DEF Holds
  <2>6. Paper!Cost(net) = 0
      BY <1>1, <1>3 DEF Paper!Cost
  <2>7. Paper!Cost(new) = (IF way = "BUY" THEN quantity ELSE -quantity) * price
      BY <1>2, <2>2 DEF Paper!Cost
  <2>8. Goal
      BY <2>1, <2>5, <2>6, <2>7
  <2> QED BY <2>8
<1>4. CASE net.side = Paper!Opened(way)
  <2> DEFINE average == Paper!Average(net, quantity, price)
  <2>1. /\ new = [net EXCEPT !.size = @ + quantity, !.entry = average]
        /\ applied = quantity /\ realized = 0
      BY <1>2, <1>4 DEF Paper!Updated, Paper!Applied, Paper!Realized
  <2>2. new.side = net.side /\ new.size = net.size + quantity /\ new.entry = average
        /\ new = [side |-> new.side, size |-> new.size, entry |-> new.entry]
    <3>1. PICK s, z, e : s = net.side /\ z = net.size /\ e = net.entry
        OBVIOUS
    <3>2. net = [side |-> s, size |-> z, entry |-> e]
        BY <1>1, <3>1
    <3> HIDE DEF new, average
    <3>3. new = [side |-> s, size |-> z + quantity, entry |-> average]
        BY <2>1, <3>2
    <3> QED BY <3>1, <3>3
  <2>3. Holds(net, 2)
      BY DEF Holds
  <2>4. net.size + quantity =< 4 /\ net.size # 0 /\ net.side # "NONE"
      BY <1>1, <1>2, <1>4, <2>2
  <2>5. average \in Nat
        /\ average * (net.size + quantity) = net.entry * net.size + price * quantity
      BY <2>3, <2>4, AverageExact
  <2> HIDE DEF new, applied, realized, average
  <2>6. \E k \in Nat : new.entry * new.size = 144 * k
    <3>1. PICK k \in Nat : net.entry * net.size = 144 * k
        BY <2>3 DEF Holds
    <3>2. price * quantity \in {144 * 1, 144 * 2, 144 * 4}
        OBVIOUS
    <3>3. PICK j \in Nat : price * quantity = 144 * j
        BY <3>2
    <3>4. new.entry * new.size = 144 * (k + j)
        BY <2>2, <2>5, <3>1, <3>3
    <3> QED BY <3>4
  <2>7. Holds(new, filled + 1)
    <3>1. ~(filled + 1 =< 1)
        BY <1>1, <2>4
    <3>2. new.size \in 0..4 /\ new.size # 0
        BY <1>1, <2>2, <2>4
    <3> QED BY <1>1, <2>2, <2>4, <2>5, <2>6, <3>1, <3>2 DEF Holds
  <2>8. Paper!Cost(net) = (IF way = "BUY" THEN net.size ELSE -net.size) * net.entry
      BY <1>2, <1>4 DEF Paper!Cost
  <2>9. Paper!Cost(new) = (IF way = "BUY" THEN net.size + quantity ELSE -(net.size + quantity)) * average
      BY <1>2, <1>4, <2>2 DEF Paper!Cost
  <2>10. Goal
    <3>1. PICK n \in Nat : n = net.size + quantity
        BY <1>1
    <3>2. n * average = net.size * net.entry + quantity * price
        BY <1>1, <2>5, <3>1
    <3>3. CASE way = "BUY"
      <4>1. Paper!Cost(new) = n * average /\ Paper!Cost(net) = net.size * net.entry
          BY <2>8, <2>9, <3>1, <3>3
      <4>2. signed * applied * price = -(quantity * price)
          BY <2>1, <3>3
      <4> QED BY <1>1, <2>1, <2>5, <2>7, <3>2, <4>1, <4>2
    <3>4. CASE way = "SELL"
      <4>1. Paper!Cost(new) = -(n * average) /\ Paper!Cost(net) = -(net.size * net.entry)
          BY <1>1, <2>5, <2>8, <2>9, <3>1, <3>4
      <4>2. signed * applied * price = quantity * price
          BY <2>1, <3>4
      <4> QED BY <1>1, <2>1, <2>5, <2>7, <3>2, <4>1, <4>2
    <3> QED BY <3>3, <3>4
  <2> QED BY <2>10
<1>5. CASE net.side \notin {"NONE", Paper!Opened(way)}
  <2>1. /\ new = IF quantity >= net.size THEN Paper!Flat ELSE [net EXCEPT !.size = @ - quantity]
        /\ applied = (IF quantity < net.size THEN quantity ELSE net.size)
        /\ realized = Paper!Gain(net, price) * applied
      BY <1>5 DEF Paper!Updated, Paper!Applied, Paper!Realized
  <2>2. net.size # 0 /\ filled # 0 /\ (net.side = "LONG" <=> way = "SELL")
      BY <1>1, <1>2, <1>5
  <2>3. Paper!Gain(net, price) = (IF way = "SELL" THEN price - net.entry ELSE net.entry - price)
      BY <2>2 DEF Paper!Gain
  <2>4. Paper!Cost(net) = (IF way = "SELL" THEN net.size ELSE -net.size) * net.entry
      BY <1>1, <1>5, <2>2 DEF Paper!Cost
  <2>5. CASE quantity >= net.size
    <3>1. new = [side |-> "NONE", size |-> 0, entry |-> 0] /\ applied = net.size
        BY <1>1, <2>1, <2>5 DEF Paper!Flat
    <3>2. new.side = "NONE" /\ new.size = 0 /\ new.entry = 0
        BY <3>1
    <3> HIDE DEF new, applied, realized
    <3>3. Holds(new, filled + 1)
      <4>1. \E k \in Nat : new.entry = 144 * k
        <5>1. new.entry = 144 * 0
            BY <3>2
        <5> QED BY <5>1
      <4>2. \E k \in Nat : new.entry * new.size = 144 * k
        <5>1. new.entry * new.size = 144 * 0
            BY <3>2
        <5> QED BY <5>1
      <4>3. new.side \in {"NONE", "LONG", "SHORT"} /\ new.size \in 0..4 /\ new.entry \in Nat
          BY <3>2
      <4>4. new = [side |-> new.side, size |-> new.size, entry |-> new.entry]
          BY <3>1, <3>2
      <4> QED BY <3>2, <4>1, <4>2, <4>3, <4>4 DEF Holds
    <3>4. Paper!Cost(new) = 0
        BY <3>2 DEF Paper!Cost
    <3>5. realized = (IF way = "SELL" THEN price - net.entry ELSE net.entry - price) * net.size
        BY <2>1, <2>3, <3>1 DEF realized
    <3>6. PICK size \in 1..4 : size = net.size
        BY <1>1, <2>2
    <3>7. Goal
      <4>1. CASE way = "BUY"
          BY <1>1, <2>4, <3>1, <3>3, <3>4, <3>5, <3>6, <4>1
      <4>2. CASE way = "SELL"
          BY <1>1, <2>4, <3>1, <3>3, <3>4, <3>5, <3>6, <4>2
      <4> QED BY <4>1, <4>2
    <3> QED BY <3>7
  <2>6. CASE quantity < net.size
    <3>1. new = [net EXCEPT !.size = @ - quantity] /\ applied = quantity
        BY <1>1, <2>1, <2>6
    <3>2. /\ new.side = net.side /\ new.size = net.size - quantity /\ new.entry = net.entry
          /\ new = [side |-> new.side, size |-> new.size, entry |-> new.entry]
        BY <1>1, <3>1
    <3> HIDE DEF new, applied, realized
    <3>3. new.size \in 0..4 /\ new.size # 0
        BY <1>1, <2>6, <3>2
    <3>4. filled = 1 => \E k \in Nat : new.entry * new.size = 144 * k
      <4> SUFFICES ASSUME filled = 1 PROVE \E k \in Nat : new.entry * new.size = 144 * k
          OBVIOUS
      <4>1. PICK k \in Nat : net.entry = 144 * k
          BY DEF Holds
      <4>2. PICK size \in 0..4 : size = new.size
          BY <3>3
      <4>3. (144 * k) * size = 144 * (k * size) /\ k * size \in Nat
          OBVIOUS
      <4> QED BY <3>2, <4>1, <4>2, <4>3
    <3>5. Holds(new, filled + 1)
        BY <1>1, <2>2, <3>2, <3>3, <3>4 DEF Holds
    <3>6. Paper!Cost(new) = (IF way = "SELL" THEN net.size - quantity ELSE -(net.size - quantity)) * net.entry
        BY <1>1, <1>5, <2>2, <3>2 DEF Paper!Cost
    <3>7. realized = (IF way = "SELL" THEN price - net.entry ELSE net.entry - price) * quantity
        BY <2>1, <2>3, <3>1 DEF realized
    <3>8. Goal
      <4>1. CASE way = "BUY"
          BY <1>1, <2>4, <3>1, <3>5, <3>6, <3>7, <4>1
      <4>2. CASE way = "SELL"
          BY <1>1, <2>4, <3>1, <3>5, <3>6, <3>7, <4>2
      <4> QED BY <4>1, <4>2
    <3> QED BY <3>8
  <2> QED BY <1>1, <2>5, <2>6
<1> QED BY <1>3, <1>4, <1>5

LEMMA PaperKept ==
    ASSUME PaperInv, Paper!Next \/ UNCHANGED paperVars
    PROVE  PaperInv'
<1>1. /\ fills \in 0..3 /\ funds \in Int /\ kept \in Int /\ fees \in Int /\ cash \in Int
      /\ Holds(net, fills) /\ Holds(paperRow, fills)
      /\ torn = {} => funds = 1000 - fees + cash + Paper!Cost(net)
    BY DEF PaperInv, Paper!BooksBalance
<1>2. ASSUME NEW way \in {"BUY", "SELL"}, NEW quantity \in {1, 2}, NEW price \in {144, 288},
             Paper!PlaceOrder(way, quantity, price)
      PROVE  PaperInv'
  <2> DEFINE new == Paper!Updated(way, quantity, price)
             signed == IF way = "BUY" THEN -1 ELSE 1
             applied == Paper!Applied(way, quantity)
             realized == Paper!Realized(way, quantity, price)
             fee == quantity * (price \div 144)
  <2>1. /\ fills < 3 /\ new.size =< 4 /\ fills' = fills + 1 /\ net' = new
        /\ funds' = funds - fee + realized /\ kept' \in {kept, funds'}
        /\ fees' = fees + fee /\ cash' = cash + signed * applied * price
        /\ UNCHANGED <<persisting, paperRow, clients, torn>>
      BY <1>2 DEF Paper!PlaceOrder
  <2>2. fills \in 0..2 /\ fee \in Int
      BY <1>1, <2>1
  <2>3. PICK filled \in 0..2 : filled = fills
      BY <2>2
  <2>4. /\ Holds(new, fills + 1) /\ applied \in 0..4 /\ realized \in Int
        /\ Paper!Cost(new) \in Int /\ Paper!Cost(net) \in Int
        /\ realized = signed * applied * price + Paper!Cost(new) - Paper!Cost(net)
      BY <1>1, <2>1, <2>3, OrderBooked
  <2> HIDE DEF new, applied, realized, fee
  <2>5. signed * applied * price \in Int
      BY <2>4
  <2>6. /\ funds' \in Int /\ kept' \in Int /\ fees' \in Int /\ cash' \in Int /\ fills' \in 0..3
      BY <1>1, <2>1, <2>2, <2>4, <2>5
  <2>7. Holds(net, fills)'
      BY <2>1, <2>4
  <2>8. Holds(paperRow, fills)'
    <3>1. Holds(paperRow, filled + 1)
        BY <1>1, <2>3, HoldsLater
    <3> QED BY <2>1, <2>3, <3>1
  <2>9. Paper!Cost(net)' = Paper!Cost(new)
      BY <2>1 DEF Paper!Cost
  <2>10. torn' = {} => funds' = 1000 - fees' + cash' + Paper!Cost(net)'
      BY <1>1, <2>1, <2>2, <2>4, <2>5, <2>9
  <2> QED BY <2>6, <2>7, <2>8, <2>10 DEF PaperInv, Paper!BooksBalance
<1>3. CASE Paper!SaveRow
  <2>1. paperRow' = net /\ UNCHANGED <<net, funds, persisting, kept, fills, clients, fees, cash, torn>>
      BY <1>3 DEF Paper!SaveRow
  <2>2. Paper!BooksBalance'
      BY <1>1, <2>1 DEF Paper!BooksBalance, Paper!Cost
  <2>3. Holds(net, fills)' /\ Holds(paperRow, fills)'
      BY <1>1, <2>1 DEF Holds
  <2> QED BY <1>1, <2>1, <2>2, <2>3 DEF PaperInv
<1>4. CASE Paper!NewClient
  <2>1. /\ funds' = kept /\ net' \in {paperRow, Paper!Flat}
        /\ torn' = {} => torn = {} /\ kept = funds /\ net' = net
        /\ UNCHANGED <<kept, paperRow, fills, fees, cash>>
      BY <1>4 DEF Paper!NewClient, Paper!Loaded
  <2>2. Holds(Paper!Flat, fills)
    <3>1. Paper!Flat = [side |-> "NONE", size |-> 0, entry |-> 0]
        BY DEF Paper!Flat
    <3>2. 0 = 144 * 0 /\ 0 * 0 = 144 * 0
        OBVIOUS
    <3> QED BY <3>1, <3>2 DEF Holds
  <2>3. Holds(net, fills)' /\ Holds(paperRow, fills)'
      BY <1>1, <2>1, <2>2 DEF Holds
  <2>4. Paper!BooksBalance'
      BY <1>1, <2>1 DEF Paper!BooksBalance, Paper!Cost
  <2> QED BY <1>1, <2>1, <2>3, <2>4 DEF PaperInv
<1>5. CASE UNCHANGED paperVars
  <2>1. UNCHANGED <<net, funds, kept, paperRow, fills, fees, cash, torn>>
      BY <1>5 DEF paperVars
  <2>2. Holds(net, fills)' /\ Holds(paperRow, fills)'
      BY <1>1, <2>1 DEF Holds
  <2>3. Paper!BooksBalance'
      BY <1>1, <2>1 DEF Paper!BooksBalance, Paper!Cost
  <2> QED BY <1>1, <2>1, <2>2, <2>3 DEF PaperInv
<1> QED BY <1>2, <1>3, <1>4, <1>5 DEF Paper!Next

LEMMA PaperStarts == Paper!Init => PaperInv
<1> SUFFICES ASSUME Paper!Init PROVE PaperInv
    OBVIOUS
<1>1. /\ net = Paper!Flat /\ paperRow = Paper!Flat /\ funds = 1000 /\ kept = 1000
      /\ fills = 0 /\ fees = 0 /\ cash = 0
    BY DEF Paper!Init
<1>2. Holds(Paper!Flat, 0)
  <2>1. Paper!Flat = [side |-> "NONE", size |-> 0, entry |-> 0]
      BY DEF Paper!Flat
  <2>2. 0 = 144 * 0 /\ 0 * 0 = 144 * 0
      OBVIOUS
  <2> QED BY <2>1, <2>2 DEF Holds
<1>3. Paper!Cost(net) = 0
    BY <1>1 DEF Paper!Cost, Paper!Flat
<1>4. Paper!BooksBalance
    BY <1>1, <1>3 DEF Paper!BooksBalance
<1> QED BY <1>1, <1>2, <1>4 DEF PaperInv

\* What the invariant leaves open: whether accounts have rows, and which are halves.
PaperTyped ==
    /\ persisting \in BOOLEAN /\ clients \in 0..1 /\ torn \subseteq {"balance", "position"}

LEMMA PaperTypesStart == Paper!Init => PaperTyped
BY DEF Paper!Init, PaperTyped
LEMMA PaperTypesKept ==
    ASSUME PaperTyped, Paper!Next \/ UNCHANGED paperVars
    PROVE  PaperTyped'
<1>1. CASE Paper!NewClient
  <2>1. clients < 1 /\ clients' = clients + 1 /\ persisting' = TRUE
      BY <1>1 DEF Paper!NewClient
  <2>2. torn' \subseteq {"balance", "position"}
      BY <1>1 DEF Paper!NewClient, PaperTyped
  <2>3. clients' \in 0..1
      BY <2>1 DEF PaperTyped
  <2>4. persisting' \in BOOLEAN
      BY <2>1, Zenon
  <2> QED BY <2>2, <2>3, <2>4 DEF PaperTyped
<1>2. CASE UNCHANGED <<persisting, clients, torn>>
    BY <1>2 DEF PaperTyped
<1>3. Paper!Next \/ UNCHANGED paperVars => Paper!NewClient \/ UNCHANGED <<persisting, clients, torn>>
    BY DEF Paper!Next, Paper!PlaceOrder, Paper!SaveRow, paperVars
<1> QED BY <1>1, <1>2, <1>3

LEMMA PaperTypes == PaperInv /\ PaperTyped => Paper!TypeOK
<1> SUFFICES ASSUME PaperInv, PaperTyped PROVE Paper!TypeOK
    OBVIOUS
<1>1. ASSUME NEW p, Holds(p, fills) PROVE p \in Paper!Position /\ (p.side = "NONE" <=> p.size = 0)
  <2>1. /\ p.side \in {"NONE", "LONG", "SHORT"} /\ p.size \in 0..4 /\ p.entry \in Nat
        /\ p = [side |-> p.side, size |-> p.size, entry |-> p.entry]
        /\ p.side = "NONE" <=> p.size = 0
      BY <1>1 DEF Holds
  <2> QED BY <2>1 DEF Paper!Position
<1>2. /\ net \in Paper!Position /\ paperRow \in Paper!Position
      /\ \A p \in {net, paperRow} : p.side = "NONE" <=> p.size = 0
    BY <1>1 DEF PaperInv
<1>3. {funds, kept, fees, cash} \subseteq Int /\ fills \in 0..3
    BY DEF PaperInv
<1> QED BY <1>2, <1>3 DEF PaperTyped, Paper!TypeOK

-----------------------------------------------------------------------------
(* TrailingStop.                                                           *)

TrailPrices == {8, 9, 10, 11, 12, 14, 16}

TrailingInv ==
    /\ side \in {"LONG", "SHORT", "NONE"} /\ entry \in TrailPrices /\ bestPrice \in TrailPrices
    /\ managed \in BOOLEAN /\ activated \in BOOLEAN /\ tp \in Nat /\ sl \in Nat /\ reinits \in 0..1
    /\ managed => side # "NONE"
    /\ Trailing!LevelsFollowBest

LEMMA LevelsOf ==
    ASSUME NEW s \in {"LONG", "SHORT"}, NEW price \in TrailPrices
    PROVE  /\ Trailing!TakeProfitOf(s, price) = price * (IF s = "LONG" THEN 13 ELSE 7)
           /\ Trailing!StopLossOf(s, price) = price * (IF s = "LONG" THEN 8 ELSE 12)
           /\ Trailing!TakeProfitOf(s, price) \in Nat /\ Trailing!StopLossOf(s, price) \in Nat
BY DEF TrailPrices, Trailing!TakeProfitOf, Trailing!StopLossOf, Trailing!Raised, Trailing!Lowered

\* A new manager's levels are those of its best price.
LEMMA Managed ==
    ASSUME NEW s \in {"LONG", "SHORT"}, NEW price \in TrailPrices, Trailing!Manage(s, price),
           side' = s
    PROVE  /\ managed' = TRUE /\ bestPrice' = price /\ activated' \in BOOLEAN
           /\ tp' \in Nat /\ sl' \in Nat /\ Trailing!LevelsFollowBest'
BY LevelsOf DEF Trailing!Manage, Trailing!LevelsFollowBest

\* Whatever the price does, the levels follow the best price, and do not move back.
LEMMA LevelsUpdated ==
    ASSUME TrailingInv, managed, NEW price \in TrailPrices, Trailing!Update(price)
    PROVE  /\ bestPrice' \in TrailPrices /\ activated' \in BOOLEAN /\ tp' \in Nat /\ sl' \in Nat
           /\ tp' = Trailing!TakeProfitOf(side, bestPrice')
           /\ sl' = Trailing!StopLossOf(side, bestPrice')
           /\ ~Trailing!Above(side, tp, tp') /\ ~Trailing!Above(side, sl, sl')
<1>1. /\ side \in {"LONG", "SHORT"} /\ bestPrice \in TrailPrices /\ activated \in BOOLEAN
      /\ tp = Trailing!TakeProfitOf(side, bestPrice) /\ sl = Trailing!StopLossOf(side, bestPrice)
      /\ tp \in Nat /\ sl \in Nat
    BY DEF TrailingInv, Trailing!LevelsFollowBest
<1>2. activated' \in BOOLEAN
    BY DEF Trailing!Update
<1>3. ~Trailing!Above(side, tp, tp) /\ ~Trailing!Above(side, sl, sl)
    BY <1>1 DEF Trailing!Above
<1>4. CASE ~(activated' /\ Trailing!Moved(side, bestPrice, price, Trailing!Step))
  <2>1. UNCHANGED <<bestPrice, tp, sl>>
      BY <1>4 DEF Trailing!Update
  <2> QED BY <1>1, <1>2, <1>3, <2>1
<1>5. CASE activated' /\ Trailing!Moved(side, bestPrice, price, Trailing!Step)
  <2>1. Trailing!Step = 1
      BY DEF Trailing!Step
  <2>2. IF side = "LONG" THEN price * 10 >= bestPrice * 11 ELSE price * 10 =< bestPrice * 9
      BY <1>1, <1>5, <2>1 DEF Trailing!Moved, Trailing!Raised, Trailing!Lowered
  <2>3. IF side = "LONG" THEN price > bestPrice ELSE price < bestPrice
      BY <1>1, <2>2 DEF TrailPrices
  <2>4. /\ Trailing!TakeProfitOf(side, price) = price * (IF side = "LONG" THEN 13 ELSE 7)
        /\ Trailing!StopLossOf(side, price) = price * (IF side = "LONG" THEN 8 ELSE 12)
        /\ Trailing!TakeProfitOf(side, price) \in Nat /\ Trailing!StopLossOf(side, price) \in Nat
        /\ tp = bestPrice * (IF side = "LONG" THEN 13 ELSE 7)
        /\ sl = bestPrice * (IF side = "LONG" THEN 8 ELSE 12)
      BY <1>1, LevelsOf
  <2>5. IF side = "LONG" THEN Trailing!TakeProfitOf(side, price) > tp /\ Trailing!StopLossOf(side, price) > sl
        ELSE Trailing!TakeProfitOf(side, price) < tp /\ Trailing!StopLossOf(side, price) < sl
      BY <1>1, <2>3, <2>4 DEF TrailPrices
  <2>6. /\ Trailing!Above(side, Trailing!TakeProfitOf(side, price), tp)
        /\ Trailing!Above(side, Trailing!StopLossOf(side, price), sl)
        /\ ~Trailing!Above(side, tp, Trailing!TakeProfitOf(side, price))
        /\ ~Trailing!Above(side, sl, Trailing!StopLossOf(side, price))
      BY <1>1, <2>4, <2>5 DEF Trailing!Above
  <2>7. /\ bestPrice' = price
        /\ tp' = Trailing!TakeProfitOf(side, price) /\ sl' = Trailing!StopLossOf(side, price)
      BY <1>5, <2>6 DEF Trailing!Update
  <2> QED BY <1>2, <2>4, <2>6, <2>7
<1> QED BY <1>4, <1>5

Forward ==
    managed /\ managed' /\ side' = side /\ entry' = entry /\ reinits' = reinits =>
      ~Trailing!Above(side, tp, tp') /\ ~Trailing!Above(side, sl, sl')

LEMMA TrailingKept ==
    ASSUME TrailingInv, Trailing!Next \/ UNCHANGED trailingVars
    PROVE  TrailingInv' /\ Forward
<1>1. /\ side \in {"LONG", "SHORT", "NONE"} /\ entry \in TrailPrices /\ bestPrice \in TrailPrices
      /\ managed \in BOOLEAN /\ activated \in BOOLEAN /\ tp \in Nat /\ sl \in Nat /\ reinits \in 0..1
      /\ managed => side # "NONE"
      /\ Trailing!LevelsFollowBest
    BY DEF TrailingInv
<1>2. ~Trailing!Above(side, tp, tp) /\ ~Trailing!Above(side, sl, sl)
    BY <1>1 DEF Trailing!Above
<1>3. ASSUME NEW s \in {"LONG", "SHORT"}, NEW price \in TrailPrices, Trailing!Enter(s, price)
      PROVE  TrailingInv' /\ Forward
  <2>1. /\ side = "NONE" /\ side' = s /\ entry' = price /\ Trailing!Manage(s, price)
        /\ reinits' = reinits
      BY <1>3 DEF Trailing!Enter
  <2>2. /\ managed' = TRUE /\ bestPrice' = price /\ activated' \in BOOLEAN
        /\ tp' \in Nat /\ sl' \in Nat /\ Trailing!LevelsFollowBest'
      BY <2>1, Managed
  <2>3. managed' \in BOOLEAN
      BY <2>2, Zenon
  <2> QED BY <1>1, <2>1, <2>2, <2>3 DEF TrailingInv, Forward
<1>4. ASSUME NEW price \in TrailPrices, NEW close \in TrailPrices, Trailing!Trail(price, close)
      PROVE  TrailingInv' /\ Forward
  <2>1. managed /\ side # "NONE" /\ Trailing!Update(price) /\ UNCHANGED <<entry, reinits>>
      BY <1>4 DEF Trailing!Trail, Trailing!Leave
  <2>2. /\ bestPrice' \in TrailPrices /\ activated' \in BOOLEAN /\ tp' \in Nat /\ sl' \in Nat
        /\ tp' = Trailing!TakeProfitOf(side, bestPrice')
        /\ sl' = Trailing!StopLossOf(side, bestPrice')
        /\ ~Trailing!Above(side, tp, tp') /\ ~Trailing!Above(side, sl, sl')
      BY <2>1, LevelsUpdated
  <2>3. (side' = "NONE" /\ managed' = FALSE) \/ (side' = side /\ managed' = managed)
      BY <1>4 DEF Trailing!Trail, Trailing!Leave
  <2>4. side' \in {"LONG", "SHORT", "NONE"} /\ managed' \in BOOLEAN /\ (managed' => side' = side)
      BY <1>1, <2>3
  <2>5. Trailing!LevelsFollowBest'
      BY <2>2, <2>4 DEF Trailing!LevelsFollowBest
  <2> QED BY <1>1, <2>1, <2>2, <2>4, <2>5 DEF TrailingInv, Forward
<1>5. ASSUME Trailing!Leave, UNCHANGED <<bestPrice, activated, tp, sl>>
      PROVE  TrailingInv' /\ Forward
  <2>1. side' = "NONE" /\ managed' = FALSE /\ UNCHANGED <<entry, reinits>>
      BY <1>5 DEF Trailing!Leave
  <2>2. managed' \in BOOLEAN
      BY <2>1, Zenon
  <2> QED BY <1>1, <1>5, <2>1, <2>2 DEF TrailingInv, Forward, Trailing!LevelsFollowBest
<1>6. ASSUME NEW price \in TrailPrices, Trailing!Averaged(price) PROVE TrailingInv' /\ Forward
  <2>1. /\ side # "NONE" /\ price # entry /\ entry' = price /\ Trailing!Manage(side, price)
        /\ UNCHANGED <<side, reinits>>
      BY <1>6 DEF Trailing!Averaged
  <2>2. PICK s \in {"LONG", "SHORT"} : s = side
      BY <1>1, <2>1
  <2>3. /\ managed' = TRUE /\ bestPrice' = price /\ activated' \in BOOLEAN
        /\ tp' \in Nat /\ sl' \in Nat /\ Trailing!LevelsFollowBest'
      BY <2>1, <2>2, Managed
  <2>4. managed' \in BOOLEAN
      BY <2>3, Zenon
  <2> QED BY <1>1, <2>1, <2>3, <2>4 DEF TrailingInv, Forward
<1>7. ASSUME NEW price \in TrailPrices, Trailing!Mismatch(price) PROVE TrailingInv' /\ Forward
  <2>1. /\ side' \in {"LONG", "SHORT"} /\ entry' = price /\ managed' = FALSE
        /\ UNCHANGED <<bestPrice, activated, tp, sl, reinits>>
      BY <1>7 DEF Trailing!Mismatch
  <2>2. managed' \in BOOLEAN
      BY <2>1, Zenon
  <2> QED BY <1>1, <2>1, <2>2 DEF TrailingInv, Forward, Trailing!LevelsFollowBest
<1>8. CASE Trailing!Restart
  <2>1. /\ side # "NONE" /\ reinits < 1 /\ reinits' = reinits + 1 /\ Trailing!Manage(side, entry)
        /\ UNCHANGED <<side, entry>>
      BY <1>8 DEF Trailing!Restart
  <2>2. PICK s \in {"LONG", "SHORT"}, price \in TrailPrices : s = side /\ price = entry
      BY <1>1, <2>1
  <2>3. /\ managed' = TRUE /\ bestPrice' = price /\ activated' \in BOOLEAN
        /\ tp' \in Nat /\ sl' \in Nat /\ Trailing!LevelsFollowBest'
      BY <2>1, <2>2, Managed
  <2>4. managed' \in BOOLEAN
      BY <2>3, Zenon
  <2> QED BY <1>1, <2>1, <2>3, <2>4 DEF TrailingInv, Forward
<1>9. CASE UNCHANGED trailingVars
    BY <1>1, <1>2, <1>9 DEF trailingVars, TrailingInv, Forward, Trailing!LevelsFollowBest
<1>10. CASE Trailing!Close
    BY <1>5, <1>10 DEF Trailing!Close
<1>11. ASSUME NEW price \in TrailPrices, NEW close \in TrailPrices, Trailing!Fixed(price, close)
       PROVE  TrailingInv' /\ Forward
    BY <1>5, <1>11 DEF Trailing!Fixed
<1> QED BY <1>3, <1>4, <1>6, <1>7, <1>8, <1>9, <1>10, <1>11
        DEF Trailing!Next, Trailing!Sides, TrailPrices

LEMMA TrailingStarts == Trailing!Init => TrailingInv
<1> SUFFICES ASSUME Trailing!Init PROVE TrailingInv
    OBVIOUS
<1>1. /\ side = "NONE" /\ managed = FALSE /\ activated = FALSE /\ entry \in TrailPrices
      /\ bestPrice = entry /\ tp = 0 /\ sl = 0 /\ reinits = 0
    BY DEF Trailing!Init, TrailPrices
<1>2. managed \in BOOLEAN /\ activated \in BOOLEAN
    BY <1>1, Zenon
<1>3. tp \in Nat /\ sl \in Nat /\ reinits \in 0..1
    BY <1>1
<1> QED BY <1>1, <1>2, <1>3 DEF TrailingInv, Trailing!LevelsFollowBest

LEMMA TrailingTypes == TrailingInv => Trailing!TypeOK
<1> SUFFICES ASSUME TrailingInv PROVE Trailing!TypeOK
    OBVIOUS
<1>1. {entry, bestPrice} \subseteq Nat \ {0} /\ {tp, sl} \subseteq Nat /\ reinits \in 0..1
    BY DEF TrailingInv, TrailPrices
<1> QED BY <1>1 DEF TrailingInv, Trailing!TypeOK, Trailing!Sides

-----------------------------------------------------------------------------
(* RangeMeanReversion.                                                     *)

\* A strategy that has an entry candle has entered with a range, which it never forgets.
Known(s) ==
    /\ {"position", "entered", "known"} \subseteq DOMAIN s
    /\ s.entered # 0 => s.known = TRUE

LEMMA RangeEvaluated ==
    ASSUME NEW s, Known(s), NEW in
    PROVE  Known(Ranges!Evaluated(s, in))
<1>1. ASSUME NEW t, Known(t) PROVE Known(Ranges!Exited(t))
    BY <1>1 DEF Known, Ranges!Exited
<1>2. ASSUME NEW t, Known(t)
      PROVE  Known(Ranges!Ranged(t, in)) /\ (in.range => Ranges!Ranged(t, in).known = TRUE)
    BY <1>2 DEF Known, Ranges!Ranged
<1>3. ASSUME NEW t, Known(t), t.known = TRUE PROVE Known(Ranges!Flat(t, in))
  <2>1. CASE Ranges!Flat(t, in) = [t EXCEPT !.cooldown = @ - 1]
      BY <1>3, <2>1 DEF Known
  <2>2. CASE Ranges!Flat(t, in) = [t EXCEPT !.position = in.wish, !.priced = TRUE, !.entered = t.last]
      BY <1>3, <2>2 DEF Known
  <2> QED BY <1>3, <2>1, <2>2 DEF Ranges!Flat
<1>4. Known([s EXCEPT !.last = in.candle])
    BY DEF Known
<1>5. Known(Ranges!Processed(s, in))
  <2> DEFINE n == [s EXCEPT !.last = in.candle]
  <2>1. Known(n)
      BY <1>4
  <2>2. Ranges!Processed(s, in) \in
          {Ranges!Exited(n), Ranges!Ranged(n, in), n}
          \cup (IF in.range THEN {Ranges!Flat(Ranges!Ranged(n, in), in)} ELSE {})
      BY DEF Ranges!Processed
  <2> HIDE DEF n
  <2> QED BY <1>1, <1>2, <1>3, <2>1, <2>2
<1> QED BY <1>1, <1>5 DEF Ranges!Evaluated

LEMMA RangeSynced ==
    ASSUME NEW s, Known(s), NEW held, NEW priced
    PROVE  Known(Ranges!Synced(s, held, priced))
<1>1. CASE Ranges!Synced(s, held, priced) = Ranges!Exited(s)
    BY <1>1 DEF Known, Ranges!Exited
<1>2. CASE Ranges!Synced(s, held, priced) = [s EXCEPT !.position = held, !.priced = priced, !.entered = 0]
    BY <1>2 DEF Known
<1>3. CASE Ranges!Synced(s, held, priced) = [s EXCEPT !.priced = priced]
    BY <1>3 DEF Known
<1>4. CASE Ranges!Synced(s, held, priced) =
             [s EXCEPT !.cooldown = IF @ = 0 THEN use.cooldown ELSE @]
    BY <1>4 DEF Known
<1> QED BY <1>1, <1>2, <1>3, <1>4 DEF Ranges!Synced

LEMMA RangeKept ==
    ASSUME Known(ranging), Ranges!Next \/ UNCHANGED rangeVars
    PROVE  Known(ranging')
<1>1. ASSUME NEW in, Ranges!Round(in) PROVE Known(ranging')
  <2>1. PICK priced \in BOOLEAN :
          LET before == Ranges!Synced(ranging, account, priced)
              after == Ranges!Evaluated(before, in)
          IN  ranging' \in {after, Ranges!Synced(after, "NONE", FALSE)}
      BY <1>1 DEF Ranges!Round
  <2> DEFINE before == Ranges!Synced(ranging, account, priced)
             after == Ranges!Evaluated(before, in)
  <2>2. Known(before)
      BY RangeSynced
  <2>3. Known(after)
    <3> HIDE DEF before
    <3> QED BY <2>2, RangeEvaluated
  <2>4. Known(Ranges!Synced(after, "NONE", FALSE))
    <3> HIDE DEF after
    <3> QED BY <2>3, RangeSynced
  <2> QED BY <2>1, <2>3, <2>4
<1>2. ASSUME NEW in, Ranges!Candle(in) PROVE Known(ranging')
  <2> DEFINE after == Ranges!Evaluated(ranging, in)
             synced == Ranges!Synced(after, after.position, TRUE)
  <2>1. ranging' \in {after, [synced EXCEPT !.entered = 0]}
      BY <1>2 DEF Ranges!Candle
  <2>2. Known(after)
      BY RangeEvaluated
  <2>3. Known(synced)
    <3> HIDE DEF after
    <3> QED BY <2>2, RangeSynced
  <2> HIDE DEF after, synced
  <2>4. Known([synced EXCEPT !.entered = 0])
      BY <2>3 DEF Known
  <2> QED BY <2>1, <2>2, <2>4
<1>3. CASE Ranges!Outside
  <2>1. ranging' \in {ranging, Ranges!Synced(ranging, "NONE", FALSE)}
      BY <1>3 DEF Ranges!Outside
  <2> QED BY <2>1, RangeSynced
<1>4. CASE Ranges!Restart
    BY <1>4 DEF Ranges!Restart, Ranges!New, Known
<1>5. CASE UNCHANGED rangeVars
    BY <1>5 DEF rangeVars
<1> QED BY <1>1, <1>2, <1>3, <1>4, <1>5 DEF Ranges!Next

RangeFields == {"position", "priced", "entered", "last", "cooldown", "known", "invalid"}
RangeTyped(s) ==
    DOMAIN s = RangeFields /\ s.last \in Nat /\ s.cooldown \in 0..use.cooldown

\* What a look makes of a strategy: no change that matters here, an exit, a candle that the
\* cooldown turns away, and an entry.
Unmoved(s, t) ==
    t.position = s.position /\ t.cooldown = s.cooldown /\ t.last >= s.last
Gone(s, t) ==
    s.position # "NONE" /\ t.position = "NONE" /\ t.cooldown = use.cooldown /\ t.last >= s.last
Turned(s, t) ==
    /\ s.position = "NONE" /\ t.position = "NONE" /\ s.cooldown > 0
    /\ t.cooldown = s.cooldown - 1 /\ t.last > s.last
Began(s, t) ==
    /\ s.position = "NONE" /\ t.position # "NONE" /\ s.cooldown = 0 /\ t.cooldown = 0
    /\ t.last > s.last

LEMMA RangeLooked ==
    ASSUME NEW s, RangeTyped(s), use.cooldown \in Nat, NEW in \in Ranges!Inputs
    PROVE  LET t == Ranges!Evaluated(s, in)
           IN  /\ RangeTyped(t)
               /\ \/ Unmoved(s, t) /\ ~Ranges!TurnedAway(s, in)
                  \/ Gone(s, t) \/ Turned(s, t) \/ Began(s, t)
<1> DEFINE t == Ranges!Evaluated(s, in)
<1>1. in.candle \in Nat /\ in.wish \in {"LONG", "SHORT", "NONE"}
    BY DEF Ranges!Inputs, Ranges!Sides
<1>2. ASSUME NEW u, RangeTyped(u)
      PROVE  LET x == Ranges!Exited(u)
             IN  /\ RangeTyped(x) /\ x.position = "NONE" /\ x.cooldown = use.cooldown
                 /\ x.last = u.last
    BY <1>2 DEF RangeTyped, RangeFields, Ranges!Exited
<1>3. ASSUME NEW u, RangeTyped(u)
      PROVE  LET x == Ranges!Ranged(u, in)
             IN  /\ RangeTyped(x) /\ x.position = u.position /\ x.cooldown = u.cooldown
                 /\ x.last = u.last
    BY <1>3 DEF RangeTyped, RangeFields, Ranges!Ranged
<1>4. ASSUME NEW u, RangeTyped(u), u.position = "NONE"
      PROVE  LET x == Ranges!Flat(u, in)
             IN  /\ RangeTyped(x) /\ x.last = u.last
                 /\ \/ u.cooldown > 0 /\ x.position = "NONE" /\ x.cooldown = u.cooldown - 1
                    \/ u.cooldown = 0 /\ x.cooldown = 0
  <2>1. u.cooldown \in Nat
      BY <1>4 DEF RangeTyped
  <2>2. CASE u.cooldown > 0
    <3>1. Ranges!Flat(u, in) = [u EXCEPT !.cooldown = @ - 1]
        BY <2>2 DEF Ranges!Flat
    <3> QED BY <1>4, <2>1, <2>2, <3>1 DEF RangeTyped, RangeFields
  <2>3. CASE u.cooldown = 0
    <3>1. Ranges!Flat(u, in)
            \in {u, [u EXCEPT !.position = in.wish, !.priced = TRUE, !.entered = u.last]}
        BY <2>3 DEF Ranges!Flat
    <3> DEFINE x == Ranges!Flat(u, in)
    <3>2. x \in {u, [u EXCEPT !.position = in.wish, !.priced = TRUE, !.entered = u.last]}
        BY <3>1
    <3> HIDE DEF x
    <3>3. RangeTyped(x) /\ x.last = u.last /\ x.cooldown = 0
        BY <1>4, <2>3, <3>2 DEF RangeTyped, RangeFields
    <3> QED BY <2>3, <3>3 DEF x
  <2> QED BY <2>1, <2>2, <2>3
<1>5. CASE in.candle =< s.last
  <2> DEFINE x == Ranges!Exited(s)
  <2>1. (t = x /\ s.position # "NONE") \/ t = s
      BY <1>5 DEF Ranges!Evaluated, Ranges!PriceExit
  <2>2. RangeTyped(x) /\ x.position = "NONE" /\ x.cooldown = use.cooldown /\ x.last = s.last
      BY <1>2
  <2>3. ~Ranges!TurnedAway(s, in) /\ s.last \in Nat
      BY <1>1, <1>5 DEF Ranges!TurnedAway, RangeTyped
  <2> HIDE DEF t, x
  <2>4. RangeTyped(t) /\ (Gone(s, t) \/ Unmoved(s, t))
      BY <2>1, <2>2, <2>3 DEF Gone, Unmoved
  <2> QED BY <2>3, <2>4 DEF t
<1>6. CASE ~(in.candle =< s.last)
  <2> DEFINE n == [s EXCEPT !.last = in.candle]
  <2>1. t = Ranges!Processed(s, in)
      BY <1>6 DEF Ranges!Evaluated
  <2>2. /\ RangeTyped(n) /\ n.last = in.candle /\ n.position = s.position
        /\ n.cooldown = s.cooldown
      BY <1>1 DEF RangeTyped, RangeFields
  <2>3. n.last > s.last /\ n.last \in Nat /\ s.last \in Nat /\ s.cooldown \in Nat
      BY <1>1, <1>6, <2>2 DEF RangeTyped
  <2>4. CASE n.position # "NONE"
    <3> DEFINE x == Ranges!Exited(n)
               y == Ranges!Ranged(n, in)
    <3>1. t = x \/ t = y
        BY <2>1, <2>4 DEF Ranges!Processed
    <3>2. RangeTyped(x) /\ x.position = "NONE" /\ x.cooldown = use.cooldown /\ x.last = n.last
      <4> HIDE DEF n
      <4> QED BY <1>2, <2>2
    <3>3. RangeTyped(y) /\ y.position = n.position /\ y.cooldown = n.cooldown /\ y.last = n.last
      <4> HIDE DEF n
      <4> QED BY <1>3, <2>2
    <3>4. ~Ranges!TurnedAway(s, in)
        BY <2>2, <2>4 DEF Ranges!TurnedAway
    <3> HIDE DEF t, n, x, y
    <3>5. RangeTyped(t) /\ (Gone(s, t) \/ Unmoved(s, t))
        BY <2>2, <2>3, <2>4, <3>1, <3>2, <3>3 DEF Gone, Unmoved
    <3> QED BY <3>4, <3>5 DEF t
  <2>5. CASE n.position = "NONE" /\ ~in.range
    <3>1. t = n
        BY <2>1, <2>5 DEF Ranges!Processed, Ranges!PriceExit
    <3>2. ~Ranges!TurnedAway(s, in)
        BY <2>5 DEF Ranges!TurnedAway
    <3> HIDE DEF t, n
    <3>3. RangeTyped(t) /\ Unmoved(s, t)
        BY <2>2, <2>3, <3>1 DEF Unmoved
    <3> QED BY <3>2, <3>3 DEF t
  <2>6. CASE n.position = "NONE" /\ in.range
    <3> DEFINE y == Ranges!Ranged(n, in)
               z == Ranges!Flat(y, in)
    <3>1. t = z
        BY <2>1, <2>6 DEF Ranges!Processed, Ranges!PriceExit
    <3>2. RangeTyped(y) /\ y.position = "NONE" /\ y.cooldown = s.cooldown /\ y.last = n.last
      <4> HIDE DEF n
      <4> QED BY <1>3, <2>2, <2>6
    <3>3. /\ RangeTyped(z) /\ z.last = y.last
          /\ \/ y.cooldown > 0 /\ z.position = "NONE" /\ z.cooldown = y.cooldown - 1
             \/ y.cooldown = 0 /\ z.cooldown = 0
      <4> HIDE DEF y
      <4> QED BY <1>4, <3>2
    <3>4. Ranges!TurnedAway(s, in) => s.cooldown > 0
        BY DEF Ranges!TurnedAway
    <3> HIDE DEF t, n, y, z
    <3>5. /\ RangeTyped(t)
          /\ \/ Unmoved(s, t) /\ s.cooldown = 0
             \/ Turned(s, t) \/ Began(s, t)
        BY <2>2, <2>3, <2>6, <3>1, <3>2, <3>3 DEF Unmoved, Turned, Began
    <3>6. Unmoved(s, t) /\ s.cooldown = 0 => ~Ranges!TurnedAway(s, in)
        BY <3>4
    <3> QED BY <3>5, <3>6 DEF t
  <2> QED BY <2>4, <2>5, <2>6
<1> QED BY <1>5, <1>6

\* What a sync makes of it: it has the position of the account, and what it did not know to
\* be flat has its cooldown before it.
Told(s, way, t) ==
    /\ RangeTyped(t) /\ t.last = s.last /\ t.position = way
    /\ t.cooldown = IF way = "NONE" /\ (s.position # "NONE" \/ s.cooldown = 0)
                      THEN use.cooldown ELSE s.cooldown

LEMMA RangeTold ==
    ASSUME NEW s, RangeTyped(s), use.cooldown \in Nat, NEW way, NEW priced
    PROVE  Told(s, way, Ranges!Synced(s, way, priced))
<1> DEFINE t == Ranges!Synced(s, way, priced)
<1>1. CASE way = "NONE" /\ s.position # "NONE"
  <2>1. t = [s EXCEPT !.position = "NONE", !.priced = FALSE, !.entered = 0, !.cooldown = use.cooldown]
      BY <1>1 DEF Ranges!Synced, Ranges!Exited
  <2> HIDE DEF t, Told
  <2>2. RangeTyped(t) /\ t.last = s.last /\ t.position = way /\ t.cooldown = use.cooldown
      BY <1>1, <2>1 DEF RangeTyped, RangeFields
  <2> QED BY <1>1, <2>2 DEF t, Told
<1>2. CASE way # s.position /\ way # "NONE"
  <2>1. t = [s EXCEPT !.position = way, !.priced = priced, !.entered = 0]
      BY <1>2 DEF Ranges!Synced
  <2> HIDE DEF t, Told
  <2>2. RangeTyped(t) /\ t.last = s.last /\ t.position = way /\ t.cooldown = s.cooldown
      BY <2>1 DEF RangeTyped, RangeFields
  <2> QED BY <1>2, <2>2 DEF t, Told
<1>3. CASE way = s.position /\ way # "NONE"
  <2>1. t = [s EXCEPT !.priced = priced]
      BY <1>3 DEF Ranges!Synced
  <2> HIDE DEF t, Told
  <2>2. RangeTyped(t) /\ t.last = s.last /\ t.position = way /\ t.cooldown = s.cooldown
      BY <1>3, <2>1 DEF RangeTyped, RangeFields
  <2> QED BY <1>3, <2>2 DEF t, Told
<1>4. CASE way = "NONE" /\ s.position = "NONE"
  <2>1. t = [s EXCEPT !.cooldown = IF @ = 0 THEN use.cooldown ELSE @]
      BY <1>4 DEF Ranges!Synced
  <2> HIDE DEF t, Told
  <2>2. /\ RangeTyped(t) /\ t.last = s.last /\ t.position = way
        /\ t.cooldown = IF s.cooldown = 0 THEN use.cooldown ELSE s.cooldown
      BY <1>4, <2>1 DEF RangeTyped, RangeFields
  <2> QED BY <1>4, <2>2 DEF t, Told
<1> QED BY <1>1, <1>2, <1>3, <1>4

\* What of its cooldown a flat strategy has counted was candles; live there is none, and in a
\* backtest the account has no position that the strategy does not know of.
CountedInv ==
    /\ use \in {[live |-> TRUE, cooldown |-> 0], [live |-> FALSE, cooldown |-> 1]}
    /\ RangeTyped(ranging) /\ gaveUp \in Int /\ waited \in 0..use.cooldown
    /\ ranging.position = "NONE" => ranging.last >= gaveUp + use.cooldown - ranging.cooldown
    /\ ~use.live /\ account # "NONE" => ranging.position # "NONE"
    /\ IF ranging.position = "NONE" THEN waited + ranging.cooldown =< use.cooldown ELSE waited = 0

\* No position on either side, and then one.
RangeRests ==
    ranging.position = "NONE" /\ account = "NONE" /\ ranging'.position # "NONE" =>
        ranging'.last > gaveUp + use.cooldown

LEMMA CountedKept ==
    ASSUME CountedInv, Ranges!Next \/ UNCHANGED rangeVars
    PROVE  CountedInv' /\ RangeRests
<1> DEFINE c == use.cooldown
<1>1. /\ c \in 0..1 /\ c \in Nat /\ (use.live => c = 0)
      /\ RangeTyped(ranging) /\ ranging.last \in Nat /\ ranging.cooldown \in 0..c
      /\ gaveUp \in Int /\ waited \in 0..c
  <2>1. use = [live |-> TRUE, cooldown |-> 0] \/ use = [live |-> FALSE, cooldown |-> 1]
      BY DEF CountedInv
  <2>2. c \in 0..1 /\ c \in Nat /\ (use.live => c = 0)
      BY <2>1
  <2> HIDE DEF c
  <2>4. /\ RangeTyped(ranging) /\ ranging.last \in Nat /\ ranging.cooldown \in 0..c
        /\ gaveUp \in Int /\ waited \in 0..c
      BY DEF CountedInv, RangeTyped, c
  <2> QED BY <2>2, <2>4
<1>2. ASSUME NEW in \in Ranges!Inputs, Ranges!Round(in) PROVE CountedInv' /\ RangeRests
  <2>1. PICK priced \in BOOLEAN :
          LET before == Ranges!Synced(ranging, account, priced)
              after == Ranges!Evaluated(before, in)
          IN  /\ \/ ranging' = after /\ account' = account
                 \/ /\ after.position # before.position
                    /\ ranging' = IF after.position = "NONE"
                                    THEN Ranges!Synced(after, "NONE", FALSE) ELSE after
              /\ Ranges!Noted(before, in)
      BY <1>2 DEF Ranges!Round
  <2> DEFINE before == Ranges!Synced(ranging, account, priced)
             after == Ranges!Evaluated(before, in)
             flat == Ranges!Synced(after, "NONE", FALSE)
  <2>2. use.live /\ use' = use /\ c = 0
      BY <1>1, <1>2 DEF Ranges!Round
  <2>3. /\ RangeTyped(before) /\ before.last = ranging.last /\ before.position = account
        /\ before.cooldown \in 0..c
    <3>1. /\ RangeTyped(before) /\ before.last = ranging.last /\ before.position = account
        BY <1>1, RangeTold DEF Told
    <3> QED BY <3>1 DEF RangeTyped
  <2>4. /\ RangeTyped(after)
        /\ \/ Unmoved(before, after) /\ ~Ranges!TurnedAway(before, in)
           \/ Gone(before, after) \/ Turned(before, after) \/ Began(before, after)
    <3> HIDE DEF before
    <3> QED BY <1>1, <2>3, RangeLooked
  <2>5. RangeTyped(flat) /\ flat.last = after.last /\ flat.position = "NONE"
    <3> HIDE DEF after
    <3>1. Told(after, "NONE", flat)
        BY <1>1, <2>4, RangeTold, Zenon
    <3> QED BY <3>1 DEF Told
  <2>6. /\ ranging' = after \/ (ranging' = flat /\ after.position = "NONE")
        /\ Ranges!Noted(before, in)
      BY <2>1
  <2>7. ~Ranges!TurnedAway(before, in)
      BY <2>2, <2>3 DEF Ranges!TurnedAway
  <2> HIDE DEF before, after, flat
  <2>8. /\ RangeTyped(ranging') /\ ranging'.last \in Nat /\ ranging'.cooldown \in 0..c
        /\ ranging'.last = after.last /\ ranging'.position = after.position
      BY <2>4, <2>5, <2>6 DEF RangeTyped
  <2>9. ranging'.last >= ranging.last
      BY <1>1, <2>3, <2>4, <2>8 DEF Unmoved, Gone, Turned, Began
  <2>10. waited' = 0
      BY <1>1, <2>2, <2>6, <2>7 DEF Ranges!Noted
  <2>11. gaveUp' = IF ranging.position # "NONE" /\ ranging'.position = "NONE"
                     THEN ranging'.last ELSE gaveUp
      BY <2>6 DEF Ranges!Noted
  <2>12. RangeTyped(ranging)'
      BY <2>2, <2>8 DEF RangeTyped
  <2>13. CountedInv'
      BY <1>1, <2>2, <2>8, <2>9, <2>10, <2>11, <2>12 DEF CountedInv
  <2>14. RangeRests
    <3> SUFFICES ASSUME ranging.position = "NONE", account = "NONE", ranging'.position # "NONE"
                 PROVE  ranging'.last > gaveUp + c
        BY DEF RangeRests
    <3>1. Began(before, after)
        BY <2>3, <2>4, <2>8 DEF Unmoved, Gone, Turned
    <3> QED BY <1>1, <2>2, <2>3, <2>8, <3>1 DEF Began, CountedInv
  <2> QED BY <2>13, <2>14
<1>3. ASSUME NEW in \in Ranges!Inputs, Ranges!Candle(in) PROVE CountedInv' /\ RangeRests
  <2> DEFINE after == Ranges!Evaluated(ranging, in)
             synced == Ranges!Synced(after, after.position, TRUE)
  <2>1. /\ \/ /\ after.position = ranging.position \/ after.position # "NONE"
              /\ ranging' = after /\ account' = account
           \/ /\ after.position # ranging.position
              /\ ranging' = [synced EXCEPT !.entered = 0]
              /\ account' = after.position
        /\ Ranges!Noted(ranging, in) /\ ~use.live /\ use' = use
      BY <1>3 DEF Ranges!Candle
  <2>2. /\ RangeTyped(after)
        /\ \/ Unmoved(ranging, after) /\ ~Ranges!TurnedAway(ranging, in)
           \/ Gone(ranging, after) \/ Turned(ranging, after) \/ Began(ranging, after)
      BY <1>1, RangeLooked
  <2>3. after.cooldown \in 0..c /\ after.last \in Nat
      BY <2>2 DEF RangeTyped
  <2>4. /\ RangeTyped(synced) /\ synced.last = after.last /\ synced.position = after.position
        /\ synced.cooldown = IF after.position = "NONE" /\ after.cooldown = 0
                               THEN c ELSE after.cooldown
    <3> HIDE DEF after
    <3>1. Told(after, after.position, synced)
        BY <1>1, <2>2, RangeTold, Zenon
    <3> QED BY <3>1 DEF Told
  <2> HIDE DEF after, synced
  <2>5. /\ RangeTyped(ranging') /\ ranging'.last = after.last
        /\ ranging'.position = after.position /\ ranging'.cooldown = after.cooldown
    <3>1. CASE ranging' = after
        BY <2>2, <3>1
    <3>2. CASE after.position # ranging.position /\ ranging' = [synced EXCEPT !.entered = 0]
      <4>1. after.position = "NONE" => after.cooldown = c
          BY <2>2, <3>2 DEF Unmoved, Gone, Turned, Began
      <4>3. synced.cooldown = after.cooldown
          BY <2>3, <2>4, <4>1
      <4> QED BY <2>4, <3>2, <4>3 DEF RangeTyped, RangeFields
    <3> QED BY <2>1, <3>1, <3>2
  <2>6. RangeTyped(ranging)'
      BY <2>1, <2>5 DEF RangeTyped
  <2>7. /\ gaveUp' = IF ranging.position # "NONE" /\ ranging'.position = "NONE"
                       THEN ranging'.last ELSE gaveUp
        /\ waited' = IF ranging.position # "NONE" \/ ranging'.position # "NONE" THEN 0
                     ELSE IF Ranges!TurnedAway(ranging, in) THEN waited + 1 ELSE waited
      BY <2>1 DEF Ranges!Noted
  <2>8. account' # "NONE" => ranging'.position # "NONE"
      BY <2>1, <2>5 DEF CountedInv
  <2>9. CASE Unmoved(ranging, after) /\ ~Ranges!TurnedAway(ranging, in)
    <3>1. /\ ranging'.position = ranging.position /\ ranging'.cooldown = ranging.cooldown
          /\ ranging'.last >= ranging.last /\ gaveUp' = gaveUp
          /\ waited' = IF ranging.position # "NONE" THEN 0 ELSE waited
        BY <2>5, <2>7, <2>9 DEF Unmoved
    <3> QED BY <1>1, <2>1, <2>3, <2>5, <2>6, <2>8, <3>1 DEF CountedInv, RangeRests
  <2>10. CASE Gone(ranging, after)
    <3>1. /\ ranging.position # "NONE" /\ ranging'.position = "NONE" /\ ranging'.cooldown = c
          /\ gaveUp' = ranging'.last /\ waited' = 0
        BY <2>5, <2>7, <2>10 DEF Gone
    <3> QED BY <1>1, <2>1, <2>3, <2>5, <2>6, <2>8, <3>1 DEF CountedInv, RangeRests
  <2>11. CASE Turned(ranging, after)
    <3>1. /\ ranging.position = "NONE" /\ ranging'.position = "NONE" /\ ranging.cooldown > 0
          /\ ranging'.cooldown = ranging.cooldown - 1 /\ ranging'.last > ranging.last
          /\ gaveUp' = gaveUp /\ waited' \in {waited, waited + 1}
        BY <2>5, <2>7, <2>11 DEF Turned
    <3> QED BY <1>1, <2>1, <2>3, <2>5, <2>6, <2>8, <3>1 DEF CountedInv, RangeRests
  <2>12. CASE Began(ranging, after)
    <3>1. /\ ranging.position = "NONE" /\ ranging'.position # "NONE" /\ ranging.cooldown = 0
          /\ ranging'.last > ranging.last /\ gaveUp' = gaveUp /\ waited' = 0
        BY <2>5, <2>7, <2>12 DEF Began
    <3> QED BY <1>1, <2>1, <2>3, <2>5, <2>6, <2>8, <3>1 DEF CountedInv, RangeRests
  <2> QED BY <2>2, <2>9, <2>10, <2>11, <2>12
<1>4. CASE Ranges!Outside
  <2> DEFINE synced == Ranges!Synced(ranging, "NONE", FALSE)
  <2>1. /\ RangeTyped(synced) /\ synced.last = ranging.last /\ synced.position = "NONE"
        /\ synced.cooldown = IF ranging.position # "NONE" \/ ranging.cooldown = 0
                               THEN c ELSE ranging.cooldown
    <3>1. Told(ranging, "NONE", synced)
        BY <1>1, RangeTold, Zenon
    <3> QED BY <3>1 DEF Told
  <2>2. /\ IF use.live THEN ranging' = ranging
           ELSE account # "NONE" /\ account' = "NONE" /\ ranging' = synced
        /\ gaveUp' = IF ranging.position # "NONE" /\ ranging'.position = "NONE"
                       THEN ranging'.last ELSE gaveUp
        /\ use' = use /\ waited' = waited
      BY <1>4 DEF Ranges!Outside
  <2> HIDE DEF synced
  <2>3. RangeTyped(ranging)' /\ ranging'.last = ranging.last
      BY <1>1, <2>1, <2>2 DEF RangeTyped
  <2>4. CASE use.live
    <3>1. ranging' = ranging /\ gaveUp' = gaveUp
        BY <2>2, <2>4
    <3> QED BY <2>2, <2>3, <2>4, <3>1 DEF CountedInv, RangeRests
  <2>5. CASE ~use.live
    <3>1. ranging.position # "NONE" /\ ranging' = synced /\ account' = "NONE"
        BY <2>2, <2>5 DEF CountedInv
    <3>2. ranging'.position = "NONE" /\ ranging'.cooldown = c /\ gaveUp' = ranging.last /\ waited = 0
        BY <2>1, <2>2, <3>1 DEF CountedInv
    <3> QED BY <1>1, <2>2, <2>3, <2>5, <3>1, <3>2 DEF CountedInv, RangeRests
  <2> QED BY <2>4, <2>5
<1>5. CASE Ranges!Restart
  <2>1. /\ use.live /\ ranging' = Ranges!New /\ gaveUp' = -(use.cooldown + 1) /\ waited' = 0
        /\ use' = use
      BY <1>5 DEF Ranges!Restart
  <2>2. /\ DOMAIN Ranges!New = RangeFields /\ Ranges!New.last = 0 /\ Ranges!New.cooldown = 0
        /\ Ranges!New.position = "NONE"
      BY DEF Ranges!New, RangeFields
  <2>3. RangeTyped(ranging)'
      BY <1>1, <2>1, <2>2 DEF RangeTyped
  <2> QED BY <1>1, <2>1, <2>2, <2>3 DEF CountedInv, RangeRests
<1>6. CASE UNCHANGED rangeVars
    BY <1>6 DEF rangeVars, CountedInv, RangeTyped, RangeRests
<1> QED BY <1>2, <1>3, <1>4, <1>5, <1>6 DEF Ranges!Next, Ranges!Seen

LEMMA CountedStarts == Ranges!Init => CountedInv
<1> SUFFICES ASSUME Ranges!Init PROVE CountedInv
    OBVIOUS
<1>1. /\ use \in {[live |-> TRUE, cooldown |-> 0], [live |-> FALSE, cooldown |-> 1]}
      /\ ranging = Ranges!New /\ account = "NONE" /\ waited = 0
      /\ gaveUp = -(use.cooldown + 1)
    BY DEF Ranges!Init
<1>2. use.cooldown \in 0..1
    BY <1>1
<1>3. RangeTyped(ranging) /\ ranging.last = 0 /\ ranging.cooldown = 0 /\ ranging.position = "NONE"
    BY <1>1, <1>2 DEF Ranges!New, RangeTyped, RangeFields
<1> QED BY <1>1, <1>2, <1>3 DEF CountedInv

\* A range strategy: its fields, and what they hold.
RangeShaped(s) == s = [f \in RangeFields |-> s[f]]
RangeFielded(s) ==
    /\ DOMAIN s = RangeFields
    /\ s.position \in {"LONG", "SHORT", "NONE"} /\ s.priced \in BOOLEAN /\ s.entered \in 0..5
    /\ s.last \in 0..5 /\ s.cooldown \in Nat /\ s.known \in BOOLEAN /\ s.invalid \in 0..1
    /\ s.cooldown =< use.cooldown
    /\ s.position = "NONE" => ~s.priced /\ s.entered = 0
RangeFormed(s) == RangeShaped(s) /\ RangeFielded(s)

\* The strategy, its account and the counters of the history.
RangesTyped ==
    /\ RangeFormed(ranging) /\ account \in {"LONG", "SHORT", "NONE"}
    /\ waited \in Nat /\ reboots \in 0..1

LEMMA FormedRangeExited ==
    ASSUME NEW s, RangeFormed(s), use.cooldown \in Nat
    PROVE  RangeFormed(Ranges!Exited(s)) /\ Ranges!Exited(s).position = "NONE"
<1> DEFINE t == Ranges!Exited(s)
<1>1. t = [s EXCEPT !.position = "NONE", !.priced = FALSE, !.entered = 0, !.cooldown = use.cooldown]
    BY DEF Ranges!Exited
<1> HIDE DEF t
<1>2. RangeShaped(t)
    BY <1>1 DEF RangeFormed, RangeShaped, RangeFields
<1>3. RangeFielded(t) /\ t.position = "NONE"
    BY <1>1 DEF RangeFormed, RangeFielded, RangeFields
<1> QED BY <1>2, <1>3 DEF RangeFormed, t

LEMMA FormedRangeSynced ==
    ASSUME NEW s, RangeFormed(s), use.cooldown \in Nat, NEW way \in {"LONG", "SHORT", "NONE"},
           NEW priced \in BOOLEAN
    PROVE  RangeFormed(Ranges!Synced(s, way, priced)) /\ Ranges!Synced(s, way, priced).position = way
<1> DEFINE t == Ranges!Synced(s, way, priced)
<1>1. s.position \in {"LONG", "SHORT", "NONE"} /\ s.cooldown \in Nat
    BY DEF RangeFormed, RangeFielded
<1>2. CASE way = "NONE" /\ s.position # "NONE"
  <2>1. t = Ranges!Exited(s)
      BY <1>2 DEF Ranges!Synced
  <2> HIDE DEF t
  <2>2. RangeFormed(t) /\ t.position = way
      BY <1>2, <2>1, FormedRangeExited
  <2> QED BY <2>2 DEF t
<1>3. CASE way # s.position /\ way # "NONE"
  <2>1. t = [s EXCEPT !.position = way, !.priced = priced, !.entered = 0]
      BY <1>3 DEF Ranges!Synced
  <2> HIDE DEF t
  <2>2. RangeFormed(t) /\ t.position = way
    <3>1. RangeShaped(t)
        BY <1>3, <2>1 DEF RangeFormed, RangeShaped, RangeFields
    <3>2. RangeFielded(t) /\ t.position = way
        BY <1>3, <2>1 DEF RangeFormed, RangeFielded, RangeFields
    <3> QED BY <3>1, <3>2 DEF RangeFormed
  <2> QED BY <2>2 DEF t
<1>4. CASE way = s.position /\ way # "NONE"
  <2>1. t = [s EXCEPT !.priced = priced]
      BY <1>4 DEF Ranges!Synced
  <2> HIDE DEF t
  <2>2. RangeFormed(t) /\ t.position = way
    <3>1. RangeShaped(t)
        BY <1>4, <2>1 DEF RangeFormed, RangeShaped, RangeFields
    <3>2. RangeFielded(t) /\ t.position = way
        BY <1>4, <2>1 DEF RangeFormed, RangeFielded, RangeFields
    <3> QED BY <3>1, <3>2 DEF RangeFormed
  <2> QED BY <2>2 DEF t
<1>5. CASE way = "NONE" /\ s.position = "NONE"
  <2> DEFINE cooldown == IF s.cooldown = 0 THEN use.cooldown ELSE s.cooldown
  <2>1. t = [s EXCEPT !.cooldown = cooldown]
      BY <1>5 DEF Ranges!Synced
  <2>2. cooldown \in Nat /\ cooldown =< use.cooldown
      BY <1>1 DEF RangeFormed, RangeFielded
  <2> HIDE DEF t, cooldown
  <2>3. RangeFormed(t) /\ t.position = way
    <3>1. RangeShaped(t)
        BY <1>5, <2>1, <2>2 DEF RangeFormed, RangeShaped, RangeFields
    <3>2. RangeFielded(t) /\ t.position = way
        BY <1>5, <2>1, <2>2 DEF RangeFormed, RangeFielded, RangeFields
    <3> QED BY <3>1, <3>2 DEF RangeFormed
  <2> QED BY <2>3 DEF t
<1> QED BY <1>1, <1>2, <1>3, <1>4, <1>5

LEMMA FormedRangeEvaluated ==
    ASSUME NEW s, RangeFormed(s), use.cooldown \in Nat, NEW in \in Ranges!Inputs
    PROVE  RangeFormed(Ranges!Evaluated(s, in))
<1>1. in.candle \in 0..5 /\ in.wish \in {"LONG", "SHORT", "NONE"}
    BY DEF Ranges!Inputs, Ranges!Sides
<1>2. ASSUME NEW u, RangeFormed(u)
      PROVE  RangeFormed(Ranges!Ranged(u, in)) /\ Ranges!Ranged(u, in).position = u.position
  <2> DEFINE invalid == (u.invalid + 1) % 2
             t == Ranges!Ranged(u, in)
  <2>1. invalid \in 0..1
      BY <1>2 DEF RangeFormed, RangeFielded
  <2>2. t = [u EXCEPT !.known = TRUE, !.invalid = 0] \/ t = [u EXCEPT !.invalid = invalid]
      BY DEF Ranges!Ranged
  <2> HIDE DEF t, invalid
  <2>3. RangeFormed(t) /\ t.position = u.position
    <3>1. RangeShaped(t)
        BY <1>2, <2>1, <2>2 DEF RangeFormed, RangeShaped, RangeFields
    <3>2. RangeFielded(t) /\ t.position = u.position
      <4>1. CASE t = [u EXCEPT !.known = TRUE, !.invalid = 0]
          BY <1>2, <4>1 DEF RangeFormed, RangeFielded, RangeFields
      <4>2. CASE t = [u EXCEPT !.invalid = invalid]
          BY <1>2, <2>1, <4>2 DEF RangeFormed, RangeFielded, RangeFields
      <4> QED BY <2>2, <4>1, <4>2
    <3> QED BY <3>1, <3>2 DEF RangeFormed
  <2> QED BY <2>3 DEF t
<1>3. ASSUME NEW u, RangeFormed(u), u.position = "NONE" PROVE RangeFormed(Ranges!Flat(u, in))
  <2> DEFINE t == Ranges!Flat(u, in)
  <2>1. u.cooldown \in Nat /\ u.last \in 0..5
      BY <1>3 DEF RangeFormed, RangeFielded
  <2>2. \/ u.cooldown > 0 /\ t = [u EXCEPT !.cooldown = u.cooldown - 1]
        \/ /\ Ranges!Wanted(in)
           /\ t = [u EXCEPT !.position = in.wish, !.priced = TRUE, !.entered = u.last]
        \/ t = u
    <3>1. CASE u.cooldown > 0
        BY <3>1 DEF Ranges!Flat
    <3>2. CASE u.cooldown = 0
        BY <3>2 DEF Ranges!Flat
    <3> QED BY <2>1, <3>1, <3>2
  <2>3. Ranges!Wanted(in) => in.wish \in {"LONG", "SHORT"}
      BY DEF Ranges!Wanted, Ranges!Sides
  <2> HIDE DEF t
  <2>4. RangeFormed(t)
    <3>1. CASE u.cooldown > 0 /\ t = [u EXCEPT !.cooldown = u.cooldown - 1]
      <4>1. u.cooldown - 1 \in Nat /\ u.cooldown - 1 =< use.cooldown
          BY <1>3, <2>1, <3>1 DEF RangeFormed, RangeFielded
      <4>2. RangeShaped(t)
          BY <1>3, <3>1 DEF RangeFormed, RangeShaped, RangeFields
      <4>3. RangeFielded(t)
          BY <1>3, <3>1, <4>1 DEF RangeFormed, RangeFielded, RangeFields
      <4> QED BY <4>2, <4>3 DEF RangeFormed
    <3>2. CASE /\ in.wish \in {"LONG", "SHORT"}
               /\ t = [u EXCEPT !.position = in.wish, !.priced = TRUE, !.entered = u.last]
      <4>1. RangeShaped(t)
          BY <1>3, <3>2 DEF RangeFormed, RangeShaped, RangeFields
      <4>2. RangeFielded(t)
          BY <1>3, <2>1, <3>2 DEF RangeFormed, RangeFielded, RangeFields
      <4> QED BY <4>1, <4>2 DEF RangeFormed
    <3> QED BY <1>3, <2>2, <2>3, <3>1, <3>2
  <2> QED BY <2>4 DEF t
<1>4. RangeFormed(Ranges!Processed(s, in))
  <2> DEFINE n == [s EXCEPT !.last = in.candle]
  <2>1. RangeFormed(n) /\ n.position \in {"LONG", "SHORT", "NONE"}
    <3>1. RangeShaped(n)
        BY <1>1 DEF RangeFormed, RangeShaped, RangeFields
    <3>2. RangeFielded(n) /\ n.position \in {"LONG", "SHORT", "NONE"}
        BY <1>1 DEF RangeFormed, RangeFielded, RangeFields
    <3> QED BY <3>1, <3>2 DEF RangeFormed
  <2>2. Ranges!Processed(s, in) \in
          {Ranges!Exited(n), n} \cup
            (IF n.position # "NONE" THEN {Ranges!Ranged(n, in)}
             ELSE {Ranges!Flat(Ranges!Ranged(n, in), in)})
    <3>1. CASE Ranges!PriceExit(n, in)
      <4>1. n.position # "NONE"
          BY <3>1 DEF Ranges!PriceExit
      <4> QED BY <3>1, <4>1 DEF Ranges!Processed
    <3>2. CASE ~Ranges!PriceExit(n, in) /\ n.position # "NONE"
        BY <3>2 DEF Ranges!Processed
    <3>3. CASE ~Ranges!PriceExit(n, in) /\ n.position = "NONE"
        BY <3>3 DEF Ranges!Processed
    <3> QED BY <3>1, <3>2, <3>3
  <2> HIDE DEF n
  <2>3. RangeFormed(Ranges!Ranged(n, in)) /\ Ranges!Ranged(n, in).position = n.position
      BY <1>2, <2>1
  <2>4. CASE n.position # "NONE"
      BY <2>1, <2>2, <2>3, <2>4, FormedRangeExited
  <2>5. CASE n.position = "NONE"
    <3>1. RangeFormed(Ranges!Flat(Ranges!Ranged(n, in), in))
        BY <1>3, <2>3, <2>5
    <3> QED BY <2>1, <2>2, <2>5, <3>1, FormedRangeExited
  <2> QED BY <2>4, <2>5
<1> QED BY <1>4, FormedRangeExited DEF Ranges!Evaluated

LEMMA RangesTypesStart == Ranges!Init => RangesTyped
<1> SUFFICES ASSUME Ranges!Init PROVE RangesTyped
    OBVIOUS
<1>1. ranging = Ranges!New /\ account = "NONE" /\ waited = 0 /\ reboots = 0 /\ use.cooldown \in 0..1
    BY DEF Ranges!Init
<1>2. RangeShaped(ranging)
    BY <1>1 DEF Ranges!New, RangeShaped, RangeFields
<1>3. RangeFielded(ranging)
    BY <1>1 DEF Ranges!New, RangeFielded, RangeFields
<1> QED BY <1>1, <1>2, <1>3 DEF RangesTyped, RangeFormed
LEMMA RangesTypesKept ==
    ASSUME CountedInv, RangesTyped, Ranges!Next \/ UNCHANGED rangeVars
    PROVE  RangesTyped'
<1>1. /\ use.cooldown \in 0..1 /\ use.cooldown \in Nat
      /\ RangeFormed(ranging) /\ account \in {"LONG", "SHORT", "NONE"}
      /\ waited \in Nat /\ reboots \in 0..1
  <2>1. use.cooldown \in 0..1
      BY DEF CountedInv
  <2> QED BY <2>1 DEF RangesTyped
<1>2. ASSUME RangeFormed(ranging'), use' = use PROVE RangeFormed(ranging)'
    BY <1>2 DEF RangeFormed, RangeShaped, RangeFielded
<1>3. ASSUME NEW s, NEW in, Ranges!Noted(s, in) PROVE waited' \in Nat
  <2>1. waited' \in {0, waited, waited + 1}
      BY <1>3 DEF Ranges!Noted
  <2> QED BY <1>1, <2>1
<1>4. \A s : RangeFormed(s) => s.position \in {"LONG", "SHORT", "NONE"}
    BY DEF RangeFormed, RangeShaped, RangeFielded, RangeFields
<1>5. ASSUME NEW in \in Ranges!Inputs, Ranges!Round(in) PROVE RangesTyped'
  <2>1. PICK priced \in BOOLEAN :
          LET before == Ranges!Synced(ranging, account, priced)
              after == Ranges!Evaluated(before, in)
          IN  /\ \/ ranging' = after /\ account' = account
                 \/ /\ ranging' = IF after.position = "NONE"
                                    THEN Ranges!Synced(after, "NONE", FALSE) ELSE after
                    /\ account' = after.position
              /\ Ranges!Noted(before, in)
      BY <1>5 DEF Ranges!Round
  <2> DEFINE before == Ranges!Synced(ranging, account, priced)
             after == Ranges!Evaluated(before, in)
  <2>2. RangeFormed(before)
      BY <1>1, FormedRangeSynced
  <2>3. RangeFormed(after) /\ after.position \in {"LONG", "SHORT", "NONE"}
      BY <1>1, <1>4, <2>2, FormedRangeEvaluated
  <2>4. RangeFormed(Ranges!Synced(after, "NONE", FALSE))
      BY <1>1, <2>3, FormedRangeSynced
  <2>5. use' = use /\ reboots' = reboots
      BY <1>5 DEF Ranges!Round
  <2>6. waited' \in Nat
      BY <1>3, <2>1
  <2>7. RangeFormed(ranging') /\ account' \in {"LONG", "SHORT", "NONE"}
    <3> HIDE DEF before, after
    <3>1. \/ ranging' = after /\ account' = account
          \/ /\ ranging' = IF after.position = "NONE"
                             THEN Ranges!Synced(after, "NONE", FALSE) ELSE after
             /\ account' = after.position
        BY <2>1 DEF before, after
    <3> QED BY <1>1, <2>3, <2>4, <3>1
  <2> QED BY <1>1, <1>2, <2>5, <2>6, <2>7 DEF RangesTyped
<1>6. ASSUME NEW in \in Ranges!Inputs, Ranges!Candle(in) PROVE RangesTyped'
  <2> DEFINE after == Ranges!Evaluated(ranging, in)
             informed == Ranges!Synced(after, after.position, TRUE)
  <2>1. RangeFormed(after) /\ after.position \in {"LONG", "SHORT", "NONE"}
      BY <1>1, <1>4, FormedRangeEvaluated
  <2>2. RangeFormed(informed)
      BY <1>1, <2>1, FormedRangeSynced
  <2>3. RangeFormed([informed EXCEPT !.entered = 0])
    <3> HIDE DEF informed
    <3> DEFINE t == [informed EXCEPT !.entered = 0]
    <3>1. RangeShaped(t)
        BY <2>2 DEF RangeFormed, RangeShaped, RangeFields
    <3>2. RangeFielded(t)
        BY <2>2 DEF RangeFormed, RangeFielded, RangeFields
    <3> QED BY <3>1, <3>2 DEF RangeFormed
  <2>4. \/ ranging' = after /\ account' = account
        \/ ranging' = [informed EXCEPT !.entered = 0] /\ account' = after.position
      BY <1>6 DEF Ranges!Candle
  <2>5. use' = use /\ reboots' = reboots /\ Ranges!Noted(ranging, in)
      BY <1>6 DEF Ranges!Candle
  <2>6. RangeFormed(ranging') /\ account' \in {"LONG", "SHORT", "NONE"}
    <3> HIDE DEF informed, after
    <3> QED BY <1>1, <2>1, <2>3, <2>4
  <2>7. waited' \in Nat
      BY <1>3, <2>5
  <2> QED BY <1>1, <1>2, <2>5, <2>6, <2>7 DEF RangesTyped
<1>7. CASE Ranges!Outside
  <2>1. /\ use' = use /\ reboots' = reboots /\ waited' = waited
        /\ account' \in {"LONG", "SHORT", "NONE"}
        /\ ranging' = ranging \/ ranging' = Ranges!Synced(ranging, "NONE", FALSE)
      BY <1>7 DEF Ranges!Outside, Ranges!Sides
  <2>2. RangeFormed(Ranges!Synced(ranging, "NONE", FALSE))
      BY <1>1, FormedRangeSynced
  <2>3. RangeFormed(ranging')
      BY <1>1, <2>1, <2>2
  <2> QED BY <1>1, <1>2, <2>1, <2>3 DEF RangesTyped
<1>8. CASE Ranges!Restart
  <2>1. /\ reboots < 1 /\ reboots' = reboots + 1 /\ ranging' = Ranges!New /\ waited' = 0
        /\ use' = use /\ account' = account
      BY <1>8 DEF Ranges!Restart
  <2>2. RangeFormed(Ranges!New)
      BY <1>1 DEF RangeFormed, RangeShaped, RangeFielded, RangeFields, Ranges!New
  <2>3. RangeFormed(ranging')
      BY <2>1, <2>2
  <2>4. reboots' \in 0..1
      BY <1>1, <2>1
  <2> QED BY <1>1, <1>2, <2>1, <2>3, <2>4 DEF RangesTyped
<1>9. CASE UNCHANGED rangeVars
    BY <1>1, <1>9 DEF rangeVars, RangesTyped, RangeFormed, RangeShaped, RangeFielded
<1> QED BY <1>5, <1>6, <1>7, <1>8, <1>9 DEF Ranges!Next, Ranges!Seen

LEMMA RangesTypes == CountedInv /\ RangesTyped => Ranges!TypeOK
<1> SUFFICES ASSUME CountedInv, RangesTyped PROVE Ranges!TypeOK
    OBVIOUS
<1>1. RangeFormed(ranging) => ranging \in Ranges!States
    BY DEF RangeFormed, RangeShaped, RangeFielded, RangeFields, Ranges!States, Ranges!Sides
<1>2. RangeFormed(ranging) => /\ ranging.cooldown =< use.cooldown
                              /\ ranging.position = "NONE" => ~ranging.priced /\ ranging.entered = 0
    BY DEF RangeFormed, RangeFielded
<1> QED BY <1>1, <1>2 DEF CountedInv, RangesTyped, Ranges!TypeOK, Ranges!Sides

-----------------------------------------------------------------------------
(* Scalping and ReverseScalping.                                           *)

StrategyFields ==
    {"position", "entered", "trailing", "last", "prev", "cooldown", "regime", "armed", "used",
     "viaTrend"}
Typed(s) ==
    /\ DOMAIN s = StrategyFields
    /\ s.last \in Nat /\ s.cooldown \in {0, 1} /\ s.used \in Nat

\* The regime of follow-ups is what it was, or gone.
SameRegime(s, t) == t.regime = "none" \/ (t.regime = s.regime /\ t.used = s.used)

\* A cross that the strategy looks at.
Crosses(s, t) == params.mode # "ema_alignment" /\ Classic!Crossed(s.prev, t.prev) # "none"

\* What a step makes of a strategy: without a new candle, with one in a position, during the
\* cooldown, with a cross, and without.
Looked(s, t) ==
    /\ t.last = s.last /\ SameRegime(s, t)
    /\ t.position = "NONE" => t.cooldown = IF s.position = "NONE" THEN s.cooldown ELSE 1
Kept(s, t) ==
    /\ t.last > s.last /\ s.position # "NONE" /\ SameRegime(s, t)
    /\ t.position = "NONE" => t.cooldown = 1
Waited(s, t) ==
    /\ t.last > s.last /\ s.position = "NONE" /\ s.cooldown = 1
    /\ t.position = "NONE" /\ t.cooldown = 0 /\ SameRegime(s, t)
SawCross(s, t) ==
    /\ t.last > s.last /\ s.position = "NONE" /\ s.cooldown = 0 /\ t.cooldown = 0 /\ Crosses(s, t)
    /\ t.regime = "none" \/ t.position = "NONE"
SawNone(s, t) ==
    /\ t.last > s.last /\ s.position = "NONE" /\ s.cooldown = 0 /\ t.cooldown = 0 /\ ~Crosses(s, t)
    /\ \/ t.position = "NONE" /\ SameRegime(s, t)
       \/ t.position # "NONE" /\ t.viaTrend = FALSE /\ t.regime = "none"
       \/ /\ t.position # "NONE" /\ t.viaTrend = TRUE
          /\ s.regime # "none" /\ s.used < 1 /\ t.regime = s.regime /\ t.used = s.used + 1

Follows(s, t) ==
    /\ Typed(t)
    /\ Looked(s, t) \/ Kept(s, t) \/ Waited(s, t) \/ SawCross(s, t) \/ SawNone(s, t)

LEMMA ExitedState ==
    ASSUME NEW s, Typed(s)
    PROVE  LET e == Classic!Exited(s)
           IN  /\ Typed(e) /\ e.position = "NONE" /\ e.cooldown = 1
               /\ e.last = s.last /\ e.prev = s.prev /\ SameRegime(s, e)
<1> DEFINE x == IF s.viaTrend THEN [s EXCEPT !.viaTrend = FALSE] ELSE Classic!Cleared(s)
           e == [x EXCEPT !.position = "NONE", !.entered = 0, !.trailing = FALSE, !.cooldown = 1]
<1>1. Classic!Exited(s) = e
    BY DEF Classic!Exited
<1>2. Typed(x) /\ x.last = s.last /\ x.prev = s.prev /\ SameRegime(s, x)
  <2>1. CASE x = [s EXCEPT !.viaTrend = FALSE]
    <3> HIDE DEF x
    <3> QED BY <2>1 DEF Typed, StrategyFields, SameRegime
  <2>2. CASE x = [s EXCEPT !.regime = "none", !.armed = 0, !.used = 0]
    <3> HIDE DEF x
    <3> QED BY <2>2 DEF Typed, StrategyFields, SameRegime
  <2> QED BY <2>1, <2>2 DEF Classic!Cleared
<1> HIDE DEF x
<1>3. /\ Typed(e) /\ e.position = "NONE" /\ e.cooldown = 1
      /\ e.last = s.last /\ e.prev = s.prev /\ SameRegime(s, e)
    BY <1>2 DEF Typed, StrategyFields, SameRegime
<1> HIDE DEF e
<1> QED BY <1>1, <1>3

LEMMA EnteredState ==
    ASSUME NEW s, Typed(s), NEW way
    PROVE  LET e == Classic!Entered(s, way)
           IN  /\ Typed(e) /\ e.position = way /\ e.viaTrend = FALSE /\ e.regime = "none"
               /\ e.last = s.last /\ e.prev = s.prev /\ e.cooldown = s.cooldown
<1> DEFINE x == Classic!Cleared(s)
           e == [x EXCEPT !.viaTrend = FALSE, !.position = way, !.entered = s.last,
                          !.trailing = params.trailing]
<1>1. Classic!Entered(s, way) = e
    BY DEF Classic!Entered
<1>2. /\ Typed(x) /\ x.last = s.last /\ x.prev = s.prev /\ x.cooldown = s.cooldown
      /\ x.regime = "none"
    BY DEF Typed, StrategyFields, Classic!Cleared
<1> HIDE DEF x
<1>3. /\ Typed(e) /\ e.position = way /\ e.viaTrend = FALSE /\ e.regime = "none"
      /\ e.last = s.last /\ e.prev = s.prev /\ e.cooldown = s.cooldown
    BY <1>2 DEF Typed, StrategyFields
<1> HIDE DEF e
<1> QED BY <1>1, <1>3

LEMMA FollowedUpState ==
    ASSUME NEW s, Typed(s), NEW way
    PROVE  LET e == Classic!FollowedUp(s, way)
           IN  /\ Typed(e) /\ e.position = way /\ e.viaTrend = TRUE /\ e.regime = s.regime
               /\ e.used = s.used + 1
               /\ e.last = s.last /\ e.prev = s.prev /\ e.cooldown = s.cooldown
BY DEF Typed, StrategyFields, Classic!FollowedUp

LEMMA ArmedState ==
    ASSUME NEW s, Typed(s), NEW way
    PROVE  LET e == Classic!Armed(s, way)
           IN  /\ Typed(e) /\ e.position = s.position /\ e.regime = way /\ e.used = 0
               /\ e.last = s.last /\ e.prev = s.prev /\ e.cooldown = s.cooldown
BY DEF Typed, StrategyFields, Classic!Armed

LEMMA SyncedState ==
    ASSUME NEW s, Typed(s), NEW held, NEW moved
    PROVE  Follows(s, Classic!Synced(s, held, moved))
<1> DEFINE t == Classic!Synced(s, held, moved)
           x == Classic!Cleared(s)
<1>1. Typed(x) /\ x.last = s.last /\ x.regime = "none"
    BY DEF Typed, StrategyFields, Classic!Cleared
<1>2. CASE held = "NONE" /\ s.position # "NONE"
  <2>1. t = [x EXCEPT !.viaTrend = FALSE, !.position = "NONE", !.entered = 0,
                      !.trailing = FALSE, !.cooldown = 1]
      BY <1>2 DEF Classic!Synced
  <2> HIDE DEF t, x
  <2>2. Typed(t) /\ Looked(s, t)
      BY <1>1, <1>2, <2>1 DEF Typed, StrategyFields, Looked, SameRegime
  <2>3. Follows(s, t)
      BY <2>2 DEF Follows
  <2> QED BY <2>3 DEF t
<1>3. CASE held # "NONE" /\ s.position = "NONE"
  <2>1. t = [s EXCEPT !.position = held, !.trailing = params.trailing]
      BY <1>3 DEF Classic!Synced
  <2> HIDE DEF t
  <2>2. Typed(t) /\ Looked(s, t)
      BY <1>3, <2>1 DEF Typed, StrategyFields, Looked, SameRegime
  <2>3. Follows(s, t)
      BY <2>2 DEF Follows
  <2> QED BY <2>3 DEF t
<1>4. CASE held # "NONE" /\ s.position # "NONE" /\ held # s.position
  <2>1. t = [s EXCEPT !.position = held, !.entered = 0, !.trailing = FALSE]
      BY <1>4 DEF Classic!Synced
  <2> HIDE DEF t
  <2>2. Typed(t) /\ Looked(s, t)
      BY <1>4, <2>1 DEF Typed, StrategyFields, Looked, SameRegime
  <2>3. Follows(s, t)
      BY <2>2 DEF Follows
  <2> QED BY <2>3 DEF t
<1>5. CASE held = s.position
  <2>1. t \in {s, [s EXCEPT !.trailing = params.trailing]} /\ (held = "NONE" => t = s)
      BY <1>5 DEF Classic!Synced
  <2> HIDE DEF t
  <2>2. Typed(t) /\ Looked(s, t)
      BY <1>5, <2>1 DEF Typed, StrategyFields, Looked, SameRegime
  <2>3. Follows(s, t)
      BY <2>2 DEF Follows
  <2> QED BY <2>3 DEF t
<1> QED BY <1>2, <1>3, <1>4, <1>5

\* What evaluate does, whichever side a cross points to.
FlatShape(n, cross, t) ==
    \/ t = n
    \/ \E way \in {"LONG", "SHORT"} :
         \/ params.mode = "ema_alignment" /\ t = Classic!Entered(n, way)
         \/ /\ params.mode # "ema_alignment" /\ cross
            /\ \/ t = Classic!Armed(n, way)
               \/ t = Classic!Entered(Classic!Armed(n, way), way)
         \/ /\ params.mode # "ema_alignment" /\ ~cross /\ n.regime = way /\ n.used < 1
            /\ t = Classic!FollowedUp(n, way)

NewCandle(s, in) ==
    [s EXCEPT !.last = in.candle, !.prev = in.ema, !.cooldown = IF @ > 0 THEN @ - 1 ELSE 0]

EvaluatedShape(s, in, t) ==
    \/ t = s
    \/ /\ s.position # "NONE"
       /\ t = Classic!Exited(s) \/ t = [Classic!Exited(s) EXCEPT !.entered = s.entered]
    \/ /\ ~(in.candle <= s.last)
       /\ \/ s.position = "NONE" /\ s.cooldown > 0 /\ t = NewCandle(s, in)
          \/ /\ s.position = "NONE" /\ ~(s.cooldown > 0)
             /\ FlatShape(NewCandle(s, in), Classic!Crossed(s.prev, in.ema) # "none", t)
          \/ /\ s.position # "NONE"
             /\ t = NewCandle(s, in) \/ t = Classic!Exited(NewCandle(s, in))

LEMMA CrossesEither ==
    ASSUME NEW ema, NEW prev
    PROVE  /\ Classic!Aligned(ema) \in {"LONG", "SHORT", "none"}
           /\ Reverse!S!Aligned(ema) \in {"LONG", "SHORT", "none"}
           /\ Classic!Crossed(prev, ema) \in {"LONG", "SHORT", "none"}
           /\ Reverse!S!Crossed(prev, ema) \in {"LONG", "SHORT", "none"}
           /\ Classic!Crossed(prev, ema) = "none" <=> Reverse!S!Crossed(prev, ema) = "none"
<1>1. Classic!Aligned(ema) = (IF ema = "above" THEN "LONG" ELSE IF ema = "below" THEN "SHORT" ELSE "none")
    BY DEF Classic!Aligned
<1>2. Reverse!S!Aligned(ema) = (IF ema = "above" THEN "SHORT" ELSE IF ema = "below" THEN "LONG" ELSE "none")
    BY DEF Reverse!S!Aligned, Reverse!Side
<1> QED BY <1>1, <1>2 DEF Classic!Crossed, Reverse!S!Crossed

\* What the reverse strategy does but for the sides is what the classic one does.
LEMMA SameSteps ==
    ASSUME NEW s
    PROVE  /\ Reverse!S!Exited(s) = Classic!Exited(s)
           /\ \A way : /\ Reverse!S!Entered(s, way) = Classic!Entered(s, way)
                       /\ Reverse!S!FollowedUp(s, way) = Classic!FollowedUp(s, way)
                       /\ Reverse!S!Armed(s, way) = Classic!Armed(s, way)
           /\ \A held, moved : Reverse!S!Synced(s, held, moved) = Classic!Synced(s, held, moved)
BY DEF Classic!Exited, Reverse!S!Exited, Classic!Cleared, Reverse!S!Cleared, Classic!Entered,
       Reverse!S!Entered, Classic!FollowedUp, Reverse!S!FollowedUp, Classic!Armed, Reverse!S!Armed,
       Classic!Synced, Reverse!S!Synced

LEMMA ClassicFlat ==
    ASSUME NEW n, NEW in, NEW cross \in {"LONG", "SHORT", "none"}
    PROVE  FlatShape(n, cross # "none", Classic!Flat(n, cross, in))
<1> DEFINE t == Classic!Flat(n, cross, in)
<1>1. CASE params.mode = "ema_alignment"
  <2>1. t = n \/ (Classic!Aligned(in.ema) # "none" /\ t = Classic!Entered(n, Classic!Aligned(in.ema)))
      BY <1>1 DEF Classic!Flat
  <2> QED BY <1>1, <2>1, CrossesEither, SameSteps DEF FlatShape
<1>2. CASE params.mode # "ema_alignment" /\ cross # "none"
  <2>1. t = n \/ t = Classic!CrossEntered(n, cross, in)
      BY <1>2 DEF Classic!Flat
  <2>2. Classic!CrossEntered(n, cross, in)
          \in {Classic!Armed(n, cross), Classic!Entered(Classic!Armed(n, cross), cross)}
      BY DEF Classic!CrossEntered
  <2> QED BY <1>2, <2>1, <2>2, SameSteps DEF FlatShape
<1>3. CASE params.mode # "ema_alignment" /\ cross = "none"
  <2>1. t = n \/ (Classic!FollowUp(n, in) /\ t = Classic!FollowedUp(n, n.regime))
      BY <1>3 DEF Classic!Flat
  <2>2. Classic!FollowUp(n, in) => n.regime \in {"LONG", "SHORT"} /\ n.used < 1
      BY DEF Classic!FollowUp, Classic!Sides
  <2> QED BY <1>3, <2>1, <2>2, SameSteps DEF FlatShape
<1> QED BY <1>1, <1>2, <1>3

LEMMA ReverseFlat ==
    ASSUME NEW n, NEW in, NEW cross \in {"LONG", "SHORT", "none"}
    PROVE  FlatShape(n, cross # "none", Reverse!S!Flat(n, cross, in))
<1> DEFINE t == Reverse!S!Flat(n, cross, in)
<1>1. CASE params.mode = "ema_alignment"
  <2>1. t = n \/ (Reverse!S!Aligned(in.ema) # "none" /\ t = Reverse!S!Entered(n, Reverse!S!Aligned(in.ema)))
      BY <1>1 DEF Reverse!S!Flat
  <2> QED BY <1>1, <2>1, CrossesEither, SameSteps DEF FlatShape
<1>2. CASE params.mode # "ema_alignment" /\ cross # "none"
  <2>1. t = n \/ t = Reverse!S!CrossEntered(n, cross, in)
      BY <1>2 DEF Reverse!S!Flat
  <2>2. Reverse!S!CrossEntered(n, cross, in)
          \in {Reverse!S!Armed(n, cross), Reverse!S!Entered(Reverse!S!Armed(n, cross), cross)}
      BY DEF Reverse!S!CrossEntered
  <2> QED BY <1>2, <2>1, <2>2, SameSteps DEF FlatShape
<1>3. CASE params.mode # "ema_alignment" /\ cross = "none"
  <2>1. t = n \/ (Reverse!S!FollowUp(n, in) /\ t = Reverse!S!FollowedUp(n, n.regime))
      BY <1>3 DEF Reverse!S!Flat
  <2>2. Reverse!S!FollowUp(n, in) => n.regime \in {"LONG", "SHORT"} /\ n.used < 1
      BY DEF Reverse!S!FollowUp, Reverse!S!Sides
  <2> QED BY <1>3, <2>1, <2>2, SameSteps DEF FlatShape
<1> QED BY <1>1, <1>2, <1>3

LEMMA ClassicEvaluated ==
    ASSUME NEW s, NEW in
    PROVE  EvaluatedShape(s, in, Classic!Evaluated(s, in))
<1> DEFINE n == NewCandle(s, in)
           cross == Classic!Crossed(s.prev, in.ema)
           t == Classic!Evaluated(s, in)
<1> SUFFICES EvaluatedShape(s, in, t)
    OBVIOUS
<1>1. CASE in.candle <= s.last
  <2>1. t = Classic!Rechecked(s, in)
      BY <1>1 DEF Classic!Evaluated
  <2>2. Classic!PriceExit(s, in) => s.position # "NONE"
      BY DEF Classic!PriceExit
  <2>3. \/ t = s
        \/ /\ Classic!PriceExit(s, in)
           /\ t = Classic!Exited(s) \/ t = [Classic!Exited(s) EXCEPT !.entered = s.entered]
      BY <2>1 DEF Classic!Rechecked
  <2> HIDE DEF t
  <2> QED BY <2>2, <2>3, SameSteps DEF EvaluatedShape
<1>2. CASE ~(in.candle <= s.last)
  <2>1. t = Classic!Processed(s, in)
      BY <1>2 DEF Classic!Evaluated
  <2>2. CASE s.position = "NONE"
    <3>1. t = IF s.cooldown > 0 THEN n ELSE Classic!Flat(n, cross, in)
        BY <2>1, <2>2 DEF Classic!Processed, NewCandle
    <3>2. FlatShape(n, cross # "none", Classic!Flat(n, cross, in))
      <4>1. cross \in {"LONG", "SHORT", "none"}
          BY CrossesEither
      <4> HIDE DEF n, cross
      <4> QED BY <4>1, ClassicFlat
    <3>3. cross # "none" <=> Classic!Crossed(s.prev, in.ema) # "none"
        BY CrossesEither
    <3> HIDE DEF t, cross
    <3>4. CASE s.cooldown > 0
        BY <1>2, <2>2, <3>1, <3>4 DEF EvaluatedShape
    <3>5. CASE ~(s.cooldown > 0)
      <4>1. FlatShape(n, Classic!Crossed(s.prev, in.ema) # "none", t)
        <5>1. (cross # "none") = (Classic!Crossed(s.prev, in.ema) # "none")
            BY <3>3
        <5>2. FlatShape(n, cross # "none", t)
            BY <3>1, <3>2, <3>5
        <5> HIDE DEF n
        <5> QED BY <5>2, <3>3 DEF FlatShape
      <4> QED BY <1>2, <2>2, <3>5, <4>1 DEF EvaluatedShape
    <3> QED BY <3>4, <3>5
  <2>3. CASE s.position # "NONE"
    <3>1. t \in {n, Classic!Exited(n), Classic!Held(n, cross, in)}
        BY <2>1, <2>3 DEF Classic!Processed, NewCandle
    <3>2. Classic!Held(n, cross, in) \in {n, Classic!Exited(n)}
        BY DEF Classic!Held
    <3> HIDE DEF t
    <3>3. t = n \/ t = Classic!Exited(n)
        BY <3>1, <3>2
    <3> QED BY <1>2, <2>3, <3>3, SameSteps DEF EvaluatedShape
  <2> QED BY <2>2, <2>3
<1> QED BY <1>1, <1>2

LEMMA ReverseEvaluated ==
    ASSUME NEW s, NEW in
    PROVE  EvaluatedShape(s, in, Reverse!S!Evaluated(s, in))
<1> DEFINE n == NewCandle(s, in)
           cross == Reverse!S!Crossed(s.prev, in.ema)
           t == Reverse!S!Evaluated(s, in)
<1> SUFFICES EvaluatedShape(s, in, t)
    OBVIOUS
<1>1. CASE in.candle <= s.last
  <2>1. t = Reverse!S!Rechecked(s, in)
      BY <1>1 DEF Reverse!S!Evaluated
  <2>2. Reverse!S!PriceExit(s, in) => s.position # "NONE"
      BY DEF Reverse!S!PriceExit
  <2>3. \/ t = s
        \/ /\ Reverse!S!PriceExit(s, in)
           /\ t = Reverse!S!Exited(s) \/ t = [Reverse!S!Exited(s) EXCEPT !.entered = s.entered]
      BY <2>1 DEF Reverse!S!Rechecked
  <2> HIDE DEF t
  <2> QED BY <2>2, <2>3, SameSteps DEF EvaluatedShape
<1>2. CASE ~(in.candle <= s.last)
  <2>1. t = Reverse!S!Processed(s, in)
      BY <1>2 DEF Reverse!S!Evaluated
  <2>2. CASE s.position = "NONE"
    <3>1. t = IF s.cooldown > 0 THEN n ELSE Reverse!S!Flat(n, cross, in)
        BY <2>1, <2>2 DEF Reverse!S!Processed, NewCandle
    <3>2. FlatShape(n, cross # "none", Reverse!S!Flat(n, cross, in))
      <4>1. cross \in {"LONG", "SHORT", "none"}
          BY CrossesEither
      <4> HIDE DEF n, cross
      <4> QED BY <4>1, ReverseFlat
    <3>3. cross # "none" <=> Classic!Crossed(s.prev, in.ema) # "none"
        BY CrossesEither
    <3> HIDE DEF t, cross
    <3>4. CASE s.cooldown > 0
        BY <1>2, <2>2, <3>1, <3>4 DEF EvaluatedShape
    <3>5. CASE ~(s.cooldown > 0)
      <4>1. FlatShape(n, Classic!Crossed(s.prev, in.ema) # "none", t)
        <5>1. (cross # "none") = (Classic!Crossed(s.prev, in.ema) # "none")
            BY <3>3
        <5>2. FlatShape(n, cross # "none", t)
            BY <3>1, <3>2, <3>5
        <5> HIDE DEF n
        <5> QED BY <5>2, <3>3 DEF FlatShape
      <4> QED BY <1>2, <2>2, <3>5, <4>1 DEF EvaluatedShape
    <3> QED BY <3>4, <3>5
  <2>3. CASE s.position # "NONE"
    <3>1. t \in {n, Reverse!S!Exited(n), Reverse!S!Held(n, cross, in)}
        BY <2>1, <2>3 DEF Reverse!S!Processed, NewCandle
    <3>2. Reverse!S!Held(n, cross, in) \in {n, Reverse!S!Exited(n)}
        BY DEF Reverse!S!Held
    <3> HIDE DEF t
    <3>3. t = n \/ t = Reverse!S!Exited(n)
        BY <3>1, <3>2
    <3> QED BY <1>2, <2>3, <3>3, SameSteps DEF EvaluatedShape
  <2> QED BY <2>2, <2>3
<1> QED BY <1>1, <1>2

LEMMA EvaluatedFollows ==
    ASSUME NEW s, Typed(s), NEW in, in.candle \in Nat, NEW t, EvaluatedShape(s, in, t)
    PROVE  Follows(s, t)
<1> DEFINE n == NewCandle(s, in)
           e == Classic!Exited(s)
<1>1. /\ Typed(n) /\ n.last = in.candle /\ n.prev = in.ema /\ n.cooldown = 0
      /\ n.position = s.position /\ n.regime = s.regime /\ n.used = s.used
    BY DEF NewCandle, Typed, StrategyFields
<1>2. s.last \in Nat /\ s.cooldown \in {0, 1} /\ s.used \in Nat
    BY DEF Typed
<1> HIDE DEF n
<1>9. \/ t = s
      \/ s.position # "NONE" /\ (t = e \/ t = [e EXCEPT !.entered = s.entered])
      \/ in.candle > s.last /\ s.position = "NONE" /\ s.cooldown > 0 /\ t = n
      \/ /\ in.candle > s.last /\ s.position = "NONE" /\ ~(s.cooldown > 0)
         /\ FlatShape(n, Classic!Crossed(s.prev, in.ema) # "none", t)
      \/ in.candle > s.last /\ s.position # "NONE" /\ t = n
      \/ in.candle > s.last /\ s.position # "NONE" /\ t = Classic!Exited(n)
  <2>1. ~(in.candle <= s.last) <=> in.candle > s.last
      BY <1>2
  <2> QED BY <2>1 DEF EvaluatedShape, n
<1>3. CASE t = s
    BY <1>3 DEF Follows, Looked, SameRegime
<1>4. CASE s.position # "NONE" /\ (t = e \/ t = [e EXCEPT !.entered = s.entered])
  <2>1. /\ Typed(e) /\ e.position = "NONE" /\ e.cooldown = 1 /\ e.last = s.last /\ SameRegime(s, e)
      BY ExitedState
  <2> HIDE DEF e
  <2>2. Typed(t) /\ Looked(s, t)
      BY <1>4, <2>1 DEF Typed, StrategyFields, Looked, SameRegime
  <2> QED BY <2>2 DEF Follows
<1>5. CASE in.candle > s.last /\ s.position = "NONE" /\ s.cooldown > 0 /\ t = n
  <2>1. Waited(s, t)
      BY <1>1, <1>2, <1>5 DEF Waited, SameRegime
  <2> QED BY <1>1, <1>5, <2>1 DEF Follows
<1>6. CASE /\ in.candle > s.last /\ s.position = "NONE" /\ ~(s.cooldown > 0)
           /\ FlatShape(n, Classic!Crossed(s.prev, in.ema) # "none", t)
  <2>1. s.cooldown = 0
      BY <1>2, <1>6
  <2>2. ASSUME t.prev = in.ema
        PROVE  Crosses(s, t) <=> params.mode # "ema_alignment" /\ Classic!Crossed(s.prev, in.ema) # "none"
      BY <2>2 DEF Crosses
  <2>3. CASE t = n
    <3>1. IF Crosses(s, t) THEN SawCross(s, t) ELSE SawNone(s, t)
        BY <1>1, <1>6, <2>1, <2>3 DEF SawCross, SawNone, SameRegime
    <3> QED BY <1>1, <2>3, <3>1 DEF Follows
  <2>4. ASSUME NEW way \in {"LONG", "SHORT"},
               params.mode = "ema_alignment" /\ t = Classic!Entered(n, way)
        PROVE  Follows(s, t)
    <3> DEFINE a == Classic!Entered(n, way)
    <3>1. /\ Typed(a) /\ a.position = way /\ a.viaTrend = FALSE /\ a.regime = "none"
          /\ a.last = n.last /\ a.prev = n.prev /\ a.cooldown = n.cooldown
        BY <1>1, EnteredState
    <3> HIDE DEF a
    <3>3. t = a
        BY <2>4 DEF a
    <3>2. SawNone(s, t)
        BY <1>1, <1>6, <2>1, <2>4, <3>1, <3>3 DEF SawNone, Crosses
    <3> QED BY <3>1, <3>2, <3>3 DEF Follows
  <2>5. ASSUME NEW way \in {"LONG", "SHORT"}, params.mode # "ema_alignment",
               Classic!Crossed(s.prev, in.ema) # "none",
               t = Classic!Armed(n, way) \/ t = Classic!Entered(Classic!Armed(n, way), way)
        PROVE  Follows(s, t)
    <3> DEFINE a == Classic!Armed(n, way)
    <3>1. /\ Typed(a) /\ a.position = "NONE" /\ a.last = in.candle /\ a.prev = in.ema /\ a.cooldown = 0
        BY <1>1, <1>6, ArmedState
    <3> HIDE DEF a
    <3>2. /\ Typed(t) /\ t.last = in.candle /\ t.prev = in.ema /\ t.cooldown = 0
          /\ t.position = "NONE" \/ t.regime = "none"
      <4>1. CASE t = a
          BY <3>1, <4>1
      <4>2. CASE t = Classic!Entered(a, way)
        <5> DEFINE b == Classic!Entered(a, way)
        <5>1. /\ Typed(b) /\ b.position = way /\ b.viaTrend = FALSE /\ b.regime = "none"
              /\ b.last = a.last /\ b.prev = a.prev /\ b.cooldown = a.cooldown
            BY <3>1, EnteredState
        <5>2. t = b
            BY <4>2
        <5> HIDE DEF b
        <5> QED BY <3>1, <5>1, <5>2
      <4> QED BY <2>5, <4>1, <4>2 DEF a
    <3>3. SawCross(s, t)
        BY <1>6, <2>1, <2>2, <2>5, <3>2 DEF SawCross
    <3> QED BY <3>2, <3>3 DEF Follows
  <2>6. ASSUME NEW way \in {"LONG", "SHORT"}, Classic!Crossed(s.prev, in.ema) = "none",
               n.regime = way, n.used < 1, t = Classic!FollowedUp(n, way)
        PROVE  Follows(s, t)
    <3> DEFINE a == Classic!FollowedUp(n, way)
    <3>1. /\ Typed(a) /\ a.position = way /\ a.viaTrend = TRUE /\ a.regime = n.regime
          /\ a.used = n.used + 1 /\ a.last = n.last /\ a.prev = n.prev /\ a.cooldown = n.cooldown
        BY <1>1, FollowedUpState
    <3> HIDE DEF a
    <3>3. t = a
        BY <2>6 DEF a
    <3>2. SawNone(s, t)
        BY <1>1, <1>6, <2>1, <2>2, <2>6, <3>1, <3>3 DEF SawNone
    <3> QED BY <3>1, <3>2, <3>3 DEF Follows
  <2> QED BY <1>6, <2>3, <2>4, <2>5, <2>6 DEF FlatShape
<1>7. CASE in.candle > s.last /\ s.position # "NONE" /\ t = n
  <2>1. Kept(s, t)
      BY <1>1, <1>7 DEF Kept, SameRegime
  <2> QED BY <1>1, <1>7, <2>1 DEF Follows
<1>8. CASE in.candle > s.last /\ s.position # "NONE" /\ t = Classic!Exited(n)
  <2>1. /\ Typed(t) /\ t.position = "NONE" /\ t.cooldown = 1 /\ t.last = n.last /\ SameRegime(n, t)
      BY <1>1, <1>8, ExitedState
  <2>2. Kept(s, t)
      BY <1>1, <1>8, <2>1 DEF Kept, SameRegime
  <2> QED BY <2>1, <2>2 DEF Follows
<1> HIDE DEF e
<1> QED BY <1>3, <1>4, <1>5, <1>6, <1>7, <1>8, <1>9

\* Candles wait for the cooldown to be counted down; a regime that is left is of a cross
\* that was not traded, and as often followed up as it says or less.
ScalpingInv ==
    /\ Typed(st) /\ left \in Int
    /\ taken.followUps \in {0, 1}
    /\ st.position = "NONE" => st.last >= left + 1 - st.cooldown
    /\ taken.cross => taken.followUps = 0
    /\ st.regime # "none" => ~taken.cross /\ taken.followUps <= st.used

NotedOf(fresh, reset) ==
    /\ left' = IF st.position # "NONE" /\ st'.position = "NONE" THEN st'.last ELSE left
    /\ taken' = IF reset THEN [cross |-> fresh, followUps |-> 0]
                ELSE IF fresh /\ st'.viaTrend THEN [taken EXCEPT !.followUps = @ + 1]
                ELSE taken

LEMMA NotedShape ==
    ASSUME Classic!Noted \/ Reverse!S!Noted
    PROVE  NotedOf(st.position = "NONE" /\ st'.position # "NONE" /\ st'.last # st.last,
                   st'.last # st.last /\ st.position = "NONE" /\ st.cooldown = 0 /\ Crosses(st, st'))
<1> DEFINE fresh == st.position = "NONE" /\ st'.position # "NONE" /\ st'.last # st.last
           early == st'.last # st.last /\ st.position = "NONE" /\ st.cooldown = 0
<1>1. CASE Classic!Noted
    BY <1>1 DEF Classic!Noted, NotedOf, Crosses
<1>2. CASE Reverse!S!Noted
  <2>1. NotedOf(fresh, early /\ params.mode # "ema_alignment"
                       /\ Reverse!S!Crossed(st.prev, st'.prev) # "none")
      BY <1>2 DEF Reverse!S!Noted, NotedOf
  <2>2. Crosses(st, st') <=> /\ params.mode # "ema_alignment"
                             /\ Reverse!S!Crossed(st.prev, st'.prev) # "none"
      BY CrossesEither DEF Crosses
  <2> QED BY <2>1, <2>2 DEF NotedOf
<1> QED BY <1>1, <1>2

LEMMA ScalpingNoted ==
    ASSUME ScalpingInv, Follows(st, st'), Classic!Noted \/ Reverse!S!Noted
    PROVE  /\ ScalpingInv'
           /\ st.position = "NONE" /\ st'.position # "NONE" /\ st'.last # st.last
                => st'.last > left + 1
<1> DEFINE fresh == st.position = "NONE" /\ st'.position # "NONE" /\ st'.last # st.last
           reset == st'.last # st.last /\ st.position = "NONE" /\ st.cooldown = 0 /\ Crosses(st, st')
<1>1. NotedOf(fresh, reset)
    BY NotedShape
<1>2. /\ st.last \in Nat /\ st.cooldown \in {0, 1} /\ st.used \in Nat /\ left \in Int
      /\ Typed(st') /\ st'.last \in Nat /\ st'.cooldown \in {0, 1} /\ st'.used \in Nat
    BY DEF ScalpingInv, Typed, Follows
<1>3. left' \in Int /\ (st'.position = "NONE" => st'.last >= left' + 1 - st'.cooldown)
    BY <1>1, <1>2 DEF ScalpingInv, NotedOf, Follows, Looked, Kept, Waited, SawCross, SawNone
<1>4. fresh => st'.last > left + 1
    BY <1>2 DEF ScalpingInv, Follows, Looked, Kept, Waited, SawCross, SawNone
<1>5. /\ taken'.followUps \in {0, 1} /\ (taken'.cross => taken'.followUps = 0)
      /\ st'.regime # "none" => ~taken'.cross /\ taken'.followUps <= st'.used
  <2>1. CASE reset
    <3>1. SawCross(st, st')
        BY <2>1, <1>2 DEF Follows, Looked, Kept, Waited, SawNone
    <3>2. taken' = [cross |-> fresh, followUps |-> 0]
        BY <1>1, <2>1 DEF NotedOf
    <3>3. taken'.followUps = 0 /\ (taken'.cross <=> fresh)
        BY <3>2
    <3> QED BY <1>2, <3>1, <3>3 DEF SawCross
  <2>2. CASE ~reset /\ fresh /\ st'.viaTrend
    <3>1. /\ st.regime # "none" /\ st.used < 1 /\ st'.regime = st.regime /\ st'.used = st.used + 1
        BY <1>2, <2>2 DEF Follows, Looked, Kept, Waited, SawCross, SawNone
    <3>2. taken' = [taken EXCEPT !.followUps = @ + 1]
        BY <1>1, <2>2 DEF NotedOf
    <3> QED BY <1>2, <3>1, <3>2 DEF ScalpingInv
  <2>3. CASE ~reset /\ ~(fresh /\ st'.viaTrend)
    <3>1. taken' = taken
        BY <1>1, <2>3 DEF NotedOf
    <3>2. SameRegime(st, st') \/ st'.regime = "none"
        BY <1>2, <2>3 DEF Follows, Looked, Kept, Waited, SawCross, SawNone, SameRegime
    <3> QED BY <3>1, <3>2 DEF ScalpingInv, SameRegime
  <2> QED BY <2>1, <2>2, <2>3
<1> QED BY <1>2, <1>3, <1>4, <1>5 DEF ScalpingInv

LEMMA ScalpingFollows ==
    ASSUME ScalpingInv, Classic!Next \/ Reverse!Next \/ UNCHANGED scalpingVars
    PROVE  \/ Follows(st, st') /\ (Classic!Noted \/ Reverse!S!Noted)
           \/ UNCHANGED <<st, left, taken>>
<1>1. Typed(st)
    BY DEF ScalpingInv
<1>2. CASE Classic!Evaluate
  <2>1. PICK in \in Classic!Inputs : st' = Classic!Evaluated(st, in)
      BY <1>2 DEF Classic!Evaluate
  <2>2. in.candle \in Nat
      BY DEF Classic!Inputs
  <2>3. EvaluatedShape(st, in, st')
      BY <2>1, ClassicEvaluated
  <2>4. Follows(st, st')
      BY <1>1, <2>2, <2>3, EvaluatedFollows
  <2> QED BY <1>2, <2>4 DEF Classic!Evaluate
<1>3. CASE Reverse!S!Evaluate
  <2>1. PICK in \in Reverse!S!Inputs : st' = Reverse!S!Evaluated(st, in)
      BY <1>3 DEF Reverse!S!Evaluate
  <2>2. in.candle \in Nat
      BY DEF Reverse!S!Inputs
  <2>3. EvaluatedShape(st, in, st')
      BY <2>1, ReverseEvaluated
  <2>4. Follows(st, st')
      BY <1>1, <2>2, <2>3, EvaluatedFollows
  <2> QED BY <1>3, <2>4 DEF Reverse!S!Evaluate
<1>4. CASE Classic!Sync \/ Reverse!S!Sync
  <2>1. PICK moved \in BOOLEAN : st' = Classic!Synced(st, actual, moved)
      BY <1>4, SameSteps DEF Classic!Sync, Reverse!S!Sync
  <2> QED BY <1>1, <1>4, <2>1, SyncedState DEF Classic!Sync, Reverse!S!Sync
<1>5. CASE Classic!Outside \/ Reverse!S!Outside \/ UNCHANGED scalpingVars
    BY <1>5 DEF Classic!Outside, Reverse!S!Outside, scalpingVars
<1> QED BY <1>2, <1>3, <1>4, <1>5
        DEF Classic!Next, Reverse!Next, Reverse!Evaluate, Reverse!Sync, Reverse!Outside

LEMMA ScalpingKept ==
    ASSUME ScalpingInv, Classic!Next \/ Reverse!Next \/ UNCHANGED scalpingVars
    PROVE  /\ ScalpingInv'
           /\ st.position = "NONE" /\ st'.position # "NONE" /\ st'.last # st.last
                => st'.last > left + 1
<1>1. CASE Follows(st, st') /\ (Classic!Noted \/ Reverse!S!Noted)
    BY <1>1, ScalpingNoted
<1>2. CASE UNCHANGED <<st, left, taken>>
    BY <1>2 DEF ScalpingInv, Typed
<1> QED BY <1>1, <1>2, ScalpingFollows

\* A scalping strategy: its fields, and what they hold.
Shaped(s) == s = [f \in StrategyFields |-> s[f]]
Fielded(s) ==
    /\ DOMAIN s = StrategyFields
    /\ s.position \in {"LONG", "SHORT", "NONE"} /\ s.entered \in 0..5 /\ s.trailing \in BOOLEAN
    /\ s.last \in 0..5 /\ s.prev \in {"none", "above", "equal", "below"} /\ s.cooldown \in 0..1
    /\ s.regime \in {"LONG", "SHORT", "none"} /\ s.armed \in 0..5 /\ s.used \in 0..1
    /\ s.viaTrend \in BOOLEAN
    /\ s.regime = "none" <=> s.armed = 0
    /\ s.position = "NONE" => ~s.trailing
Formed(s) == Shaped(s) /\ Fielded(s)

LEMMA FormedExited ==
    ASSUME NEW s, Formed(s)
    PROVE  /\ Formed(Classic!Exited(s))
           /\ Formed([Classic!Exited(s) EXCEPT !.entered = s.entered])
<1> DEFINE x == IF s.viaTrend THEN [s EXCEPT !.viaTrend = FALSE] ELSE Classic!Cleared(s)
           e == [x EXCEPT !.position = "NONE", !.entered = 0, !.trailing = FALSE, !.cooldown = 1]
           f == [e EXCEPT !.entered = s.entered]
<1>1. Classic!Exited(s) = e
    BY DEF Classic!Exited
<1>2. Formed(x)
  <2>1. CASE x = [s EXCEPT !.viaTrend = FALSE]
    <3> HIDE DEF x
    <3>1. Shaped(x)
        BY <2>1 DEF Formed, Shaped, StrategyFields
    <3>2. Fielded(x)
        BY <2>1 DEF Formed, Fielded, StrategyFields
    <3> QED BY <3>1, <3>2 DEF Formed
  <2>2. CASE x = [s EXCEPT !.regime = "none", !.armed = 0, !.used = 0]
    <3> HIDE DEF x
    <3>1. Shaped(x)
        BY <2>2 DEF Formed, Shaped, StrategyFields
    <3>2. Fielded(x)
        BY <2>2 DEF Formed, Fielded, StrategyFields
    <3> QED BY <3>1, <3>2 DEF Formed
  <2> QED BY <2>1, <2>2 DEF Classic!Cleared
<1> HIDE DEF x
<1>3. Formed(e)
  <2>1. Shaped(e)
      BY <1>2 DEF Formed, Shaped, StrategyFields
  <2>2. Fielded(e)
      BY <1>2 DEF Formed, Fielded, StrategyFields
  <2> QED BY <2>1, <2>2 DEF Formed
<1>4. s.entered \in 0..5
    BY DEF Formed, Fielded
<1> HIDE DEF e
<1>5. Formed(f)
  <2>1. Shaped(f)
      BY <1>3, <1>4 DEF Formed, Shaped, StrategyFields
  <2>2. Fielded(f)
      BY <1>3, <1>4 DEF Formed, Fielded, StrategyFields
  <2> QED BY <2>1, <2>2 DEF Formed
<1> QED BY <1>1, <1>3, <1>5

LEMMA FormedEntered ==
    ASSUME NEW s, Formed(s), NEW way \in {"LONG", "SHORT"}, params.trailing \in BOOLEAN
    PROVE  Formed(Classic!Entered(s, way))
<1> DEFINE x == Classic!Cleared(s)
           e == [x EXCEPT !.viaTrend = FALSE, !.position = way, !.entered = s.last,
                          !.trailing = params.trailing]
<1>1. Classic!Entered(s, way) = e
    BY DEF Classic!Entered
<1>2. Formed(x)
  <2>1. Shaped(x)
      BY DEF Formed, Shaped, StrategyFields, Classic!Cleared
  <2>2. Fielded(x)
      BY DEF Formed, Fielded, StrategyFields, Classic!Cleared
  <2> QED BY <2>1, <2>2 DEF Formed
<1>3. s.last \in 0..5
    BY DEF Formed, Fielded
<1> HIDE DEF x
<1>4. Formed(e)
  <2>1. Shaped(e)
      BY <1>2, <1>3 DEF Formed, Shaped, StrategyFields
  <2>2. Fielded(e)
      BY <1>2, <1>3 DEF Formed, Fielded, StrategyFields
  <2> QED BY <2>1, <2>2 DEF Formed
<1> QED BY <1>1, <1>4

LEMMA FormedFollowedUp ==
    ASSUME NEW s, Formed(s), NEW way \in {"LONG", "SHORT"}, params.trailing \in BOOLEAN, s.used < 1
    PROVE  Formed(Classic!FollowedUp(s, way))
<1>1. s.used + 1 \in 0..1 /\ s.last \in 0..5
    BY DEF Formed, Fielded
<1> DEFINE t == Classic!FollowedUp(s, way)
<1>2. t = [s EXCEPT !.used = @ + 1, !.viaTrend = TRUE, !.position = way, !.entered = s.last,
                    !.trailing = params.trailing]
    BY DEF Classic!FollowedUp
<1> HIDE DEF t
<1>3. Shaped(t)
    BY <1>2 DEF Formed, Shaped, StrategyFields
<1>4. Fielded(t)
    BY <1>1, <1>2 DEF Formed, Fielded, StrategyFields
<1> QED BY <1>3, <1>4 DEF Formed, t

LEMMA FormedArmed ==
    ASSUME NEW s, Formed(s), NEW way \in {"LONG", "SHORT"}, s.last # 0
    PROVE  Formed(Classic!Armed(s, way))
<1> DEFINE t == Classic!Armed(s, way)
<1>1. t = [s EXCEPT !.regime = way, !.armed = s.last, !.used = 0]
    BY DEF Classic!Armed
<1> HIDE DEF t
<1>2. Shaped(t)
    BY <1>1 DEF Formed, Shaped, StrategyFields
<1>3. Fielded(t)
    BY <1>1 DEF Formed, Fielded, StrategyFields
<1> QED BY <1>2, <1>3 DEF Formed, t

LEMMA FormedSynced ==
    ASSUME NEW s, Formed(s), NEW holds \in {"LONG", "SHORT", "NONE"}, NEW moved,
           params.trailing \in BOOLEAN
    PROVE  Formed(Classic!Synced(s, holds, moved))
<1> DEFINE t == Classic!Synced(s, holds, moved)
           x == Classic!Cleared(s)
<1>1. Formed(x)
  <2>1. Shaped(x)
      BY DEF Formed, Shaped, StrategyFields, Classic!Cleared
  <2>2. Fielded(x)
      BY DEF Formed, Fielded, StrategyFields, Classic!Cleared
  <2> QED BY <2>1, <2>2 DEF Formed
<1>2. CASE holds = "NONE" /\ s.position # "NONE"
  <2>1. t = [x EXCEPT !.viaTrend = FALSE, !.position = "NONE", !.entered = 0,
                      !.trailing = FALSE, !.cooldown = 1]
      BY <1>2 DEF Classic!Synced
  <2> HIDE DEF t, x
  <2>2. Formed(t)
    <3>1. Shaped(t)
        BY <1>1, <2>1 DEF Formed, Shaped, StrategyFields
    <3>2. Fielded(t)
        BY <1>1, <2>1 DEF Formed, Fielded, StrategyFields
    <3> QED BY <3>1, <3>2 DEF Formed
  <2> QED BY <2>2 DEF t
<1>3. CASE holds # "NONE" /\ s.position = "NONE"
  <2>1. t = [s EXCEPT !.position = holds, !.trailing = params.trailing]
      BY <1>3 DEF Classic!Synced
  <2> HIDE DEF t
  <2>2. Formed(t)
    <3>1. Shaped(t)
        BY <1>3, <2>1 DEF Formed, Shaped, StrategyFields
    <3>2. Fielded(t)
        BY <1>3, <2>1 DEF Formed, Fielded, StrategyFields
    <3> QED BY <3>1, <3>2 DEF Formed
  <2> QED BY <2>2 DEF t
<1>4. CASE holds # "NONE" /\ s.position # "NONE" /\ holds # s.position
  <2>1. t = [s EXCEPT !.position = holds, !.entered = 0, !.trailing = FALSE]
      BY <1>4 DEF Classic!Synced
  <2> HIDE DEF t
  <2>2. Formed(t)
    <3>1. Shaped(t)
        BY <1>4, <2>1 DEF Formed, Shaped, StrategyFields
    <3>2. Fielded(t)
        BY <1>4, <2>1 DEF Formed, Fielded, StrategyFields
    <3> QED BY <3>1, <3>2 DEF Formed
  <2> QED BY <2>2 DEF t
<1>5. CASE holds = s.position
  <2>1. t = s \/ (holds # "NONE" /\ t = [s EXCEPT !.trailing = params.trailing])
      BY <1>5 DEF Classic!Synced
  <2> HIDE DEF t
  <2>2. Formed(t)
    <3>1. Shaped(t)
        BY <1>5, <2>1 DEF Formed, Shaped, StrategyFields
    <3>2. Fielded(t)
        BY <1>5, <2>1 DEF Formed, Fielded, StrategyFields
    <3> QED BY <3>1, <3>2 DEF Formed
  <2> QED BY <2>2 DEF t
<1> QED BY <1>2, <1>3, <1>4, <1>5

LEMMA FormedEvaluated ==
    ASSUME NEW s, Formed(s), NEW in \in Classic!Inputs, NEW t, EvaluatedShape(s, in, t),
           params.trailing \in BOOLEAN
    PROVE  Formed(t)
<1> DEFINE n == NewCandle(s, in)
<1>1. in.candle \in 1..5 /\ in.ema \in {"above", "equal", "below"}
    BY DEF Classic!Inputs
<1>2. Formed(n) /\ n.last # 0
  <2>1. (IF s.cooldown > 0 THEN s.cooldown - 1 ELSE 0) \in 0..1
      BY DEF Formed, Fielded
  <2> DEFINE cooldown == IF s.cooldown > 0 THEN s.cooldown - 1 ELSE 0
  <2>2. n = [s EXCEPT !.last = in.candle, !.prev = in.ema, !.cooldown = cooldown]
      BY DEF NewCandle
  <2> HIDE DEF cooldown, n
  <2>3. cooldown \in 0..1
      BY <2>1 DEF cooldown
  <2>4. Shaped(n)
      BY <2>2 DEF Formed, Shaped, StrategyFields
  <2>5. Fielded(n) /\ n.last # 0
      BY <1>1, <2>2, <2>3 DEF Formed, Fielded, StrategyFields
  <2> QED BY <2>4, <2>5 DEF Formed
<1> HIDE DEF n
<1>3. \/ t = s \/ t = Classic!Exited(s) \/ t = [Classic!Exited(s) EXCEPT !.entered = s.entered]
      \/ t = n \/ t = Classic!Exited(n)
      \/ FlatShape(n, Classic!Crossed(s.prev, in.ema) # "none", t)
    BY DEF EvaluatedShape, n
<1>4. ASSUME FlatShape(n, Classic!Crossed(s.prev, in.ema) # "none", t) PROVE Formed(t)
  <2>1. ASSUME NEW way \in {"LONG", "SHORT"},
               \/ t = Classic!Entered(n, way) \/ t = Classic!Armed(n, way)
               \/ t = Classic!Entered(Classic!Armed(n, way), way)
               \/ n.used < 1 /\ t = Classic!FollowedUp(n, way)
        PROVE  Formed(t)
    <3>1. Formed(Classic!Armed(n, way))
        BY <1>2, FormedArmed
    <3> QED BY <1>2, <2>1, <3>1, FormedEntered, FormedFollowedUp
  <2> QED BY <1>2, <1>4, <2>1 DEF FlatShape
<1> QED BY <1>2, <1>3, <1>4, FormedExited

\* The strategy with its parameters, its account and the history.
ScalpingTyped ==
    /\ params \in Params /\ Formed(st) /\ actual \in {"LONG", "SHORT", "NONE"}
    /\ left \in -2..5 /\ taken \in [cross : BOOLEAN, followUps : Nat]

LEMMA ScalpingTypesStart == Classic!Init => ScalpingTyped
<1> SUFFICES ASSUME Classic!Init PROVE ScalpingTyped
    OBVIOUS
<1>1. /\ params \in Params /\ st = Classic!New /\ actual = "NONE" /\ left = -(1 + 1)
      /\ taken = [cross |-> FALSE, followUps |-> 0]
    BY DEF Classic!Init
<1>2. Shaped(st)
    BY <1>1 DEF Classic!New, Shaped, StrategyFields
<1>3. Fielded(st)
    BY <1>1 DEF Classic!New, Fielded, StrategyFields
<1>4. taken \in [cross : BOOLEAN, followUps : Nat]
    BY <1>1
<1>5. left \in -2..5
    BY <1>1
<1> QED BY <1>1, <1>2, <1>3, <1>4, <1>5 DEF ScalpingTyped, Formed
LEMMA ScalpingTypesKept ==
    ASSUME ScalpingTyped, Classic!Next \/ Reverse!Next \/ UNCHANGED scalpingVars
    PROVE  ScalpingTyped'
<1>1. /\ params \in Params /\ params.trailing \in BOOLEAN
      /\ Formed(st) /\ actual \in {"LONG", "SHORT", "NONE"}
      /\ left \in -2..5 /\ taken \in [cross : BOOLEAN, followUps : Nat]
  <2>1. params \in Params
      BY DEF ScalpingTyped
  <2>2. params.trailing = TRUE \/ params.trailing = FALSE
      BY <2>1 DEF Params
  <2>3. params.trailing \in BOOLEAN
      BY <2>2, Zenon
  <2> QED BY <2>1, <2>3 DEF ScalpingTyped
<1>2. ASSUME Formed(st'), Classic!Noted \/ Reverse!S!Noted
      PROVE  left' \in -2..5 /\ taken' \in [cross : BOOLEAN, followUps : Nat]
  <2> DEFINE fresh == st.position = "NONE" /\ st'.position # "NONE" /\ st'.last # st.last
             reset == st'.last # st.last /\ st.position = "NONE" /\ st.cooldown = 0 /\ Crosses(st, st')
  <2>1. NotedOf(fresh, reset)
      BY <1>2, NotedShape
  <2>2. st'.last \in 0..5
      BY <1>2 DEF Formed, Fielded
  <2>3. left' \in -2..5
    <3>1. left' = st'.last \/ left' = left
        BY <2>1 DEF NotedOf
    <3> QED BY <1>1, <2>2, <3>1
  <2>4. \/ taken' = [cross |-> fresh, followUps |-> 0]
        \/ taken' = [taken EXCEPT !.followUps = @ + 1]
        \/ taken' = taken
      BY <2>1 DEF NotedOf
  <2>5. fresh \in BOOLEAN
      BY Zenon
  <2> HIDE DEF fresh
  <2> QED BY <1>1, <2>3, <2>4, <2>5
<1>3. ASSUME Classic!Evaluate \/ Reverse!S!Evaluate PROVE ScalpingTyped'
  <2>1. PICK in \in Classic!Inputs : EvaluatedShape(st, in, st')
    <3>1. CASE Classic!Evaluate
        BY <3>1, ClassicEvaluated DEF Classic!Evaluate
    <3>2. CASE Reverse!S!Evaluate
        BY <3>2, ReverseEvaluated DEF Reverse!S!Evaluate, Reverse!S!Inputs, Classic!Inputs
    <3> QED BY <1>3, <3>1, <3>2
  <2>2. Formed(st')
      BY <1>1, <2>1, FormedEvaluated
  <2>3. params' = params /\ actual' \in {actual, st'.position}
        /\ (Classic!Noted \/ Reverse!S!Noted)
      BY <1>3 DEF Classic!Evaluate, Reverse!S!Evaluate
  <2>4. actual' \in {"LONG", "SHORT", "NONE"}
      BY <1>1, <2>2, <2>3 DEF Formed, Fielded
  <2>5. left' \in -2..5 /\ taken' \in [cross : BOOLEAN, followUps : Nat]
      BY <1>2, <2>2, <2>3
  <2>6. Formed(st)'
      BY <2>2 DEF Formed, Shaped, Fielded, StrategyFields
  <2> QED BY <1>1, <2>3, <2>4, <2>5, <2>6 DEF ScalpingTyped
<1>4. ASSUME Classic!Sync \/ Reverse!S!Sync PROVE ScalpingTyped'
  <2>1. /\ \E moved \in BOOLEAN : st' = Classic!Synced(st, actual, moved)
        /\ params' = params /\ actual' = actual /\ (Classic!Noted \/ Reverse!S!Noted)
      BY <1>4, SameSteps DEF Classic!Sync, Reverse!S!Sync
  <2>2. Formed(st')
      BY <1>1, <2>1, FormedSynced
  <2>3. left' \in -2..5 /\ taken' \in [cross : BOOLEAN, followUps : Nat]
      BY <1>2, <2>1, <2>2
  <2>4. Formed(st)'
      BY <2>2 DEF Formed, Shaped, Fielded, StrategyFields
  <2> QED BY <1>1, <2>1, <2>3, <2>4 DEF ScalpingTyped
<1>5. ASSUME Classic!Outside \/ Reverse!S!Outside \/ UNCHANGED scalpingVars PROVE ScalpingTyped'
  <2>1. actual' \in {"LONG", "SHORT", "NONE"} /\ UNCHANGED <<params, st, left, taken>>
      BY <1>1, <1>5 DEF Classic!Outside, Reverse!S!Outside, scalpingVars, Classic!Sides, Reverse!S!Sides
  <2> QED BY <1>1, <2>1 DEF ScalpingTyped, Formed
<1> QED BY <1>3, <1>4, <1>5
        DEF Classic!Next, Reverse!Next, Reverse!Evaluate, Reverse!Sync, Reverse!Outside

LEMMA ScalpingTypes == ScalpingTyped => Classic!TypeOK
<1> SUFFICES ASSUME ScalpingTyped PROVE Classic!TypeOK
    OBVIOUS
<1>1. Formed(st) => st \in Classic!States
    BY DEF Formed, Shaped, Fielded, StrategyFields, Classic!States, Classic!Sides
<1>2. Formed(st) => /\ st.regime = "none" <=> st.armed = 0
                    /\ st.position = "NONE" => ~st.trailing
    BY DEF Formed, Fielded
<1> QED BY <1>1, <1>2 DEF ScalpingTyped, Classic!TypeOK, Classic!Sides

-----------------------------------------------------------------------------
(* HistoryPages.                                                           *)

\* What is said of a candle before the end that was there to be fetched.
Accounted(c) == c \in got \/ c \in skipped \/ \E h \in 1..c : h \notin existing

PagesInv ==
    /\ existing \subseteq 1..6 /\ start \in 1..7
    /\ state \in {"fetching", "done", "refused"} /\ (state = "done" => start >= 6)
    /\ \A c \in existing : c < start /\ c # 6 => Accounted(c)

\* A page that is short has all there is before the first gap, a full one all before its
\* last candle.
LEMMA PagesCounted == \A S : Pages!Cardinality(S) = Cardinality(S)
BY DEF Pages!Cardinality, Cardinality

LEMMA PageIsWhole ==
    ASSUME PagesInv, start < 6, NEW c \in existing, start =< c, c < 6,
           \A h \in 1..c : h \in existing,
           Cardinality(Pages!Returned) < 2 \/ c =< Pages!LastOf(Pages!Returned)
    PROVE  c \in Pages!Returned
<1> DEFINE asked == {d \in existing : start <= d /\ d <= start + 2}
           before(d) == {e \in asked : e < d}
<1>1. Pages!Returned = {d \in asked : Cardinality(before(d)) < 2}
    BY PagesCounted DEF Pages!Returned
<1>2. start \in 1..5 /\ c \in 1..5 /\ existing \subseteq 1..6
  <2>1. start \in 1..7 /\ existing \subseteq 1..6
      BY DEF PagesInv
  <2> QED BY <2>1
<1>3. asked \subseteq {start, start + 1, start + 2} /\ asked \subseteq 1..6
  <2>1. ASSUME NEW d \in asked PROVE d \in {start, start + 1, start + 2} /\ d \in 1..6
    <3>1. d \in 1..6 /\ start =< d /\ d =< start + 2
        BY <1>2
    <3> QED BY <1>2, <3>1
  <2> QED BY <2>1
<1>4. IsFiniteSet(asked)
  <2>1. 1 \in Int /\ 6 \in Int
      OBVIOUS
  <2>2. IsFiniteSet(1..6)
      BY <2>1, FS_Interval, Zenon
  <2> QED BY <1>3, <2>2, FS_Subset
<1>5. start \in Pages!Returned
  <2>1. start \in asked
      BY <1>2
  <2>2. before(start) = {}
      BY <1>2, <1>3
  <2>3. Cardinality(before(start)) = 0
    <3> HIDE DEF before
    <3> QED BY <2>2, FS_EmptySet
  <2> QED BY <1>1, <2>1, <2>3
<1>6. ASSUME start + 1 =< c PROVE start + 1 \in Pages!Returned
  <2>1. start \in asked /\ start + 1 \in asked
      BY <1>2, <1>6
  <2>2. before(start + 1) = {start}
      BY <1>2, <1>3, <2>1
  <2>3. Cardinality(before(start + 1)) = 1
    <3> HIDE DEF before
    <3> QED BY <2>2, FS_Singleton
  <2> QED BY <1>1, <2>1, <2>3
<1>7. IsFiniteSet(Pages!Returned)
    BY <1>1, <1>4, FS_Subset
<1>8. CASE Cardinality(Pages!Returned) < 2
  <2>1. CASE c = start
      BY <1>5, <2>1
  <2>2. CASE c # start
    <3>1. {start, start + 1} \subseteq Pages!Returned
        BY <1>2, <1>5, <1>6, <2>2
    <3>2. Cardinality({start, start + 1}) = 2
      <4>1. Cardinality({start}) = 1 /\ IsFiniteSet({start})
          BY FS_Singleton
      <4>2. start + 1 \notin {start}
          BY <1>2
      <4>3. Cardinality({start} \cup {start + 1}) = 2
          BY <4>1, <4>2, FS_AddElement
      <4>4. {start, start + 1} = {start} \cup {start + 1}
          OBVIOUS
      <4> QED BY <4>3, <4>4
    <3>3. 2 =< Cardinality(Pages!Returned) /\ Cardinality(Pages!Returned) \in Nat
        BY <1>7, <3>1, <3>2, FS_Subset, FS_CardinalityType
    <3> QED BY <1>8, <3>3
  <2> QED BY <2>1, <2>2
<1>9. CASE c =< Pages!LastOf(Pages!Returned)
  <2> DEFINE last == Pages!LastOf(Pages!Returned)
  <2>1. Pages!Returned \subseteq asked
      BY <1>1
  <2>2. \E d \in Pages!Returned : \A e \in Pages!Returned : e <= d
    <3> HIDE DEF asked
    <3>1. CASE start + 2 \in Pages!Returned
        BY <1>2, <1>3, <2>1, <3>1
    <3>2. CASE start + 2 \notin Pages!Returned /\ start + 1 \in Pages!Returned
        BY <1>2, <1>3, <2>1, <3>2
    <3>3. CASE start + 2 \notin Pages!Returned /\ start + 1 \notin Pages!Returned
        BY <1>2, <1>3, <1>5, <2>1, <3>3
    <3> QED BY <3>1, <3>2, <3>3
  <2>3. last \in Pages!Returned
      BY <2>2 DEF Pages!LastOf
  <2>4. last \in asked /\ Cardinality(before(last)) < 2
      BY <1>1, <2>3
  <2>5. c \in asked
      BY <1>2, <1>3, <1>9, <2>4
  <2>6. before(c) \subseteq before(last)
      BY <1>2, <1>3, <1>9, <2>4
  <2>7. IsFiniteSet(before(last))
      BY <1>4, FS_Subset
  <2>8. Cardinality(before(c)) =< Cardinality(before(last))
        /\ Cardinality(before(c)) \in Nat /\ Cardinality(before(last)) \in Nat
    <3> HIDE DEF before
    <3> QED BY <2>6, <2>7, FS_Subset, FS_CardinalityType
  <2>9. Cardinality(before(c)) < 2
    <3> HIDE DEF before, last
    <3> QED BY <2>4, <2>8
  <2> QED BY <1>1, <2>5, <2>9
<1> QED BY <1>8, <1>9

LEMMA PagesKept ==
    ASSUME PagesInv, Pages!Next \/ UNCHANGED pageVars
    PROVE  PagesInv'
<1>1. /\ existing \subseteq 1..6 /\ start \in 1..7
      /\ state \in {"fetching", "done", "refused"} /\ (state = "done" => start >= 6)
    BY DEF PagesInv
<1>2. ASSUME NEW c \in existing, c < start, c # 6, got \subseteq got', skipped \subseteq skipped',
             existing' = existing
      PROVE  Accounted(c)'
    BY <1>2 DEF PagesInv, Accounted
<1>3. CASE Pages!Fetch
  <2>1. /\ start < 6 /\ state = "fetching" /\ got' = got \cup Pages!Returned
        /\ IF Cardinality(Pages!Returned) < 2 THEN start' = 6
           ELSE start' = Pages!LastOf(Pages!Returned) + 1
        /\ UNCHANGED <<existing, state, skipped>>
      BY <1>3, PagesCounted DEF Pages!Fetch, Pages!More, Pages!NextStart
  <2>2. Pages!Returned \subseteq {start, start + 1, start + 2} /\ Pages!Returned \subseteq 1..6
    <3>1. ASSUME NEW d \in Pages!Returned PROVE d \in 1..6 /\ start =< d /\ d =< start + 2
        BY <1>1 DEF Pages!Returned
    <3>2. ASSUME NEW d \in 1..6, start =< d, d =< start + 2 PROVE d \in {start, start + 1, start + 2}
        BY <1>1, <3>2
    <3> QED BY <3>1, <3>2
  <2>3. CASE Cardinality(Pages!Returned) < 2
    <3>1. ASSUME NEW c \in existing, c < 6, start =< c PROVE Accounted(c)'
      <4>1. CASE \E h \in 1..c : h \notin existing
          BY <2>1, <4>1 DEF Accounted
      <4>2. CASE \A h \in 1..c : h \in existing
        <5>1. c \in Pages!Returned
            BY <2>1, <2>3, <3>1, <4>2, PageIsWhole
        <5> QED BY <2>1, <5>1 DEF Accounted
      <4> QED BY <4>1, <4>2
    <3>2. start' = 6
        BY <2>1, <2>3
    <3>3. ASSUME NEW c \in existing', c < start', c # 6 PROVE Accounted(c)'
      <4>1. c \in existing /\ c \in 1..6
          BY <1>1, <2>1
      <4> QED BY <1>1, <1>2, <2>1, <3>1, <3>2, <3>3, <4>1
    <3> QED BY <1>1, <2>1, <3>2, <3>3 DEF PagesInv
  <2>4. CASE ~(Cardinality(Pages!Returned) < 2)
    <3> DEFINE last == Pages!LastOf(Pages!Returned)
    <3>1. Pages!Returned # {}
        BY <2>4, FS_EmptySet
    <3>2. \E d \in Pages!Returned : \A e \in Pages!Returned : e <= d
      <4>1. CASE start + 2 \in Pages!Returned
          BY <1>1, <2>2, <4>1
      <4>2. CASE start + 2 \notin Pages!Returned /\ start + 1 \in Pages!Returned
          BY <1>1, <2>2, <4>2
      <4>3. CASE start + 2 \notin Pages!Returned /\ start + 1 \notin Pages!Returned
        <5>1. \A e \in Pages!Returned : e = start
            BY <2>2, <4>3
        <5> QED BY <1>1, <3>1, <5>1
      <4> QED BY <4>1, <4>2, <4>3
    <3>3. last \in Pages!Returned
        BY <3>2 DEF Pages!LastOf
    <3>4. last \in 1..6 /\ start' = last + 1
        BY <2>1, <2>2, <2>4, <3>3
    <3>5. ASSUME NEW c \in existing, c =< last, c # 6, start =< c PROVE Accounted(c)'
      <4>1. CASE \E h \in 1..c : h \notin existing
          BY <2>1, <4>1 DEF Accounted
      <4>2. CASE \A h \in 1..c : h \in existing
        <5>1. c \in 1..6
            BY <1>1
        <5>2. c < 6
            BY <3>5, <5>1
        <5>3. c \in Pages!Returned
            BY <2>1, <3>5, <4>2, <5>2, PageIsWhole
        <5> QED BY <2>1, <5>3 DEF Accounted
      <4> QED BY <4>1, <4>2
    <3> HIDE DEF last
    <3>6. ASSUME NEW c \in existing', c < start', c # 6 PROVE Accounted(c)'
      <4>1. c \in existing /\ c \in 1..6
          BY <1>1, <2>1
      <4> QED BY <1>1, <1>2, <2>1, <3>4, <3>5, <3>6, <4>1
    <3>7. start' \in 1..7
        BY <3>4
    <3> QED BY <1>1, <2>1, <3>6, <3>7 DEF PagesInv
  <2> QED BY <2>3, <2>4
<1>4. CASE Pages!Fail
  <2>1. /\ start < 6 /\ state = "fetching" /\ UNCHANGED <<existing, got>>
        /\ \/ state' = "refused" /\ UNCHANGED <<start, skipped>>
           \/ start' = start + 2 /\ skipped' = skipped \cup (start..start + 1) /\ UNCHANGED state
      BY <1>4 DEF Pages!Fail, Pages!More
  <2>2. ASSUME NEW c \in existing', c < start', c # 6 PROVE Accounted(c)'
    <3>1. c \in existing /\ c \in 1..6
        BY <1>1, <2>1
    <3>2. CASE c < start
        BY <1>2, <2>1, <2>2, <3>1, <3>2
    <3>3. CASE ~(c < start)
        BY <1>1, <2>1, <2>2, <3>1, <3>3 DEF Accounted
    <3> QED BY <3>2, <3>3
  <2> QED BY <1>1, <2>1, <2>2 DEF PagesInv
<1>5. CASE Pages!Finish
  <2>1. /\ start >= 6 /\ state' \in {"refused", "done"}
        /\ UNCHANGED <<existing, got, start, skipped>>
      BY <1>5 DEF Pages!Finish
  <2> QED BY <1>1, <1>2, <2>1 DEF PagesInv, Accounted
<1>6. CASE UNCHANGED pageVars
    BY <1>6 DEF pageVars, PagesInv, Accounted
<1> QED BY <1>3, <1>4, <1>5, <1>6 DEF Pages!Next

LEMMA PagesStart == Pages!Init => PagesInv
<1> SUFFICES ASSUME Pages!Init PROVE PagesInv
    OBVIOUS
<1>1. existing \subseteq 1..6 /\ start = 1 /\ state = "fetching"
    BY DEF Pages!Init
<1>2. \A c \in existing : ~(c < start)
    BY <1>1
<1> QED BY <1>1, <1>2 DEF PagesInv

\* No candle comes after the end.
PagesTyped ==
    /\ mainnet \in BOOLEAN /\ chunks \in Nat
    /\ got \subseteq 1..8 /\ skipped \subseteq 1..8

LEMMA PagesTypesStart == Pages!Init => PagesTyped
BY DEF Pages!Init, PagesTyped
LEMMA PagesTypesKept ==
    ASSUME PagesInv, PagesTyped, Pages!Next \/ UNCHANGED pageVars
    PROVE  PagesTyped'
<1>1. existing \subseteq 1..6 /\ start \in 1..7 /\ chunks \in Nat
    BY DEF PagesInv, PagesTyped
<1>2. CASE Pages!Fetch
  <2>1. /\ got' = got \cup Pages!Returned /\ chunks' = chunks + 1 /\ UNCHANGED <<mainnet, skipped>>
      BY <1>2 DEF Pages!Fetch
  <2>2. Pages!Returned \subseteq existing
      BY DEF Pages!Returned
  <2> QED BY <1>1, <2>1, <2>2 DEF PagesTyped
<1>3. CASE Pages!Fail
  <2>1. /\ start < 6 /\ chunks' = chunks + 1 /\ UNCHANGED <<mainnet, got>>
        /\ skipped' = skipped \/ skipped' = skipped \cup start..start + 2 - 1
      BY <1>3 DEF Pages!Fail, Pages!More
  <2>2. start..start + 2 - 1 \subseteq 1..8
      BY <1>1, <2>1
  <2>3. skipped' \subseteq 1..8
      BY <2>1, <2>2 DEF PagesTyped
  <2>4. chunks' \in Nat
      BY <1>1, <2>1
  <2> QED BY <2>1, <2>3, <2>4 DEF PagesTyped
<1>4. CASE Pages!Finish \/ UNCHANGED pageVars
    BY <1>4 DEF Pages!Finish, pageVars, PagesTyped
<1> QED BY <1>2, <1>3, <1>4 DEF Pages!Next

LEMMA PagesTypes == PagesInv /\ PagesTyped => Pages!TypeOK
<1> SUFFICES ASSUME PagesInv, PagesTyped PROVE Pages!TypeOK
    OBVIOUS
<1>1. {existing, got, skipped} \subseteq SUBSET (1..6 + 2)
    BY DEF PagesInv, PagesTyped
<1>2. {start, chunks} \subseteq Nat
    BY DEF PagesInv, PagesTyped
<1> QED BY <1>1, <1>2 DEF PagesInv, PagesTyped, Pages!TypeOK

-----------------------------------------------------------------------------
(* Analyses.                                                               *)

Results == [score : 0..2, combo : 0..2]
Trying == {"optimizing", "training", "testing"}

\* What is kept of a grid search, and the best of it, while its window lasts.
BestOf(b, found) ==
    /\ \A r \in found : r.score <= b.score
    /\ b.combo # 0 => b \in found

StudiesInv ==
    /\ status \in [Studied -> {"none", "running", "completed", "cancelled", "error"}]
    /\ flag \in [Studied -> BOOLEAN] /\ kind \in [Studied -> {"walk", "sensitivity"}]
    /\ config \in [Studied -> Windows] /\ phase \in [Studied -> Studies!Phases]
    /\ number \in [Studied -> Nat] /\ combo \in [Studied -> 0..2]
    /\ best \in [Studied -> Results] /\ top \in [Studied -> SUBSET Results]
    /\ \A t \in Studied :
         /\ phase[t] = "out" => status[t] = "none" /\ ~flag[t]
         /\ top[t] = {} \/ \E x \in Results : top[t] = {x}
         /\ kind[t] = "walk" /\ phase[t] \in Trying =>
              /\ number[t] \in 1..Studies!WindowCount(config[t])
              /\ config[t].optimize => BestOf(best[t], top[t])

LEMMA StudiesCounted == \A S : Studies!Cardinality(S) = Cardinality(S)
BY DEF Studies!Cardinality, Cardinality

\* Both plans have two windows whose test is complete.
LEMMA WindowsOf ==
    ASSUME NEW c \in Windows
    PROVE  /\ Studies!WindowCount(c) = 2
           /\ c.step = 1
           /\ \/ c.type = "rolling" /\ c.training = 2 /\ c.test = 1
              \/ c.type = "expanding" /\ c.training = 1 /\ c.test = 2
<1>1. /\ c.step = 1
      /\ \/ c.type = "rolling" /\ c.training = 2 /\ c.test = 1
         \/ c.type = "expanding" /\ c.training = 1 /\ c.test = 2
  <2>1. CASE c = [type |-> "rolling", training |-> 2, test |-> 1, step |-> 1, optimize |-> TRUE]
      BY <2>1
  <2>2. CASE c = [type |-> "expanding", training |-> 1, test |-> 2, step |-> 1, optimize |-> FALSE]
      BY <2>2
  <2> QED BY <2>1, <2>2 DEF Windows
<1>2. {n \in 1..4 : c.training + (n - 1) * c.step + c.test <= 4} = 1..2
  <2>1. \A n \in 1..4 : c.training + (n - 1) * c.step + c.test <= 4 <=> n <= 2
      BY <1>1
  <2> QED BY <2>1
<1>3. Cardinality(1..2) = 2
  <2>1. 1 \in Int /\ 2 \in Int
      OBVIOUS
  <2>2. Cardinality(1..2) = IF 1 > 2 THEN 0 ELSE 2 - 1 + 1
      BY <2>1, FS_Interval, Zenon
  <2> QED BY <2>2
<1>4. Studies!WindowCount(c) = Cardinality({n \in 1..4 : c.training + (n - 1) * c.step + c.test <= 4})
    BY StudiesCounted DEF Studies!WindowCount
<1> QED BY <1>1, <1>2, <1>3, <1>4

\* With room for one result, the better one is kept.
LEMMA KeptBetter ==
    ASSUME NEW r \in Results, NEW S, S = {} \/ \E x \in Results : S = {x}
    PROVE  \/ Studies!Kept(S, r) = {r} /\ (S = {} \/ \E x \in Results : S = {x} /\ r.score > x.score)
           \/ \E x \in Results : S = {x} /\ Studies!Kept(S, r) = S /\ ~(r.score > x.score)
<1>1. CASE S = {}
  <2>1. Cardinality(S) = 0
      BY <1>1, FS_EmptySet
  <2>2. Studies!Kept(S, r) = S \cup {r}
      BY <2>1, StudiesCounted DEF Studies!Kept
  <2> QED BY <1>1, <2>2
<1>2. ASSUME NEW x \in Results, S = {x}
      PROVE  \/ Studies!Kept(S, r) = {r} /\ r.score > x.score
             \/ Studies!Kept(S, r) = S /\ ~(r.score > x.score)
  <2>1. Cardinality(S) = 1
      BY <1>2, FS_Singleton
  <2>2. Studies!Worst(S) = x
      BY <1>2 DEF Studies!Worst
  <2>3. Studies!Kept(S, r) = IF r.score > x.score THEN (S \ {x}) \cup {r} ELSE S
    <3>1. ~(Studies!Cardinality(S) < 1)
        BY <2>1, StudiesCounted
    <3> QED BY <2>2, <3>1 DEF Studies!Kept
  <2>4. (S \ {x}) \cup {r} = {r}
      BY <1>2
  <2> QED BY <2>3, <2>4
<1> QED BY <1>1, <1>2

LEMMA Scored ==
    ASSUME StudiesInv, NEW t \in Studied, Studies!Score(t), ~UNCHANGED <<best, top>>
    PROVE  /\ best' \in [Studied -> Results] /\ top' \in [Studied -> SUBSET Results]
           /\ top'[t] = {} \/ \E x \in Results : top'[t] = {x}
           /\ BestOf(best[t], top[t]) => BestOf(best'[t], top'[t])
           /\ \A u \in Studied \ {t} : best'[u] = best[u] /\ top'[u] = top[u]
<1>1. /\ combo[t] \in 0..2 /\ best \in [Studied -> Results] /\ top \in [Studied -> SUBSET Results]
      /\ top[t] = {} \/ \E x \in Results : top[t] = {x}
    BY DEF StudiesInv
<1>2. PICK s \in 0..2 :
        LET r == [score |-> s, combo |-> combo[t]]
        IN  /\ best' = [best EXCEPT ![t] = IF s > @.score THEN r ELSE @]
            /\ top' = [top EXCEPT ![t] = Studies!Kept(@, r)]
    BY DEF Studies!Score
<1>3. PICK r \in Results : r.score = s /\ r = [score |-> s, combo |-> combo[t]]
    BY <1>1 DEF Results
<1>4. PICK b \in Results : b = best[t]
    BY <1>1
<1>5. /\ best' = [best EXCEPT ![t] = IF r.score > b.score THEN r ELSE b]
      /\ top' = [top EXCEPT ![t] = Studies!Kept(top[t], r)]
    BY <1>2, <1>3, <1>4
<1>6. /\ best'[t] = (IF r.score > b.score THEN r ELSE b) /\ top'[t] = Studies!Kept(top[t], r)
      /\ \A u \in Studied \ {t} : best'[u] = best[u] /\ top'[u] = top[u]
    BY <1>1, <1>5
<1>7. \A q \in Results : q.score \in 0..2
    BY DEF Results
<1>8. CASE top'[t] = {r} /\ (top[t] = {} \/ \E x \in Results : top[t] = {x} /\ r.score > x.score)
  <2>1. BestOf(best[t], top[t]) => BestOf(best'[t], top'[t])
      BY <1>4, <1>6, <1>7, <1>8 DEF BestOf
  <2>2. top' \in [Studied -> SUBSET Results]
      BY <1>1, <1>5, <1>6, <1>8
  <2> QED BY <1>1, <1>5, <1>6, <1>8, <2>1, <2>2
<1>9. CASE \E x \in Results : top[t] = {x} /\ top'[t] = top[t] /\ ~(r.score > x.score)
  <2>1. BestOf(best[t], top[t]) => BestOf(best'[t], top'[t])
      BY <1>4, <1>6, <1>7, <1>9 DEF BestOf
  <2>2. top' \in [Studied -> SUBSET Results]
      BY <1>1, <1>5, <1>6, <1>9
  <2> QED BY <1>1, <1>5, <1>6, <1>9, <2>1, <2>2
<1> QED BY <1>1, <1>6, <1>8, <1>9, KeptBetter

\* A cancelled walk-forward analysis goes nowhere but to its end.
Stops(t) ==
    kind[t] = "walk" /\ flag[t] /\ phase'[t] # "ended" =>
      phase'[t] = phase[t] /\ number'[t] = number[t] /\ combo'[t] = combo[t]

LEMMA StudiesKept ==
    ASSUME StudiesInv, Studies!Next \/ UNCHANGED analysisVars
    PROVE  StudiesInv' /\ \A t \in Studied : Stops(t)
<1> DEFINE Goal == StudiesInv' /\ \A u \in Studied : Stops(u)
<1>1. /\ status \in [Studied -> {"none", "running", "completed", "cancelled", "error"}]
      /\ flag \in [Studied -> BOOLEAN] /\ kind \in [Studied -> {"walk", "sensitivity"}]
      /\ config \in [Studied -> Windows] /\ phase \in [Studied -> Studies!Phases]
      /\ number \in [Studied -> Nat] /\ combo \in [Studied -> 0..2]
      /\ best \in [Studied -> Results] /\ top \in [Studied -> SUBSET Results]
    BY DEF StudiesInv
<1>2. \A t \in Studied :
         /\ phase[t] = "out" => status[t] = "none" /\ ~flag[t]
         /\ top[t] = {} \/ \E x \in Results : top[t] = {x}
         /\ kind[t] = "walk" /\ phase[t] \in Trying =>
              /\ number[t] \in 1..Studies!WindowCount(config[t])
              /\ config[t].optimize => BestOf(best[t], top[t])
    BY DEF StudiesInv
<1>3. ASSUME NEW t \in Studied, NEW k \in {"walk", "sensitivity"}, Studies!Begin(t, k) PROVE Goal
  <2>1. /\ phase[t] = "out" /\ status' = [status EXCEPT ![t] = "running"]
        /\ kind' = [kind EXCEPT ![t] = k] /\ phase' = [phase EXCEPT ![t] = "queued"]
        /\ UNCHANGED <<flag, config, number, combo, best, top>>
      BY <1>3 DEF Studies!Begin
  <2>2. ~flag[t]
      BY <1>2, <2>1
  <2>3. \A u \in Studied : Stops(u)
      BY <1>1, <2>1, <2>2 DEF Stops
  <2>4. /\ status' \in [Studied -> {"none", "running", "completed", "cancelled", "error"}]
        /\ kind' \in [Studied -> {"walk", "sensitivity"}] /\ phase' \in [Studied -> Studies!Phases]
      BY <1>1, <2>1 DEF Studies!Phases
  <2>5. \A u \in Studied : u # t => status'[u] = status[u] /\ kind'[u] = kind[u] /\ phase'[u] = phase[u]
      BY <1>1, <2>1
  <2>6. phase'[t] = "queued"
      BY <1>1, <2>1
  <2> QED BY <1>1, <1>2, <2>1, <2>3, <2>4, <2>5, <2>6 DEF StudiesInv, Trying
\* What a step that is at most one of the phase, the number and the results keeps.
<1>4. ASSUME NEW t \in Studied, NEW p \in Studies!Phases \ {"out"}, NEW n \in Nat, NEW m \in 0..2,
             Studies!At(t, p, n, m), UNCHANGED <<status, flag, kind, config>>,
             best' \in [Studied -> Results], top' \in [Studied -> SUBSET Results],
             \A u \in Studied \ {t} : best'[u] = best[u] /\ top'[u] = top[u],
             top'[t] = {} \/ \E x \in Results : top'[t] = {x},
             kind[t] = "walk" => ~flag[t],
             kind[t] = "walk" /\ p \in Trying =>
               /\ n \in 1..Studies!WindowCount(config[t])
               /\ config[t].optimize => BestOf(best'[t], top'[t])
      PROVE  Goal
  <2>1. /\ phase' = [phase EXCEPT ![t] = p] /\ number' = [number EXCEPT ![t] = n]
        /\ combo' = [combo EXCEPT ![t] = m]
      BY <1>4 DEF Studies!At
  <2>2. /\ phase' \in [Studied -> Studies!Phases] /\ number' \in [Studied -> Nat]
        /\ combo' \in [Studied -> 0..2] /\ phase'[t] = p /\ number'[t] = n
      BY <1>1, <2>1
  <2>3. \A u \in Studied \ {t} : phase'[u] = phase[u] /\ number'[u] = number[u] /\ combo'[u] = combo[u]
      BY <1>1, <2>1
  <2>4. \A u \in Studied : Stops(u)
      BY <1>4, <2>3 DEF Stops
  <2>5. ASSUME NEW u \in Studied
        PROVE  /\ phase'[u] = "out" => status'[u] = "none" /\ ~flag'[u]
               /\ top'[u] = {} \/ \E x \in Results : top'[u] = {x}
               /\ kind'[u] = "walk" /\ phase'[u] \in Trying =>
                    /\ number'[u] \in 1..Studies!WindowCount(config'[u])
                    /\ config'[u].optimize => BestOf(best'[u], top'[u])
    <3>1. CASE u = t
        BY <1>4, <2>2, <3>1
    <3>2. CASE u # t
        BY <1>2, <1>4, <2>3, <3>2
    <3> QED BY <3>1, <3>2
  <2>6. config' = config /\ status' = status /\ flag' = flag /\ kind' = kind
      BY <1>4
  <2>7. \A u \in Studied : Studies!WindowCount(config'[u]) = Studies!WindowCount(config[u])
      BY <2>6
  <2> QED BY <1>1, <1>4, <2>2, <2>4, <2>5, <2>6, <2>7 DEF StudiesInv
<1>5. ASSUME NEW t \in Studied, NEW s \in {"cancelled", "completed", "error"}, Studies!Working(t),
             Studies!Ends(t, s)
      PROVE  Goal
  <2>1. /\ status' = [status EXCEPT ![t] = s] /\ phase' = [phase EXCEPT ![t] = "ended"]
        /\ UNCHANGED <<flag, kind, config, number, combo, best, top>>
      BY <1>5 DEF Studies!Ends, Studies!Finish
  <2>2. /\ status' \in [Studied -> {"none", "running", "completed", "cancelled", "error"}]
        /\ phase' \in [Studied -> Studies!Phases] /\ phase'[t] = "ended"
        /\ \A u \in Studied : u # t => status'[u] = status[u] /\ phase'[u] = phase[u]
      BY <1>1, <2>1 DEF Studies!Phases
  <2>3. \A u \in Studied : Stops(u)
      BY <2>1, <2>2 DEF Stops
  <2> QED BY <1>1, <1>2, <2>1, <2>2, <2>3 DEF StudiesInv, Trying
<1>6. ASSUME NEW t \in Studied, status[t] # "none", Studies!Cancel(t) PROVE Goal
  <2>1. /\ flag' = [flag EXCEPT ![t] = TRUE] /\ status' = [status EXCEPT ![t] = "cancelled"]
        /\ UNCHANGED <<kind, config, phase, number, combo, best, top>>
      BY <1>6 DEF Studies!Cancel
  <2>2. phase[t] # "out"
      BY <1>2, <1>6
  <2>3. TRUE \in BOOLEAN
      BY Zenon
  <2>4. flag' \in [Studied -> BOOLEAN]
      BY <1>1, <2>1, <2>3, Zenon
  <2>5. /\ status' \in [Studied -> {"none", "running", "completed", "cancelled", "error"}]
        /\ \A u \in Studied : u # t => status'[u] = status[u] /\ flag'[u] = flag[u]
      BY <1>1, <2>1
  <2>6. \A u \in Studied : Stops(u)
      BY <2>1 DEF Stops
  <2> QED BY <1>1, <1>2, <2>1, <2>2, <2>4, <2>5, <2>6 DEF StudiesInv
<1>7. ASSUME NEW t \in Studied, NEW n \in Nat \ {0}, kind[t] = "walk", Studies!Window(t, n) PROVE Goal
  <2>1. /\ ~flag[t] /\ n <= Studies!WindowCount(config[t])
        /\ best' = [best EXCEPT ![t] = Studies!Unscored] /\ top' = [top EXCEPT ![t] = {}]
        /\ UNCHANGED <<status, flag, kind, config>>
      BY <1>7 DEF Studies!Window
  <2>2. PICK p \in {"optimizing", "training"}, m \in 0..2 : Studies!At(t, p, n, m)
      BY <1>7 DEF Studies!Window
  <2>3. Studies!Unscored \in Results /\ Studies!Unscored.combo = 0
      BY DEF Studies!Unscored, Results
  <2>4. /\ best' \in [Studied -> Results] /\ top' \in [Studied -> SUBSET Results]
        /\ best'[t] = Studies!Unscored /\ top'[t] = {}
        /\ \A u \in Studied \ {t} : best'[u] = best[u] /\ top'[u] = top[u]
      BY <1>1, <2>1, <2>3
  <2>5. BestOf(best'[t], top'[t])
      BY <2>3, <2>4 DEF BestOf
  <2>6. n \in 1..Studies!WindowCount(config[t])
    <3>1. Studies!WindowCount(config[t]) = 2
        BY <1>1, WindowsOf
    <3> QED BY <2>1, <3>1
  <2>7. p \in Studies!Phases \ {"out"}
      BY DEF Studies!Phases
  <2> QED BY <1>4, <1>7, <2>1, <2>2, <2>4, <2>5, <2>6, <2>7
<1>8. ASSUME NEW t \in Studied, Studies!Fetched(t) PROVE Goal
    BY <1>7, <1>8 DEF Studies!Fetched
<1>9. ASSUME NEW t \in Studied, Studies!Tested(t) \/ Studies!Optimized(t) PROVE Goal
  <2>1. /\ kind[t] = "walk" /\ phase[t] = "optimizing" /\ ~flag[t] /\ Studies!Score(t)
        /\ UNCHANGED <<status, flag, kind, config>>
      BY <1>9 DEF Studies!Tested, Studies!Optimized
  <2>2. PICK p \in {"optimizing", "training"}, m \in 0..2 : Studies!At(t, p, number[t], m)
    <3>1. CASE Studies!Tested(t)
      <4>1. Studies!At(t, "optimizing", number[t], combo[t] + 1) /\ combo[t] < 2 /\ combo[t] \in 0..2
          BY <1>1, <3>1 DEF Studies!Tested
      <4>2. combo[t] + 1 \in 0..2
          BY <4>1
      <4> QED BY <4>1, <4>2
    <3>2. CASE Studies!Optimized(t)
        BY <3>2 DEF Studies!Optimized
    <3> QED BY <1>9, <3>1, <3>2
  <2>3. number[t] \in 1..Studies!WindowCount(config[t]) /\ (config[t].optimize => BestOf(best[t], top[t]))
      BY <1>2, <2>1 DEF Trying
  <2>4. p \in Studies!Phases \ {"out"} /\ number[t] \in Nat
      BY <1>1 DEF Studies!Phases
  <2>5. CASE best' = best /\ top' = top
      BY <1>1, <1>2, <1>4, <2>1, <2>2, <2>3, <2>4, <2>5
  <2>6. CASE ~UNCHANGED <<best, top>>
      BY <1>4, <2>1, <2>2, <2>3, <2>4, <2>6, Scored
  <2> QED BY <2>5, <2>6
<1>10. ASSUME NEW t \in Studied, Studies!Trained(t) PROVE Goal
  <2>1. /\ kind[t] = "walk" /\ phase[t] = "training" /\ ~flag[t]
        /\ Studies!At(t, "testing", number[t], 0)
        /\ UNCHANGED <<status, flag, kind, config, best, top>>
      BY <1>10 DEF Studies!Trained
  <2>2. number[t] \in 1..Studies!WindowCount(config[t]) /\ (config[t].optimize => BestOf(best[t], top[t]))
      BY <1>2, <2>1 DEF Trying
  <2>3. "testing" \in Studies!Phases \ {"out"} /\ number[t] \in Nat /\ 0 \in 0..2
      BY <1>1 DEF Studies!Phases
  <2>4. best' = best /\ top' = top
      BY <2>1
  <2> QED BY <1>1, <1>2, <1>4, <2>1, <2>2, <2>3, <2>4
<1>11. ASSUME NEW t \in Studied, Studies!Validated(t) PROVE Goal
  <2>1. kind[t] = "walk" /\ Studies!Window(t, number[t] + 1)
      BY <1>11 DEF Studies!Validated
  <2>2. number[t] + 1 \in Nat \ {0}
      BY <1>1
  <2> QED BY <1>7, <2>1, <2>2
<1>12. ASSUME NEW t \in Studied, Studies!Vary(t) PROVE Goal
  <2>1. CASE /\ kind[t] = "sensitivity" /\ Studies!At(t, "testing", number[t] + 1, 0)
             /\ UNCHANGED <<status, flag, kind, config, best, top>>
    <3>1. "testing" \in Studies!Phases \ {"out"} /\ number[t] + 1 \in Nat /\ 0 \in 0..2
        BY <1>1 DEF Studies!Phases
    <3>2. best' = best /\ top' = top /\ kind[t] # "walk"
        BY <2>1
    <3> QED BY <1>1, <1>2, <1>4, <2>1, <3>1, <3>2
  <2>2. CASE Studies!Working(t) /\ Studies!Ends(t, "error")
      BY <1>5, <2>2
  <2> QED BY <1>12, <2>1, <2>2 DEF Studies!Vary
<1>13. ASSUME UNCHANGED analysisVars PROVE Goal
    BY <1>1, <1>2, <1>13 DEF analysisVars, StudiesInv, Stops
<1>14. ASSUME NEW t \in Studied,
              Studies!Aggregated(t) \/ Studies!Fails(t) \/ Studies!Cancelled(t) \/ Studies!Ranked(t)
       PROVE  Goal
  <2>1. Studies!Working(t) /\ \E s \in {"cancelled", "completed", "error"} : Studies!Ends(t, s)
      BY <1>14 DEF Studies!Aggregated, Studies!Fails, Studies!Cancelled, Studies!Ranked, Studies!Working
  <2> QED BY <1>5, <2>1
<1>15. ASSUME NEW t \in Studied, Studies!StartWalk(t) \/ Studies!StartSensitivity(t) PROVE Goal
    BY <1>3, <1>15 DEF Studies!StartWalk, Studies!StartSensitivity
<1>16. ASSUME NEW t \in Studied, Studies!CancelWalk(t) \/ Studies!CancelSensitivity(t) PROVE Goal
    BY <1>6, <1>16 DEF Studies!CancelWalk, Studies!CancelSensitivity
<1> HIDE DEF Goal
<1>17. Goal
    BY <1>8, <1>9, <1>10, <1>11, <1>12, <1>13, <1>14, <1>15, <1>16 DEF Studies!Next
<1> QED BY <1>17 DEF Goal

\* A window is tested on the candles after its training, all of them.
LEMMA TestsApart ==
    ASSUME StudiesInv
    PROVE  Studies!OutOfSample
<1> SUFFICES ASSUME NEW t \in Studied, kind[t] = "walk", phase[t] = "testing"
             PROVE  LET c == config[t] IN
                      /\ Studies!Cardinality(Studies!Test(c, number[t])) = c.test
                      /\ \A d \in Studies!Training(c, number[t]), e \in Studies!Test(c, number[t]) : d < e
                      /\ c.step >= c.test =>
                           \A n \in 1..number[t] - 1 :
                             Studies!Test(c, n) \cap Studies!Test(c, number[t]) = {}
    BY DEF Studies!OutOfSample
<1> DEFINE c == config[t]
<1>1. number[t] \in 1..2 /\ c \in Windows
  <2>1. number[t] \in 1..Studies!WindowCount(c) /\ c \in Windows
      BY DEF StudiesInv, Trying
  <2> QED BY <2>1, WindowsOf
<1>2. PICK n \in 1..2 : n = number[t]
    BY <1>1
<1>3. /\ c.step = 1
      /\ \/ c.type = "rolling" /\ c.training = 2 /\ c.test = 1
         \/ c.type = "expanding" /\ c.training = 1 /\ c.test = 2
    BY <1>1, WindowsOf
<1> HIDE DEF c
<1>4. \A i \in 1..2 : Studies!Anchor(c, i) = c.training + i - 1
    BY <1>3 DEF Studies!Anchor
<1>5. \A i \in 1..2 : \A d : d \in Studies!Test(c, i) <=>
        d \in 0..3 /\ c.training + i - 1 <= d /\ d + 1 <= c.training + i - 1 + c.test
    BY <1>4 DEF Studies!Test, Studies!Slice
<1>6. Studies!Cardinality(Studies!Test(c, n)) = c.test
  <2>1. PICK a \in Int, b \in Int : a = c.training + n - 1 /\ b = c.training + n - 2 + c.test
      BY <1>3
  <2>2. \A d : d \in Studies!Test(c, n) <=> d \in a..b
      BY <1>3, <1>5, <2>1
  <2>3. Studies!Test(c, n) = a..b
      BY <2>2
  <2>4. Cardinality(a..b) = IF a > b THEN 0 ELSE b - a + 1
      BY FS_Interval
  <2>5. Cardinality(a..b) = c.test
      BY <1>3, <2>1, <2>4
  <2> QED BY <2>3, <2>5, StudiesCounted
<1>7. ASSUME NEW d \in Studies!Training(c, n), NEW e \in Studies!Test(c, n) PROVE d < e
  <2>1. d \in 0..3 /\ d + 1 <= c.training + n - 1
      BY <1>4, <1>7 DEF Studies!Training, Studies!Slice
  <2>2. e \in 0..3 /\ c.training + n - 1 <= e
      BY <1>5
  <2> QED BY <1>3, <2>1, <2>2
<1>8. ASSUME c.step >= c.test, NEW i \in 1..n - 1
      PROVE  Studies!Test(c, i) \cap Studies!Test(c, n) = {}
  <2>1. i \in 1..2 /\ i < n
      BY <1>8
  <2>2. ASSUME NEW d \in Studies!Test(c, i), d \in Studies!Test(c, n) PROVE FALSE
    <3>1. d \in 0..3 /\ d + 1 <= c.training + i - 1 + c.test /\ c.training + n - 1 <= d
        BY <1>5, <2>1, <2>2
    <3> QED BY <1>3, <1>8, <2>1, <3>1
  <2> QED BY <2>2
<1> QED BY <1>2, <1>6, <1>7, <1>8 DEF c

LEMMA StudiesStart == Studies!Init => StudiesInv
<1> SUFFICES ASSUME Studies!Init PROVE StudiesInv
    OBVIOUS
<1>1. /\ status = [t \in Studied |-> "none"] /\ kind = [t \in Studied |-> "walk"]
      /\ config \in {[t \in Studied |-> c] : c \in Windows}
      /\ phase = [t \in Studied |-> "out"] /\ number = [t \in Studied |-> 0]
      /\ combo = [t \in Studied |-> 0] /\ best = [t \in Studied |-> Studies!Unscored]
      /\ top = [t \in Studied |-> {}] /\ flag = [t \in Studied |-> FALSE]
    BY DEF Studies!Init
<1>2. Studies!Unscored \in Results
    BY DEF Studies!Unscored, Results
<1>3. flag \in [Studied -> BOOLEAN] /\ \A t \in Studied : ~flag[t]
    BY <1>1, Zenon
<1>4. config \in [Studied -> Windows]
    BY <1>1
<1>5. best \in [Studied -> Results]
    BY <1>1, <1>2
<1>6. phase \in [Studied -> Studies!Phases]
    BY <1>1 DEF Studies!Phases
<1> QED BY <1>1, <1>3, <1>4, <1>5, <1>6 DEF StudiesInv, Trying

LEMMA StudiesTypes == StudiesInv => Studies!TypeOK
BY DEF StudiesInv, Studies!TypeOK, Studies!Results, Results

-----------------------------------------------------------------------------
(* Ranks in a finite set.  For induction, that of the sets themselves by     *)
(* inclusion: of what is not so, there is a smallest counterexample.       *)

\* A set of finite sets, if it is not empty, has a member of which it has no smaller one.
LEMMA Smallest ==
    ASSUME NEW S, IsFiniteSet(S), NEW Q \in SUBSET SUBSET S, Q # {}
    PROVE  \E T \in Q : \A U \in Q : U \subseteq T => U = T
<1>1. SUBSET S = FiniteSubsetsOf(S)
    BY FS_FiniteSubsetsOfFinite
<1>2. IsWellFoundedOn(StrictSubsetOrdering(S), SUBSET S)
    BY <1>1, FS_StrictSubsetOrderingWellFounded
<1>3. \E T \in Q : \A U \in Q : ~ (<<U, T>> \in StrictSubsetOrdering(S))
    BY <1>2, WFMin
<1>4. \A T, U \in Q : U \subseteq T /\ U # T => <<U, T>> \in StrictSubsetOrdering(S)
    BY DEF StrictSubsetOrdering
<1> QED BY <1>3, <1>4

\* Of a finite set some member has the least number.
LEMMA LeastBy ==
    ASSUME NEW S, IsFiniteSet(S), S # {}, NEW n, \A x \in S : n[x] \in Int
    PROVE  \E x \in S : \A y \in S : n[x] <= n[y]
<1> DEFINE Q == {T \in SUBSET S : T # {} /\ ~ (\E x \in T : \A y \in T : n[x] <= n[y])}
<1> SUFFICES ASSUME Q # {} PROVE FALSE
    OBVIOUS
<1>1. PICK T \in Q : \A U \in Q : U \subseteq T => U = T
  <2>1. Q \in SUBSET SUBSET S
      OBVIOUS
  <2>2. IsFiniteSet(S) /\ Q # {}
      OBVIOUS
  <2> HIDE DEF Q
  <2> QED BY ONLY <2>1, <2>2, Smallest
<1>2. PICK x \in T : TRUE
    OBVIOUS
<1>3. T \ {x} # {}
    BY <1>2
<1>4. PICK z \in T \ {x} : \A y \in T \ {x} : n[z] <= n[y]
  <2>1. T \ {x} \in SUBSET S /\ T \ {x} \subseteq T /\ T \ {x} # T
      BY <1>2
  <2>2. T \ {x} \notin Q
    <3> HIDE DEF Q
    <3> QED BY <1>1, <2>1
  <2> QED BY <1>3, <2>1, <2>2
<1> QED BY <1>2, <1>4

-----------------------------------------------------------------------------
(* Members of a set numbered apart: those with a greater number than t, and how many.    *)
After(S, n, t) == {x \in S : n[x] > n[t]}
Rank(S, n, t) == Cardinality(After(S, n, t))
NumberedApart(S, n) ==
    /\ IsFiniteSet(S) /\ \A x \in S : n[x] \in Nat
    /\ \A x, y \in S : n[x] = n[y] => x = y

LEMMA RankOrder ==
    ASSUME NEW S, NEW n, NumberedApart(S, n)
    PROVE  /\ \A t \in S : IsFiniteSet(After(S, n, t)) /\ Rank(S, n, t) \in Nat
           /\ \A t, u \in S : n[t] < n[u] => Rank(S, n, u) < Rank(S, n, t)
           /\ \A t, u \in S : Rank(S, n, t) = Rank(S, n, u) => t = u
<1>1. \A t \in S : After(S, n, t) \subseteq S /\ IsFiniteSet(S)
    BY DEF After, NumberedApart
<1>2. \A t \in S : IsFiniteSet(After(S, n, t)) /\ Rank(S, n, t) \in Nat
    BY <1>1, FS_Subset, FS_CardinalityType DEF Rank
<1>3. ASSUME NEW t \in S, NEW u \in S, n[t] < n[u] PROVE Rank(S, n, u) < Rank(S, n, t)
  <2>1. After(S, n, u) \subseteq After(S, n, t) /\ u \in After(S, n, t) /\ u \notin After(S, n, u)
      BY <1>3 DEF After, NumberedApart
  <2>2. After(S, n, u) # After(S, n, t)
      BY <2>1
  <2>3. /\ Cardinality(After(S, n, u)) <= Cardinality(After(S, n, t))
        /\ Cardinality(After(S, n, u)) # Cardinality(After(S, n, t))
      BY <1>2, <2>1, <2>2, FS_Subset
  <2> QED BY <1>2, <2>3 DEF Rank
<1>4. ASSUME NEW t \in S, NEW u \in S, Rank(S, n, t) = Rank(S, n, u) PROVE t = u
  <2>1. n[t] \in Nat /\ n[u] \in Nat
      BY DEF NumberedApart
  <2>2. ~(n[t] < n[u]) /\ ~(n[u] < n[t])
      BY <1>2, <1>3, <1>4
  <2> QED BY <2>1, <2>2 DEF NumberedApart
<1> QED BY <1>2, <1>3, <1>4

\* The next of the ranks is someone's.
LEMMA RankBefore ==
    ASSUME NEW S, NEW n, NumberedApart(S, n), NEW t \in S, Rank(S, n, t) > 0
    PROVE  \E u \in S : Rank(S, n, u) = Rank(S, n, t) - 1
<1>1. IsFiniteSet(After(S, n, t)) /\ Rank(S, n, t) \in Nat
    BY RankOrder
<1>2. After(S, n, t) # {}
    BY <1>1, FS_EmptySet DEF Rank
<1>3. \A x \in After(S, n, t) : n[x] \in Int
    BY DEF After, NumberedApart
<1>4. PICK u \in After(S, n, t) : \A x \in After(S, n, t) : n[u] <= n[x]
    BY ONLY <1>1, <1>2, <1>3, LeastBy
<1>5. After(S, n, u) = After(S, n, t) \ {u}
    BY <1>4 DEF After, NumberedApart
<1>6. Cardinality(After(S, n, t) \ {u}) = Cardinality(After(S, n, t)) - 1
    BY <1>1, FS_RemoveElement
<1> QED BY <1>4, <1>5, <1>6 DEF Rank, After

\* Every rank below one of a member is someone's.
LEMMA RanksDense ==
    ASSUME NEW S, NEW n, NumberedApart(S, n), NEW t \in S, NEW k \in Nat, k <= Rank(S, n, t)
    PROVE  \E u \in S : Rank(S, n, u) = k
<1> DEFINE r == [u \in S |-> Rank(S, n, u)]
           U == {u \in S : k <= Rank(S, n, u)}
<1>1. U \subseteq S /\ IsFiniteSet(S) /\ t \in U
    BY DEF NumberedApart
<1>2. IsFiniteSet(U) /\ U # {}
    BY <1>1, FS_Subset
<1>3. \A x \in U : r[x] \in Int /\ r[x] = Rank(S, n, x)
    BY RankOrder
<1>4. \A x \in U : r[x] \in Int
    BY <1>3
<1>5. PICK u \in U : \A x \in U : r[u] <= r[x]
  <2> HIDE DEF r, U
  <2> QED BY ONLY <1>2, <1>4, LeastBy
<1>6. u \in S /\ Rank(S, n, u) \in Nat /\ k <= Rank(S, n, u)
    BY RankOrder
<1>7. CASE Rank(S, n, u) = k
    BY <1>6, <1>7
<1>8. CASE Rank(S, n, u) # k
  <2>1. PICK x \in S : Rank(S, n, x) = Rank(S, n, u) - 1
      BY <1>6, <1>8, RankBefore
  <2>2. x \in U
      BY <1>6, <1>8, <2>1
  <2>3. Rank(S, n, u) <= Rank(S, n, x)
      BY <1>3, <1>5, <2>2
  <2> QED BY <1>6, <2>1, <2>3
<1> QED BY <1>7, <1>8

\* As many have their rank in an interval as it is long, if one comes after it, and no more.
LEMMA RanksWithin ==
    ASSUME NEW S, NEW n, NumberedApart(S, n), NEW from \in Nat, NEW size \in Nat \ {0}
    PROVE  LET within == {t \in S : Rank(S, n, t) \in from..from + size - 1}
           IN  /\ IsFiniteSet(within) /\ Cardinality(within) \in 0..size
               /\ (\E t \in S : Rank(S, n, t) >= from + size) => Cardinality(within) = size
<1> DEFINE within == {t \in S : Rank(S, n, t) \in from..from + size - 1}
           places == from..from + size - 1
           f == [t \in within |-> Rank(S, n, t)]
<1>1. IsFiniteSet(places) /\ Cardinality(places) = size
  <2>1. PICK to \in Int : to = from + size - 1
      OBVIOUS
  <2>2. from \in Int
      OBVIOUS
  <2>3. /\ IsFiniteSet(from..to)
        /\ Cardinality(from..to) = IF from > to THEN 0 ELSE to - from + 1
      BY <2>2, FS_Interval, Zenon
  <2> QED BY <2>1, <2>3
<1>2. f \in Injection(within, places)
  <2>1. f \in [within -> places]
      OBVIOUS
  <2>2. \A t, u \in within : f[t] = f[u] => t = u
      BY RankOrder
  <2> HIDE DEF f, within, places
  <2> QED BY <2>1, <2>2 DEF Injection, IsInjective
<1>3. /\ IsFiniteSet(within) /\ Cardinality(within) <= size
      /\ Cardinality(within) = size <=> f \in Surjection(within, places)
  <2> HIDE DEF f, within, places
  <2> QED BY <1>1, <1>2, FS_Injection
<1>4. Cardinality(within) \in Nat
    BY <1>3, FS_CardinalityType
<1>5. ASSUME NEW t \in S, Rank(S, n, t) >= from + size
      PROVE  f \in Surjection(within, places)
  <2>1. ASSUME NEW k \in places PROVE \E u \in within : f[u] = k
    <3>1. Rank(S, n, t) \in Nat
        BY RankOrder
    <3>2. k \in Nat /\ k <= Rank(S, n, t)
        BY <1>5, <3>1
    <3>3. PICK u \in S : Rank(S, n, u) = k
        BY <3>2, RanksDense
    <3> QED BY <3>3
  <2>2. f \in [within -> places]
      OBVIOUS
  <2> HIDE DEF f, within, places
  <2> QED BY <2>1, <2>2 DEF Surjection
<1> QED BY <1>3, <1>4, <1>5
-----------------------------------------------------------------------------
(* AnalysisRows.                                                           *)
Numbered == {t \in Analyzed : created[t] > 0}
ReadersRows == Archive!Own
Ranked(t) == Rank(ReadersRows, created, t)

\* Rows are numbered apart, and whose row is still to be written has no number.
RowsNumbered ==
    \A t \in Analyzed :
      /\ t \in archived => created[t] > 0
      /\ job[t] \in {"none", "saving"} => created[t] = 0
      /\ created[t] <= Cardinality(Numbered)
      /\ \A u \in Analyzed : created[t] = created[u] /\ created[t] > 0 => t = u

\* What the client is still to be shown is on the pages to come.
OnPagesToCome ==
    page.open => \A t \in page.due : t \in ReadersRows /\ (t \in page.shown \/ Ranked(t) >= page.offset)

ArchiveInv ==
    /\ Archive!TypeOK /\ RowsNumbered /\ OnPagesToCome
    /\ Archive!NothingMissed /\ Archive!Whole

LEMMA ArchiveSizes ==
    /\ IsFiniteSet(Analyzed) /\ PageLimit \in Nat \ {0}
    /\ \A S : Archive!Cardinality(S) = Cardinality(S)
    /\ Cardinality(Analyzed) \in Nat
<1>1. Archive!IsFiniteSet(Analyzed) => IsFiniteSet(Analyzed)
    BY DEF Archive!IsFiniteSet, IsFiniteSet
<1>2. IsFiniteSet(Analyzed) /\ PageLimit \in Nat \ {0}
    BY <1>1, ConstantsAssumption DEF Archive!ConstantsOK
<1> QED BY <1>2, FS_CardinalityType DEF Archive!Cardinality, Cardinality

\* The places of the reader's list are ranks.
LEMMA PlacesRanked ==
    /\ Archive!TypeOK /\ RowsNumbered => NumberedApart(ReadersRows, created)
    /\ \A t : Archive!Place(t) = Ranked(t)
<1>1. \A t : Archive!Place(t) = Ranked(t)
    BY ArchiveSizes DEF Archive!Place, Ranked, Rank, After, ReadersRows
<1>2. ASSUME Archive!TypeOK, RowsNumbered PROVE NumberedApart(ReadersRows, created)
  <2>1. ReadersRows \subseteq Analyzed /\ \A t \in ReadersRows : created[t] > 0
      BY <1>2 DEF ReadersRows, Archive!Own, Archive!TypeOK, RowsNumbered
  <2>2. IsFiniteSet(ReadersRows)
      BY <2>1, ArchiveSizes, FS_Subset
  <2>3. \A t \in Analyzed : created[t] \in Nat
      BY <1>2, ArchiveSizes DEF Archive!TypeOK
  <2> QED BY <1>2, <2>1, <2>2, <2>3 DEF NumberedApart, RowsNumbered
<1> QED BY <1>1, <1>2

\* A task that moves on, and writes no row.
LEMMA JobKept ==
    ASSUME ArchiveInv, UNCHANGED <<archived, created, page>>,
           job' \in [Analyzed -> {"none", "saving", "detailing", "done"}],
           details' \subseteq archived, halved' \subseteq Analyzed,
           \A t \in Analyzed : job'[t] \in {"none", "saving"} => job[t] \in {"none", "saving"},
           \A t \in archived : job'[t] # "detailing" => t \in details' \cup halved'
    PROVE  ArchiveInv'
<1>1. Archive!TypeOK'
    BY DEF ArchiveInv, Archive!TypeOK
<1>2. RowsNumbered'
    BY DEF ArchiveInv, RowsNumbered, Numbered
<1>3. OnPagesToCome' /\ Archive!NothingMissed'
    BY DEF ArchiveInv, OnPagesToCome, Archive!NothingMissed, ReadersRows, Archive!Own, Ranked
<1>4. Archive!Whole'
    BY DEF Archive!Whole
<1> QED BY <1>1, <1>2, <1>3, <1>4 DEF ArchiveInv

LEMMA TasksKeepArchive ==
    ASSUME ArchiveInv,
           \/ Archive!Restart
           \/ \E t \in Analyzed : Archive!Complete(t) \/ Archive!InsertFails(t) \/ Archive!Detail(t)
    PROVE  ArchiveInv'
<1>1. /\ job \in [Analyzed -> {"none", "saving", "detailing", "done"}]
      /\ details \subseteq archived /\ archived \subseteq Analyzed /\ halved \subseteq Analyzed
      /\ \A t \in archived : job[t] # "detailing" => t \in details \cup halved
    BY DEF ArchiveInv, Archive!TypeOK, Archive!Whole
<1>2. CASE Archive!Restart
    BY <1>1, <1>2, JobKept DEF Archive!Restart
<1>3. ASSUME NEW t \in Analyzed, Archive!Complete(t) \/ Archive!InsertFails(t)
      PROVE  ArchiveInv'
  <2>1. /\ UNCHANGED <<archived, created, details, halved, page>>
        /\ \E place \in {"saving", "done"} :
              /\ job' = [job EXCEPT ![t] = place]
              /\ job[t] \in {"none", "saving"}
      BY <1>3 DEF Archive!Complete, Archive!InsertFails, Archive!Goes
  <2> QED BY <1>1, <2>1, JobKept
<1>4. ASSUME NEW t \in Analyzed, Archive!Detail(t)
      PROVE  ArchiveInv'
  <2>1. /\ UNCHANGED <<archived, created, page>> /\ job' = [job EXCEPT ![t] = "done"]
        /\ \/ t \in archived /\ details' = details \cup {t} /\ UNCHANGED halved
           \/ halved' = halved \cup {t} /\ UNCHANGED details
      BY <1>4 DEF Archive!Detail, Archive!Goes
  <2> QED BY <1>1, <2>1, JobKept
<1> QED BY <1>2, <1>3, <1>4

\* A new row comes before the others in the list, and moves them on to later pages.
LEMMA InsertKeepsArchive ==
    ASSUME ArchiveInv, NEW t \in Analyzed, Archive!Insert(t)
    PROVE  ArchiveInv'
<1>1. /\ job[t] = "saving" /\ job' = [job EXCEPT ![t] = "detailing"]
      /\ archived' = archived \cup {t}
      /\ created' = [created EXCEPT ![t] = Cardinality(Numbered) + 1]
      /\ UNCHANGED <<details, halved, page>>
  <2>1. Archive!Cardinality(Numbered) = Cardinality(Numbered)
      BY ArchiveSizes
  <2> QED BY <2>1 DEF Archive!Insert, Archive!Goes, Numbered
<1>2. /\ job \in [Analyzed -> {"none", "saving", "detailing", "done"}]
      /\ created \in [Analyzed -> 0..Cardinality(Analyzed)] /\ archived \subseteq Analyzed
      /\ Archive!TypeOK /\ RowsNumbered
    BY ArchiveSizes DEF ArchiveInv, Archive!TypeOK
<1>3. created[t] = 0 /\ t \notin archived /\ t \notin Numbered
    BY <1>1, <1>2 DEF RowsNumbered, Numbered
<1>4. /\ IsFiniteSet(Numbered) /\ Cardinality(Numbered) \in Nat
      /\ Cardinality(Numbered \cup {t}) = Cardinality(Numbered) + 1
      /\ Cardinality(Numbered \cup {t}) <= Cardinality(Analyzed)
  <2>1. Numbered \subseteq Analyzed /\ Numbered \cup {t} \subseteq Analyzed
      BY DEF Numbered
  <2>2. IsFiniteSet(Numbered)
      BY <2>1, ArchiveSizes, FS_Subset
  <2> QED BY <1>3, <2>1, <2>2, ArchiveSizes, FS_Subset, FS_AddElement, FS_CardinalityType
<1>5. /\ created'[t] = Cardinality(Numbered) + 1
      /\ \A u \in Analyzed : u # t => created'[u] = created[u]
    BY <1>1, <1>2
<1>6. Numbered' = Numbered \cup {t}
    BY <1>4, <1>5 DEF Numbered
<1>7. Archive!TypeOK'
  <2>1. created' \in [Analyzed -> 0..Cardinality(Analyzed)]
      BY <1>1, <1>2, <1>4, ArchiveSizes
  <2> QED BY <1>1, <1>2, <2>1, ArchiveSizes DEF Archive!TypeOK
<1>8. RowsNumbered'
  <2>1. Cardinality(Numbered)' = Cardinality(Numbered) + 1
      BY <1>4, <1>6
  <2>2. \A u \in Analyzed : created[u] \in Nat /\ created[u] <= Cardinality(Numbered)
      BY <1>2, ArchiveSizes DEF RowsNumbered
  <2>3. \A u \in Analyzed : /\ u \in archived' => created'[u] > 0
                            /\ job'[u] \in {"none", "saving"} => created'[u] = 0
      BY <1>1, <1>2, <1>4, <1>5 DEF RowsNumbered
  <2>4. \A u \in Analyzed : created'[u] <= Cardinality(Numbered)'
      BY <1>4, <1>5, <2>1, <2>2
  <2>5. \A u, v \in Analyzed : created'[u] = created'[v] /\ created'[u] > 0 => u = v
      BY <1>2, <1>4, <1>5, <2>2 DEF RowsNumbered
  <2> QED BY <2>3, <2>4, <2>5 DEF RowsNumbered
<1>9. OnPagesToCome'
  <2> SUFFICES ASSUME page.open, NEW u \in page.due
               PROVE  u \in ReadersRows' /\ (u \in page.shown \/ Ranked(u)' >= page.offset)
      BY <1>1 DEF OnPagesToCome
  <2>1. u \in ReadersRows /\ (u \in page.shown \/ Ranked(u) >= page.offset)
      BY DEF ArchiveInv, OnPagesToCome
  <2>2. ReadersRows \subseteq ReadersRows' /\ u # t /\ t \notin ReadersRows
      BY <1>1, <1>3, <2>1 DEF ReadersRows, Archive!Own
  <2>3. ReadersRows \subseteq Analyzed /\ ReadersRows' \subseteq Analyzed
      BY <1>1, <1>2 DEF ReadersRows, Archive!Own
  <2>4. After(ReadersRows, created, u) \subseteq After(ReadersRows', created', u)
      BY <1>5, <2>1, <2>2, <2>3 DEF After
  <2>5. IsFiniteSet(After(ReadersRows', created', u))
      BY <2>3, ArchiveSizes, FS_Subset DEF After
  <2>6. Ranked(u) <= Ranked(u)' /\ Ranked(u) \in Nat /\ Ranked(u)' \in Nat
      BY <2>4, <2>5, FS_Subset, FS_CardinalityType DEF Ranked, Rank
  <2>7. page.offset \in Nat
      BY <1>2 DEF Archive!TypeOK
  <2> QED BY <2>1, <2>2, <2>6, <2>7
<1>10. Archive!NothingMissed' /\ Archive!Whole'
    BY <1>1, <1>2 DEF ArchiveInv, Archive!NothingMissed, Archive!Whole
<1> QED BY <1>7, <1>8, <1>9, <1>10 DEF ArchiveInv

\* A client begins with the first page.
LEMMA OpenKeepsArchive ==
    ASSUME ArchiveInv, Archive!Open
    PROVE  ArchiveInv'
<1>1. /\ page' = [offset |-> 0, shown |-> {}, due |-> ReadersRows, open |-> TRUE]
      /\ UNCHANGED <<job, archived, created, details, halved>>
    BY DEF Archive!Open, Archive!Unread, ReadersRows
<1>2. Archive!TypeOK' /\ RowsNumbered' /\ Archive!Whole' /\ Archive!NothingMissed'
    BY <1>1 DEF ArchiveInv, Archive!TypeOK, RowsNumbered, Numbered, Archive!Whole,
                Archive!NothingMissed, ReadersRows, Archive!Own
<1>3. \A t \in ReadersRows : Ranked(t) \in Nat
    BY PlacesRanked, RankOrder DEF ArchiveInv, Ranked
<1>4. OnPagesToCome'
    BY <1>1, <1>3 DEF OnPagesToCome, ReadersRows, Archive!Own, Ranked
<1> QED BY <1>2, <1>4 DEF ArchiveInv

\* The next page has those of its places; if it is not full there is none after it.
LEMMA PageKeepsArchive ==
    ASSUME ArchiveInv, Archive!Page
    PROVE  ArchiveInv'
<1> DEFINE more == {t \in ReadersRows : Ranked(t) \in page.offset..page.offset + PageLimit - 1}
<1>1. /\ page.open /\ UNCHANGED <<job, archived, created, details, halved>>
      /\ page' = [page EXCEPT !.shown = @ \cup more, !.offset = @ + Cardinality(more),
                              !.open = Cardinality(more) = PageLimit]
    BY PlacesRanked, ArchiveSizes DEF Archive!Page, Archive!Listed, ReadersRows
<1>2. /\ page \in [offset : Nat, shown : SUBSET Analyzed, due : SUBSET Analyzed, open : BOOLEAN]
      /\ Archive!TypeOK /\ RowsNumbered /\ NumberedApart(ReadersRows, created)
      /\ PageLimit \in Nat \ {0}
    BY PlacesRanked, ArchiveSizes DEF ArchiveInv, Archive!TypeOK
<1>3. /\ Cardinality(more) \in 0..PageLimit
      /\ (\E t \in ReadersRows : Ranked(t) >= page.offset + PageLimit) => Cardinality(more) = PageLimit
  <2>1. page.offset \in Nat
      BY <1>2
  <2> HIDE DEF more
  <2> QED BY <1>2, <2>1, RanksWithin DEF more, Ranked
<1>4. more \subseteq Analyzed
    BY <1>2 DEF ReadersRows, Archive!Own, Archive!TypeOK
<1>5. /\ page'.shown = page.shown \cup more /\ page'.offset = page.offset + Cardinality(more)
      /\ page'.due = page.due /\ page'.open = (Cardinality(more) = PageLimit)
      /\ page' \in [offset : Nat, shown : SUBSET Analyzed, due : SUBSET Analyzed, open : BOOLEAN]
  <2> HIDE DEF more
  <2>1. /\ page'.shown = page.shown \cup more /\ page'.offset = page.offset + Cardinality(more)
        /\ page'.due = page.due
      BY <1>1, <1>2
  <2>2. page'.open = (Cardinality(more) = PageLimit)
      BY <1>1, <1>2, Zenon
  <2>3. (Cardinality(more) = PageLimit) \in BOOLEAN
      OBVIOUS
  <2>4. page.offset + Cardinality(more) \in Nat /\ page.shown \cup more \in SUBSET Analyzed
      BY <1>2, <1>3, <1>4
  <2>5. page' \in [offset : Nat, shown : SUBSET Analyzed, due : SUBSET Analyzed, open : BOOLEAN]
    <3>1. ASSUME NEW p \in [offset : Nat, shown : SUBSET Analyzed, due : SUBSET Analyzed, open : BOOLEAN],
                 NEW o \in Nat, NEW s \in SUBSET Analyzed, NEW b \in BOOLEAN
          PROVE  [p EXCEPT !.shown = s, !.offset = o, !.open = b]
                   \in [offset : Nat, shown : SUBSET Analyzed, due : SUBSET Analyzed, open : BOOLEAN]
        BY <3>1
    <3>2. page' = [page EXCEPT !.shown = page.shown \cup more,
                               !.offset = page.offset + Cardinality(more),
                               !.open = (Cardinality(more) = PageLimit)]
        BY <1>1
    <3> QED BY ONLY <1>2, <2>3, <2>4, <3>1, <3>2, Zenon
  <2> QED BY ONLY <2>1, <2>2, <2>5
<1>6. \A t \in page.due : t \in ReadersRows /\ (t \in page.shown \/ Ranked(t) >= page.offset)
    BY <1>1 DEF ArchiveInv, OnPagesToCome
<1>7. \A t \in ReadersRows : Ranked(t) \in Nat
    BY <1>2, RankOrder DEF Ranked
<1>8. \A t \in page.due : t \in page'.shown \/ Ranked(t) >= page.offset + PageLimit
    BY <1>2, <1>5, <1>6, <1>7
<1>9. ReadersRows' = ReadersRows /\ \A t : Ranked(t)' = Ranked(t)
    BY <1>1 DEF ReadersRows, Archive!Own, Ranked
<1>10. OnPagesToCome'
  <2> HIDE DEF more
  <2> QED BY <1>2, <1>3, <1>5, <1>6, <1>7, <1>8, <1>9 DEF OnPagesToCome
<1>11. Archive!NothingMissed'
  <2> HIDE DEF more
  <2> QED BY <1>3, <1>5, <1>6, <1>8 DEF Archive!NothingMissed
<1>12. Archive!TypeOK' /\ RowsNumbered' /\ Archive!Whole'
    BY <1>1, <1>2, <1>5 DEF ArchiveInv, Archive!TypeOK, RowsNumbered, Numbered, Archive!Whole
<1> QED BY <1>10, <1>11, <1>12 DEF ArchiveInv

\* What comes before a deleted row keeps its place.
LEMMA DeleteKeepsArchive ==
    ASSUME ArchiveInv, NEW t \in Analyzed, Archive!Delete(t)
    PROVE  ArchiveInv'
<1> DEFINE moved == IF Owners[t] = Reader THEN {u \in ReadersRows : created[u] <= created[t]} ELSE {}
<1>1. /\ t \in archived /\ archived' = archived \ {t} /\ details' = details \ {t}
      /\ page' = [page EXCEPT !.due = @ \ moved] /\ UNCHANGED <<job, created, halved>>
    BY DEF Archive!Delete, ReadersRows
<1>2. /\ page \in [offset : Nat, shown : SUBSET Analyzed, due : SUBSET Analyzed, open : BOOLEAN]
      /\ Archive!TypeOK /\ RowsNumbered /\ archived \subseteq Analyzed
    BY DEF ArchiveInv, Archive!TypeOK
<1>3. /\ page'.shown = page.shown /\ page'.offset = page.offset
      /\ page'.due = page.due \ moved /\ page'.open = page.open
      /\ page' \in [offset : Nat, shown : SUBSET Analyzed, due : SUBSET Analyzed, open : BOOLEAN]
  <2> HIDE DEF moved
  <2> QED BY <1>1, <1>2
<1>4. Archive!TypeOK' /\ RowsNumbered' /\ Archive!NothingMissed' /\ Archive!Whole'
    BY <1>1, <1>2, <1>3 DEF ArchiveInv, Archive!TypeOK, RowsNumbered, Numbered,
                            Archive!NothingMissed, Archive!Whole
<1>5. OnPagesToCome'
  <2> SUFFICES ASSUME page.open, NEW u \in page.due, u \notin moved
               PROVE  u \in ReadersRows' /\ (u \in page.shown \/ Ranked(u)' >= page.offset)
      BY <1>3 DEF OnPagesToCome
  <2>1. u \in ReadersRows /\ (u \in page.shown \/ Ranked(u) >= page.offset)
      BY DEF ArchiveInv, OnPagesToCome
  <2>2. ReadersRows' = ReadersRows \ {t} /\ (t \in ReadersRows <=> Owners[t] = Reader) /\ ReadersRows \subseteq Analyzed
      BY <1>1, <1>2 DEF ReadersRows, Archive!Own
  <2>3. \A x \in Analyzed : created[x] \in Nat
      BY <1>2, ArchiveSizes DEF Archive!TypeOK
  <2>4. t \in ReadersRows => created[u] > created[t]
      BY <2>1, <2>2, <2>3
  <2>5. u \in ReadersRows' /\ After(ReadersRows', created', u) = After(ReadersRows, created, u)
      BY <1>1, <2>1, <2>2, <2>3, <2>4 DEF After
  <2>6. Ranked(u)' = Ranked(u)
      BY <2>5 DEF Ranked, Rank
  <2> QED BY <2>1, <2>5, <2>6
<1> QED BY <1>4, <1>5 DEF ArchiveInv

LEMMA ArchiveStep ==
    ASSUME ArchiveInv, Archive!Next \/ UNCHANGED analysisRowVars
    PROVE  ArchiveInv'
<1>1. ASSUME UNCHANGED analysisRowVars PROVE ArchiveInv'
    BY <1>1 DEF analysisRowVars, ArchiveInv, Archive!TypeOK, RowsNumbered, Numbered, OnPagesToCome,
                ReadersRows, Archive!Own, Ranked, Archive!NothingMissed, Archive!Whole
<1> QED BY <1>1, TasksKeepArchive, InsertKeepsArchive, OpenKeepsArchive, PageKeepsArchive,
           DeleteKeepsArchive DEF Archive!Next

LEMMA ArchiveStarts ==
    ASSUME Archive!Init
    PROVE  ArchiveInv
<1>1. /\ archived = {} /\ \A t \in Analyzed : created[t] = 0
      /\ page = [offset |-> 0, shown |-> {}, due |-> {}, open |-> FALSE]
    BY DEF Archive!Init, Archive!Unread
<1>2. Numbered = {}
    BY <1>1 DEF Numbered
<1>3. Archive!TypeOK
    BY <1>1, ArchiveSizes DEF Archive!Init, Archive!TypeOK
<1>4. RowsNumbered
    BY <1>1, <1>2, FS_EmptySet DEF RowsNumbered
<1>5. OnPagesToCome /\ Archive!NothingMissed /\ Archive!Whole
    BY <1>1 DEF Archive!Init, OnPagesToCome, Archive!NothingMissed, Archive!Whole
<1> QED BY <1>3, <1>4, <1>5 DEF ArchiveInv

-----------------------------------------------------------------------------
(* StrategyRows.                                                           *)
SummariesInv == Summaries!TypeOK /\ Summaries!CacheTrue

\* A thread that goes on with a version, whose change to the cache is accounted for.
LEMMA SummariesMove ==
    ASSUME SummariesInv, NEW t \in RowThreads,
           NEW place \in {"idle", "loaded", "created", "updated", "deleted"},
           NEW v \in 0..MaxVersion,
           thread' = [thread EXCEPT ![t] = place], has' = [has EXCEPT ![t] = v],
           summaryRow' \in 0..MaxVersion, version' \in 0..MaxVersion,
           cached' \in 0..MaxVersion, stale' \in BOOLEAN,
           \/ cached' \in {0, summaryRow'} \/ stale' \/ place \in {"updated", "deleted"}
           \/ thread[t] \notin {"updated", "deleted"} /\ UNCHANGED <<cached, summaryRow, stale>>
    PROVE  SummariesInv'
<1>1. /\ thread \in [RowThreads -> {"idle", "loaded", "created", "updated", "deleted"}]
      /\ has \in [RowThreads -> 0..MaxVersion]
    BY DEF SummariesInv, Summaries!TypeOK, Summaries!Versions
<1>2. \/ cached \in {0, summaryRow} \/ stale
      \/ \E u \in RowThreads : thread[u] \in {"updated", "deleted"}
    BY DEF SummariesInv, Summaries!CacheTrue, Summaries!Absent
<1>3. /\ thread' \in [RowThreads -> {"idle", "loaded", "created", "updated", "deleted"}]
      /\ has' \in [RowThreads -> 0..MaxVersion]
      /\ thread'[t] = place /\ \A u \in RowThreads : u # t => thread'[u] = thread[u]
    BY <1>1
<1>4. \/ cached' \in {0, summaryRow'} \/ stale'
      \/ \E u \in RowThreads : thread'[u] \in {"updated", "deleted"}
  <2>1. CASE cached' \in {0, summaryRow'} \/ stale' \/ place \in {"updated", "deleted"}
      BY <1>3, <2>1
  <2>2. CASE thread[t] \notin {"updated", "deleted"} /\ UNCHANGED <<cached, summaryRow, stale>>
      BY <1>2, <1>3, <2>2
  <2> QED BY <2>1, <2>2
<1>5. Summaries!TypeOK'
    BY <1>3 DEF Summaries!TypeOK, Summaries!Versions
<1> QED BY <1>4, <1>5 DEF SummariesInv, Summaries!CacheTrue, Summaries!Absent

LEMMA SummariesStep ==
    ASSUME SummariesInv, Summaries!Next \/ UNCHANGED strategyRowVars
    PROVE  SummariesInv'
<1>1. /\ MaxVersion \in Nat /\ summaryRow \in 0..MaxVersion /\ version \in 0..MaxVersion
      /\ cached \in 0..MaxVersion /\ has \in [RowThreads -> 0..MaxVersion] /\ 0 \in 0..MaxVersion
    BY ConstantsAssumption DEF SummariesInv, Summaries!TypeOK, Summaries!Versions, Summaries!ConstantsOK
<1>2. stale \in BOOLEAN
    BY DEF SummariesInv, Summaries!TypeOK
<1>3. version < MaxVersion => version + 1 \in 0..MaxVersion
    BY <1>1
<1>4. \A a, b : (a # b) \in BOOLEAN
    OBVIOUS
<1>5. ASSUME NEW t \in RowThreads,
             \/ Summaries!Load(t) \/ Summaries!Save(t) \/ Summaries!SaveFails(t)
             \/ Summaries!Create(t) \/ Summaries!Update(t) \/ Summaries!Delete(t)
             \/ Summaries!Invalidate(t)
      PROVE  SummariesInv'
  <2>1. has[t] \in 0..MaxVersion
      BY <1>1
  <2>2. CASE Summaries!Load(t)
    <3>1. /\ thread' = [thread EXCEPT ![t] = "loaded"] /\ has' = [has EXCEPT ![t] = summaryRow]
          /\ thread[t] \notin {"updated", "deleted"} /\ UNCHANGED <<summaryRow, version, cached, stale>>
        BY <2>2 DEF Summaries!Load, Summaries!Goes
    <3> QED BY <1>1, <1>2, <3>1, SummariesMove
  <2>3. CASE Summaries!Save(t)
    <3>1. /\ thread' = [thread EXCEPT ![t] = "idle"] /\ has' = [has EXCEPT ![t] = 0]
          /\ UNCHANGED <<summaryRow, version>> /\ cached' = has[t]
        BY <2>3 DEF Summaries!Save, Summaries!Goes, Summaries!Absent
    <3>2. stale' = (has[t] # summaryRow)
        BY <2>3 DEF Summaries!Save
    <3>3. stale' \in BOOLEAN
        BY <3>2, <1>4, Zenon
    <3>4. cached' \in {0, summaryRow'} \/ stale'
        BY <3>1, <3>2
    <3> QED BY <1>1, <2>1, <3>1, <3>3, <3>4, SummariesMove
  <2>4. CASE Summaries!SaveFails(t)
    <3>1. /\ thread' = [thread EXCEPT ![t] = "idle"] /\ has' = [has EXCEPT ![t] = 0]
          /\ thread[t] \notin {"updated", "deleted"} /\ UNCHANGED <<summaryRow, version, cached, stale>>
        BY <2>4 DEF Summaries!SaveFails, Summaries!Goes, Summaries!Absent
    <3> QED BY <1>1, <1>2, <3>1, SummariesMove
  <2>5. CASE Summaries!Create(t)
    <3>1. /\ thread' = [thread EXCEPT ![t] = "created"] /\ has' = [has EXCEPT ![t] = version + 1]
          /\ version < MaxVersion /\ version' = version + 1 /\ summaryRow' = version + 1
          /\ summaryRow = 0 /\ thread[t] = "idle" /\ UNCHANGED <<cached, stale>>
        BY <2>5 DEF Summaries!Create, Summaries!Commits, Summaries!Goes, Summaries!Absent
    <3>2. \/ cached = 0 \/ stale \/ \E u \in RowThreads : thread[u] \in {"updated", "deleted"}
        BY <3>1 DEF SummariesInv, Summaries!CacheTrue, Summaries!Absent
    <3>3. CASE cached' \in {0, summaryRow'} \/ stale'
        BY <1>1, <1>2, <1>3, <3>1, <3>3, SummariesMove
    <3>4. CASE \E u \in RowThreads : thread[u] \in {"updated", "deleted"}
      <4>1. thread' \in [RowThreads -> {"idle", "loaded", "created", "updated", "deleted"}]
          BY <3>1 DEF SummariesInv, Summaries!TypeOK
      <4>2. has' \in [RowThreads -> 0..MaxVersion]
          BY <1>1, <1>3, <3>1
      <4>3. Summaries!CacheTrue'
          BY <3>1, <3>4 DEF Summaries!CacheTrue, SummariesInv, Summaries!TypeOK
      <4> QED BY <1>1, <1>2, <1>3, <3>1, <4>1, <4>2, <4>3
              DEF SummariesInv, Summaries!TypeOK, Summaries!Versions
    <3> QED BY <3>1, <3>2, <3>3, <3>4
  <2>6. CASE Summaries!Update(t)
    <3>1. /\ thread' = [thread EXCEPT ![t] = "updated"] /\ has' = [has EXCEPT ![t] = version + 1]
          /\ version < MaxVersion /\ version' = version + 1 /\ summaryRow' = version + 1
          /\ UNCHANGED <<cached, stale>>
        BY <2>6 DEF Summaries!Update, Summaries!Commits, Summaries!Goes
    <3> QED BY <1>1, <1>2, <1>3, <3>1, SummariesMove
  <2>7. CASE Summaries!Delete(t)
    <3>1. /\ thread' = [thread EXCEPT ![t] = "deleted"] /\ has' = [has EXCEPT ![t] = 0]
          /\ summaryRow' = 0 /\ UNCHANGED <<version, cached, stale>>
        BY <2>7 DEF Summaries!Delete, Summaries!Goes, Summaries!Absent
    <3> QED BY <1>1, <1>2, <3>1, SummariesMove
  <2>8. CASE Summaries!Invalidate(t)
    <3>1. /\ thread' = [thread EXCEPT ![t] = "idle"] /\ has' = [has EXCEPT ![t] = 0]
          /\ UNCHANGED <<summaryRow, version>>
          /\ \/ cached' = 0 /\ stale' = FALSE
             \/ cached' = cached /\ stale' = (cached \notin {0, summaryRow})
        BY <2>8 DEF Summaries!Invalidate, Summaries!Goes, Summaries!Absent
    <3>2. \A a, b, c : (a \notin {b, c}) \in BOOLEAN
        OBVIOUS
    <3>3. stale' \in BOOLEAN
        BY <3>1, <3>2, Zenon
    <3>4. cached' \in {0, summaryRow'} \/ stale'
        BY <3>1
    <3> QED BY <1>1, <3>1, <3>3, <3>4, SummariesMove
  <2> QED BY <1>5, <2>2, <2>3, <2>4, <2>5, <2>6, <2>7, <2>8
<1>6. CASE Summaries!Expire
  <2>1. cached' = 0 /\ stale' = FALSE /\ UNCHANGED <<summaryRow, version, thread, has>>
      BY <1>6 DEF Summaries!Expire, Summaries!Absent
  <2>2. Summaries!TypeOK' /\ Summaries!CacheTrue'
      BY <1>1, <2>1 DEF SummariesInv, Summaries!TypeOK, Summaries!CacheTrue, Summaries!Versions,
                       Summaries!Absent
  <2> QED BY <2>2 DEF SummariesInv
<1>7. CASE Summaries!Direct
  <2>1. /\ version < MaxVersion /\ version' = version + 1 /\ summaryRow' = version + 1
        /\ UNCHANGED <<cached, thread, has>>
      BY <1>7 DEF Summaries!Direct, Summaries!Commits
  <2>2. stale' = (cached # 0)
      BY <1>7 DEF Summaries!Direct, Summaries!Absent
  <2>3. stale' \in BOOLEAN
      BY <1>4, <2>2, Zenon
  <2>4. Summaries!TypeOK'
      BY <1>1, <1>3, <2>1, <2>3 DEF SummariesInv, Summaries!TypeOK, Summaries!Versions
  <2>5. Summaries!CacheTrue'
      BY <2>1, <2>2 DEF Summaries!CacheTrue, Summaries!Absent
  <2> QED BY <2>4, <2>5 DEF SummariesInv
<1>8. CASE UNCHANGED strategyRowVars
    BY <1>8 DEF strategyRowVars, SummariesInv, Summaries!TypeOK, Summaries!CacheTrue
<1> QED BY <1>5, <1>6, <1>7, <1>8 DEF Summaries!Next

LEMMA SummariesStart ==
    ASSUME Summaries!Init
    PROVE  SummariesInv
<1>1. MaxVersion \in Nat /\ 0 \in 0..MaxVersion
    BY ConstantsAssumption DEF Summaries!ConstantsOK
<1>2. Summaries!TypeOK
    BY <1>1 DEF Summaries!Init, Summaries!TypeOK, Summaries!Versions, Summaries!Absent
<1>3. Summaries!CacheTrue
    BY DEF Summaries!Init, Summaries!CacheTrue, Summaries!Absent
<1> QED BY <1>2, <1>3 DEF SummariesInv

-----------------------------------------------------------------------------

\* THEOREM (MCRecords, MessagesTrue).  An alarm is raised once, and for a price that was
\* crossed (PriceAlerts); the last message tells what the monitor saw last
\* (ServiceMonitor); a command that Telegram has forgotten was carried out, failed or was
\* thrown away in a conflict, and no command is carried out more often than once and once
\* for each restart (TelegramCommands): whatever the other components do.
THEOREM MessagesAreTrue == Spec => []MessagesTrue
<1> DEFINE IInv == AlarmsInv /\ MonitorInv /\ CommandsInv
<1>1. Init => IInv
  <2>1. Alarms!Init => AlarmsInv
      BY AlarmsStart
  <2>2. Monitor!Init => MonitorInv
      BY MonitorStarts
  <2>3. Commands!Init => CommandsInv
      BY CommandsStart
  <2> QED BY <2>1, <2>2, <2>3 DEF Init
<1>2. IInv /\ [Next]_vars => IInv'
    BY PartsApart, AlarmsKept, MonitorKept, CommandsKept
<1>3. IInv => MessagesTrue
  <2>1. AlarmsInv => Alarms!PushedOnce
      BY DEF AlarmsInv, Alarms!PushedOnce
  <2>2. CommandsInv => Commands!CommandsCarriedOut
      BY DEF CommandsInv, Commands!CommandsCarriedOut, Dealt
  <2> QED BY <2>1, <2>2 DEF AlarmsInv, MonitorInv, MessagesTrue
<1> QED BY <1>1, <1>2, <1>3, PTL DEF Spec

\* THEOREM (MCRecords, ClientsOwn).  Unless it was refused or overtaken, the client of an
\* account has the keys of its row, however often the name was deleted and created again;
\* and who asks for an account's client is given that account's, or the environment's for
\* the default account (AccountClients).
THEOREM ClientsAreOwn == Spec => ClientsOwn
<1>1. Init => ClientsInv
    BY ClientsStart DEF Init
<1>2. ClientsInv /\ [Next]_vars => ClientsInv'
    BY PartsApart, ClientsKept
<1>3. ClientsInv => Keys!KeysOfRow
    BY DEF ClientsInv, Keys!KeysOfRow, AccountNames
<1>4. ClientsInv /\ [Next]_vars =>
        [handed' # handed /\ handed'.client # None =>
           LET n == handed'.name IN
           \/ handed'.client = Env /\ n = "default"
           \/ handed'.client \in Keys!Keys /\ accountClients'[n] = handed'.client]_(Keys!vars)
    BY PartsApart, ClientsKept DEF Keys!Keys
<1>5. Spec => []ClientsInv
    BY <1>1, <1>2, PTL DEF Spec
<1>6. Spec => Keys!OwnClient
    BY <1>4, <1>5, PTL DEF Spec, Keys!OwnClient
<1> QED BY <1>3, <1>5, <1>6, PTL DEF ClientsOwn

\* THEOREM (MCRecords, BooksBalance).  The balance of a backtest is the initial one with
\* what its trades have brought, less the entry fee of an open one, and its strategy
\* holds what the account does unless an entry was refused, never less (Backtest);
\* however a position was built up, averaged, reduced and closed, and over however many
\* clients, the balance of a paper account is explained by the fills, the fees and the
\* cost of what is held, unless a new client read a row that was behind (PaperAccount).
THEOREM BooksAreBalanced == Spec => []BooksBalance
<1> DEFINE IInv == BacktestInv /\ PaperInv
<1>1. Init => IInv
  <2>1. Simulated!Init => BacktestInv
      BY BacktestBegins
  <2>2. Paper!Init => PaperInv
      BY PaperStarts
  <2> QED BY <2>1, <2>2 DEF Init
<1>2. IInv /\ [Next]_vars => IInv'
    BY PartsApart, BacktestKept, PaperKept
<1>3. IInv => BooksBalance
    BY DEF BacktestInv, PaperInv, BooksBalance
<1> QED BY <1>1, <1>2, <1>3, PTL DEF Spec

\* THEOREM (MCRecords, LevelsKept).  The levels of a managed position are always those of
\* its best price, and while it keeps its entry neither moves back (TrailingStop); a
\* strategy in a range position of its own knows the range its levels come from
\* (RangeMeanReversion).
THEOREM LevelsAreKept == Spec => LevelsKept
<1> DEFINE IInv == TrailingInv /\ Known(ranging)
<1>1. Init => IInv
  <2>1. Trailing!Init => TrailingInv
      BY TrailingStarts
  <2>2. Ranges!Init => Known(ranging)
      BY DEF Ranges!Init, Ranges!New, Known
  <2> QED BY <2>1, <2>2 DEF Init
<1>2. IInv /\ [Next]_vars => IInv'
    BY PartsApart, TrailingKept, RangeKept
<1>3. IInv => Trailing!LevelsFollowBest /\ Ranges!OwnLevelsKnown
    BY DEF TrailingInv, Known, Ranges!OwnLevelsKnown
<1>4. IInv /\ [Next]_vars =>
        [managed /\ managed' /\ side' = side /\ entry' = entry /\ reinits' = reinits =>
           ~Trailing!Above(side, tp, tp') /\ ~Trailing!Above(side, sl, sl')]_(Trailing!vars)
    BY PartsApart, TrailingKept DEF Forward
<1>5. Spec => []IInv
    BY <1>1, <1>2, PTL DEF Spec
<1>6. Spec => Trailing!Tightens
    BY <1>4, <1>5, PTL DEF Spec, Trailing!Tightens
<1> QED BY <1>3, <1>5, <1>6, PTL DEF LevelsKept

\* THEOREM (MCRecords, StudiesHonest).  The candles a history was asked for are all there
\* but for pages that failed and what comes after a gap (HistoryPages); a window is tested
\* on all the candles after those its parameters were chosen by, with the best of the
\* results that are kept, and a walk-forward analysis whose flag is up begins no further
\* backtest (Analyses): for any set of analyses.
THEOREM StudiesAreHonest == Spec => StudiesHonest
<1> DEFINE IInv == PagesInv /\ StudiesInv
<1>1. Init => IInv
  <2>1. Pages!Init => PagesInv
      BY PagesStart
  <2>2. Studies!Init => StudiesInv
      BY StudiesStart
  <2> QED BY <2>1, <2>2 DEF Init
<1>2. IInv /\ [Next]_vars => IInv'
    BY PartsApart, PagesKept, StudiesKept
<1>3. IInv => Pages!NothingSkipped
  <2> SUFFICES ASSUME PagesInv, state = "done", NEW c \in (existing \ got) \ {6}
               PROVE  c \in skipped \/ \E h \in 1..c : h \notin existing
      BY DEF Pages!NothingSkipped
  <2>1. c \in 1..6 /\ start >= 6 /\ start \in 1..7
      BY DEF PagesInv
  <2>2. c < start /\ c # 6
      BY <2>1
  <2>3. Accounted(c)
      BY <2>2 DEF PagesInv
  <2> QED BY <2>3 DEF Accounted
<1>4. IInv => Studies!OutOfSample
    BY TestsApart
<1>5. IInv => Studies!BestIsKept
    BY DEF StudiesInv, Trying, BestOf, Studies!BestIsKept
<1>6. IInv /\ [Next]_vars =>
        [\A t \in Studied : kind[t] = "walk" /\ flag[t] /\ phase'[t] # "ended" =>
           phase'[t] = phase[t] /\ number'[t] = number[t] /\ combo'[t] = combo[t]]_(Studies!vars)
    BY PartsApart, StudiesKept DEF Stops
<1>7. Spec => []IInv
    BY <1>1, <1>2, PTL DEF Spec
<1>8. Spec => Studies!CancelStops
    BY <1>6, <1>7, PTL DEF Spec, Studies!CancelStops
<1> QED BY <1>3, <1>4, <1>5, <1>7, <1>8, PTL DEF StudiesHonest

\* THEOREM (MCRecords, CrossesTraded).  Under either scalping strategy a cross is traded once,
\* or followed up as often as is allowed, never both, and a position the strategy opens comes
\* after the candles of its cooldown, whoever closed the last one (Scalping,
\* ReverseScalping); so does a trade of a backtest (Backtest) and a position of the range
\* strategy, whose cooldown turns away no candle more than it says (RangeMeanReversion).
THEOREM CrossesAreTraded == Spec => CrossesTraded
<1> DEFINE IInv == ScalpingInv /\ BacktestInv /\ RestInv /\ CountedInv
<1>1. Init => IInv
  <2>1. Classic!Init => ScalpingInv
    <3> SUFFICES ASSUME Classic!Init PROVE ScalpingInv
        OBVIOUS
    <3>1. st = Classic!New /\ left = -(1 + 1) /\ taken = [cross |-> FALSE, followUps |-> 0]
        BY DEF Classic!Init
    <3>2. Typed(st) /\ st.last = 0 /\ st.cooldown = 0 /\ st.regime = "none"
        BY <3>1 DEF Classic!New, Typed, StrategyFields
    <3>3. taken.followUps = 0 /\ left \in Int /\ 0 >= left + 1
        BY <3>1
    <3> QED BY <3>2, <3>3 DEF ScalpingInv
  <2>2. Simulated!Init => RestInv
      BY DEF Simulated!Init, RestInv
  <2>3. Ranges!Init => CountedInv
      BY CountedStarts
  <2> QED BY <2>1, <2>2, <2>3, BacktestBegins DEF Init
<1>2. IInv /\ [Next]_vars => IInv'
    BY PartsApart, ScalpingKept, BacktestKept, RestKept, CountedKept
<1>3. IInv => Classic!OneCrossOneTrade /\ Ranges!WaitsNoLonger
  <2>1. ScalpingInv => Classic!OneCrossOneTrade
      BY DEF ScalpingInv, Classic!OneCrossOneTrade
  <2>2. CountedInv => Ranges!WaitsNoLonger
    <3> SUFFICES ASSUME CountedInv PROVE waited =< use.cooldown
        BY DEF Ranges!WaitsNoLonger
    <3>1. use.cooldown \in Nat /\ waited \in 0..use.cooldown
        BY DEF CountedInv
    <3> QED BY <3>1
  <2> QED BY <2>1, <2>2
<1>4. IInv /\ [Next]_vars =>
        [st.position = "NONE" /\ st'.position # "NONE" /\ st'.last # st.last
           => st'.last > left + 1]_(Classic!vars)
    BY PartsApart, ScalpingKept
<1>5. IInv /\ [Next]_vars =>
        [trade = "NONE" /\ trade' # "NONE" => candle > leftAt + 1]_(Simulated!vars)
    BY PartsApart, RestKept
<1>6. IInv /\ [Next]_vars =>
        [{ranging.position, account} = {"NONE"} /\ ranging'.position # "NONE"
           => ranging'.last > gaveUp + use.cooldown]_(Ranges!vars)
  <2>1. {ranging.position, account} = {"NONE"} => ranging.position = "NONE" /\ account = "NONE"
      OBVIOUS
  <2> QED BY <2>1, PartsApart, CountedKept DEF RangeRests
<1>7. Spec => []IInv
    BY <1>1, <1>2, PTL DEF Spec
<1>8. Spec => Classic!Rested
    BY <1>4, <1>7, PTL DEF Spec, Classic!Rested
<1>9. Spec => Simulated!Rested
    BY <1>5, <1>7, PTL DEF Spec, Simulated!Rested
<1>10. Spec => Ranges!Rested
    BY <1>6, <1>7, PTL DEF Spec, Ranges!Rested
<1> QED BY <1>3, <1>7, <1>8, <1>9, <1>10, PTL DEF CrossesTraded

\* THEOREM (MCRecords, RowsKept).  A client that has read the history of analyses to its
\* last page has been shown every one that was there when it began, however many have been
\* saved meanwhile, whatever its pages hold and whoever else saves and deletes, unless one
\* before it was deleted; an analysis has its details, or saving them failed or was cut
\* short (AnalysisRows); the summary in Redis is that of the row, or a thread has still to
\* clear it or has put back what it had read (StrategyRows).
THEOREM RowsAreKept == Spec => []RowsKept
<1> DEFINE IInv == ArchiveInv /\ SummariesInv
<1>1. Init => IInv
    BY ArchiveStarts, SummariesStart DEF Init
<1>2. IInv /\ [Next]_vars => IInv'
    BY PartsApart, ArchiveStep, SummariesStep
<1>3. IInv => RowsKept
    BY DEF ArchiveInv, SummariesInv, RowsKept
<1> QED BY <1>1, <1>2, <1>3, PTL DEF Spec
-----------------------------------------------------------------------------
(* The types of all of them, which rest on what is true of each.           *)

TalkInv ==
    /\ MonitorInv /\ CommandsInv /\ AlarmsInv /\ AlarmsTyped /\ ClientsInv /\ ClientsTyped
TradeInv ==
    /\ BacktestInv /\ PaperInv /\ PaperTyped /\ TrailingInv /\ CountedInv /\ RangesTyped
    /\ ScalpingTyped
StudyInv ==
    PagesInv /\ PagesTyped /\ StudiesInv /\ ArchiveInv /\ SummariesInv

LEMMA TalkStarts == Init => TalkInv
BY MonitorStarts, CommandsStart, AlarmsStart, AlarmsTypesStart, ClientsStart, ClientsTypesStart
   DEF Init, TalkInv

LEMMA TalkKept == TalkInv /\ [Next]_vars => TalkInv'
BY PartsApart, MonitorKept, CommandsKept, AlarmsKept, AlarmsTypesKept, ClientsKept,
   ClientsTypesKept DEF TalkInv

LEMMA TradeStarts == Init => TradeInv
BY BacktestBegins, PaperStarts, PaperTypesStart, TrailingStarts, CountedStarts, RangesTypesStart,
   ScalpingTypesStart DEF Init, TradeInv

LEMMA TradeKept == TradeInv /\ [Next]_vars => TradeInv'
BY PartsApart, BacktestKept, PaperKept, PaperTypesKept, TrailingKept, CountedKept,
   RangesTypesKept, ScalpingTypesKept DEF TradeInv

LEMMA StudyStarts == Init => StudyInv
BY PagesStart, PagesTypesStart, StudiesStart, ArchiveStarts, SummariesStart DEF Init, StudyInv

LEMMA StudyKept == StudyInv /\ [Next]_vars => StudyInv'
BY PartsApart, PagesKept, PagesTypesKept, StudiesKept, ArchiveStep, SummariesStep DEF StudyInv

\* THEOREM (MCRecords, TypesOK).  Every component keeps its variables within their types: no
\* candle of a strategy, no window of an analysis, no fill, key, command or cursor leaves its
\* range, whatever the sets of analyses, owners and threads.
THEOREM TypesAreKept == Spec => []TypesOK
<1> DEFINE IInv == TalkInv /\ TradeInv /\ StudyInv
<1>1. Init => IInv
    BY TalkStarts, TradeStarts, StudyStarts
<1>2. IInv /\ [Next]_vars => IInv'
    BY TalkKept, TradeKept, StudyKept
<1>3. IInv => TypesOK
  <2>1. TalkInv => Monitor!TypeOK /\ Commands!TypeOK /\ Alarms!TypeOK /\ Keys!TypeOK
      BY AlarmsTypes, ClientsTypes DEF TalkInv, MonitorInv, CommandsInv
  <2>2. TradeInv => /\ Simulated!TypeOK /\ Paper!TypeOK /\ Trailing!TypeOK /\ Ranges!TypeOK
                    /\ Classic!TypeOK
      BY PaperTypes, TrailingTypes, RangesTypes, ScalpingTypes DEF TradeInv, BacktestInv
  <2>3. StudyInv => Pages!TypeOK /\ Studies!TypeOK /\ Archive!TypeOK /\ Summaries!TypeOK
      BY PagesTypes, StudiesTypes DEF StudyInv, ArchiveInv, SummariesInv
  <2> QED BY <2>1, <2>2, <2>3 DEF TypesOK
<1> QED BY <1>1, <1>2, <1>3, PTL DEF Spec
=============================================================================
