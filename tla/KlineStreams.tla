---------------------------- MODULE KlineStreams ----------------------------
(***************************************************************************)
(* The candle stream of one symbol and interval as its strategies use it:  *)
(* WebSocketKlineManager (subscription count, lock, buffer, new-candle     *)
(* event), its WebSocketConnection, and the parts of start, stop, run_loop *)
(* and evaluate that call them.                                            *)
(*                                                                         *)
(* Candles are numbered; "now" is the one still forming.  A coroutine runs *)
(* from one await to the next, and so is one action; the REST fetch that   *)
(* seeds the buffer blocks the whole event loop, and candles go on closing *)
(* in the meantime.                                                        *)
(***************************************************************************)
EXTENDS Integers, Sequences, FiniteSets

CONSTANTS
  Strategies,   \* the strategies that trade the symbol at this interval
  Nobody,       \* the lock is free
  Limit,        \* how many candles an evaluation asks for
  MaxCandle,    \* bound: the last candle that forms
  MaxCount      \* bound: the subscription count is exact up to here

ConstantsOK ==
  /\ IsFiniteSet(Strategies)
  /\ Nobody \notin Strategies
  /\ Limit \in Nat /\ Limit > 1
  /\ MaxCandle \in Nat /\ MaxCandle >= Limit
  /\ MaxCount \in Nat /\ MaxCount > Cardinality(Strategies)

VARIABLES
  now,      \* the candle that is forming on the exchange
  socket,   \* closed candles sent to the socket and not yet handled
  link,     \* the connection: "none", "opening", "up" or "down"
  count,    \* subscription_counts[key]; 0 if there is none
  lock,     \* who holds the manager's lock across an await
  buffer,   \* the rows of the KlineBuffer
  step,     \* where each strategy is
  seen,     \* last_closed_candle_time of each strategy
  misread,  \* history: strategies that took a forming candle for a closed one
  trouble   \* history: what went wrong between socket and buffer

exchangeVars == <<now, socket>>
managerVars  == <<link, count, lock, buffer>>
vars == <<now, socket, link, count, lock, buffer, step, seen, misread, trouble>>

Candles == 1..MaxCandle
Rows == [candle : Candles, final : BOOLEAN]

\* start -> evaluate -> (fetch ->) rest -> waiting -> evaluate ...; "stopping"
\* waits for the lock to unsubscribe.
Steps == {"out", "start", "evaluate", "fetch", "rest", "waiting", "stopping"}
Looping == {"evaluate", "fetch", "rest", "waiting"}

TypeOK ==
  /\ now \in Candles
  /\ socket \in Seq(Candles)
  /\ link \in {"none", "opening", "up", "down"}
  /\ count \in 0..MaxCount
  /\ lock \in Strategies \cup {Nobody}
  /\ buffer \in Seq(Rows)
  /\ step \in [Strategies -> Steps]
  /\ seen \in [Strategies -> 0..MaxCandle]
  /\ misread \subseteq Strategies
  /\ trouble \subseteq {"overtaken", "missed"}
  /\ link = "none" => buffer = <<>> /\ count = 0

Init ==
  /\ now = Limit
  /\ socket = <<>>
  /\ link = "none"
  /\ count = 0
  /\ lock = Nobody
  /\ buffer = <<>>
  /\ step = [s \in Strategies |-> "out"]
  /\ seen = [s \in Strategies |-> 0]
  /\ misread = {}
  /\ trouble = {}

-----------------------------------------------------------------------------
(* The buffer.                                                             *)

\* add_kline: a row for the candle of the last row replaces it.
Added(rows, row) ==
  IF rows # <<>> /\ rows[Len(rows)].candle = row.candle
    THEN [rows EXCEPT ![Len(rows)] = row]
    ELSE Append(rows, row)

\* The last Limit candles as REST gives them: the last one is still forming,
\* whatever "x": True the conversion writes into it.
Fetched == [i \in 1..Limit |-> [candle |-> now - Limit + i, final |-> i < Limit]]

\* Variants: the first rows of the buffer are taken instead of the last; the last
\* row is taken for closed.
FirstRows(rows) == rows[Limit - 1]

\* What evaluate takes for the last closed candle: klines[:-1][-1].
LastClosed(rows) == rows[Len(rows) - 1]

\* evaluate processes a candle that is newer than the one it processed last.
Process(s, row) ==
  IF row.candle > seen[s]
    THEN /\ seen' = [seen EXCEPT ![s] = row.candle]
         /\ misread' = IF row.final THEN misread ELSE misread \cup {s}
    ELSE UNCHANGED <<seen, misread>>

-----------------------------------------------------------------------------
(* The count.  It grows with every round of every loop; beyond MaxCount it *)
(* is only known to be at least that.                                      *)

\* Variant: only the subscription that connects counts.
CountedOnce == count' = IF link = "none" THEN 1 ELSE count

Counted == count' = IF count < MaxCount THEN count + 1 ELSE count
Uncounted ==
  \E n \in {count - 1} \cup (IF count = MaxCount THEN {count} ELSE {}) : count' = n

-----------------------------------------------------------------------------
(* Strategies.                                                             *)

Goto(s, where) == step' = [step EXCEPT ![s] = where]

Start(s) ==
  /\ step[s] = "out"
  /\ Goto(s, "start")
  /\ seen' = [seen EXCEPT ![s] = 0]
  /\ misread' = misread \ {s}
  /\ UNCHANGED <<exchangeVars, managerVars, trouble>>

\* subscribe: the first one makes buffer and connection, and keeps the lock
\* until the connection is up or 20 s have passed.
Connect(s) ==
  /\ step[s] \in {"start", "evaluate", "rest"}
  /\ lock = Nobody
  /\ link = "none"
  /\ Counted
  /\ link' = "opening"
  /\ buffer' = <<>>
  /\ lock' = s
  /\ UNCHANGED <<exchangeVars, step, seen, misread, trouble>>

\* What follows a subscription: the loop, the fetch, or the wait for a candle.
Subscribed(s) ==
  Goto(s, CASE step[s] = "start"    -> "evaluate"
            [] step[s] = "evaluate" -> "fetch"
            [] step[s] = "rest"     -> "waiting")

\* wait_until_connected ends, whether the connection is up or not.
Connected(s) ==
  /\ lock = s
  /\ lock' = Nobody
  /\ Subscribed(s)
  /\ UNCHANGED <<exchangeVars, link, count, buffer, seen, misread, trouble>>

\* Every other subscription only counts.
Join(s) ==
  /\ \/ step[s] \in {"start", "rest"}
     \/ step[s] = "evaluate" /\ Len(buffer) < Limit
  /\ lock = Nobody
  /\ link # "none"
  /\ Counted
  /\ Subscribed(s)
  /\ UNCHANGED <<exchangeVars, link, lock, buffer, seen, misread, trouble>>

\* get_klines finds enough rows right after subscribing.
Read(s) ==
  /\ step[s] = "evaluate"
  /\ lock = Nobody
  /\ link # "none"
  /\ Len(buffer) >= Limit
  /\ Counted
  /\ Process(s, LastClosed(buffer))
  /\ Goto(s, "rest")
  /\ UNCHANGED <<exchangeVars, link, lock, buffer, trouble>>

\* get_klines has taken the lock again: no buffer, enough rows by now, or a
\* fetch that replaces the buffer's rows.
Fetch(s) ==
  /\ step[s] = "fetch"
  /\ lock = Nobody
  /\ \/ /\ link = "none"
        /\ UNCHANGED <<buffer, seen, misread, trouble>>
     \/ /\ Len(buffer) >= Limit
        /\ Process(s, LastClosed(buffer))
        /\ UNCHANGED <<buffer, trouble>>
     \/ /\ link # "none"
        /\ Len(buffer) < Limit
        /\ buffer' = Fetched
        /\ trouble' = IF socket = <<>> THEN trouble ELSE trouble \cup {"overtaken"}
        /\ Process(s, LastClosed(Fetched))
  /\ Goto(s, "rest")
  /\ UNCHANGED <<exchangeVars, link, count, lock>>

\* The fetch fails, and evaluate asks REST itself, in a thread.
FetchFails(s) ==
  /\ step[s] = "fetch"
  /\ lock = Nobody
  /\ link # "none"
  /\ Len(buffer) < Limit
  /\ Process(s, LastClosed(Fetched))
  /\ Goto(s, "rest")
  /\ UNCHANGED <<exchangeVars, managerVars, trouble>>

\* wait_for_new_candle times out; the strategy evaluates all the same.
Timeout(s) ==
  /\ step[s] = "waiting"
  /\ Goto(s, "evaluate")
  /\ UNCHANGED <<exchangeVars, managerVars, seen, misread, trouble>>

\* stop cancels the loop, which lets go of the lock, and goes on to unsubscribe;
\* so does a start that is refused after its subscription.
Stop(s) ==
  /\ step[s] \in Looping
  /\ Goto(s, "stopping")
  /\ lock' = IF lock = s THEN Nobody ELSE lock
  /\ UNCHANGED <<exchangeVars, link, count, buffer, seen, misread, trouble>>

\* A loop that ends with an exception does not unsubscribe.
Die(s) ==
  /\ step[s] \in Looping
  /\ lock # s
  /\ Goto(s, "out")
  /\ UNCHANGED <<exchangeVars, managerVars, seen, misread, trouble>>

\* unsubscribe: the last one disconnects and throws the buffer away.
Unsubscribe(s) ==
  /\ step[s] = "stopping"
  /\ lock = Nobody
  /\ Goto(s, "out")
  /\ \/ /\ count = 0
        /\ UNCHANGED <<socket, link, count, buffer>>
     \/ /\ count > 1
        /\ Uncounted
        /\ UNCHANGED <<socket, link, buffer>>
     \/ /\ count = 1
        /\ count' = 0
        /\ link' = "none"
        /\ buffer' = <<>>
        /\ socket' = <<>>
  /\ UNCHANGED <<now, lock, seen, misread, trouble>>

-----------------------------------------------------------------------------
(* The connection.                                                         *)

\* _handle_message passes on a closed candle: it is added, and the event is
\* set and cleared at once, which wakes exactly those that wait.
Deliver ==
  /\ link = "up"
  /\ socket # <<>>
  /\ socket' = Tail(socket)
  /\ buffer' = Added(buffer, [candle |-> Head(socket), final |-> TRUE])
  /\ step' = [s \in Strategies |-> IF step[s] = "waiting" THEN "evaluate" ELSE step[s]]
  /\ UNCHANGED <<now, link, count, lock, seen, misread, trouble>>

LinkUp ==
  /\ link \in {"opening", "down"}
  /\ link' = "up"
  /\ UNCHANGED <<exchangeVars, count, lock, buffer, step, seen, misread, trouble>>

\* What was in the socket is lost; _run connects again, and asks for nothing.
LinkLost ==
  /\ link = "up"
  /\ link' = "down"
  /\ socket' = <<>>
  /\ trouble' = IF socket = <<>> THEN trouble ELSE trouble \cup {"missed"}
  /\ UNCHANGED <<now, count, lock, buffer, step, seen, misread>>

CandleCloses ==
  /\ now < MaxCandle
  /\ now' = now + 1
  /\ socket' = IF link = "up" THEN Append(socket, now) ELSE socket
  /\ trouble' = IF link # "up" /\ buffer # <<>> THEN trouble \cup {"missed"} ELSE trouble
  /\ UNCHANGED <<managerVars, step, seen, misread>>

-----------------------------------------------------------------------------
\* What needs the lock.
Locking(s) ==
  \/ Connect(s) \/ Join(s) \/ Read(s) \/ Fetch(s) \/ FetchFails(s) \/ Unsubscribe(s)

Loop(s) == Locking(s) \/ Connected(s) \/ Timeout(s)

Next ==
  \/ \E s \in Strategies : Loop(s) \/ Start(s) \/ Stop(s) \/ Die(s)
  \/ Deliver \/ LinkUp \/ LinkLost \/ CandleCloses

\* A connection attempt ends by its timeout; the lock is handed on in turn;
\* _run reconnects for ever; the socket is read.
Fairness ==
  /\ \A s \in Strategies :
       /\ WF_vars(Connected(s) \/ Timeout(s))
       /\ SF_vars(Locking(s))
  /\ WF_vars(Deliver) /\ WF_vars(LinkUp)

Spec == Init /\ [][Next]_vars /\ Fairness

-----------------------------------------------------------------------------
(* Properties.                                                             *)

\* The count is incremented by every get_klines and every wait and decremented
\* once per stop: whatever the order of starts, refusals, stops and deaths, the
\* stream is never closed under a strategy whose loop goes on.
RunningHasStream ==
  \A s \in Strategies : step[s] \in Looping /\ lock # s => link # "none"

\* The rows are in the order of their candles, each candle once, unless a fetch
\* overtook candles that were still in the socket.
BufferOrdered ==
  "overtaken" \notin trouble =>
    \A i, j \in 1..Len(buffer) : i < j => buffer[i].candle < buffer[j].candle

\* evaluate drops the last row as the forming one.  The row before it is final,
\* unless candles were overtaken by a fetch or missed by the connection: a
\* strategy never trades on a candle as closed that is not.
OnlyClosedProcessed == trouble = {} => misread = {}

\* However many candles close while a strategy runs, it processes them up to the
\* last but one of those that have closed, although the event only wakes those
\* that wait at that moment: the candles of the bound stand for any number, after
\* which nothing more arrives.
ClosedIsProcessed ==
  \A s \in Strategies :
    (step[s] \in Looping /\ now = MaxCandle) ~>
      (seen[s] >= MaxCandle - 2 \/ step[s] \notin Looping \/ trouble # {})

=============================================================================
