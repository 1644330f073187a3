----------------------------- MODULE TradingLoop -----------------------------
(***************************************************************************)
(* One strategy, one symbol: the trading loop (app/services/               *)
(* strategy_executor.py) reads the position from Binance, evaluates the    *)
(* strategy and sends an order (strategy_order_manager.py) from a worker   *)
(* thread; the user data stream (strategy_persistence.py) writes the same  *)
(* summary whenever Binance reports a position; and Binance moves on its   *)
(* own.  A step is a stretch of code between two awaits.                   *)
(*                                                                         *)
(* Quantities are in lots, signed: positive is LONG.  An entry is for one  *)
(* lot.  The summary and the row of the database are written together and  *)
(* are one variable; the strategy's own position is set from it before     *)
(* each evaluation and is not kept.                                        *)
(***************************************************************************)
EXTENDS Integers, Sequences, FiniteSets

CONSTANTS
    Sides,          \* the sides the strategy enters: 1 is LONG, -1 is SHORT
    MaxLots,        \* what the margin allows, of either side
    MaxCandles,     \* bounds the candles that close
    MaxTroubles     \* bounds the troubles of a behaviour

(* What can go wrong, or come from outside.                                *)
(*   answer   an order was executed and its outcome never learnt           *)
(*   giveup   the loop stopped waiting for an order that was still to run  *)
(*   sync     the position could not be read: if get_open_position fails,  *)
(*            it answers that there is none; the rest of a read may fail too *)
(*   restart  the server restarted                                         *)
(*   closes   the position was closed: by a native TP or SL, or the user   *)
(*   adds     the user opened lots of his own                              *)
(*   stale    a position was taken over that was not the current one       *)
(*   beside   an entry was begun beside several lots that were there       *)
Troubles == {"answer", "giveup", "sync", "restart", "closes", "adds", "stale", "beside"}

ASSUME ParametersAssumption ==
    /\ Sides \subseteq {-1, 1}
    /\ MaxLots \in Nat \ {0}
    /\ MaxCandles \in Nat
    /\ MaxTroubles \in Nat

VARIABLES
    exch,       \* the position on Binance
    own,        \* history: what the strategy's orders contributed to it
    sum,        \* position_side and position_size of the summary
    inst,       \* position_instance_id: a position of trades, or 0
    trades,     \* the trades table, summed for each position_instance_id
    pc,         \* where the loop is
    read,       \* the position it has read from Binance
    gone,       \* the position whose close it is ingesting
    last,       \* last_closed_candle_time of the strategy
    order,      \* the signal being executed, and the order made of it
    late,       \* an order whose loop has given up waiting for it
    candle,     \* the candle that has closed last
    stream,     \* the positions that the user data stream has yet to apply
    clearing,   \* the position whose close it is ingesting, for the first of them
    trouble,    \* history: the troubles met
    troubles    \* how many

vars == <<exch, own, sum, inst, trades, pc, read, gone, last, order, late, candle,
          stream, clearing, trouble, troubles>>

row == <<sum, inst, trades>>
loop == <<pc, read, gone, last, order, late>>
outside == <<exch, own, candle, stream, clearing>>

Positions == -MaxLots .. MaxLots

(* prev is the summary's position when the order was begun; at says how    *)
(* far the order itself is.                                                *)
Orders == [d : {-1, 1}, exit : BOOLEAN, prev : Int, qty : Nat, reduce : BOOLEAN,
           at : {"signal", "sent", "filled", "rejected"}]

NoOrder == [d |-> 1, exit |-> FALSE, prev |-> 0, qty |-> 0, reduce |-> FALSE,
            at |-> "signal"]

Held == [inst : Nat, pos : Int]

Nothing == [inst |-> 0, pos |-> 0]

TradeSums == [side : {-1, 1}, bought : Nat, sold : Nat]

TypeOK ==
    /\ exch \in Positions /\ own \in Int /\ sum \in Int
    /\ trades \in Seq(TradeSums) /\ inst \in 0 .. Len(trades)
    /\ pc \in {"sync", "apply", "clear", "evaluate", "reconcile", "begin", "place", "decide",
              "recheck", "skip", "answer", "settle"}
    /\ read \in Positions /\ gone \in Held /\ clearing \in Held
    /\ order \in Orders /\ late \in Orders
    /\ candle \in 0 .. MaxCandles /\ last \in 0 .. candle
    /\ stream \in Seq(Positions)
    /\ trouble \subseteq Troubles /\ troubles \in 0 .. MaxTroubles

Init ==
    /\ exch = 0 /\ own = 0 /\ sum = 0
    /\ trades = <<>> /\ inst = 0
    /\ pc = "sync" /\ read = 0 /\ gone = Nothing
    /\ last = 0 /\ order = NoOrder /\ late = NoOrder
    /\ candle = 0
    /\ stream = <<>> /\ clearing = Nothing
    /\ trouble = {} /\ troubles = 0

Suffer(t) ==
    /\ troubles < MaxTroubles
    /\ troubles' = troubles + 1
    /\ trouble' = trouble \cup {t}

Sign(x) == IF x > 0 THEN 1 ELSE IF x < 0 THEN -1 ELSE 0
Size(x) == IF x < 0 THEN -x ELSE x
Least(x, y) == IF x < y THEN x ELSE y

(* A position read as x is taken over now. *)
TakenOver(x) == IF x = exch THEN trouble ELSE trouble \cup {"stale"}

-----------------------------------------------------------------------------
(* The ledger                                                              *)

(* Variant: a close takes the whole position.                              *)
OwnedIsAll(i, side) ==
    IF i # 0 /\ trades[i].side = side THEN Size(exch) ELSE 0

(* get_strategy_owned_quantity: entries less exits of the instance.        *)
Owned(i, side) ==
    IF i # 0 /\ trades[i].side = side /\ trades[i].sold < trades[i].bought
    THEN trades[i].bought - trades[i].sold ELSE 0

(* The position_instance_id of the last entry trade of a side, or 0. *)
LastEntry(side) ==
    LET entries == {i \in DOMAIN trades : trades[i].side = side} IN
    IF entries = {} THEN 0 ELSE CHOOSE i \in entries : \A j \in entries : j =< i

(* handle_external_position_close, for a position that was found closed:   *)
(* unless an exit is recorded, the closing order is looked for among the   *)
(* account's trades, found or not, and recorded as an exit.                *)
Ingested(held) ==
    IF held.inst = 0 THEN {trades}
    ELSE IF trades[held.inst].sold > 0 \/ trades[held.inst].side # Sign(held.pos) THEN {trades}
    ELSE {trades, [trades EXCEPT ![held.inst].sold = Size(held.pos)]}

-----------------------------------------------------------------------------
(* Binance and the world outside                                           *)

(* The order executes: the position changes and the stream reports it.     *)
(* What of the position the strategy made is never more than there is.     *)
Share(x, position) ==
    IF x * position =< 0 THEN 0 ELSE IF Size(x) =< Size(position) THEN x ELSE position

Move(x) ==
    /\ exch' = exch + x
    /\ own' = Share(own + x, exch + x)
    /\ stream' = Append(stream, exch + x)

(* A reduce-only order needs a position to reduce, and takes no more than  *)
(* there is; the margin is limited.  The client order id makes one order   *)
(* of all the retries of place_order.  It holds the price and the minute,  *)
(* so that one signal rarely meets that of another: nothing relies on it,  *)
(* and an order refused for it is one that fails before it is sent.        *)
Rejects(o) ==
    \/ o.reduce /\ exch * o.d >= 0
    \/ ~o.reduce /\ exch + o.d * o.qty \notin Positions

Executed(o) == IF o.reduce THEN Least(o.qty, Size(exch)) ELSE o.qty

(* Binance decides on the order that the loop waits for. *)
Exchange ==
    /\ pc = "answer" /\ order.at = "sent"
    /\ IF Rejects(order)
       THEN /\ order' = [order EXCEPT !.at = "rejected"]
            /\ UNCHANGED <<exch, own, stream>>
       ELSE /\ order' = [order EXCEPT !.at = "filled", !.qty = Executed(order)]
            /\ Move(order.d * Executed(order))
    /\ UNCHANGED <<row, pc, read, gone, last, late, candle, clearing, trouble, troubles>>

(* ... or on the one that a worker thread still had to send. *)
ExchangeLate ==
    /\ late # NoOrder
    /\ late' = NoOrder
    /\ IF Rejects(late)
       THEN UNCHANGED <<exch, own, stream>>
       ELSE Move(late.d * Executed(late))
    /\ UNCHANGED <<row, pc, read, gone, last, order, candle, clearing, trouble, troubles>>

CandleCloses ==
    /\ candle < MaxCandles
    /\ candle' = candle + 1
    /\ UNCHANGED <<exch, own, stream, clearing, trouble, troubles, row, loop>>

ClosedOutside ==
    /\ exch # 0
    /\ Suffer("closes")
    /\ exch' = 0 /\ own' = 0
    /\ stream' = Append(stream, 0)
    /\ UNCHANGED <<candle, clearing, row, loop>>

AddedOutside ==
    /\ Suffer("adds")
    /\ \E side \in {-1, 1} :
          /\ exch * side >= 0 /\ exch + side \in Positions
          /\ exch' = exch + side
          /\ stream' = Append(stream, exch + side)
    /\ UNCHANGED <<own, candle, clearing, row, loop>>

-----------------------------------------------------------------------------
(* The user data stream                                                    *)

(* apply_position_data: an open position goes to the summary.  A closed    *)
(* one clears it: at once, or if the summary says that the strategy has a  *)
(* position after its close was ingested, which waits half a second.       *)
StreamOpen ==
    /\ stream # <<>> /\ Head(stream) # 0
    /\ sum' = Head(stream)
    /\ trouble' = TakenOver(Head(stream))
    /\ stream' = Tail(stream)
    /\ UNCHANGED <<exch, own, inst, trades, loop, candle, clearing, troubles>>

StreamIngest ==
    /\ stream # <<>> /\ Head(stream) = 0
    /\ clearing = Nothing /\ sum # 0 /\ inst # 0
    /\ clearing' = [inst |-> inst, pos |-> sum]
    /\ UNCHANGED <<exch, own, row, loop, candle, stream, trouble, troubles>>

StreamClear ==
    /\ stream # <<>> /\ Head(stream) = 0
    /\ clearing # Nothing \/ sum = 0 \/ inst = 0
    /\ trades' \in Ingested(clearing)
    /\ sum' = 0 /\ inst' = 0
    /\ trouble' = TakenOver(0)
    /\ stream' = Tail(stream)
    /\ clearing' = Nothing
    /\ UNCHANGED <<exch, own, loop, candle, troubles>>

-----------------------------------------------------------------------------
(* The loop                                                                *)

(* get_open_position: there is no position, or there was an error.         *)
Reads ==
    \/ read' = exch /\ UNCHANGED <<trouble, troubles>>
    \/ exch # 0 /\ read' = 0 /\ Suffer("sync")

(* update_position_info reads the position ...                             *)
Sync ==
    /\ pc = "sync"
    /\ pc' = "apply"
    /\ Reads
    /\ UNCHANGED <<row, gone, last, order, late, outside>>

(* Variants: a position that is gone is not noticed; the position is taken *)
(* for another one when its size changes.                                  *)
ApplyIgnoringFlat ==
    /\ pc = "apply"
    /\ pc' = "evaluate"
    /\ sum' = IF read = 0 THEN sum ELSE read
    /\ UNCHANGED <<inst, trades, read, gone, last, order, late, trouble, troubles, outside>>

ApplyDroppingInstance ==
    /\ pc = "apply"
    /\ pc' = "evaluate"
    /\ sum' = read
    /\ inst' = IF sum = read THEN inst ELSE 0
    /\ UNCHANGED <<trades, read, gone, last, order, late, trouble, troubles, outside>>

(* ... and takes it over, unless it is gone and its close to be ingested.  *)
Apply ==
    /\ pc = "apply"
    /\ IF read = 0 /\ sum # 0 /\ inst # 0
       THEN /\ pc' = "clear"
            /\ gone' = [inst |-> inst, pos |-> sum]
            /\ UNCHANGED <<sum, inst, trouble>>
       ELSE /\ pc' = "evaluate"
            /\ sum' = read
            /\ inst' = IF read = 0 /\ sum # 0 THEN 0 ELSE inst
            /\ trouble' = TakenOver(read)
            /\ UNCHANGED gone
    /\ UNCHANGED <<trades, read, last, order, late, troubles, outside>>

SyncClear ==
    /\ pc = "clear"
    /\ pc' = "evaluate"
    /\ trades' \in Ingested(gone)
    /\ gone' = Nothing
    /\ sum' = 0 /\ inst' = 0
    /\ trouble' = TakenOver(0)
    /\ UNCHANGED <<read, last, order, late, troubles, outside>>

(* It failed, or took longer than 30 seconds: the loop goes on. *)
SyncFails ==
    /\ pc \in {"sync", "apply", "clear"}
    /\ Suffer("sync")
    /\ pc' = "evaluate" /\ gone' = Nothing
    /\ UNCHANGED <<row, read, last, order, late, outside>>

(* reconcile_position_state, every five minutes: a position without an     *)
(* instance is given that of the last entry, then the summary is corrected *)
(* and the instance of a position that is gone dropped.                    *)
BeginReconcile ==
    /\ pc = "evaluate"
    /\ pc' = "reconcile"
    /\ Reads
    /\ UNCHANGED <<row, gone, last, order, late, outside>>

Reconcile ==
    /\ pc = "reconcile"
    /\ pc' = "evaluate"
    /\ sum' = read
    /\ inst' = IF sum # 0 /\ read = 0 THEN 0
               ELSE IF sum # 0 /\ inst = 0 THEN LastEntry(Sign(sum)) ELSE inst
    /\ trouble' = TakenOver(read)
    /\ UNCHANGED <<trades, read, gone, last, order, late, troubles, outside>>

(* sync_position_state, then evaluate: an exit at any time, an entry only  *)
(* on a candle not yet processed, or nothing.                              *)
Signal(d, exit) ==
    /\ order' = [NoOrder EXCEPT !.d = d, !.exit = exit]
    /\ pc' = "begin"

(* Variant: an entry whatever the position is.                             *)
EvaluateInPosition ==
    /\ pc = "evaluate"
    /\ last' = candle
    /\ \/ pc' = "sync" /\ UNCHANGED order
       \/ sum # 0 /\ Signal(-Sign(sum), TRUE)
       \/ candle > last /\ \E d \in Sides : Signal(d, FALSE)
    /\ UNCHANGED <<row, read, gone, late, trouble, troubles, outside>>

Evaluate ==
    /\ pc = "evaluate"
    /\ last' = candle
    /\ \/ pc' = "sync" /\ UNCHANGED order
       \/ sum # 0 /\ Signal(-Sign(sum), TRUE)
       \/ sum = 0 /\ candle > last /\ \E d \in Sides : Signal(d, FALSE)
    /\ UNCHANGED <<row, read, gone, late, trouble, troubles, outside>>

(* _execute_order notes the summary's position before anything else. *)
BeginOrder ==
    /\ pc = "begin"
    /\ pc' = "place"
    /\ order' = [order EXCEPT !.prev = sum]
    /\ trouble' = IF ~order.exit /\ Size(sum) > 1 THEN trouble \cup {"beside"} ELSE trouble
    /\ UNCHANGED <<row, read, gone, last, late, troubles, outside>>

(* A response of Binance, or one made up for an order that was skipped,    *)
(* with the quantity executed, is recorded: the order manager updates the  *)
(* summary, the executor finds the instance the trade belongs to, saves    *)
(* the trade and updates the summary again.  Unless the order opened a     *)
(* position, it then drops the instance.                                   *)
AfterFill(s, x, d) ==
    IF s * d >= 0 THEN x ELSE IF Size(x) >= Size(s) THEN 0 ELSE s + x

(* Variant: the trade of an entry is not saved, the instance is.           *)
TaggedUnsaved(i, o, q) ==
    LET side == IF o.exit THEN -o.d ELSE o.d IN
    IF q = 0 \/ i = 0 \/ i > Len(trades) THEN trades
    ELSE IF trades[i].side # side THEN trades
    ELSE IF o.exit THEN [trades EXCEPT ![i].sold = @ + q]
    ELSE [trades EXCEPT ![i].bought = @ + q]

Tagged(i, o, q) ==
    LET side == IF o.exit THEN -o.d ELSE o.d IN
    IF q = 0 \/ i = 0 THEN trades
    ELSE IF i > Len(trades) THEN Append(trades, [side |-> side, bought |-> q, sold |-> 0])
    ELSE IF trades[i].side # side THEN trades
    ELSE IF o.exit THEN [trades EXCEPT ![i].sold = @ + q]
    ELSE [trades EXCEPT ![i].bought = @ + q]

(* tpsl: the exit reason is one of TP and SL. *)
Respond(o, q, tpsl) ==
    LET closing == \/ o.prev * o.d < 0 /\ Size(o.prev) =< q
                   \/ o.prev = 0 /\ o.exit /\ tpsl
        opening == ~o.exit /\ q > 0 /\ (o.prev = 0 \/ Size(o.prev) = q)
        flat == o.prev * o.d =< 0 /\ Size(o.prev) =< q /\ (o.prev # 0 \/ q = 0)
        found == IF closing THEN LastEntry(-o.d) ELSE 0
        i == IF found # 0 THEN found
             ELSE IF opening THEN Len(trades) + 1
             ELSE IF inst = 0 /\ sum # 0 /\ ~flat THEN LastEntry(Sign(sum))
             ELSE inst
        drops == /\ o.exit \/ o.prev * o.d < 0
                 /\ inst # 0 \/ (found = 0 /\ i # 0)
    IN
    /\ sum' = AfterFill(AfterFill(sum, o.d * q, o.d), o.d * q, o.d)
    /\ trades' = Tagged(i, o, q)
    /\ inst' = i
    /\ pc' = IF drops THEN "settle" ELSE "sync"
    /\ order' = NoOrder

(* execute_order reads the position ...                                    *)
Place ==
    /\ pc = "place"
    /\ pc' = "decide"
    /\ Reads
    /\ UNCHANGED <<row, gone, last, order, late, outside>>

(* ... and decides what the signal means: to close, then only what the     *)
(* ledger says is owned; or else an entry.                                 *)
Decide ==
    LET current == IF read # 0 THEN read ELSE sum
        owned == Owned(inst, Sign(current))
    IN
    /\ pc = "decide"
    /\ \/ /\ current * order.d < 0 /\ owned = 0
          /\ \E tpsl \in BOOLEAN : Respond(order, 0, tpsl)
       \/ /\ current * order.d < 0 /\ owned # 0
          /\ order' = [order EXCEPT !.qty = Least(owned, Size(current)), !.reduce = TRUE]
          /\ pc' = "recheck"
          /\ UNCHANGED row
       \/ /\ current * order.d >= 0
          /\ order' = [order EXCEPT !.qty = 1, !.at = "sent"]
          /\ pc' = "answer"
          /\ UNCHANGED row
    /\ UNCHANGED <<read, gone, last, late, trouble, troubles, outside>>

(* The position is read once more before a reduce-only order is sent, and  *)
(* the order skipped if it is gone.                                        *)
Recheck ==
    /\ pc = "recheck"
    /\ Reads
    /\ IF read' = 0
       THEN /\ pc' = "skip"
            /\ UNCHANGED order
       ELSE /\ pc' = "answer"
            /\ order' = [order EXCEPT !.at = "sent"]
    /\ UNCHANGED <<row, gone, last, late, outside>>

Skip ==
    /\ pc = "skip"
    /\ \E tpsl \in BOOLEAN : Respond(order, 0, tpsl)
    /\ UNCHANGED <<read, gone, last, late, trouble, troubles, outside>>

(* The order is given up before it is sent, by an error of a check or of a *)
(* read, or after Binance rejected it.                                     *)
OrderFails ==
    /\ pc \in {"place", "decide", "recheck"} \/ order.at = "rejected"
    /\ pc' = "sync" /\ order' = NoOrder
    /\ UNCHANGED <<row, read, gone, last, late, trouble, troubles, outside>>

Record ==
    /\ order.at = "filled"
    /\ \E tpsl \in BOOLEAN : Respond(order, order.qty, tpsl)
    /\ UNCHANGED <<read, gone, last, late, trouble, troubles, outside>>

(* The order was executed, but its answer was lost, or read as an error    *)
(* (a retry after -1021 is), or its status could not be verified.          *)
AnswerLost ==
    /\ order.at = "filled"
    /\ Suffer("answer")
    /\ \/ pc' = "sync" /\ order' = NoOrder /\ UNCHANGED row
       \/ \E tpsl \in BOOLEAN : Respond(order, 0, tpsl)
    /\ UNCHANGED <<read, gone, last, late, outside>>

(* The summary was broadcast; the instance of the position is dropped.     *)
Settle ==
    /\ pc = "settle"
    /\ pc' = "sync"
    /\ inst' = 0
    /\ UNCHANGED <<sum, trades, read, gone, last, order, late, trouble, troubles, outside>>

(* 60 seconds have passed.  The worker thread goes on. *)
GiveUp ==
    /\ pc \in {"answer", "settle"} /\ late = NoOrder
    /\ Suffer("giveup")
    /\ late' = IF order.at = "sent" THEN order ELSE NoOrder
    /\ pc' = "sync" /\ order' = NoOrder
    /\ UNCHANGED <<row, read, gone, last, outside>>

(* The server stops and the strategy is started again with its row. *)
Restart ==
    /\ Suffer("restart")
    /\ pc' = "sync" /\ read' = 0 /\ gone' = Nothing /\ last' = 0
    /\ order' = NoOrder /\ late' = NoOrder
    /\ stream' = <<>> /\ clearing' = Nothing
    /\ UNCHANGED <<exch, own, row, candle>>

-----------------------------------------------------------------------------
Loop ==
    \/ Sync \/ Apply \/ SyncClear \/ SyncFails \/ BeginReconcile \/ Reconcile \/ Evaluate
    \/ BeginOrder \/ Place \/ Decide \/ Recheck \/ Skip \/ OrderFails
    \/ Record \/ AnswerLost \/ Settle \/ GiveUp

Stream == StreamOpen \/ StreamIngest \/ StreamClear

World == Exchange \/ ExchangeLate \/ CandleCloses \/ ClosedOutside \/ AddedOutside \/ Restart

Next == Loop \/ Stream \/ World

(* What the loop does where it only has to wait. *)
Step ==
    \/ Sync \/ Apply \/ SyncClear \/ Reconcile \/ BeginOrder \/ Place \/ Decide \/ Recheck
    \/ Skip \/ OrderFails \/ Record \/ Settle

(* What the loop awaits has a timeout, and Binance answers.  It reconciles *)
(* once in five minutes, not for ever.                                     *)
Fairness == WF_vars(Step) /\ SF_vars(Evaluate) /\ WF_vars(Exchange) /\ WF_vars(Stream)

Spec == Init /\ [][Next]_vars /\ Fairness

-----------------------------------------------------------------------------
(* The strategy never adds to a position of its own, though the answers of *)
(* orders are lost, the server restarts and the user trades the symbol:    *)
(* execute_order does not look whether the position is already there.      *)
SinglePosition ==
    trouble \cap {"giveup", "sync", "stale"} = {} => Size(own) =< 1

(* An exit reduces the position and never reverses it, although it is sent *)
(* without reduceOnly when execute_order finds no position to close.       *)
ExitReduces ==
    exch * exch' >= 0 /\ Size(exch') < Size(exch)

ExitExecutes ==
    order.at = "sent" /\ order'.at = "filled" /\ order.exit

ExitsReduce ==
    [][ExitExecutes /\ trouble \subseteq {"answer", "restart", "adds"} => ExitReduces]_vars

(* While the strategy has a share in the position, an exit takes nothing   *)
(* but that share: what the user added to it stays.  The trade of an entry *)
(* begun beside several lots may be booked to an earlier instance, whose   *)
(* exits are then for too much.                                            *)
ExitsTakeOwnLots ==
    [][ExitExecutes /\ own # 0 /\ "beside" \notin trouble => exch' - exch = own' - own]_vars

(* Between two rounds of the loop the ledger says of a position that it is *)
(* the strategy's, as far as it is: only then will an exit close it.  That *)
(* takes the answers of all orders, and that the user opens at most more,  *)
(* and not several lots just before an entry.                              *)
OwnedIsRecorded ==
    pc = "sync" /\ own # 0 /\ trouble \subseteq {"adds"} => Owned(inst, Sign(own)) = Size(own)

(* Whatever happened, the row ends up showing Binance's position.          *)
RowSettles == <>[](sum = exch)

(* When an order has been recorded, with nothing else going on, the row    *)
(* that is shown to the user is the position on Binance.                   *)
RecordedIsShown ==
    [][pc = "answer" /\ pc' \in {"settle", "sync"} /\ trouble = {} /\ trouble' = {} => sum' = exch']_vars

(* A signal closes a position only if the strategy owns some of it, at     *)
(* least when all that Binance reported has been taken over: a position    *)
(* that the user opened is left as it is.                                  *)
OnlyOwnedIsClosed ==
    [][pc = "decide" /\ pc' = "recheck" /\ stream = <<>> /\ trouble \subseteq {"closes", "adds"}
       => own # 0]_vars
=============================================================================
