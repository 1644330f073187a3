------------------------------ MODULE TradeRows ------------------------------
(***************************************************************************)
(* The rows of the orders of one strategy, as TradeService of              *)
(* app/services/trade_service.py writes and reads them: the row, which is  *)
(* there once per order, the completed trade that an exit's row leads to,  *)
(* and the sorted set of recent orders in Redis.                           *)
(*                                                                         *)
(* Orders are numbered in the order of their timestamps.  An exit has two  *)
(* that may save it: whoever closed the position, with the strategy's      *)
(* reason for it, and handle_external_position_close, which runs when the  *)
(* user data stream reports the close and takes it for one from outside.   *)
(* From its last look to the end of its work neither lets the event loop   *)
(* go, so that one save is one step.                                       *)
(*                                                                         *)
(* An entry of the sorted set is the JSON of an order: one that is saved   *)
(* with other values, or read back from its row, where what it left out    *)
(* has been filled in, is another member of the set.                       *)
(***************************************************************************)
EXTENDS Integers, FiniteSets, FiniteSetsExt, Sequences

CONSTANTS
    MaxOrders,      \* bound on the orders
    Limit,          \* how many a reader asks for
    Kept,           \* how many entries of the sorted set are kept
    None

ConstantsOK ==
    /\ MaxOrders \in Nat /\ Limit \in Nat \ {0} /\ Kept \in Nat
    /\ None \notin {"SIGNAL", "EXTERNAL_CLOSE"}

VARIABLES
    executed,       \* the exchange's orders: is it an exit, has it no gaps to fill in
    saving,         \* the order that its strategy has still to save, or None
    noticed,        \* the exit that the stream's task has still to save, or None
    closing,        \* saved exits whose completed trade the strategy has to create
    rows,           \* the reason in the row of each saved order
    completed,      \* the reason in the completed trade of each exit
    cache,          \* the sorted set
    old,            \* orders that are more than a day old
    shown           \* the answer just read, its orders and how many rows it has, or None

vars == <<executed, saving, noticed, closing, rows, completed, cache, old, shown>>

Orders == DOMAIN executed
Reasons == {None, "SIGNAL", "EXTERNAL_CLOSE"}
Entry(k, reason, form) == [order |-> k, reason |-> reason, form |-> form]
Entries == [order : 1..MaxOrders, reason : Reasons, form : {"answer", "trades", "row"}]

TypeOK ==
    /\ executed \in Seq([exit : BOOLEAN, whole : BOOLEAN]) /\ Len(executed) <= MaxOrders
    /\ saving \in Orders \cup {None} /\ noticed \in Orders \cup {None}
    /\ closing \subseteq DOMAIN rows
    /\ DOMAIN rows \subseteq Orders /\ DOMAIN completed \subseteq Orders
    /\ \A k \in DOMAIN rows : rows[k] \in Reasons
    /\ \A k \in DOMAIN completed : completed[k] \in Reasons
    /\ cache \subseteq Entries
    /\ old \in 0..MaxOrders
    /\ shown = None \/ shown \in [orders : SUBSET Orders, number : 0..Limit]

Nothing == [k \in {} |-> None]

Init ==
    /\ executed = <<>>
    /\ saving = None /\ noticed = None /\ closing = {}
    /\ rows = Nothing /\ completed = Nothing
    /\ cache = {} /\ old = 0 /\ shown = None

-----------------------------------------------------------------------------
\* The strategy's reason for an order: only exits have one.
Reason(k) == IF executed[k].exit THEN "SIGNAL" ELSE None

\* f with k mapped to v.
With(f, k, v) == [x \in DOMAIN f \cup {k} |-> IF x = k THEN v ELSE f[x]]

\* What zadd and expire leave, or nothing new when Redis fails.
Cached(entries) == cache' \in {cache, cache \cup entries}

\* The latest entries; which of those that have one timestamp, their text decides.
Newest(entries) ==
    {kept \in SUBSET entries :
        /\ Cardinality(kept) = Min({Kept, Cardinality(entries)})
        /\ \A e \in kept, d \in entries \ kept : d.order <= e.order}

\* ... and what zremrangebyrank leaves of that when an order has been saved.
CachedSaved(entries) ==
    Cached(entries) \/ cache' \in Newest(cache \cup entries)

\* _order_response_to_trade_dict fills in side, average price, notional and order
\* type where the answer has none; what is read back from the row differs by that.
Form(k, form) == IF executed[k].whole THEN "row" ELSE form

\* An order is executed for the strategy, or a position closed without it.
Execute(order, own) ==
    /\ Len(executed) < MaxOrders
    /\ own => saving = None
    /\ ~own => order.exit
    /\ executed' = Append(executed, order)
    /\ saving' = IF own THEN Len(executed') ELSE saving
    /\ shown' = None
    /\ UNCHANGED <<noticed, closing, rows, completed, cache, old>>

\* handle_external_position_close, up to the end of its wait: there was no trade
\* of the exit, half a second ago nor now.
Notice(k) ==
    /\ noticed = None
    /\ executed[k].exit /\ k \notin DOMAIN rows
    /\ noticed' = k
    /\ shown' = None
    /\ UNCHANGED <<executed, saving, closing, rows, completed, cache, old>>

\* Variant: the completed trade keeps its reason.
ReasonedRowOnly(k, reason) ==
    /\ rows' = With(rows, k, reason)
    /\ UNCHANGED completed

\* save_trade on an order that has a row: a reason other than EXTERNAL_CLOSE goes
\* into the row and into the completed trades that end with it.
Reasoned(k, reason) ==
    /\ rows' = With(rows, k, reason)
    /\ completed' = IF k \in DOMAIN completed THEN With(completed, k, reason) ELSE completed

\* ... on one that has none; a unique index on the order's id keeps it single.
Inserted(k, reason) ==
    /\ rows' = With(rows, k, reason)
    /\ UNCHANGED completed

Saved(k, reason, form) ==
    /\ \/ k \notin DOMAIN rows /\ Inserted(k, reason)
       \/ /\ k \in DOMAIN rows
          /\ IF reason \in {None, "EXTERNAL_CLOSE"}
               THEN UNCHANGED <<rows, completed>>
               ELSE Reasoned(k, reason)
    /\ CachedSaved({Entry(k, reason, Form(k, form))})

\* The strategy saves its order.  The sorted set has it before the row is
\* committed, which may fail.
Save ==
    /\ saving # None
    /\ \/ /\ Saved(saving, Reason(saving), "answer")
          /\ closing' = IF executed[saving].exit THEN closing \cup {saving} ELSE closing
       \/ /\ CachedSaved({Entry(saving, Reason(saving), Form(saving, "answer"))})
          /\ UNCHANGED <<rows, completed, closing>>
    /\ saving' = None
    /\ shown' = None
    /\ UNCHANGED <<executed, noticed, old>>

\* The strategy creates the completed trade, unless there is one.
Complete(k) ==
    /\ k \in closing
    /\ closing' = closing \ {k}
    /\ completed' = IF k \in DOMAIN completed THEN completed ELSE With(completed, k, Reason(k))
    /\ shown' = None
    /\ UNCHANGED <<executed, saving, noticed, rows, cache, old>>

\* The rest of handle_external_position_close: an order that the strategy has saved
\* is its own; the exchange's trades make up an answer for any other.
SaveNoticed ==
    /\ noticed # None
    /\ IF noticed \in DOMAIN rows /\ rows[noticed] \notin {None, "EXTERNAL_CLOSE"}
         THEN UNCHANGED <<rows, completed, cache>>
         ELSE /\ rows' = IF noticed \in DOMAIN rows THEN rows
                         ELSE With(rows, noticed, "EXTERNAL_CLOSE")
              /\ completed' = IF noticed \in DOMAIN completed THEN completed
                              ELSE With(completed, noticed, "EXTERNAL_CLOSE")
              /\ CachedSaved({Entry(noticed, "EXTERNAL_CLOSE", Form(noticed, "trades"))})
    /\ noticed' = None
    /\ shown' = None
    /\ UNCHANGED <<executed, saving, closing, old>>

-----------------------------------------------------------------------------
(* Reading.                                                                *)

\* At most as many as were asked for.
Answer(orders, number) == [orders |-> orders, number |-> Min({Limit, number})]

\* zrangebyscore from a day ago, the earliest first: the entries' orders.
Recent ==
    LET entries == {e \in cache : e.order > old}
        before(k) == {e \in entries : e.order < k} IN
    Answer({e.order : e \in {e \in entries : Cardinality(before(e.order)) < Limit}},
           Cardinality(entries))

\* get_user_trades: the rows, the latest first.
Latest ==
    LET before(k) == {j \in DOMAIN rows : j > k} IN
    Answer({k \in DOMAIN rows : Cardinality(before(k)) < Limit}, Cardinality(DOMAIN rows))

\* Only a full answer is taken from the sorted set.
Hit == Recent.number = Limit

\* get_recent_trades: without a hit the rows are read, and added to the set.
Read ==
    \/ Hit /\ shown' = Recent /\ UNCHANGED cache
    \/ ~Hit /\ shown' = Latest /\ Cached({Entry(k, rows[k], "row") : k \in Latest.orders})
    \/ shown' = Latest /\ UNCHANGED cache               \* Redis does not answer

GetRecentTrades ==
    /\ Read
    /\ UNCHANGED <<executed, saving, noticed, closing, rows, completed, old>>

\* A day later, and without an access for as long: the set expires.
Age ==
    /\ old < Len(executed)
    /\ old' \in old + 1..Len(executed)
    /\ cache' \in {cache, {}}
    /\ shown' = None
    /\ UNCHANGED <<executed, saving, noticed, closing, rows, completed>>

-----------------------------------------------------------------------------
Next ==
    \/ \E order \in [exit : BOOLEAN, whole : BOOLEAN], own \in BOOLEAN : Execute(order, own)
    \/ \E k \in Orders : Notice(k) \/ Complete(k)
    \/ Save \/ SaveNoticed \/ GetRecentTrades \/ Age

Spec == Init /\ [][Next]_vars

-----------------------------------------------------------------------------
(* Properties.                                                             *)

\* Row and completed trade of an exit give the same reason for it, and it is the
\* strategy's as soon as the strategy has saved the order, whichever of the two
\* paths came first and however the completed trade came about.
ReasonsAgree ==
    /\ \A k \in DOMAIN completed : k \in DOMAIN rows /\ completed[k] = rows[k]
    /\ \A k \in closing : rows[k] = Reason(k)

\* An answer shorter than what was asked for leaves no row out, whatever writes to
\* Redis have failed or expired.
NothingHidden ==
    shown # None /\ shown.number < Limit => shown.orders = DOMAIN rows
==============================================================================
