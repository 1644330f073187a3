----------------------------- MODULE ManualTrading -----------------------------
(***************************************************************************)
(* Manual positions of one account, symbol and side, in one-way mode:      *)
(* ManualTradingService (open, close, TP/SL), the rows it keeps, and the   *)
(* user data stream that tells the runner of positions that were closed    *)
(* elsewhere.  No strategy trades the symbol, and nobody else opens        *)
(* positions of it.                                                        *)
(*                                                                         *)
(* The exchange has one amount for the side; every manual position counts  *)
(* into it with the same quantity, and a request to close takes all or     *)
(* half of it.  Each request has its own database session.  On a paper     *)
(* account the exchange is a client in memory: it ignores reduce_only, has *)
(* no user data stream, and never triggers an order.                       *)
(***************************************************************************)
EXTENDS Integers, Sequences, FiniteSets, FiniteSetsExt

CONSTANTS
  Side,       \* "LONG" or "SHORT"
  Positions,  \* manual positions (bound)
  Calls,      \* requests to close (bound)
  None,       \* a call that has not begun
  MaxEvents   \* bound on the events under way

ConstantsOK ==
  /\ Side \in {"LONG", "SHORT"}
  /\ IsFiniteSet(Positions) /\ IsFiniteSet(Calls) /\ None \notin Positions
  /\ MaxEvents \in Nat

VARIABLES
  paper,    \* whether the account is a paper account
  amount,   \* what is open on the exchange, in halves of a position; below zero if of
            \* the other side
  row,      \* the rows of manual positions
  stops,    \* TP/SL orders open on the exchange, by the position they were placed for
  call,     \* the requests to close
  events,   \* position events sent and not handled
  last      \* what the last event handled was, if within two seconds

vars == <<paper, amount, row, stops, call, events, last>>

Quantity == 2
Statuses == {"none", "filled", "lost", "OPEN", "PARTIAL_CLOSE", "CLOSED"}
Unsaved == {"none", "filled", "lost"}

TypeOK ==
  /\ paper \in BOOLEAN /\ amount \in Int
  /\ row \in [Positions -> [status : Statuses, remaining : 0..Quantity]]
  /\ stops \subseteq Positions
  /\ call \in [Calls -> [position : Positions \cup {None}, remaining : 0..Quantity,
                         quantity : 0..Quantity, step : {"none", "cancel", "order", "filled", "done"}]]
  /\ events \in Seq(Int)
  /\ last \in {"none", "long", "short", "flat"}

Init ==
  /\ paper \in BOOLEAN /\ amount = 0
  /\ row = [p \in Positions |-> [status |-> "none", remaining |-> 0]]
  /\ stops = {}
  /\ call = [c \in Calls |-> [position |-> None, remaining |-> 0, quantity |-> 0, step |-> "none"]]
  /\ events = <<>>
  /\ last = "none"

-----------------------------------------------------------------------------
(* The exchange.                                                           *)

\* The amount an event carries: below zero for a short.
Signed(n) == IF Side = "LONG" THEN n ELSE -n

Moves(n) ==
  /\ amount' = n
  /\ IF paper THEN UNCHANGED events
     ELSE Len(events) < MaxEvents /\ events' = Append(events, Signed(n))

\* An order against what is open closes at most that.
Buys(q) == Moves(IF amount < 0 /\ amount + q > 0 THEN 0 ELSE amount + q)

\* A reduce-only order is rejected if nothing is open; on a paper account it opens
\* the other side.
Sells(q) ==
  /\ paper \/ amount > 0
  /\ Moves(IF amount > 0 /\ amount < q THEN 0 ELSE amount - q)

\* What is open when some orders are and those of p are cancelled: cancel_order does
\* not reach the exchange's algo orders.
Cancelled(p) == IF paper THEN stops \ {p} ELSE stops

\* A TP/SL order closes the whole amount; so may the user, or a liquidation.
Trigger ==
  /\ ~paper /\ amount > 0
  /\ Moves(0)
  /\ stops' \in {stops} \cup {stops \ {p} : p \in stops}
  /\ UNCHANGED <<paper, row, call, last>>

\* The process is restarted: what it was doing is forgotten, and so is what a paper
\* client held, of which only the strategies' positions are restored.
Restart ==
  /\ amount' = (IF paper THEN 0 ELSE amount)
  /\ stops' = (IF paper THEN {} ELSE stops)
  /\ row' = [p \in Positions |-> IF row[p].status = "filled" THEN [row[p] EXCEPT !.status = "lost"]
                                ELSE row[p]]
  /\ call' = [c \in Calls |-> IF call[c].step = "none" THEN call[c] ELSE [call[c] EXCEPT !.step = "done"]]
  /\ events' = <<>> /\ last' = "none"
  /\ UNCHANGED paper

-----------------------------------------------------------------------------
(* Opening.                                                                *)

\* The market order is filled.
Open(p) ==
  /\ row[p].status = "none"
  /\ Buys(Quantity)
  /\ row' = [row EXCEPT ![p].status = "filled"]
  /\ UNCHANGED <<paper, stops, call, last>>

\* What is open when TP/SL orders have been placed for p, or have failed, or
\* were not asked for.
Attached(p, some) == {some, some \cup {p}}

\* The row is saved, or what comes between the fill and that fails: the position is
\* open and has no row.
Save(p) ==
  /\ row[p].status = "filled"
  /\ stops' \in Attached(p, stops)
  /\ \/ row' = [row EXCEPT ![p] = [status |-> "OPEN", remaining |-> Quantity]]
     \/ row' = [row EXCEPT ![p].status = "lost"]
  /\ UNCHANGED <<paper, amount, call, events, last>>

\* modify_tp_sl: the old orders are cancelled, as asked; new ones are placed.
Modify(p) ==
  /\ row[p].status \notin Unsaved
  /\ stops' \in Attached(p, stops) \cup Attached(p, Cancelled(p))
  /\ UNCHANGED <<paper, amount, row, call, events, last>>

-----------------------------------------------------------------------------
(* Closing.  The status of the row is not looked at; a remaining quantity  *)
(* of zero counts as the whole quantity.                                   *)

Begin(c, p) ==
  /\ call[c].step = "none"
  /\ row[p].status \notin Unsaved
  /\ LET remaining == IF row[p].remaining = 0 THEN Quantity ELSE row[p].remaining
     IN  \E q \in {1, remaining} :
           call' = [call EXCEPT ![c] = [position |-> p, remaining |-> remaining,
                                        quantity |-> q, step |-> "cancel"]]
  /\ UNCHANGED <<paper, amount, row, stops, events, last>>

\* That an order is not cancelled is ignored.
CancelStops(c) ==
  /\ call[c].step = "cancel"
  /\ stops' = Cancelled(call[c].position)
  /\ call' = [call EXCEPT ![c].step = "order"]
  /\ UNCHANGED <<paper, amount, row, events, last>>

Order(c) ==
  /\ call[c].step = "order"
  /\ Sells(call[c].quantity)
  /\ call' = [call EXCEPT ![c].step = "filled"]
  /\ UNCHANGED <<paper, row, stops, last>>

\* The order is rejected, or the exchange's answer lost: the request ends and saves
\* nothing.
Fails(c) ==
  /\ call[c].step = "order"
  /\ \/ UNCHANGED <<amount, events>>
     \/ ~paper /\ Sells(call[c].quantity)
  /\ call' = [call EXCEPT ![c].step = "done"]
  /\ UNCHANGED <<paper, row, stops, last>>

\* What was asked for counts as closed, from the quantity read at the beginning.
Record(c) ==
  /\ call[c].step = "filled"
  /\ LET left == call[c].remaining - call[c].quantity
     IN  row' = [row EXCEPT ![call[c].position] =
                   [status |-> IF left = 0 THEN "CLOSED" ELSE "PARTIAL_CLOSE",
                    remaining |-> left]]
  /\ call' = [call EXCEPT ![c].step = "done"]
  /\ UNCHANGED <<paper, amount, stops, events, last>>

-----------------------------------------------------------------------------
(* The user data stream.                                                   *)

\* What an event is remembered by: its side and whether it opens.
Key(n) == IF n = 0 THEN "flat" ELSE IF n > 0 THEN "long" ELSE "short"

\* Variant: rows that are closed have nothing left.
ClosedToNothing ==
  row' = [p \in Positions |-> IF row[p].status = "OPEN" THEN [status |-> "CLOSED", remaining |-> 0]
                              ELSE row[p]]

\* The quantity that was left stays in the row.
ClosedExternally ==
  row' = [p \in Positions |-> IF row[p].status = "OPEN" THEN [row[p] EXCEPT !.status = "CLOSED"]
                              ELSE row[p]]

\* _on_user_data_position_update.  An event like the last one is dropped within
\* two seconds; one whose amount is not above zero closes the open rows.
Deliver ==
  /\ events # <<>>
  /\ events' = Tail(events)
  /\ \/ last = Key(Head(events)) /\ UNCHANGED <<row, last>>
     \/ /\ last' \in {Key(Head(events)), "none"}
        /\ IF Head(events) > 0 THEN UNCHANGED row ELSE ClosedExternally
  /\ UNCHANGED <<paper, amount, stops, call>>

Next ==
  \/ Trigger \/ Deliver \/ Restart
  \/ \E p \in Positions : Open(p) \/ Save(p) \/ Modify(p)
  \/ \E c \in Calls :
       \/ \E p \in Positions : Begin(c, p)
       \/ CancelStops(c) \/ Order(c) \/ Fails(c) \/ Record(c)

Spec == Init /\ [][Next]_vars

-----------------------------------------------------------------------------
(* Properties.                                                             *)

\* The rows never tell of less than is open: what requests that overlap, that read
\* a quantity since changed, or that end without an answer write down as closed was
\* closed, and an event of an earlier position that closes the row of an open one
\* leaves its quantity.  What no row tells of is an opening that was not saved.
Told(p) ==
  IF row[p].status \in Unsaved THEN IF row[p].status = "none" THEN 0 ELSE Quantity
  ELSE row[p].remaining

NothingForgotten == amount <= MapThenSumSet(Told, Positions)
=============================================================================
