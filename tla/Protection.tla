------------------------------ MODULE Protection ------------------------------
(***************************************************************************)
(* The take-profit and stop-loss orders a strategy leaves on the exchange: *)
(* place_tp_sl_orders and cancel_tp_sl_orders of StrategyOrderManager, and *)
(* the parts of _execute_order, sync and stop that call them.              *)
(*                                                                         *)
(* Positions, all of one side, are numbered in the order they are opened;  *)
(* an order is named by the position it was placed for and its kind.  The  *)
(* loop and a request that stops the strategy share the summary, and       *)
(* either may run while the other awaits an answer.  With Algo the account *)
(* is a real one: TP/SL orders are placed with the exchange's algo         *)
(* service, which the calls that list and cancel orders do not reach.  A   *)
(* paper account keeps all orders in one place, where nothing ever         *)
(* triggers them.  A strategy with a trailing stop places none.            *)
(***************************************************************************)
EXTENDS Naturals

CONSTANTS
  Algo,         \* whether the client has place_algo_take_profit
  MaxPositions  \* bound: how many positions are opened

ConstantsOK == Algo \in BOOLEAN /\ MaxPositions \in Nat

VARIABLES
  position,  \* the open position on the exchange, 0 if flat
  opened,    \* the number of the last position opened
  held,      \* the position of the summary, 0 if flat
  orders,    \* the TP/SL orders open on the exchange
  ids,       \* summary.meta["tp_sl_orders"]
  placed,    \* what place_tp_sl_orders has placed and not stored yet
  loop,      \* where the strategy's loop is
  stopper    \* where the request that stops it is

summary == <<held, ids>>
exchange == <<position, opened, orders>>
vars == <<position, opened, held, orders, ids, placed, loop, stopper>>

Kinds == {"TP", "SL"}
Orders == (1..MaxPositions) \X Kinds

TypeOK ==
  /\ position \in 0..opened /\ opened \in 0..MaxPositions /\ held \in 0..opened
  /\ orders \subseteq Orders /\ ids \subseteq Orders /\ placed \subseteq Orders
  /\ loop \in {"off", "idle", "verify", "sweep", "TP", "SL", "store", "exited"}
  /\ stopper \in {"none", "close", "end"}

Init ==
  /\ position = 0 /\ opened = 0 /\ held = 0
  /\ orders = {} /\ ids = {} /\ placed = {}
  /\ loop = "off" /\ stopper = "none"

\* What get_open_orders lists and cancel_order reaches.
Reachable(some) == IF Algo THEN {} ELSE some

-----------------------------------------------------------------------------
(* The loop.                                                               *)

Start ==
  /\ loop = "off" /\ stopper = "none"
  /\ loop' = "idle"
  /\ UNCHANGED <<exchange, summary, placed, stopper>>

\* An opening order is filled.
Enter ==
  /\ loop = "idle" /\ held = 0 /\ position = 0
  /\ opened < MaxPositions
  /\ opened' = opened + 1 /\ position' = opened' /\ held' = opened'
  /\ loop' = "verify"
  /\ UNCHANGED <<orders, ids, placed, stopper>>

\* Ids of orders that are not listed are forgotten; if one of them is, or a real
\* account does not list its orders, nothing is placed.
Verify ==
  /\ loop = "verify"
  /\ \/ ids \cap Reachable(orders) = {} /\ ids' = {} /\ loop' = "sweep"
     \/ /\ ids # {} /\ (Algo \/ ids \cap Reachable(orders) # {})
        /\ ids' = ids /\ loop' = "idle"
  /\ UNCHANGED <<exchange, held, placed, stopper>>

\* Every TP/SL order of the symbol that is listed is cancelled.
Sweep ==
  /\ loop = "sweep"
  /\ orders' = orders \ Reachable(orders)
  /\ loop' = "TP" /\ placed' = {}
  /\ UNCHANGED <<position, opened, summary, stopper>>

\* How a call to place an order ends: what is taken, and what is told.  An answer
\* of the algo service may be lost.
Taken(kind) ==
  LET order == {<<held, kind>>}
  IN  {<<{}, {}>>, <<order, order>>} \cup (IF Algo THEN {<<order, {}>>} ELSE {})

\* The order is placed, or it fails; the loop goes on either way.  The stop is
\* also left out when it triggers on candle closes.
Place(kind) ==
  /\ loop = kind /\ held # 0
  /\ loop' = IF kind = "TP" THEN "SL" ELSE "store"
  /\ \E got \in Taken(kind) : orders' = orders \cup got[1] /\ placed' = placed \cup got[2]
  /\ UNCHANGED <<position, opened, summary, stopper>>

\* The summary was cleared since: there is nothing to place for.
PlaceNothing(kind) ==
  /\ loop = kind /\ held = 0
  /\ loop' = IF kind = "TP" THEN "SL" ELSE "store"
  /\ UNCHANGED <<exchange, summary, placed, stopper>>

Store ==
  /\ loop = "store"
  /\ ids' = placed /\ placed' = {}
  /\ loop' = "idle"
  /\ UNCHANGED <<exchange, held, stopper>>

\* place_tp_sl_orders is given up after 30 seconds.  A call it was making in a
\* thread still takes effect; that it does so at once is a bound.
Unstored ==
  IF held = 0 THEN {} ELSE {orders \cup got[1] : got \in UNION {Taken(k) : k \in Kinds \cap {loop}}}

TimeOut ==
  /\ loop \in {"sweep", "TP", "SL"}
  /\ orders' \in {orders} \cup Unstored
  /\ loop' = "idle" /\ placed' = {}
  /\ UNCHANGED <<position, opened, summary, stopper>>

\* A closing order is filled.
Exit ==
  /\ loop = "idle" /\ held # 0 /\ position = held
  /\ position' = 0 /\ held' = 0
  /\ loop' = "exited"
  /\ UNCHANGED <<opened, orders, ids, placed, stopper>>

\* Its orders are cancelled, unless none of them is listed.
Exited ==
  /\ loop = "exited"
  /\ orders' = IF ids \cap Reachable(orders) = {} THEN orders ELSE orders \ Reachable(ids)
  /\ ids' = {}
  /\ loop' = "idle"
  /\ UNCHANGED <<position, opened, held, placed, stopper>>

\* _clear_position_state_and_persist: the position is gone.
Sync ==
  /\ loop = "idle" /\ held # 0 /\ position # held
  /\ held' = 0
  /\ orders' = orders \ Reachable(ids) /\ ids' = {}
  /\ UNCHANGED <<position, opened, placed, loop, stopper>>

-----------------------------------------------------------------------------
(* The exchange, and the request that stops the strategy.                  *)

\* An order closes the whole position of the symbol, whichever it was placed for.
Trigger ==
  /\ Algo /\ position # 0
  /\ \E o \in orders : orders' = orders \ {o}
  /\ position' = 0
  /\ UNCHANGED <<opened, summary, placed, loop, stopper>>

\* The position is closed by the user, or it is liquidated.
Close ==
  /\ position # 0
  /\ position' = 0
  /\ UNCHANGED <<opened, orders, summary, placed, loop, stopper>>

StopCancel ==
  /\ stopper = "none" /\ loop # "off"
  /\ orders' = orders \ Reachable(ids) /\ ids' = {}
  /\ stopper' = "close"
  /\ UNCHANGED <<position, opened, held, placed, loop>>

\* What the strategy owns is closed, if that can be told and the order is filled.
StopClose ==
  /\ stopper = "close"
  /\ position' \in {position, 0}
  /\ stopper' = "end"
  /\ UNCHANGED <<opened, orders, summary, placed, loop>>

\* The task is cancelled at its await.
StopEnd ==
  /\ stopper = "end"
  /\ loop' = "off" /\ placed' = {} /\ stopper' = "none"
  /\ orders' \in {orders} \cup Unstored
  /\ UNCHANGED <<position, opened, summary>>

Next ==
  \/ Start \/ Enter \/ Verify \/ Sweep
  \/ \E kind \in Kinds : Place(kind) \/ PlaceNothing(kind)
  \/ Store \/ TimeOut \/ Exit \/ Exited \/ Sync
  \/ Trigger \/ Close
  \/ StopCancel \/ StopClose \/ StopEnd

Spec == Init /\ [][Next]_vars

-----------------------------------------------------------------------------
(* Properties.                                                             *)

\* "Cancel ALL existing TP/SL orders for this symbol before placing new ones ...
\* prevents orphaned TP/SL orders from previous positions from closing new
\* positions": a position that has an order of its own is closed by none that was
\* placed for an earlier one.
OnlyOwnOrdersClose ==
  [][\A o \in orders \ orders' :
       position # 0 /\ position' = 0 /\ (\E own \in orders : own[1] = position)
       => o[1] = position]_vars
=============================================================================
