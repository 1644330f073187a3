----------------------------- MODULE PaperAccount -----------------------------
(***************************************************************************)
(* A paper trading account: PaperBinanceClient                             *)
(* (app/core/paper_binance_client.py), which fills every order at once     *)
(* from the public price and keeps one net position per symbol, and what   *)
(* of it lasts: the balance in the account's row, written by a callback    *)
(* after each order, and the position in the strategy's row, written by    *)
(* the strategy later and read by a new client.                            *)
(*                                                                         *)
(* Prices are multiples of a number that makes their averages whole.       *)
(***************************************************************************)
EXTENDS Integers

CONSTANTS
  Initial,      \* the balance the account is created with
  Prices,       \* fill prices, spread included
  Quantities,
  FeeShare,     \* the fee is this share of the notional value
  MaxOrders,    \* bound
  MaxSize,      \* bound: of the position
  MaxClients    \* bound: how many clients the account has one after another

ConstantsOK ==
  /\ Initial \in Int
  /\ Prices \subseteq Nat \ {0} /\ Quantities \subseteq Nat \ {0}
  /\ FeeShare \in Nat \ {0}
  /\ \A price \in Prices : price % FeeShare = 0
  /\ MaxOrders \in Nat /\ MaxSize \in Nat /\ MaxClients \in Nat

VARIABLES
  position,     \* the client's position in the symbol
  balance,      \* the client's balance
  persisting,   \* the client has a balance_persistence_callback
  kept,         \* paper_balance in the account's row
  row,          \* the position in the strategy's row
  orders,       \* history: how many have been filled
  clients,      \* history: how many clients there have been
  fees, cash,   \* history: fees paid, and what the fills brought in
  torn          \* history: what a new client did not take over

vars == <<position, balance, persisting, kept, row, orders, clients, fees, cash, torn>>

Position == [side : {"NONE", "LONG", "SHORT"}, size : Nat, entry : Nat]
Flat == [side |-> "NONE", size |-> 0, entry |-> 0]

TypeOK ==
  /\ {position, row} \subseteq Position
  /\ {balance, kept, fees, cash} \subseteq Int
  /\ persisting \in BOOLEAN
  /\ orders \in 0..MaxOrders /\ clients \in 0..MaxClients
  /\ torn \subseteq {"balance", "position"}
  /\ \A p \in {position, row} : p.side = "NONE" <=> p.size = 0

\* The route that creates an account gives its client no callback; one that is
\* made from the row has it.
Init ==
  /\ position = Flat /\ row = Flat
  /\ balance = Initial /\ kept = Initial
  /\ persisting \in BOOLEAN
  /\ orders = 0 /\ clients = 0
  /\ fees = 0 /\ cash = 0
  /\ torn = {}

-----------------------------------------------------------------------------
(* Orders.                                                                 *)

Opened(side) == IF side = "BUY" THEN "LONG" ELSE "SHORT"

\* The average of two prices, weighted.
Average(p, quantity, price) == (p.entry * p.size + price * quantity) \div (p.size + quantity)

Gain(p, price) == IF p.side = "LONG" THEN price - p.entry ELSE p.entry - price

\* How much of an order against the position is carried out: what exceeds it is
\* not turned around, whether the order is reduce-only or not.
Applied(side, quantity) ==
  IF position.side \in {"NONE", Opened(side)} THEN quantity
  ELSE IF quantity < position.size THEN quantity ELSE position.size

\* _update_position.  A reduce-only order with nothing to reduce opens a position.
Updated(side, quantity, price) ==
  CASE position.side = "NONE" ->
         [side |-> Opened(side), size |-> quantity, entry |-> price]
    [] position.side = Opened(side) ->
         [position EXCEPT !.size = @ + quantity, !.entry = Average(position, quantity, price)]
    [] OTHER ->
         IF quantity >= position.size THEN Flat ELSE [position EXCEPT !.size = @ - quantity]

Realized(side, quantity, price) ==
  IF position.side \in {"NONE", Opened(side)} THEN 0
  ELSE Gain(position, price) * Applied(side, quantity)

\* place_order: the fee is that of the whole quantity.  The callback may fail,
\* which is logged.
PlaceOrder(side, quantity, price) ==
  LET fee == quantity * (price \div FeeShare)
      signed == IF side = "BUY" THEN -1 ELSE 1 IN
  /\ orders < MaxOrders /\ Updated(side, quantity, price).size =< MaxSize
  /\ orders' = orders + 1
  /\ position' = Updated(side, quantity, price)
  /\ balance' = balance - fee + Realized(side, quantity, price)
  /\ kept' \in {kept} \cup (IF persisting THEN {balance'} ELSE {})
  /\ fees' = fees + fee
  /\ cash' = cash + signed * Applied(side, quantity) * price
  /\ UNCHANGED <<persisting, row, clients, torn>>

-----------------------------------------------------------------------------
(* What lasts.                                                             *)

\* The strategy has updated its row.
SaveRow ==
  /\ row # position
  /\ row' = position
  /\ UNCHANGED <<position, balance, persisting, kept, orders, clients, fees, cash, torn>>

\* paper_balance of the row.
Loaded == kept

\* add_client, at the first use after a restart or when another account of the
\* user is loaded: the balance of the account's row, and, if the account is
\* found, which is looked for by its name, the position of the strategy's row.
NewClient ==
  /\ clients < MaxClients
  /\ clients' = clients + 1
  /\ balance' = Loaded
  /\ persisting' = TRUE
  /\ position' \in {row, Flat}
  /\ torn' = torn \cup (IF kept = balance THEN {} ELSE {"balance"})
                  \cup (IF position' = position THEN {} ELSE {"position"})
  /\ UNCHANGED <<kept, row, orders, fees, cash>>

Next ==
  \/ \E side \in {"BUY", "SELL"}, quantity \in Quantities, price \in Prices :
       PlaceOrder(side, quantity, price)
  \/ SaveRow \/ NewClient

Spec == Init /\ [][Next]_vars

-----------------------------------------------------------------------------
(* Properties.                                                             *)

\* What the position has cost and not yet given back.
Cost(p) == (IF p.side = "SHORT" THEN -p.size ELSE p.size) * p.entry

\* However a position was built up, averaged, reduced and closed, and over
\* however many clients, the balance is what the fills have brought in, less the
\* fees, while the cost of what is still held counts as an asset: unless a new
\* client found a row that was behind, or did not find the account.
BooksBalance ==
  torn = {} => balance = Initial - fees + cash + Cost(position)
=============================================================================
