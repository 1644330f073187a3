------------------------------- MODULE Backtest -------------------------------
(***************************************************************************)
(* A backtest: run_backtest of app/api/routes/backtesting.py, one step per *)
(* candle.  Two parties keep the position: the strategy, which decides on  *)
(* the closed candles, and the simulated account, which fills its signals, *)
(* looks for stops within the candle, and may refuse an entry.             *)
(*                                                                         *)
(* Prices are left open: what an exit gains is one of Gains, before fees.  *)
(***************************************************************************)
EXTENDS Integers

CONSTANTS
  Initial,      \* initial_balance
  Fee,          \* what an entry or an exit costs
  Gains,        \* what an exit may gain
  Cooldown,     \* cooldown_candles
  Last          \* bound: the last candle

Sides == {"LONG", "SHORT"}

ConstantsOK ==
  /\ Initial \in Nat /\ Fee \in Nat /\ Gains \subseteq Int
  /\ Cooldown \in Nat /\ Last \in Nat \ {0}

VARIABLES
  candle,     \* the candle under way; Last + 1: the backtest has ended
  believed,   \* the position of the strategy
  rest,       \* its cooldown_left
  trade,      \* the side of current_trade
  balance,    \* the balance
  booked,     \* sum of net_pnl over the closed trades
  leftAt,     \* history: the candle at which the last trade was closed
  refused     \* history: an entry was refused

vars == <<candle, believed, rest, trade, balance, booked, leftAt, refused>>

TypeOK ==
  /\ candle \in 0..Last + 1
  /\ {believed, trade} \subseteq Sides \cup {"NONE"}
  /\ rest \in 0..Cooldown
  /\ {balance, booked} \subseteq Int
  /\ leftAt \in -Cooldown - 1..Last
  /\ refused \in BOOLEAN

Init ==
  /\ candle = 0
  /\ believed = "NONE" /\ trade = "NONE"
  /\ rest = 0
  /\ balance = Initial /\ booked = 0
  /\ leftAt = -Cooldown - 1
  /\ refused = FALSE

-----------------------------------------------------------------------------
(* What the strategy does with a candle: its signal, and what it believes  *)
(* afterwards.                                                             *)

Opposite(side) == IF side = "LONG" THEN "SHORT" ELSE "LONG"

\* A signal: side, that of a trade it would open, and exit, that it has an
\* exit_reason.
Hold == [side |-> "NONE", exit |-> FALSE]

Evaluations ==
  IF believed = "NONE"
    THEN {[signal |-> Hold, believed |-> "NONE", rest |-> IF rest > 0 THEN rest - 1 ELSE 0]}
         \cup (IF rest > 0 THEN {}
               ELSE {[signal |-> [side |-> s, exit |-> FALSE], believed |-> s, rest |-> 0] :
                       s \in Sides})
    ELSE {[signal |-> Hold, believed |-> believed, rest |-> IF rest > 0 THEN rest - 1 ELSE 0],
          [signal |-> [side |-> Opposite(believed), exit |-> TRUE],
           believed |-> "NONE", rest |-> Cooldown]}

-----------------------------------------------------------------------------
(* What the account does with the signal.                                  *)

\* Variant: the entry's fee is taken from the balance with the exit's.
CloseTakingBothFees(gain) ==
  /\ balance' = balance + gain - Fee - Fee
  /\ booked' = booked + gain - Fee - Fee

\* The entry's fee has left the balance, and is part of the trade's net_pnl.
Close(gain) ==
  /\ balance' = balance + gain - Fee
  /\ booked' = booked + gain - Fee - Fee

\* sync_position_state(None), and the cooldown if the strategy has set none.
Closed(e) ==
  /\ believed' = "NONE"
  /\ rest' = IF e.rest = 0 \/ e.believed # "NONE" THEN Cooldown ELSE e.rest

\* By the strategy's exit, by its signal for the other side, or by a stop or a
\* target within the candle.  An entry of the same candle is skipped.
Exit(e) ==
  /\ trade # "NONE"
  /\ \/ e.signal.exit
     \/ e.signal.side = Opposite(trade)
     \/ e.signal = Hold
  /\ \E gain \in Gains : Close(gain)
  /\ trade' = "NONE" /\ leftAt' = candle
  /\ Closed(e)
  /\ UNCHANGED refused

Holding(e) ==
  /\ e.signal = Hold
  /\ believed' = e.believed /\ rest' = e.rest
  /\ UNCHANGED <<trade, balance, booked, leftAt, refused>>

\* Any signal opens a trade if there is none, an exit of the strategy's too.
Enter(e) ==
  /\ trade = "NONE" /\ e.signal.side # "NONE"
  /\ balance >= Fee
  /\ trade' = e.signal.side /\ believed' = e.signal.side /\ rest' = e.rest
  /\ balance' = balance - Fee
  /\ UNCHANGED <<booked, leftAt, refused>>

\* The size cannot be computed, or the balance does not pay the fee: the
\* strategy goes on with what it believes.
Refuse(e) ==
  /\ trade = "NONE" /\ e.signal.side # "NONE"
  /\ believed' = e.believed /\ rest' = e.rest
  /\ refused' = TRUE
  /\ UNCHANGED <<trade, balance, booked, leftAt>>

Candle ==
  /\ candle \in 1..Last
  /\ candle' = candle + 1
  /\ \E e \in Evaluations : Exit(e) \/ Holding(e) \/ Enter(e) \/ Refuse(e)

\* The first candles, too few for the averages, are skipped.
Warmup ==
  /\ candle = 0 /\ candle' = 1
  /\ UNCHANGED <<believed, rest, trade, balance, booked, leftAt, refused>>

\* After the last candle an open trade is closed at its price.
Finish ==
  /\ candle = Last + 1 /\ trade # "NONE"
  /\ \E gain \in Gains : Close(gain)
  /\ trade' = "NONE" /\ leftAt' = Last
  /\ UNCHANGED <<candle, believed, rest, refused>>

Next == Warmup \/ Candle \/ Finish

Spec == Init /\ [][Next]_vars

-----------------------------------------------------------------------------
(* Properties.                                                             *)

\* The final balance is explained by the trades of the result: what was paid
\* and earned is in one closed trade's net_pnl, or is the open trade's fee.
BooksBalance ==
  balance = Initial + booked - (IF trade = "NONE" THEN 0 ELSE Fee)

\* Strategy and account hold the same position, unless an entry was refused; a
\* trade the strategy does not know of there never is.
InStep ==
  candle <= Last => /\ trade # "NONE" => believed = trade
                    /\ ~refused => believed = trade

\* Like live: no trade is opened during the candles of the cooldown.
Rested == [][trade = "NONE" /\ trade' # "NONE" => candle > leftAt + Cooldown]_vars
=============================================================================
