----------------------------- MODULE TrailingStop -----------------------------
(***************************************************************************)
(* The trailing stop of a position: TrailingStopManager in                 *)
(* app/strategies/trailing_stop.py, and what the scalping strategies do    *)
(* with it (app/strategies/scalping.py: _check_tp_sl, sync_position_state).*)
(*                                                                         *)
(* Percentages are numerators over Denominator, and a level, which is a    *)
(* price times a percentage, is kept as the product.                       *)
(***************************************************************************)
EXTENDS Integers

CONSTANTS
  Denominator,
  TakeProfit,     \* take_profit_pct
  StopLoss,       \* stop_loss_pct
  Activation,     \* trailing_stop_activation_pct, which is the step too
  Prices,         \* what the market may show
  MaxRestarts     \* bound

ConstantsOK ==
  /\ {Denominator, TakeProfit, StopLoss, Activation, MaxRestarts} \subseteq Nat
  /\ Denominator % 10 = 0
  /\ 0 < TakeProfit /\ TakeProfit < Denominator
  /\ 0 < StopLoss /\ StopLoss < Denominator
  /\ Activation < Denominator
  /\ Prices \subseteq Nat \ {0}

VARIABLES
  side,         \* position
  entry,        \* entry_price
  managed,      \* trailing_stop is not None
  best,         \* best_price
  activated,
  tp, sl,       \* current_tp and current_sl, times Denominator
  restarts

vars == <<side, entry, managed, best, activated, tp, sl, restarts>>

Sides == {"LONG", "SHORT"}

TypeOK ==
  /\ side \in Sides \cup {"NONE"}
  /\ {entry, best} \subseteq Nat \ {0}
  /\ managed \in BOOLEAN /\ activated \in BOOLEAN
  /\ {tp, sl} \subseteq Nat
  /\ restarts \in 0..MaxRestarts
  /\ managed => side # "NONE"

-----------------------------------------------------------------------------
(* Levels.                                                                 *)

Raised(price, pct) == price * (Denominator + pct)
Lowered(price, pct) == price * (Denominator - pct)

TakeProfitOf(s, price) ==
  IF s = "LONG" THEN Raised(price, TakeProfit) ELSE Lowered(price, TakeProfit)
StopLossOf(s, price) ==
  IF s = "LONG" THEN Lowered(price, StopLoss) ELSE Raised(price, StopLoss)

\* In the direction that pays.
Above(s, a, b) == IF s = "LONG" THEN a > b ELSE a < b

\* The step is cut to a tenth, the activation is not.
Step == IF 10 * Activation > Denominator THEN Denominator \div 10 ELSE Activation

\* price has moved from by pct, or at all if that is zero.
Moved(s, from, price, pct) ==
  IF pct = 0 THEN Above(s, price, from)
  ELSE IF s = "LONG" THEN price * Denominator >= Raised(from, pct)
  ELSE price * Denominator <= Lowered(from, pct)

Init ==
  /\ side = "NONE" /\ managed = FALSE /\ activated = FALSE
  /\ entry \in Prices /\ best = entry
  /\ tp = 0 /\ sl = 0
  /\ restarts = 0

\* A new TrailingStopManager.
Manage(s, price) ==
  /\ managed' = TRUE
  /\ best' = price
  /\ activated' = (Activation = 0)
  /\ tp' = TakeProfitOf(s, price)
  /\ sl' = StopLossOf(s, price)

Enter(s, price) ==
  /\ side = "NONE"
  /\ side' = s /\ entry' = price
  /\ Manage(s, price)
  /\ UNCHANGED restarts

-----------------------------------------------------------------------------
(* A look at the price.                                                    *)

\* Variant: the levels follow every price, once activated.
UpdateEither(price) ==
  /\ activated' = (activated \/ Moved(side, entry, price, Activation))
  /\ IF activated'
       THEN best' = price /\ tp' = TakeProfitOf(side, price) /\ sl' = StopLossOf(side, price)
       ELSE UNCHANGED <<best, tp, sl>>

\* update: activation is measured from the entry, a step from the best price;
\* the levels move only if both improve.
Update(price) ==
  /\ activated' = (activated \/ Moved(side, entry, price, Activation))
  /\ IF activated' /\ Moved(side, best, price, Step)
       THEN /\ best' = price
            /\ IF /\ Above(side, TakeProfitOf(side, price), tp)
                  /\ Above(side, StopLossOf(side, price), sl)
                 THEN tp' = TakeProfitOf(side, price) /\ sl' = StopLossOf(side, price)
                 ELSE UNCHANGED <<tp, sl>>
       ELSE UNCHANGED <<best, tp, sl>>

\* The price, or the candle's close for the stop, has come to a level.
Hit(price, close, target, stop) ==
  \/ ~Above(side, target, price * Denominator)
  \/ ~Above(side, close * Denominator, stop)

Leave ==
  /\ side' = "NONE" /\ managed' = FALSE
  /\ UNCHANGED <<entry, restarts>>

\* _check_tp_sl with the trailing stop.
Trail(price, close) ==
  /\ side # "NONE" /\ managed
  /\ Update(price)
  /\ IF Hit(price, close, tp', sl') THEN Leave ELSE UNCHANGED <<side, entry, managed, restarts>>

\* Without one: fixed levels, which the entry candle leaves alone.
Fixed(price, close) ==
  /\ side # "NONE" /\ ~managed
  /\ Hit(price, close, TakeProfitOf(side, entry), StopLossOf(side, entry))
  /\ Leave
  /\ UNCHANGED <<best, activated, tp, sl>>

\* The strategy leaves for another reason, or finds the account flat.
Close ==
  /\ side # "NONE"
  /\ Leave
  /\ UNCHANGED <<best, activated, tp, sl>>

-----------------------------------------------------------------------------
(* sync_position_state.                                                    *)

\* Another entry price: the fill's, or that of a position that has grown.  Also
\* a stop that was lost comes back.
Averaged(price) ==
  /\ side # "NONE" /\ price # entry
  /\ entry' = price
  /\ Manage(side, price)
  /\ UNCHANGED <<side, restarts>>

\* The account holds the other side: the stop is dropped, and stays away.
Mismatch(price) ==
  /\ side # "NONE"
  /\ side' = (IF side = "LONG" THEN "SHORT" ELSE "LONG")
  /\ entry' = price /\ managed' = FALSE
  /\ UNCHANGED <<best, activated, tp, sl, restarts>>

\* A new strategy object is told of the position: it trails from the entry.
Restart ==
  /\ side # "NONE" /\ restarts < MaxRestarts
  /\ restarts' = restarts + 1
  /\ Manage(side, entry)
  /\ UNCHANGED <<side, entry>>

Next ==
  \/ \E price \in Prices :
       \/ \E s \in Sides : Enter(s, price)
       \/ \E close \in Prices : Trail(price, close) \/ Fixed(price, close)
       \/ Averaged(price) \/ Mismatch(price)
  \/ Close \/ Restart

Spec == Init /\ [][Next]_vars

-----------------------------------------------------------------------------
(* Properties.                                                             *)

\* The levels keep their distance from the best price: the best price never
\* moves on without them, although the code updates them under a condition of
\* its own.
LevelsFollowBest ==
  managed => tp = TakeProfitOf(side, best) /\ sl = StopLossOf(side, best)

\* While a position keeps its entry price, and the server is up, neither of its
\* levels moves back.
Tightens ==
  [][managed /\ managed' /\ side' = side /\ entry' = entry /\ restarts' = restarts =>
       ~Above(side, tp, tp') /\ ~Above(side, sl, sl')]_vars
=============================================================================
