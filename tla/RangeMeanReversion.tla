-------------------------- MODULE RangeMeanReversion --------------------------
(***************************************************************************)
(* The range strategy: RangeMeanReversionStrategy of                       *)
(* app/strategies/range_mean_reversion.py, as run_loop calls it, with a    *)
(* sync before every evaluation, and as a backtest does, with a sync only  *)
(* when its account changes.                                               *)
(*                                                                         *)
(* Prices and indicators are left open: an evaluation is given the last    *)
(* closed candle, whether its look-back is a range, whether the price is   *)
(* at the stop or a target of the range known, and the side that zone and  *)
(* RSI ask for.                                                            *)
(***************************************************************************)
EXTENDS Integers

CONSTANTS
  Uses,         \* how the strategy is called, with which cooldown_candles
  MaxInvalid,   \* max_range_invalid_candles
  EnableShort,  \* enable_short
  MaxCandle,    \* bound: the last candle
  MaxRestarts   \* bound

ConstantsOK ==
  /\ Uses \subseteq [live : BOOLEAN, cooldown : Nat]
  /\ {MaxInvalid, MaxCandle, MaxRestarts} \subseteq Nat /\ MaxInvalid > 0
  /\ EnableShort \in BOOLEAN

VARIABLES
  use,      \* one of Uses
  st,       \* the fields of the strategy
  held,     \* the position of the account, or of the backtest
  left,     \* history: last candle processed when the last position was given up
  waited,   \* history: candles the cooldown has turned away since
  restarts

vars == <<use, st, held, left, waited, restarts>>

Sides == {"LONG", "SHORT"}

\* priced: there is an entry price; entered: the entry candle, 0 if none is
\* known; known: a range is, with its boundaries; invalid: range_invalid_count.
States ==
  [position : Sides \cup {"NONE"}, priced : BOOLEAN, entered : 0..MaxCandle,
   last : 0..MaxCandle, cooldown : Nat, known : BOOLEAN, invalid : 0..MaxInvalid - 1]

\* candle: the last closed one, 0 if there are too few; range: their look-back is
\* one; level: what the price is at; wish: the side to enter.
Inputs ==
  [candle : 0..MaxCandle, range : BOOLEAN, level : {"stop", "target", "none"},
   wish : Sides \cup {"NONE"}]

TypeOK ==
  /\ use \in Uses
  /\ st \in States /\ st.cooldown =< use.cooldown
  /\ held \in Sides \cup {"NONE"}
  /\ left \in Int /\ waited \in Nat
  /\ restarts \in 0..MaxRestarts
  /\ st.position = "NONE" => ~st.priced /\ st.entered = 0

New ==
  [position |-> "NONE", priced |-> FALSE, entered |-> 0, last |-> 0, cooldown |-> 0,
   known |-> FALSE, invalid |-> 0]

Init ==
  /\ use \in Uses
  /\ st = New /\ held = "NONE"
  /\ left = -(use.cooldown + 1) /\ waited = 0
  /\ restarts = 0

-----------------------------------------------------------------------------
(* evaluate.                                                               *)

\* _exit_signal.
Exited(s) ==
  [s EXCEPT !.position = "NONE", !.priced = FALSE, !.entered = 0, !.cooldown = use.cooldown]

\* _check_tp_sl and what its callers ask: the stop closes whenever the range and
\* an entry price are known, a target not on the entry candle.
PriceExit(s, in) ==
  /\ s.position # "NONE" /\ s.priced /\ s.known
  /\ \/ in.level = "stop"
     \/ in.level = "target" /\ (in.candle = 0 \/ s.entered \notin {s.last} \ {0})

\* _detect_range's answer.  Only in a position is a candle without a range
\* counted, and the last range is never forgotten: the flat strategy has gone.
Ranged(s, in) ==
  IF in.range THEN [s EXCEPT !.known = TRUE, !.invalid = 0]
  ELSE [s EXCEPT !.invalid = (@ + 1) % MaxInvalid]

Wanted(in) == in.wish \in IF EnableShort THEN Sides ELSE {"LONG"}

\* Flat, and there is a range.
Flat(s, in) ==
  CASE s.cooldown > 0 -> [s EXCEPT !.cooldown = @ - 1]
    [] s.cooldown = 0 /\ Wanted(in) ->
         [s EXCEPT !.position = in.wish, !.priced = TRUE, !.entered = s.last]
    [] OTHER -> s

\* A new candle.
Processed(s, in) ==
  LET n == [s EXCEPT !.last = in.candle] IN
  CASE PriceExit(n, in) -> Exited(n)
    [] ~PriceExit(n, in) /\ n.position # "NONE" -> Ranged(n, in)
    [] n.position = "NONE" -> IF in.range THEN Flat(Ranged(n, in), in) ELSE n

\* No candle, an old one, or the last one again: only the price is looked at.
Evaluated(s, in) ==
  IF in.candle =< s.last THEN IF PriceExit(s, in) THEN Exited(s) ELSE s
  ELSE Processed(s, in)

\* The candle has been turned away by the cooldown.
TurnedAway(s, in) ==
  /\ in.candle > s.last /\ in.range
  /\ s.position = "NONE" /\ s.cooldown > 0

-----------------------------------------------------------------------------
(* sync_position_state.                                                    *)

Synced(s, side, priced) ==
  CASE side = "NONE" /\ s.position # "NONE" -> Exited(s)
    [] side # s.position /\ side # "NONE" ->
         [s EXCEPT !.position = side, !.priced = priced, !.entered = 0]
    [] side = s.position /\ side # "NONE" -> [s EXCEPT !.priced = priced]
    [] side = "NONE" /\ s.position = "NONE" ->
         [s EXCEPT !.cooldown = IF @ = 0 THEN use.cooldown ELSE @]

\* What the histories make of a look at in by the strategy in state s.
Noted(s, in) ==
  /\ left' = IF st.position # "NONE" /\ st'.position = "NONE" THEN st'.last ELSE left
  /\ waited' = IF {s.position, st'.position} # {"NONE"} THEN 0
               ELSE IF TurnedAway(s, in) THEN waited + 1 ELSE waited

-----------------------------------------------------------------------------
(* Its callers.                                                            *)

\* run_loop: sync, evaluation, and the order of the signal, which is executed or
\* not.  After it the entry candle is filled in if it is missing.
Round(in) ==
  /\ use.live
  /\ \E priced \in BOOLEAN :
       LET before == Synced(st, held, priced)
           after == Evaluated(before, in)
       IN /\ \/ st' = after /\ held' = held
             \/ /\ after.position # before.position
                /\ st' = IF after.position = "NONE" THEN Synced(after, "NONE", FALSE) ELSE after
                /\ held' = after.position
          /\ Noted(before, in)
  /\ UNCHANGED <<use, restarts>>

\* A backtest: the order is executed at the next open, if the balance allows it,
\* and the strategy is told.  The time it is given as its entry candle is the
\* open's, which no close ever has.
Candle(in) ==
  /\ ~use.live /\ in.candle > 0
  /\ LET after == Evaluated(st, in) IN
     \/ /\ after.position = st.position \/ after.position # "NONE"
        /\ st' = after /\ held' = held
     \/ /\ after.position # st.position
        /\ st' = [Synced(after, after.position, TRUE) EXCEPT !.entered = 0]
        /\ held' = after.position
  /\ Noted(st, in)
  /\ UNCHANGED <<use, restarts>>

\* A native stop, a liquidation, the user; or the backtest's own stop, which
\* tells the strategy at once.
Outside ==
  /\ IF use.live THEN held' \in (Sides \cup {"NONE"}) \ {held} /\ st' = st
     ELSE held # "NONE" /\ held' = "NONE" /\ st' = Synced(st, "NONE", FALSE)
  /\ left' = IF st.position # "NONE" /\ st'.position = "NONE" THEN st'.last ELSE left
  /\ UNCHANGED <<use, waited, restarts>>

\* The server restarts: a new strategy, which knows no range.
Restart ==
  /\ use.live /\ restarts < MaxRestarts
  /\ restarts' = restarts + 1
  /\ st' = New
  /\ left' = -(use.cooldown + 1) /\ waited' = 0
  /\ UNCHANGED <<use, held>>

\* There are too few candles, or the last is the same one, which is what an older
\* one is treated like, or one or two later (bound).  Inputs that nobody looks at
\* are left out.
Seen ==
  {i \in Inputs :
     /\ i.candle \in {0} \cup st.last .. st.last + 2
     /\ i.level # "none" => {st.position, held} # {"NONE"}
     /\ i.wish # "NONE" => i.range /\ i.candle > st.last /\ "NONE" \in {st.position, held}}

Next ==
  \/ \E in \in Seen : Round(in) \/ Candle(in)
  \/ Outside \/ Restart

Spec == Init /\ [][Next]_vars

-----------------------------------------------------------------------------
(* Properties.                                                             *)

\* A position the strategy opens comes at least Cooldown + 1 candles after the
\* one it gave up, whatever told it to give that up.
Rested ==
  [][{st.position, held} = {"NONE"} /\ st'.position # "NONE"
       => st'.last > left + use.cooldown]_vars

\* A position the strategy has opened itself can be closed by its levels at every
\* look, as long as the server is up and the account tells its entry price: its
\* range is known, however long the market has had none.
OwnLevelsKnown == st.position # "NONE" /\ st.entered # 0 => st.known

\* "Candles to wait after exit": no more candles than that are turned away.
WaitsNoLonger == waited =< use.cooldown
=============================================================================
