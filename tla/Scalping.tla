------------------------------- MODULE Scalping -------------------------------
(***************************************************************************)
(* One EMA scalping strategy: EmaScalpingStrategy of                       *)
(* app/strategies/scalping.py, with the runner's sync before an evaluation *)
(* and the order after it, which may not be filled.                        *)
(*                                                                         *)
(* Prices, averages and indicators are left open: an evaluation is given   *)
(* the last closed candle, where the fast average is of the slow one, and  *)
(* what the stop, the separation, the filters and the 5m trend say.  The   *)
(* position on the exchange may also change by itself.                     *)
(*                                                                         *)
(* Side and Biased are constants because ReverseScalping is this strategy  *)
(* with other values of them.                                              *)
(***************************************************************************)
EXTENDS Integers

CONSTANTS
  Side,         \* the side a golden and a death cross point to
  Biased,       \* the sides that are not entered against the 5m trend
  EnableShort,  \* enable_short
  Params,       \* the parameter sets a strategy may have
  Cooldown,     \* cooldown_candles
  Window,       \* trend_entry_max_candles_after_cross
  PerRegime,    \* trend_entry_max_per_regime
  MaxCandle     \* bound: the last candle

Sides == {"LONG", "SHORT"}
Modes == {"cross_only", "cross_or_trend", "ema_alignment"}
ParamSets ==
  [mode : Modes, trailing : BOOLEAN, crossExit : BOOLEAN, unlimited : BOOLEAN, separate : BOOLEAN]

ConstantsOK ==
  /\ Side \in [{"golden", "death"} -> Sides] /\ Side["golden"] # Side["death"]
  /\ Biased \subseteq Sides
  /\ EnableShort \in BOOLEAN
  /\ Params \subseteq ParamSets
  /\ Cooldown \in Nat /\ Window \in Nat /\ PerRegime \in Nat \ {0} /\ MaxCandle \in Nat

VARIABLES
  params,   \* the parameters, fixed when the strategy is made
  st,       \* the fields of the strategy
  actual,   \* the position on the exchange
  left,     \* history: last candle processed when the last position was given up
  taken     \* history: what was entered since the cross that armed last

vars == <<params, st, actual, left, taken>>

\* entered is the entry candle, 0 if none; trailing, that there is a trailing
\* stop; prev, where the averages were; regime, armed and used, the follow-up
\* regime; viaTrend, that the position was a follow-up.
States ==
  [position : Sides \cup {"NONE"}, entered : 0..MaxCandle, trailing : BOOLEAN,
   last : 0..MaxCandle, prev : {"none", "above", "equal", "below"}, cooldown : 0..Cooldown,
   regime : Sides \cup {"none"}, armed : 0..MaxCandle, used : 0..PerRegime, viaTrend : BOOLEAN]

\* candle: the last closed one; ema: the fast average to the slow one; hit: the
\* price reaches a stop, a target or the giveback; far: the averages are far
\* enough apart; passed: the filters let the side in that is asked about (no
\* evaluation asks about two); up: the 5m trend.
Inputs ==
  [candle : 1..MaxCandle, ema : {"above", "equal", "below"}, hit : BOOLEAN,
   far : BOOLEAN, passed : BOOLEAN, up : BOOLEAN]

TypeOK ==
  /\ params \in Params
  /\ st \in States
  /\ actual \in Sides \cup {"NONE"}
  /\ left \in -(Cooldown + 1)..MaxCandle
  /\ taken \in [cross : BOOLEAN, followUps : Nat]
  /\ (st.regime = "none") <=> (st.armed = 0)
  /\ st.position = "NONE" => ~st.trailing

New ==
  [position |-> "NONE", entered |-> 0, trailing |-> FALSE, last |-> 0, prev |-> "none",
   cooldown |-> 0, regime |-> "none", armed |-> 0, used |-> 0, viaTrend |-> FALSE]

Init ==
  /\ params \in Params
  /\ st = New
  /\ actual = "NONE"
  /\ left = -(Cooldown + 1)
  /\ taken = [cross |-> FALSE, followUps |-> 0]

-----------------------------------------------------------------------------
(* The regime of follow-up entries.                                        *)

Cleared(s) == [s EXCEPT !.regime = "none", !.armed = 0, !.used = 0]
Armed(s, side) == [s EXCEPT !.regime = side, !.armed = s.last, !.used = 0]

WindowOpen(s) ==
  /\ s.armed # 0
  /\ s.last > s.armed
  /\ params.unlimited \/ (Window > 0 /\ s.last - s.armed <= Window)

-----------------------------------------------------------------------------
(* Leaving and entering a position.                                        *)

\* Variant: the trailing stop of the last position is kept.
ExitedTrailing(s) ==
  [(IF s.viaTrend THEN [s EXCEPT !.viaTrend = FALSE] ELSE Cleared(s))
     EXCEPT !.position = "NONE", !.entered = 0, !.cooldown = Cooldown]

\* After a follow-up the regime stays, after any other entry it goes.
Exited(s) ==
  [(IF s.viaTrend THEN [s EXCEPT !.viaTrend = FALSE] ELSE Cleared(s))
     EXCEPT !.position = "NONE", !.entered = 0, !.trailing = FALSE, !.cooldown = Cooldown]

Entered(s, side) ==
  [Cleared(s) EXCEPT !.viaTrend = FALSE, !.position = side, !.entered = s.last,
                     !.trailing = params.trailing]

FollowedUp(s, side) ==
  [s EXCEPT !.used = @ + 1, !.viaTrend = TRUE, !.position = side, !.entered = s.last,
            !.trailing = params.trailing]

\* _passes_entry_filters, enable_short and the 5m trend.
Allowed(side, in) ==
  /\ in.passed
  /\ side = "SHORT" => EnableShort
  /\ side \in Biased => ~in.up

-----------------------------------------------------------------------------
(* evaluate.                                                               *)

\* The side the averages point to, and the side they have crossed to.
Aligned(ema) ==
  CASE ema = "above" -> Side["golden"]
    [] ema = "below" -> Side["death"]
    [] OTHER -> "none"
Crossed(prev, ema) == IF prev \in {"none", ema} THEN "none" ELSE Aligned(ema)

\* _check_tp_sl: on the entry candle only a trailing stop may close, but the
\* guard is lifted while an older candle is looked at.
PriceExit(s, in) ==
  /\ s.position # "NONE"
  /\ in.hit
  /\ s.entered # s.last \/ s.trailing \/ in.candle < s.last

\* Variant: every evaluation takes one from the cooldown.
RecheckedCounting(s, in) ==
  IF PriceExit(s, in) THEN Exited(s)
  ELSE [s EXCEPT !.cooldown = IF @ > 0 THEN @ - 1 ELSE 0]

\* No new candle: only the price is looked at.  An exit on an older candle
\* leaves the entry candle as it was ("finally").
Rechecked(s, in) ==
  IF ~PriceExit(s, in) THEN s
  ELSE IF in.candle < s.last THEN [Exited(s) EXCEPT !.entered = s.entered]
  ELSE Exited(s)

\* A cross arms its regime, whatever keeps it from being entered.
CrossEntered(s, side, in) ==
  LET a == Armed(s, side) IN IF in.far /\ Allowed(side, in) THEN Entered(a, side) ELSE a

FollowUp(s, in) ==
  /\ params.mode = "cross_or_trend"
  /\ s.regime = Aligned(in.ema) /\ s.regime \in Sides
  /\ WindowOpen(s)
  /\ s.used < PerRegime
  /\ params.separate => in.far
  /\ Allowed(s.regime, in)

Flat(s, cross, in) ==
  CASE params.mode = "ema_alignment" ->
         IF in.far /\ Aligned(in.ema) # "none" /\ Allowed(Aligned(in.ema), in)
           THEN Entered(s, Aligned(in.ema)) ELSE s
    [] params.mode = "cross_only" /\ ~in.far -> s
    [] params.mode # "ema_alignment" /\ (params.mode = "cross_only" => in.far) ->
         IF cross # "none" THEN CrossEntered(s, cross, in)
         ELSE IF FollowUp(s, in) THEN FollowedUp(s, s.regime) ELSE s

Held(s, cross, in) ==
  IF params.crossExit /\ cross \notin {"none", s.position} /\ s.entered # in.candle
    THEN Exited(s) ELSE s

\* A new candle.  One that finds the strategy flat and in its cooldown, even the
\* one that ends it, is not looked at for a cross.
Processed(s, in) ==
  LET n == [s EXCEPT !.last = in.candle, !.prev = in.ema,
                     !.cooldown = IF @ > 0 THEN @ - 1 ELSE 0]
      cross == Crossed(s.prev, in.ema)
  IN  IF s.position = "NONE"
        THEN IF s.cooldown > 0 THEN n ELSE Flat(n, cross, in)
        ELSE IF PriceExit(n, in) THEN Exited(n) ELSE Held(n, cross, in)

Evaluated(s, in) == IF in.candle <= s.last THEN Rechecked(s, in) ELSE Processed(s, in)

-----------------------------------------------------------------------------
(* The runner's steps.                                                     *)

\* sync_position_state; moved: the entry price is another one.
Synced(s, held, moved) ==
  CASE held = "NONE" /\ s.position # "NONE" ->
         [Cleared(s) EXCEPT !.viaTrend = FALSE, !.position = "NONE", !.entered = 0,
                            !.trailing = FALSE, !.cooldown = Cooldown]
    [] held # "NONE" /\ s.position = "NONE" ->
         [s EXCEPT !.position = held, !.trailing = params.trailing]
    [] "NONE" \notin {held, s.position} /\ held # s.position ->
         [s EXCEPT !.position = held, !.entered = 0, !.trailing = FALSE]
    [] held = s.position ->
         IF moved /\ held # "NONE" THEN [s EXCEPT !.trailing = params.trailing] ELSE s

\* What the histories make of a step to st'.
Noted ==
  LET fresh == st.position = "NONE" /\ st'.position # "NONE" /\ st'.last # st.last
      reset == st'.last # st.last /\ st.position = "NONE" /\ st.cooldown = 0
               /\ params.mode # "ema_alignment" /\ Crossed(st.prev, st'.prev) # "none"
  IN  /\ left' = IF st.position # "NONE" /\ st'.position = "NONE" THEN st'.last ELSE left
      /\ taken' =
           IF reset THEN [cross |-> fresh, followUps |-> 0]
           ELSE IF fresh /\ st'.viaTrend THEN [taken EXCEPT !.followUps = @ + 1]
           ELSE taken

\* An evaluation, and its order: filled, or refused, expired or lost.  The last
\* closed candle may be an older one, the same, or one or two later (bound).
Evaluate ==
  /\ st' \in {Evaluated(st, in) :
               in \in {i \in Inputs : i.candle \in st.last - 1 .. st.last + 2}}
  /\ actual' \in IF st'.position # st.position THEN {actual, st'.position} ELSE {actual}
  /\ Noted
  /\ UNCHANGED params

Sync ==
  /\ \E moved \in BOOLEAN : st' = Synced(st, actual, moved)
  /\ Noted
  /\ UNCHANGED <<params, actual>>

\* A native stop, a liquidation, the user.
Outside ==
  /\ actual' \in (Sides \cup {"NONE"}) \ {actual}
  /\ UNCHANGED <<params, st, left, taken>>

Next == Evaluate \/ Sync \/ Outside

Spec == Init /\ [][Next]_vars

-----------------------------------------------------------------------------
(* Properties.                                                             *)

\* A position the strategy opens comes at least Cooldown + 1 candles after the
\* one it gave up, however that went: by a stop looked at on an old candle, by a
\* cross, on the exchange, or because the order that opened it was refused.
Rested ==
  [][st.position = "NONE" /\ st'.position # "NONE" /\ st'.last # st.last
       => st'.last > left + Cooldown]_vars

\* One cross is traded once or followed up at most PerRegime times, never both,
\* through refused orders, stops and positions closed on the exchange.
OneCrossOneTrade ==
  /\ taken.followUps <= PerRegime
  /\ taken.cross => taken.followUps = 0
=============================================================================
