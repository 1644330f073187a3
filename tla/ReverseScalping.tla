---------------------------- MODULE ReverseScalping ----------------------------
(***************************************************************************)
(* EmaReverseScalpingStrategy of app/strategies/reverse_scalping.py.  Its  *)
(* code is Scalping's with the crosses pointing to the other side and both *)
(* sides asking the 5m trend; every definition below is the one of         *)
(* Scalping with these two constants.                                      *)
(***************************************************************************)
EXTENDS Integers

CONSTANTS EnableShort, Params, Cooldown, Window, PerRegime, MaxCandle

VARIABLES params, st, actual, left, taken

vars == <<params, st, actual, left, taken>>

\* A golden cross is sold and a death cross is bought.
Side == [golden |-> "SHORT", death |-> "LONG"]
Biased == {"LONG", "SHORT"}

S == INSTANCE Scalping

Cleared(s) == S!Cleared(s)
Armed(s, side) == S!Armed(s, side)
WindowOpen(s) == S!WindowOpen(s)
Exited(s) == S!Exited(s)
Entered(s, side) == S!Entered(s, side)
FollowedUp(s, side) == S!FollowedUp(s, side)
Allowed(side, in) == S!Allowed(side, in)
PriceExit(s, in) == S!PriceExit(s, in)
Rechecked(s, in) == S!Rechecked(s, in)
Flat(s, cross, in) == S!Flat(s, cross, in)
CrossEntered(s, side, in) == S!CrossEntered(s, side, in)
FollowUp(s, in) == S!FollowUp(s, in)
Held(s, cross, in) == S!Held(s, cross, in)
Processed(s, in) == S!Processed(s, in)
Synced(s, held, moved) == S!Synced(s, held, moved)

Init == S!Init
Evaluate == S!Evaluate
Sync == S!Sync
Outside == S!Outside
Next == Evaluate \/ Sync \/ Outside

TypeOK == S!TypeOK
Rested == S!Rested
OneCrossOneTrade == S!OneCrossOneTrade
=============================================================================
