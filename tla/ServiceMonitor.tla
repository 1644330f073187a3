--------------------------- MODULE ServiceMonitor ---------------------------
(* app/services/service_monitor.py: the rounds in which the database, the  *)
(* API and the containers are looked at, and what the user is told of one  *)
(* of them by Telegram.  The times are in rounds of a minute.  send_message *)
(* swallows its errors, so that a lost message counts as sent.             *)
EXTENDS Naturals

CONSTANT Cooldown   \* _notification_cooldown, in rounds

ConstantsOK == Cooldown \in Nat \ {0}

VARIABLES
  up,       \* external: the service
  last,     \* _last_states
  since,    \* rounds since _last_notification_time, Cooldown when it is over
  told,     \* what the user has heard last
  lost,     \* history: a message got lost since
  hushed    \* history: the outage was seen within the cooldown of the last message

vars == <<up, last, since, told, lost, hushed>>

TypeOK ==
  /\ up \in BOOLEAN /\ last \in {"unknown", "up", "down"} /\ since \in 0..Cooldown
  /\ told \in {"nothing", "up", "down"} /\ lost \in BOOLEAN /\ hushed \in BOOLEAN

Init ==
  /\ up \in BOOLEAN /\ last = "unknown" /\ since = Cooldown
  /\ told = "nothing" /\ lost = FALSE /\ hushed = FALSE

Send(news) ==
  \/ told' = news /\ lost' = FALSE
  \/ lost' = TRUE /\ UNCHANGED told

Later(n) == IF n < Cooldown THEN n + 1 ELSE n

\* Variant: the recovery is under the cooldown as well.
RecoveryHushed ==
  IF since < Cooldown THEN UNCHANGED <<told, lost>> ELSE Send("up")

Recovery == Send("up")

\* One round of monitor_loop: the state seen is remembered, whether or not it was told.
Round ==
  /\ CASE ~up /\ last # "down" /\ since = Cooldown ->
            Send("down") /\ since' = 1 /\ hushed' = FALSE
       [] ~up /\ last # "down" /\ since < Cooldown ->
            since' = Later(since) /\ hushed' = TRUE /\ UNCHANGED <<told, lost>>
       [] up /\ last = "down" -> Recovery /\ since' = Later(since) /\ hushed' = FALSE
       [] OTHER -> since' = Later(since) /\ UNCHANGED <<told, lost, hushed>>
  /\ last' = IF up THEN "up" ELSE "down"
  /\ UNCHANGED up

\* The last attempt of init_database calls back, between two rounds.
Failed ==
  /\ ~up /\ since = Cooldown
  /\ Send("down") /\ since' = 0 /\ last' = "down" /\ hushed' = FALSE
  /\ UNCHANGED up

\* External.
Turn == up' = ~up /\ UNCHANGED <<last, since, told, lost, hushed>>

Next == Round \/ Failed \/ Turn

Spec == Init /\ [][Next]_vars

-----------------------------------------------------------------------------
(* What the user believes is what the monitor saw last: of a recovery he   *)
(* always hears, of an outage unless it was seen within the cooldown of    *)
(* the last one (service_monitor.py:37, "avoid duplicate notifications").  *)
(* Lost messages are not repeated.                                         *)
NewsTold ==
  ~lost =>
    /\ last = "up" => told # "down"
    /\ last = "down" => told = "down" \/ hushed

=============================================================================
