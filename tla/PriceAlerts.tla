----------------------------- MODULE PriceAlerts -----------------------------
(***************************************************************************)
(* Price alerts: the worker of app/services/price_alert_checker.py, whose  *)
(* round spans a fetch of prices, and the requests of                      *)
(* app/api/routes/price_alerts.py, which edit the same rows during it.     *)
(* A session writes the columns that differ from what it has loaded, to    *)
(* whatever the row has become, and fails when the row is gone.            *)
(***************************************************************************)
EXTENDS Integers, Sequences, FiniteSets

CONSTANTS
  Alerts,       \* rows a user may create
  Symbols,
  Prices,
  Target,       \* each alert's target price
  Kinds,        \* alert_type and trigger_once of the alerts
  Nothing       \* NULL

ConstantsOK ==
  /\ Prices \subseteq Int /\ Target \in Int /\ Nothing \notin Prices /\ Nothing \notin Symbols
  /\ Kinds \subseteq [type : {"PRICE_RISES_ABOVE", "PRICE_DROPS_BELOW", "PRICE_REACHES"},
                      once : BOOLEAN]

VARIABLES
  rows,         \* price_alerts: a row for each alert that exists
  step,         \* the worker: "idle", "fetch", or "send"
  loaded,       \* the enabled rows its session has loaded
  pushes,       \* alerts whose push is still to be sent, in order
  told,         \* history: alarms raised since the user enabled the alert, or it cooled
  quoted,       \* history: the symbol that a row's last_price is a price of
  mixed         \* history: alerts edited while a round had them loaded

vars == <<rows, step, loaded, pushes, told, quoted, mixed>>

Row == [kind : Kinds, symbol : Symbols, enabled : BOOLEAN, last : Prices \cup {Nothing}, cooling : BOOLEAN]

TypeOK ==
  /\ DOMAIN rows \subseteq Alerts /\ \A a \in DOMAIN rows : rows[a] \in Row
  /\ DOMAIN loaded \subseteq Alerts /\ \A a \in DOMAIN loaded : loaded[a] \in Row
  /\ step \in {"idle", "fetch", "send"}
  /\ \A i \in DOMAIN pushes : pushes[i] \in [of : Alerts, real : BOOLEAN, edited : BOOLEAN]
  /\ told \in [Alerts -> 0..2] /\ quoted \in [Alerts -> Symbols \cup {Nothing}]
  /\ mixed \subseteq Alerts

NoRows == [a \in {} |-> Nothing]

Init ==
  /\ rows = NoRows /\ step = "idle" /\ loaded = NoRows /\ pushes = <<>>
  /\ told = [a \in Alerts |-> 0] /\ quoted = [a \in Alerts |-> Nothing] /\ mixed = {}

-----------------------------------------------------------------------------
(* The requests.                                                           *)

Keeping(keys) == [a \in keys |-> rows[a]]
With(a, row) == [b \in DOMAIN rows \cup {a} |-> IF b = a THEN row ELSE rows[b]]

Create(a, kind, symbol) ==
  /\ a \notin DOMAIN rows /\ a \notin DOMAIN loaded
  /\ rows' = With(a, [kind |-> kind, symbol |-> symbol, enabled |-> TRUE, last |-> Nothing,
                     cooling |-> FALSE])
  /\ told' = [told EXCEPT ![a] = 0] /\ quoted' = [quoted EXCEPT ![a] = Nothing]
  /\ mixed' = mixed \ {a}
  /\ UNCHANGED <<step, loaded, pushes>>

\* update_price_alert
Update(a, symbol, enabled) ==
  LET moved == symbol # rows[a].symbol IN
  /\ a \in DOMAIN rows
  /\ rows' = With(a, [rows[a] EXCEPT !.symbol = symbol, !.enabled = enabled,
                                     !.last = IF moved THEN Nothing ELSE @])
  /\ quoted' = [quoted EXCEPT ![a] = IF moved THEN Nothing ELSE @]
  /\ told' = [told EXCEPT ![a] = IF enabled /\ ~rows[a].enabled THEN 0 ELSE @]
  /\ mixed' = IF a \in DOMAIN loaded THEN mixed \cup {a}
              ELSE IF moved THEN mixed \ {a} ELSE mixed
  /\ UNCHANGED <<step, loaded, pushes>>

Delete(a) ==
  /\ a \in DOMAIN rows
  /\ rows' = Keeping(DOMAIN rows \ {a})
  /\ UNCHANGED <<step, loaded, pushes, told, quoted, mixed>>

\* price_alert_cooldown_seconds have passed since triggered_at.
Cooled(a) ==
  /\ a \in DOMAIN rows \ DOMAIN loaded /\ rows[a].cooling
  /\ rows' = With(a, [rows[a] EXCEPT !.cooling = FALSE])
  /\ told' = [told EXCEPT ![a] = IF rows[a].kind.once THEN @ ELSE 0]
  /\ UNCHANGED <<step, loaded, pushes, quoted, mixed>>

-----------------------------------------------------------------------------
(* run_price_alert_check                                                   *)

Load ==
  LET enabled == {a \in DOMAIN rows : rows[a].enabled} IN
  /\ step = "idle" /\ enabled # {}
  /\ step' = "fetch" /\ loaded' = Keeping(enabled)
  /\ UNCHANGED <<rows, pushes, told, quoted, mixed>>

\* _should_trigger
Crossed(type, last, price) ==
  LET rise == last < Target /\ price >= Target
      drop == last > Target /\ price =< Target IN
  CASE type = "PRICE_RISES_ABOVE" -> rise
    [] type = "PRICE_DROPS_BELOW" -> drop
    [] type = "PRICE_REACHES" -> rise \/ drop

\* The first price of a row is only remembered, and a recurring alert is silent while
\* it cools.
Triggers(a, price) ==
  /\ loaded[a].last # Nothing /\ Crossed(loaded[a].kind.type, loaded[a].last, price)
  /\ loaded[a].kind.once \/ ~loaded[a].cooling

Checked(a, price) ==
  LET row == loaded[a] IN
  IF Triggers(a, price)
    THEN [row EXCEPT !.last = price, !.cooling = TRUE, !.enabled = ~row.kind.once]
    ELSE [row EXCEPT !.last = price]

\* The columns that the round has changed, over the row as it is now.
Written(a, row) ==
  [rows[a] EXCEPT !.last = IF row.last # loaded[a].last THEN row.last ELSE @,
                  !.cooling = IF row.cooling # loaded[a].cooling THEN row.cooling ELSE @,
                  !.enabled = IF row.enabled # loaded[a].enabled THEN row.enabled ELSE @]

Quit == step' = "idle" /\ loaded' = NoRows /\ pushes' = <<>>

\* No price came, or a row that has to be written has been deleted: nothing of the
\* round is kept.
RoundFails ==
  /\ step = "fetch"
  /\ Quit /\ UNCHANGED <<rows, told, quoted, mixed>>

\* The prices are of one moment, of the symbols they could be had for.
Evaluate(prices) ==
  LET seen == {a \in DOMAIN loaded : prices[loaded[a].symbol] # Nothing}
      result == [a \in seen |-> Checked(a, prices[loaded[a].symbol])]
      changed == {a \in seen : result[a] # loaded[a]}
      fired == {a \in seen : Triggers(a, prices[loaded[a].symbol])} IN
  /\ step = "fetch" /\ changed \subseteq DOMAIN rows
  /\ rows' = [a \in DOMAIN rows |-> IF a \in changed THEN Written(a, result[a]) ELSE rows[a]]
  /\ quoted' = [a \in Alerts |->
                  IF a \in changed /\ result[a].last # loaded[a].last THEN loaded[a].symbol
                  ELSE quoted[a]]
  /\ \E order \in [1..Cardinality(fired) -> fired] :
       /\ \A i, j \in DOMAIN order : i # j => order[i] # order[j]
       /\ pushes' = [i \in DOMAIN order |->
                       [of |-> order[i], real |-> quoted[order[i]] = loaded[order[i]].symbol,
                        edited |-> order[i] \in mixed]]
  /\ told' = [a \in Alerts |-> IF a \in fired /\ told[a] < 2 THEN told[a] + 1 ELSE told[a]]
  /\ step' = "send" /\ loaded' = NoRows /\ UNCHANGED mixed

\* send_to_user after the commit.
Send ==
  /\ step = "send" /\ pushes # <<>>
  /\ pushes' = Tail(pushes)
  /\ UNCHANGED <<rows, step, loaded, told, quoted, mixed>>

\* send_to_user fails and rolls the session back, after which no alert of it can be
\* read: the pushes that follow are lost with the round.
SendFails ==
  /\ step = "send" /\ pushes # <<>>
  /\ Quit /\ UNCHANGED <<rows, told, quoted, mixed>>

Rest ==
  /\ step = "send" /\ pushes = <<>>
  /\ Quit /\ UNCHANGED <<rows, told, quoted, mixed>>

\* The program ends and is started again.
Crash ==
  /\ step # "idle"
  /\ Quit /\ UNCHANGED <<rows, told, quoted, mixed>>

-----------------------------------------------------------------------------
Next ==
  \/ \E a \in Alerts :
       \/ \E symbol \in Symbols :
            \/ \E kind \in Kinds : Create(a, kind, symbol)
            \/ \E enabled \in BOOLEAN : Update(a, symbol, enabled)
       \/ Delete(a) \/ Cooled(a)
  \/ \E prices \in [Symbols -> Prices \cup {Nothing}] : Evaluate(prices)
  \/ Load \/ RoundFails \/ Send \/ SendFails \/ Rest \/ Crash

Spec == Init /\ [][Next]_vars

-----------------------------------------------------------------------------
(* Properties.                                                             *)

\* An alert that triggers once raises one alarm for each time that its user enables
\* it, and a recurring one for each cooldown, whichever round fails and when.
PushedOnce == \A a \in Alerts : told[a] =< 1

\* What is pushed has happened: the price before the crossing was one of the same
\* symbol.  Not so for an alert that was edited while a round had it loaded.
RealCrossings == \A i \in DOMAIN pushes : pushes[i].real \/ pushes[i].edited
=============================================================================
