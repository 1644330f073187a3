----------------------------- MODULE RiskLimits -----------------------------
(* The daily and weekly loss limits of one account and of its strategies:  *)
(* app/risk/portfolio_risk_manager.py, asked before every order, the one   *)
(* that closes a position included, and what the order manager does with a *)
(* refusal: it stops the strategy, or pauses all of the account, from      *)
(* within the loop that asked.  As for Exposure, nothing in app/ passes    *)
(* the order manager a risk manager; the tests do.                         *)
(*                                                                         *)
(* A day has two halves, that of midnight and that of the account's        *)
(* daily_loss_reset_time, and a week two days.  The drawdown limit is left *)
(* out: the peak is never stored, so that it is always the balance itself, *)
(* and nothing is refused for it.                                          *)
EXTENDS Integers, FiniteSetsExt

CONSTANTS
  Strategies,
  AccountLimits,  \* the limits the account may have
  Configs,        \* the strategies' own, with their modes
  Balance,        \* of the account
  Gains,          \* realized by a trade
  MaxTrades,      \* bound: positions closed
  None            \* no configuration

Windows == {"day", "week"}
Starts == {"midnight", "reset", "week"}

\* max_..._loss_usdt and max_..._loss_pct; 0 is not set
LimitType == [usdt : Nat, pct : Nat]

ConstantsOK ==
  \* a percentage of the balance is whole
  /\ Balance \in Nat /\ Balance % 100 = 0 /\ Gains \subseteq Int /\ MaxTrades \in Nat
  /\ AccountLimits \subseteq [Windows -> LimitType]
  /\ Configs \subseteq [mode : {"override", "restrictive", "strategy"},
                        limits : [Windows -> LimitType], reset : BOOLEAN]

VARIABLES
  account,      \* the account's limits
  config,       \* each strategy's, or None
  clock,        \* halves of days
  realized,     \* of each strategy's completed trades, since each start
  open,         \* strategies that hold a position
  looping,      \* strategies whose loop runs
  ordering,     \* those whose order was allowed and is on its way
  pausing,      \* what a loop that pauses the account has still to stop
  closed        \* positions closed so far

vars == <<account, config, clock, realized, open, looping, ordering, pausing, closed>>

TypeOK ==
  /\ account \in AccountLimits /\ config \in [Strategies -> Configs \cup {None}]
  /\ clock \in 0..3
  /\ realized \in [Strategies -> [Starts -> Int]]
  /\ open \subseteq Strategies /\ looping \subseteq Strategies /\ ordering \subseteq looping
  /\ pausing \in [Strategies -> SUBSET Strategies]
  /\ closed \in 0..MaxTrades

Init ==
  /\ account \in AccountLimits /\ config \in [Strategies -> Configs \cup {None}]
  /\ clock = 0
  /\ realized = [s \in Strategies |-> [t \in Starts |-> 0]]
  /\ open = {} /\ looping = {} /\ ordering = {}
  /\ pausing = [s \in Strategies |-> {}] /\ closed = 0

-----------------------------------------------------------------------------
(* What is checked                                                         *)

IsSet(limit) == limit.usdt # 0 \/ limit.pct # 0

\* _merge_configs_most_restrictive, each unit for itself.
Lower(a, b) == IF a = 0 THEN b ELSE IF b = 0 \/ a < b THEN a ELSE b
Merged(a, b) == [usdt |-> Lower(a.usdt, b.usdt), pct |-> Lower(a.pct, b.pct)]

\* get_effective_risk_config
Effective(s, w) ==
  IF config[s] = None THEN account[w]
  ELSE IF config[s].mode = "restrictive" THEN Merged(account[w], config[s].limits[w])
  ELSE config[s].limits[w]

\* A balance that cannot be read, for which a share is no limit, is left out.
Amount(limit) ==
  IF limit.usdt # 0 THEN limit.usdt
  ELSE (limit.pct * Balance) \div 100

Exceeded(pnl, limit) == Amount(limit) # 0 /\ pnl < -Amount(limit)

\* A strategy with limits of its own has its reset time or the account's; another has midnight.
Start(s, w) ==
  IF w = "week" THEN "week"
  ELSE IF config[s] # None /\ config[s].reset THEN "reset" ELSE "midnight"

OwnLoss(s, w) == realized[s][Start(s, w)]
AccountLoss(s, w) == MapThenSumSet(LAMBDA x : realized[x][Start(s, w)], Strategies)

Specific(s, w) == config[s] # None /\ IsSet(config[s].limits[w])

\* Variant: a strategy with a limit of its own is held to that one only.
RefusedForOwn(s, w) ==
  IF Specific(s, w)
  THEN IF Exceeded(OwnLoss(s, w), config[s].limits[w]) THEN "strategy" ELSE "no"
  ELSE IF Exceeded(AccountLoss(s, w), Effective(s, w)) THEN "account" ELSE "no"

\* _check_daily_loss_limit and _check_weekly_loss_limit: whose limit refuses the order.
Refused(s, w) ==
  CASE Specific(s, w) /\ config[s].mode = "restrictive" ->
         IF Exceeded(AccountLoss(s, w), Effective(s, w)) THEN "account"
         ELSE IF Exceeded(OwnLoss(s, w), config[s].limits[w]) THEN "strategy" ELSE "no"
    [] Specific(s, w) /\ config[s].mode # "restrictive" ->
         IF Exceeded(OwnLoss(s, w), Effective(s, w)) THEN "strategy" ELSE "no"
    [] OTHER ->
         IF Exceeded(AccountLoss(s, w), Effective(s, w)) THEN "account" ELSE "no"

\* The day is asked first.
Verdict(s) == IF Refused(s, "day") # "no" THEN Refused(s, "day") ELSE Refused(s, "week")

-----------------------------------------------------------------------------
\* The completed trade of a position of s, and the position is gone.
Realize(s, gain) ==
  /\ closed < MaxTrades
  /\ closed' = closed + 1 /\ open' = open \ {s}
  /\ realized' = [realized EXCEPT ![s] = [t \in Starts |-> @[t] + gain]]

Asking(s) == s \in looping /\ s \notin ordering /\ pausing[s] = {}

Allow(s) ==
  /\ Asking(s) /\ Verdict(s) = "no"
  /\ ordering' = ordering \cup {s}
  /\ UNCHANGED <<account, config, clock, realized, open, looping, pausing, closed>>

\* The order opens a position, closes one, or fails.
Place(s) ==
  /\ s \in ordering /\ ordering' = ordering \ {s}
  /\ \/ s \notin open /\ open' = open \cup {s} /\ UNCHANGED <<realized, closed>>
     \/ s \in open /\ \E gain \in Gains : Realize(s, gain)
     \/ UNCHANGED <<realized, open, closed>>
  /\ UNCHANGED <<account, config, clock, looping, pausing>>

\* stop() of x: its position is closed without a check, and its loop cancelled, whose order
\* may be at the exchange all the same.
Stopped(x) ==
  /\ looping' = looping \ {x} /\ ordering' = ordering \ {x}
  /\ IF x \in open THEN \E gain \in Gains : Realize(x, gain)
     ELSE /\ open' \in {open} \cup (IF x \in ordering THEN {open \cup {x}} ELSE {})
          /\ UNCHANGED <<realized, closed>>

\* A limit of its own: the loop stops its strategy, and ends.
StopSelf(s) ==
  /\ Asking(s) /\ Verdict(s) = "strategy" /\ Stopped(s)
  /\ UNCHANGED <<account, config, clock, pausing>>

\* A limit of the account: pause_all_strategies_for_account takes the rows that are running.
BeginPause(s) ==
  /\ Asking(s) /\ Verdict(s) = "account"
  /\ pausing' = [pausing EXCEPT ![s] = looping]
  /\ UNCHANGED <<account, config, clock, realized, open, looping, ordering, closed>>

\* It stops them in the order the rows come in.  With its own it cancels itself, and what is
\* left is not stopped: each of those will ask for itself.
PauseNext(s) ==
  \E x \in pausing[s] :
    /\ Stopped(x)
    /\ pausing' = IF x = s THEN [pausing EXCEPT ![s] = {}]
                  ELSE [pausing EXCEPT ![x] = {}, ![s] = @ \ {x}]
    /\ UNCHANGED <<account, config, clock>>

\* The user starts a strategy, also after it was stopped.
Run(s) ==
  /\ s \notin looping /\ looping' = looping \cup {s}
  /\ UNCHANGED <<account, config, clock, realized, open, ordering, pausing, closed>>

\* Half a day later: what was realized before a start no longer counts from it.
Begun == CASE clock = 3 -> {"midnight", "week"} [] clock = 1 -> {"midnight"} [] OTHER -> {"reset"}
Tick ==
  /\ clock' = (clock + 1) % 4
  /\ realized' = [s \in Strategies |-> [t \in Starts |-> IF t \in Begun THEN 0 ELSE realized[s][t]]]
  /\ UNCHANGED <<account, config, open, looping, ordering, pausing, closed>>

Next ==
  \/ \E s \in Strategies :
       \/ Allow(s) \/ Place(s) \/ StopSelf(s) \/ BeginPause(s) \/ PauseNext(s) \/ Run(s)
  \/ Tick

Spec == Init /\ [][Next]_vars

-----------------------------------------------------------------------------
(* The limits the user has put a strategy under (get_effective_risk_config *)
(* states the rules): the account's for one without its own or with        *)
(* use_more_restrictive, its own whenever it has them.                     *)
UnderAccount(s) == config[s] = None \/ config[s].mode = "restrictive"

\* Limits of both units in one window get in each other's way: the lower amount in one
\* unit hides the other unit's.
OneUnit(s, w) ==
  config[s] = None \/ (account[w].usdt = 0 /\ config[s].limits[w].usdt = 0)
                   \/ (account[w].pct = 0 /\ config[s].limits[w].pct = 0)

WithinLimits(s) ==
  \A w \in Windows :
    OneUnit(s, w) =>
      /\ UnderAccount(s) => ~Exceeded(AccountLoss(s, w), account[w])
      /\ config[s] # None => ~Exceeded(OwnLoss(s, w), config[s].limits[w])

(* No order is allowed while a limit that its strategy is under is         *)
(* exceeded, whatever the two configurations set, whoever lost, and        *)
(* however often the strategy has been started again since: the risk       *)
(* manager's "Priority rules", portfolio_risk_manager.py:1335-1338.        *)
LimitsRespected ==
  [][\A s \in Strategies : s \in ordering' /\ s \notin ordering => WithinLimits(s)]_vars

=============================================================================
