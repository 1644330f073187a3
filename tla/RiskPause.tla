------------------------------ MODULE RiskPause ------------------------------
(***************************************************************************)
(* The risk circuit breaker of one account: CircuitBreaker of              *)
(* app/risk/circuit_breaker.py, with the runners that each hold one, the   *)
(* loops it refuses orders to, and the check it makes, in a worker thread, *)
(* after every closed position.                                            *)
(*                                                                         *)
(* A runner's breaker lives in memory; what outlives it are the rows of    *)
(* its events, which a new runner's breaker reads once.  A cooldown is     *)
(* what is left of it, in ticks.  Left open is whether a loss is also a    *)
(* rapid loss of the account, which depends on amounts and windows, and    *)
(* which strategies of the account a runner knows: those that had been     *)
(* created when it was made.                                               *)
(***************************************************************************)
EXTENDS Naturals, FiniteSets

CONSTANTS
  Strategies,   \* strategies of the account
  Account,      \* the scope of an account's breaker
  Runners,      \* identities of StrategyRunner objects (bound)
  None,
  Threshold,    \* max_consecutive_losses
  Cooldown,     \* circuit_breaker_cooldown_minutes, in ticks
  MaxChecks,    \* bound on the checks that run at the same time
  MaxEvents     \* bound on the rows of events

ConstantsOK ==
  /\ IsFiniteSet(Strategies) /\ IsFiniteSet(Runners)
  /\ Account \notin Strategies /\ None \notin Runners
  /\ None \notin Strategies \cup {Account}
  /\ Threshold \in Nat \ {0} /\ Cooldown \in Nat \ {0} /\ MaxChecks \in Nat /\ MaxEvents \in Nat

VARIABLES
  row,      \* the status column
  loop,     \* the runner whose loop trades the strategy, or None
  placing,  \* loops that have read their row and go on to place an order
  breaker,  \* _active_breakers of the runners that have made their breaker
  events,   \* rows of active events: scope and what is left of the cooldown
  streak,   \* losses in a row at the end of the completed trades
  checks,   \* the checks that run in a thread
  blocked,  \* history: what is left of the cooldown the strategy has to keep
  resting   \* history: paused by the account's breaker, and not started since

vars == <<row, loop, placing, breaker, events, streak, checks, blocked, resting>>

Scopes == Strategies \cup {Account}
Left == 0..Cooldown

\* A check: whose trade it is about and in which runner, whether the trade was a
\* loss, the breaker it is triggering and what is left of its cooldown, whom it
\* has still to cancel, and whom it has cancelled and not yet marked.
Checks ==
  [strategy : Strategies, runner : Runners, loss : BOOLEAN,
   stage : {"streak", "rapid"}, scope : Scopes \cup {None}, left : Left,
   cancel : SUBSET Strategies, mark : SUBSET Strategies]

TypeOK ==
  /\ row \in [Strategies -> {"running", "stopped", "stopped_by_risk"}]
  /\ loop \in [Strategies -> Runners \cup {None}]
  /\ placing \subseteq {s \in Strategies : loop[s] # None}
  /\ DOMAIN breaker \subseteq Runners
  /\ \A r \in DOMAIN breaker : breaker[r] \in [Scopes -> Left]
  /\ events \subseteq Scopes \X Left
  /\ streak \in [Strategies -> 0..Threshold]
  /\ checks \subseteq Checks
  /\ blocked \in [Strategies -> Left]
  /\ resting \subseteq Strategies

Init ==
  /\ row = [s \in Strategies |-> "stopped"]
  /\ loop = [s \in Strategies |-> None]
  /\ placing = {}
  /\ breaker = [r \in {} |-> [c \in Scopes |-> 0]]
  /\ events = {}
  /\ streak = [s \in Strategies |-> 0]
  /\ checks = {}
  /\ blocked = [s \in Strategies |-> 0]
  /\ resting = {}

-----------------------------------------------------------------------------
(* Runners and their breakers.                                             *)

InUse(r) == (\E s \in Strategies : loop[s] = r) \/ (\E k \in checks : k.runner = r)

\* A runner that nothing uses any more takes its breaker with it.
Forget == breaker' = [r \in {q \in DOMAIN breaker : InUse(q)'} |-> breaker[r]]

Rows(c) == {e \in events : e[1] = c}

\* Variant: the rows of events are not read.
LoadedNothing == {[c \in Scopes |-> 0]}

\* _load_active_breakers_from_db: of the rows of one scope, which come in no
\* particular order, the last one read stays; its cooldown is taken up again.
Loaded ==
  {f \in [Scopes -> Left] :
     \A c \in Scopes : IF Rows(c) = {} THEN f[c] = 0 ELSE <<c, f[c]>> \in events}

\* get_circuit_breaker: the cached one, or a new one that loads.
Breakers(r) == IF r \in DOMAIN breaker THEN {breaker[r]} ELSE Loaded

Cached(r, b) ==
  breaker' = [q \in DOMAIN breaker \cup {r} |-> IF q = r THEN b ELSE breaker[q]]

\* is_active: the account's breaker, then the strategy's.
IsActive(b, s) == b[Account] > 0 \/ b[s] > 0

-----------------------------------------------------------------------------
(* The user.                                                               *)

\* Strategies whose pause is under way, its event not yet written.  One that is
\* started meanwhile need not find it.
Pausing == {k.scope : k \in checks} \cap Strategies

Started(S) ==
  /\ blocked' = [s \in Strategies |-> IF s \in S \cap Pausing THEN 0 ELSE blocked[s]]
  /\ resting' = resting \ S

\* A request's runner has no breaker yet.
Start(s, r) ==
  /\ loop[s] = None
  /\ ~InUse(r)
  /\ loop' = [loop EXCEPT ![s] = r]
  /\ row' = [row EXCEPT ![s] = "running"]
  /\ Started({s})
  /\ UNCHANGED <<placing, breaker, events, streak, checks>>

Stop(s) ==
  /\ loop[s] # None
  /\ loop' = [loop EXCEPT ![s] = None]
  /\ placing' = placing \ {s}
  /\ row' = [row EXCEPT ![s] = "stopped"]
  /\ UNCHANGED <<events, streak, checks, blocked, resting>>
  /\ Forget

\* A crash: what the threads have not done is not done.  One runner restores the
\* strategies whose rows say running, and no others.
Restart(r) ==
  LET restored == {s \in Strategies : row[s] = "running"} IN
  /\ loop' = [s \in Strategies |-> IF s \in restored THEN r ELSE None]
  /\ placing' = {}
  /\ checks' = {}
  /\ breaker' = [q \in {} |-> [c \in Scopes |-> 0]]
  /\ blocked' = [s \in Strategies |-> IF s \in Pausing THEN 0 ELSE blocked[s]]
  /\ resting' = resting \ restored
  /\ UNCHANGED <<row, events, streak>>

\* reset_circuit_breaker, and every change of the risk configuration.  The cache
\* that is cleared is the request's own.
Reset ==
  /\ events' = {}
  /\ row' = [s \in Strategies |-> IF row[s] = "stopped_by_risk" THEN "stopped" ELSE row[s]]
  /\ blocked' = [s \in Strategies |-> 0]
  /\ UNCHANGED <<loop, placing, breaker, streak, checks, resting>>

\* Time passes.  A row stays active when its cooldown is over.
Less(n) == IF n > 0 THEN n - 1 ELSE 0
Tick ==
  /\ breaker' = [r \in DOMAIN breaker |-> [c \in Scopes |-> Less(breaker[r][c])]]
  /\ events' = {<<e[1], Less(e[2])>> : e \in events}
  /\ checks' = {[k EXCEPT !.left = Less(@)] : k \in checks}
  /\ blocked' = [s \in Strategies |-> Less(blocked[s])]
  /\ UNCHANGED <<row, loop, placing, streak, resting>>

-----------------------------------------------------------------------------
(* Trading.                                                                *)

Check(s, r, loss) ==
  [strategy |-> s, runner |-> r, loss |-> loss, stage |-> "streak", scope |-> None,
   left |-> 0, cancel |-> {}, mark |-> {}]

\* A position is closed: the streak grows or ends, and the check begins.
Closed(s, r, loss) ==
  /\ Cardinality(checks) < MaxChecks
  /\ streak' = [streak EXCEPT ![s] = IF ~loss THEN 0
                                     ELSE IF @ < Threshold THEN @ + 1 ELSE @]
  /\ checks' = checks \cup {Check(s, r, loss)}

\* run_loop, unless it waits for a check, reads its row first.
Refresh(s) ==
  /\ loop[s] # None
  /\ s \notin placing
  /\ ~\E k \in checks : k.strategy = s /\ k.runner = loop[s]
  /\ UNCHANGED <<row, events, streak, checks, blocked, resting>>
  /\ IF row[s] = "stopped_by_risk"
       THEN loop' = [loop EXCEPT ![s] = None] /\ Forget /\ UNCHANGED placing
       ELSE placing' = placing \cup {s} /\ UNCHANGED <<loop, breaker>>

\* execute_order asks the runner's breaker; the order closes a position.
Order(s) ==
  /\ s \in placing
  /\ placing' = placing \ {s}
  /\ \E b \in Breakers(loop[s]) :
       /\ Cached(loop[s], b)
       /\ IF IsActive(b, s)
            THEN UNCHANGED <<streak, checks>>
            ELSE \E loss \in BOOLEAN : Closed(s, loop[s], loss)
  /\ UNCHANGED <<row, loop, events, blocked, resting>>

\* manual_close_strategy_position: the user closes the position through a runner
\* of his own, and the check runs in that.
ManualClose(s, r) ==
  /\ ~\E k \in checks : k.strategy = s
  /\ ~InUse(r)
  /\ \E b \in Loaded : Cached(r, b)
  /\ \E loss \in BOOLEAN : Closed(s, r, loss)
  /\ UNCHANGED <<row, loop, placing, events, blocked, resting>>

-----------------------------------------------------------------------------
(* The check, in its thread.                                               *)

Becomes(k, by) == checks' = (checks \ {k}) \cup by
Idle(k) == k.scope = None

\* The breaker is stored in the runner's memory before anybody is paused.
Trigger(k, scope, S) ==
  /\ breaker' = [breaker EXCEPT ![k.runner][scope] = Cooldown]
  /\ Becomes(k, {[k EXCEPT !.scope = scope, !.left = Cooldown, !.cancel = S]})

\* check_consecutive_losses
Consecutive(k) ==
  /\ k.stage = "streak" /\ Idle(k)
  /\ streak[k.strategy] >= Threshold
  /\ Trigger(k, k.strategy, {k.strategy})
  /\ UNCHANGED <<row, loop, placing, events, streak, blocked, resting>>

NotConsecutive(k) ==
  /\ k.stage = "streak" /\ Idle(k)
  /\ streak[k.strategy] < Threshold
  /\ Becomes(k, {[k EXCEPT !.stage = "rapid"]})
  /\ UNCHANGED <<row, loop, placing, breaker, events, streak, blocked, resting>>

\* check_rapid_loss: the strategies of the account that the runner knows, among
\* them those it runs itself.
Rapid(k) ==
  /\ k.stage = "rapid" /\ Idle(k)
  /\ k.loss
  /\ \E S \in SUBSET Strategies :
       /\ k.strategy \in S /\ \A s \in Strategies : loop[s] = k.runner => s \in S
       /\ Trigger(k, Account, S)
       /\ resting' = resting \cup S
  /\ UNCHANGED <<row, loop, placing, events, streak, blocked>>

NotRapid(k) ==
  /\ k.stage = "rapid" /\ Idle(k)
  /\ Becomes(k, {})
  /\ UNCHANGED <<row, loop, placing, events, streak, blocked, resting>>
  /\ Forget

Cancelled(k, x) ==
  /\ Becomes(k, {[k EXCEPT !.cancel = @ \ {x}, !.mark = {x}]})
  /\ blocked' = IF k.scope = x THEN [blocked EXCEPT ![x] = k.left] ELSE blocked
  /\ UNCHANGED <<row, events, streak, resting>>
  /\ Forget

\* _pause_strategy: the task is cancelled and taken out of _tasks, which all
\* runners share; an order that is in its thread is not waited for.
Cancel(k, x) ==
  /\ x \in k.cancel /\ k.mark = {}
  /\ loop' = [loop EXCEPT ![x] = None]
  /\ placing' = placing \ {x}
  /\ Cancelled(k, x)

\* ... then its row is written, also if the user had stopped it.
Mark(k, x) ==
  /\ x \in k.mark
  /\ row' = [row EXCEPT ![x] = "stopped_by_risk"]
  /\ Becomes(k, {[k EXCEPT !.mark = {}]})
  /\ UNCHANGED <<loop, placing, breaker, events, streak, blocked, resting>>

\* _persist_breaker_event, which may fail; then the account's breaker is checked.
Persist(k) ==
  /\ ~Idle(k) /\ k.cancel = {} /\ k.mark = {}
  /\ \/ /\ events' = events \cup {<<k.scope, k.left>>}
        /\ Cardinality(events') <= MaxEvents
        /\ UNCHANGED blocked
     \/ /\ blocked' = [s \in Strategies |-> IF s = k.scope THEN 0 ELSE blocked[s]]
        /\ UNCHANGED events
  /\ Becomes(k, IF k.stage = "streak"
                  THEN {[k EXCEPT !.stage = "rapid", !.scope = None, !.left = 0]}
                  ELSE {})
  /\ UNCHANGED <<row, loop, placing, streak, resting>>
  /\ Forget

-----------------------------------------------------------------------------
Thread(k) ==
  \/ Consecutive(k) \/ NotConsecutive(k) \/ Rapid(k) \/ NotRapid(k) \/ Persist(k)
  \/ \E x \in Strategies : Cancel(k, x) \/ Mark(k, x)

Next ==
  \/ \E s \in Strategies : Stop(s) \/ Refresh(s) \/ Order(s)
  \/ \E s \in Strategies, r \in Runners : Start(s, r) \/ ManualClose(s, r)
  \/ \E r \in Runners : Restart(r)
  \/ Reset \/ Tick
  \/ \E k \in checks : Thread(k)

Spec == Init /\ [][Next]_vars

-----------------------------------------------------------------------------
(* Properties.                                                             *)

Traded(s) == s \in placing /\ \E k \in checks' \ checks : k.strategy = s /\ k.runner = loop[s]

\* After its losses a strategy trades no more before its cooldown is over or the
\* user resets the breaker, whoever starts it again, in whatever runner, and also
\* after a crash.  Excepted is a strategy started again before its event was
\* written, or whose event could not be written, and one with several rows, of
\* which an old one may be the last that is read.
StaysBlocked ==
  [][\A s \in Strategies :
       Traded(s) /\ Cardinality(Rows(s)) <= 1 => blocked[s] = 0]_vars

\* When a rapid loss has been dealt with, no strategy that the runner knew trades,
\* in whatever runner its loop was, unless somebody has started it since.
AccountRests ==
  \A s \in resting : loop[s] # None =>
    \E k \in checks : k.scope = Account /\ s \in k.cancel

=============================================================================
