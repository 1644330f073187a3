------------------------------ MODULE MoneyProofs ------------------------------
(***************************************************************************)
(* Proofs about the other components of MCMoney as they are composed there: *)
(* for any strategies, positions, threads and loops, and any number of     *)
(* positions opened and events under way.  Of orders and of the lifecycle  *)
(* the proofs are those of OrderExecutionProofs and StrategyLifecycleProofs *)
(* with the constants that MCMoney gives them.  At the end the types of    *)
(* all components, those of AccountingProofs too.                          *)
(***************************************************************************)
EXTENDS AccountingProofs, SequenceTheorems

OrderProofs == INSTANCE OrderExecutionProofs WITH
    orders <- sent, call <- attempt, Calls <- Runners, Signals <- {"signal"},
    MaxMinute <- 1, MaxExecutors <- 1

LifecycleProofs == INSTANCE StrategyLifecycleProofs WITH
    Symbol <- [s \in Strategies |-> "BTCUSDT"], Requests <- {loop1},
    Ops <- {"start", "stop", "delete", "pause"}, Tasks <- Loops,
    MaxConcurrent <- 2, MaxRestarts <- 1

-----------------------------------------------------------------------------
(* RiskPause.                                                              *)

\* A loop that goes on to place an order is not waited for by a check.
PlacingUnchecked ==
    \A s \in placing : \A k \in checks : k.strategy = s => k.runner # riskLoop[s]

\* A runner has a breaker as long as it is used, and whoever checks has one.
BreakersUsed == \A r \in DOMAIN breaker : Risk!InUse(r)
CheckersLoaded == \A k \in checks : k.runner \in DOMAIN breaker

\* What a strategy has to keep of its cooldown is told by an event, or the event is
\* still to be written and its loop cancelled.
Told(s) == \E n \in Risk!Left : n >= blocked[s] /\ <<s, n>> \in riskEvents
Untold(s) == \E k \in checks : k.scope = s /\ k.left >= blocked[s]

ToldOf(s) == blocked[s] > 0 => Told(s) \/ (riskLoop[s] = None /\ Untold(s))

BlockedTold == \A s \in Strategies : ToldOf(s)

\* The breaker of its runner knows it, too, unless it has read an older event.
Ambiguous(s) ==
    \E m, n \in Risk!Left :
        m < n /\ n >= blocked[s] /\ <<s, m>> \in riskEvents /\ <<s, n>> \in riskEvents

HeldFrom(s) ==
    blocked[s] > 0 /\ riskLoop[s] \in DOMAIN breaker =>
        breaker[riskLoop[s]][s] >= blocked[s] \/ Ambiguous(s)

BlockedHeld == \A s \in Strategies : HeldFrom(s)

RiskInv ==
    /\ Risk!TypeOK
    /\ PlacingUnchecked /\ BreakersUsed /\ CheckersLoaded /\ BlockedTold /\ BlockedHeld
    /\ Risk!AccountRests

LEMMA RiskNumbers ==
    /\ Threshold \in Nat \ {0} /\ Cooldown \in Nat \ {0}
    /\ Account \notin Strategies /\ None \notin Runners /\ None # Account /\ None \notin Strategies
    /\ Risk!Left \subseteq Nat /\ Cooldown \in Risk!Left /\ 0 \in Risk!Left
    /\ \A n \in Risk!Left : Risk!Less(n) \in Risk!Left
BY ConstantsAssumption DEF Risk!ConstantsOK, Risk!Left, Risk!Less

LEMMA TriggerFacts ==
    ASSUME RiskInv, NEW k \in checks, NEW scope \in Risk!Scopes, NEW S \in SUBSET Strategies,
           Risk!Trigger(k, scope, S)
    PROVE  \E j \in Risk!Checks :
             /\ checks' = (checks \ {k}) \cup {j}
             /\ j.strategy = k.strategy /\ j.runner = k.runner /\ j.loss = k.loss
             /\ j.stage = k.stage /\ j.scope = scope /\ j.left = Cooldown /\ j.cancel = S
             /\ j.mark = k.mark
<1> DEFINE j == [k EXCEPT !.scope = scope, !.left = Cooldown, !.cancel = S]
<1>1. k \in Risk!Checks
    BY DEF RiskInv, Risk!TypeOK
<1>2. /\ j \in Risk!Checks
      /\ j.strategy = k.strategy /\ j.runner = k.runner /\ j.loss = k.loss
      /\ j.stage = k.stage /\ j.scope = scope /\ j.left = Cooldown /\ j.cancel = S
      /\ j.mark = k.mark
    BY <1>1, RiskNumbers DEF Risk!Checks
<1> QED BY <1>2 DEF Risk!Trigger, Risk!Becomes

LEMMA CheckFacts ==
    ASSUME NEW s \in Strategies, NEW r \in Runners, NEW loss \in BOOLEAN
    PROVE  /\ Risk!Check(s, r, loss) \in Risk!Checks
           /\ Risk!Check(s, r, loss).strategy = s /\ Risk!Check(s, r, loss).runner = r
BY RiskNumbers DEF Risk!Check, Risk!Checks

\* What is forgotten is forgotten by what is in use: runners and their breakers agree.
LEMMA ForgetFacts ==
    ASSUME RiskInv, Risk!Forget, Risk!TypeOK',
           \A k \in checks' : k.runner \in DOMAIN breaker
    PROVE  /\ BreakersUsed' /\ CheckersLoaded'
           /\ \A r \in DOMAIN breaker' : r \in DOMAIN breaker /\ breaker'[r] = breaker[r]
<1>1. DOMAIN breaker' = {q \in DOMAIN breaker : Risk!InUse(q)'}
      /\ \A r \in DOMAIN breaker' : breaker'[r] = breaker[r]
    BY DEF Risk!Forget
<1>2. \A k \in checks' : Risk!InUse(k.runner)'
    BY DEF Risk!InUse
<1> QED BY <1>1, <1>2 DEF BreakersUsed, CheckersLoaded

\* A strategy keeps what it has to, as long as the events are kept and its loop is not
\* started while its event is still to be written.
LEMMA ToldKept ==
    ASSUME RiskInv, NEW s \in Strategies, blocked'[s] \in {0, blocked[s]},
           riskEvents \subseteq riskEvents',
           blocked'[s] > 0 /\ Untold(s) => Untold(s)' \/ Told(s)',
           riskLoop'[s] \in {riskLoop[s], None} \/ (blocked'[s] > 0 => ~Untold(s))
    PROVE  ToldOf(s)'
<1> SUFFICES ASSUME blocked'[s] > 0 PROVE Told(s)' \/ (riskLoop'[s] = None /\ Untold(s)')
    BY DEF ToldOf
<1>1. blocked'[s] = blocked[s]
    BY RiskNumbers
<1>2. Told(s) => Told(s)'
    BY <1>1 DEF Told
<1>3. Told(s) \/ (riskLoop[s] = None /\ Untold(s))
    BY <1>1 DEF RiskInv, BlockedTold, ToldOf
<1> QED BY <1>2, <1>3

LEMMA HeldKept ==
    ASSUME RiskInv, NEW s \in Strategies, blocked'[s] \in {0, blocked[s]},
           riskEvents \subseteq riskEvents', Risk!TypeOK',
           riskLoop'[s] \in DOMAIN breaker' =>
             /\ riskLoop'[s] = riskLoop[s] /\ riskLoop[s] \in DOMAIN breaker
             /\ breaker'[riskLoop[s]][s] \in {breaker[riskLoop[s]][s], Cooldown}
    PROVE  HeldFrom(s)'
<1> SUFFICES ASSUME blocked'[s] > 0, riskLoop'[s] \in DOMAIN breaker'
             PROVE  breaker'[riskLoop'[s]][s] >= blocked'[s] \/ Ambiguous(s)'
    BY DEF HeldFrom
<1>1. blocked'[s] = blocked[s] /\ blocked[s] \in Nat /\ blocked[s] =< Cooldown
    BY RiskNumbers DEF RiskInv, Risk!TypeOK, Risk!Left
<1>2. Ambiguous(s) => Ambiguous(s)'
    BY <1>1 DEF Ambiguous
<1>3. breaker[riskLoop[s]][s] >= blocked[s] \/ Ambiguous(s)
    BY <1>1 DEF RiskInv, BlockedHeld, HeldFrom
<1>4. breaker'[riskLoop[s]][s] = Cooldown => breaker'[riskLoop[s]][s] >= blocked[s]
    BY <1>1, RiskNumbers
<1> QED BY <1>1, <1>2, <1>3, <1>4

LEMMA StartRisk ==
    ASSUME RiskInv, NEW s \in Strategies, NEW r \in Runners, Risk!Start(s, r)
    PROVE  RiskInv'
<1>1. riskLoop' = [riskLoop EXCEPT ![s] = r] /\ ~Risk!InUse(r) /\ riskLoop[s] = None
      /\ riskRow' = [riskRow EXCEPT ![s] = "running"]
      /\ UNCHANGED <<placing, breaker, riskEvents, streak, checks>>
    BY DEF Risk!Start
<1>2. blocked' = [t \in Strategies |-> IF t \in {s} \cap Risk!Pausing THEN 0 ELSE blocked[t]]
      /\ resting' = resting \ {s}
    BY DEF Risk!Start, Risk!Started
<1>3. r \notin DOMAIN breaker /\ (\A k \in checks : k.runner # r) /\ \A t \in Strategies : riskLoop[t] # r
    BY <1>1 DEF RiskInv, BreakersUsed, Risk!InUse
<1>4. Risk!TypeOK'
    BY <1>1, <1>2, RiskNumbers DEF RiskInv, Risk!TypeOK
<1>5. PlacingUnchecked'
    BY <1>1, <1>3 DEF RiskInv, Risk!TypeOK, PlacingUnchecked
<1>6. BreakersUsed' /\ CheckersLoaded'
    BY <1>1, <1>3, RiskNumbers
       DEF RiskInv, Risk!TypeOK, BreakersUsed, CheckersLoaded, Risk!InUse
<1>7. ASSUME NEW t \in Strategies PROVE ToldOf(t)' /\ HeldFrom(t)'
  <2>1. blocked'[t] \in {0, blocked[t]} /\ (t = s /\ blocked'[t] > 0 => t \notin Risk!Pausing)
      BY <1>2
  <2>2. blocked'[t] > 0 /\ Untold(t) => Untold(t)' /\ t \in Risk!Pausing
      BY <1>1, <2>1, RiskNumbers DEF Untold, Risk!Pausing
  <2>3. t # s => riskLoop'[t] = riskLoop[t]
      BY <1>1 DEF RiskInv, Risk!TypeOK
  <2>4. riskLoop'[s] = r
      BY <1>1 DEF RiskInv, Risk!TypeOK
  <2>5. ToldOf(t)'
      BY <1>1, <2>1, <2>2, <2>3, ToldKept
  <2>6. HeldFrom(t)'
      BY <1>1, <1>3, <1>4, <2>1, <2>3, <2>4, HeldKept
  <2> QED BY <2>5, <2>6
<1>8. Risk!AccountRests'
    BY <1>1, <1>2 DEF RiskInv, Risk!TypeOK, Risk!AccountRests
<1> QED BY <1>4, <1>5, <1>6, <1>7, <1>8 DEF RiskInv, BlockedTold, BlockedHeld

\* The loop of s ends, whoever ends it, and its runner is forgotten if that was all.
LEMMA StopRisk ==
    ASSUME RiskInv, NEW s \in Strategies, NEW new \in {"stopped", "running", "stopped_by_risk"},
           riskLoop' = [riskLoop EXCEPT ![s] = None], placing' = placing \ {s},
           riskRow' \in {riskRow, [riskRow EXCEPT ![s] = new]},
           UNCHANGED <<riskEvents, streak, checks, blocked, resting>>, Risk!Forget
    PROVE  RiskInv'
<1>1. \A t \in Strategies : riskLoop'[t] = IF t = s THEN None ELSE riskLoop[t]
    BY DEF RiskInv, Risk!TypeOK
<1>2. Risk!TypeOK'
  <2>1. riskRow' \in [Strategies -> {"running", "stopped", "stopped_by_risk"}]
      BY DEF RiskInv, Risk!TypeOK
  <2>2. DOMAIN breaker' \subseteq DOMAIN breaker /\ \A r \in DOMAIN breaker' : breaker'[r] = breaker[r]
      BY DEF Risk!Forget
  <2> QED BY <2>1, <2>2 DEF RiskInv, Risk!TypeOK
<1>3. PlacingUnchecked'
    BY <1>1 DEF RiskInv, Risk!TypeOK, PlacingUnchecked
<1>4. /\ BreakersUsed' /\ CheckersLoaded'
      /\ \A r \in DOMAIN breaker' : r \in DOMAIN breaker /\ breaker'[r] = breaker[r]
    BY <1>2, ForgetFacts DEF RiskInv, CheckersLoaded
<1>5. None \notin DOMAIN breaker
    BY RiskNumbers DEF RiskInv, Risk!TypeOK
<1>6. ASSUME NEW t \in Strategies PROVE ToldOf(t)' /\ HeldFrom(t)'
  <2>1. ToldOf(t)'
      BY <1>1, ToldKept DEF Untold
  <2>2. HeldFrom(t)'
      BY <1>1, <1>2, <1>4, <1>5, HeldKept
  <2> QED BY <2>1, <2>2
<1>7. Risk!AccountRests'
    BY <1>1 DEF RiskInv, Risk!TypeOK, Risk!AccountRests
<1> QED BY <1>2, <1>3, <1>4, <1>6, <1>7 DEF RiskInv, BlockedTold, BlockedHeld

LEMMA RestartRisk ==
    ASSUME RiskInv, NEW r \in Runners, Risk!Restart(r)
    PROVE  RiskInv'
<1>1. /\ riskLoop' \in [Strategies -> {r, None}]
      /\ \A s \in Strategies : riskLoop'[s] # None => s \notin resting'
      /\ placing' = {} /\ checks' = {} /\ DOMAIN breaker' = {}
      /\ \A s \in Strategies : blocked'[s] = IF s \in Risk!Pausing THEN 0 ELSE blocked[s]
      /\ blocked' \in [Strategies -> Risk!Left] /\ resting' \subseteq resting
      /\ UNCHANGED <<riskRow, riskEvents, streak>>
    BY RiskNumbers DEF Risk!Restart, RiskInv, Risk!TypeOK
<1>2. Risk!TypeOK'
    BY <1>1 DEF RiskInv, Risk!TypeOK
<1>3. ASSUME NEW s \in Strategies PROVE ToldOf(s)'
  <2>1. blocked'[s] > 0 => ~Untold(s)
      BY <1>1 DEF Untold, Risk!Pausing
  <2>2. blocked'[s] \in {0, blocked[s]} /\ riskEvents \subseteq riskEvents'
      BY <1>1
  <2>3. blocked'[s] > 0 /\ Untold(s) => Untold(s)' \/ Told(s)'
      BY <2>1
  <2> QED BY <2>1, <2>2, <2>3, ToldKept
<1>4. PlacingUnchecked' /\ BreakersUsed' /\ CheckersLoaded'
    BY <1>1 DEF PlacingUnchecked, BreakersUsed, CheckersLoaded
<1>5. BlockedHeld'
    BY <1>1 DEF BlockedHeld, HeldFrom
<1>6. Risk!AccountRests'
    BY <1>1, <1>2 DEF Risk!AccountRests, Risk!TypeOK
<1> QED BY <1>2, <1>3, <1>4, <1>5, <1>6 DEF RiskInv, BlockedTold

LEMMA ResetRisk ==
    ASSUME RiskInv, Risk!Reset
    PROVE  RiskInv'
<1>1. Risk!TypeOK' /\ \A s \in Strategies : blocked'[s] = 0
    BY RiskNumbers DEF Risk!Reset, RiskInv, Risk!TypeOK
<1>2. UNCHANGED <<riskLoop, placing, breaker, checks, resting>>
    BY DEF Risk!Reset
<1>3. PlacingUnchecked' /\ BreakersUsed' /\ CheckersLoaded' /\ Risk!AccountRests'
    BY <1>2 DEF RiskInv, PlacingUnchecked, BreakersUsed, CheckersLoaded, Risk!AccountRests,
                Risk!InUse
<1>4. BlockedTold' /\ BlockedHeld'
    BY <1>1 DEF BlockedTold, BlockedHeld, ToldOf, HeldFrom
<1> QED BY <1>1, <1>3, <1>4 DEF RiskInv

LEMMA TickRisk ==
    ASSUME RiskInv, Risk!Tick
    PROVE  RiskInv'
<1>1. /\ DOMAIN breaker' = DOMAIN breaker
      /\ \A r \in DOMAIN breaker : breaker'[r] = [c \in Risk!Scopes |-> Risk!Less(breaker[r][c])]
      /\ riskEvents' = {<<e[1], Risk!Less(e[2])>> : e \in riskEvents}
      /\ checks' = {[k EXCEPT !.left = Risk!Less(@)] : k \in checks}
      /\ blocked' = [s \in Strategies |-> Risk!Less(blocked[s])]
      /\ UNCHANGED <<riskRow, riskLoop, placing, streak, resting>>
    BY DEF Risk!Tick
<1> DEFINE Later(k) == [k EXCEPT !.left = Risk!Less(@)]
<1>2. \A k \in Risk!Checks : /\ Later(k) \in Risk!Checks
                             /\ Later(k).strategy = k.strategy /\ Later(k).runner = k.runner
                             /\ Later(k).scope = k.scope /\ Later(k).cancel = k.cancel
                             /\ Later(k).left = Risk!Less(k.left)
    BY RiskNumbers DEF Risk!Checks
<1>3. checks' = {Later(k) : k \in checks} /\ checks \subseteq Risk!Checks
    BY <1>1 DEF RiskInv, Risk!TypeOK
<1> HIDE DEF Later
<1>10. checks' \subseteq Risk!Checks
    BY <1>2, <1>3
<1>4. Risk!TypeOK'
  <2>1. riskEvents' \subseteq Risk!Scopes \X Risk!Left
      BY <1>1, RiskNumbers DEF RiskInv, Risk!TypeOK
  <2>2. blocked' \in [Strategies -> Risk!Left]
      BY <1>1, RiskNumbers DEF RiskInv, Risk!TypeOK
  <2>3. \A r \in DOMAIN breaker' : breaker'[r] \in [Risk!Scopes -> Risk!Left]
      BY <1>1, RiskNumbers DEF RiskInv, Risk!TypeOK
  <2> QED BY <1>1, <1>10, <2>1, <2>2, <2>3 DEF RiskInv, Risk!TypeOK
<1>5. PlacingUnchecked' /\ BreakersUsed' /\ CheckersLoaded'
  <2>1. PlacingUnchecked' /\ CheckersLoaded'
      BY <1>1, <1>2, <1>3 DEF RiskInv, PlacingUnchecked, CheckersLoaded
  <2>2. ASSUME NEW r \in DOMAIN breaker PROVE Risk!InUse(r)'
    <3>1. CASE \E s \in Strategies : riskLoop[s] = r
        BY <1>1, <3>1 DEF Risk!InUse
    <3>2. CASE \E k \in checks : k.runner = r
      <4>1. PICK k \in checks : k.runner = r
          BY <3>2
      <4>2. Later(k) \in checks' /\ Later(k).runner = r
          BY <1>2, <1>3, <4>1
      <4> QED BY <4>2 DEF Risk!InUse
    <3> QED BY <3>1, <3>2 DEF RiskInv, BreakersUsed, Risk!InUse
  <2> QED BY <1>1, <2>1, <2>2 DEF BreakersUsed
<1>6. Risk!AccountRests'
  <2>1. ASSUME NEW s \in resting', riskLoop'[s] # None
        PROVE  \E j \in checks' : j.scope = Account /\ s \in j.cancel
    <3>1. PICK k \in checks : k.scope = Account /\ s \in k.cancel
        BY <1>1, <2>1 DEF RiskInv, Risk!AccountRests
    <3>2. Later(k) \in checks' /\ Later(k).scope = Account /\ s \in Later(k).cancel
        BY <1>2, <1>3, <3>1
    <3> QED BY <3>2
  <2> QED BY <2>1 DEF Risk!AccountRests
<1>7. \A m, n \in Risk!Left : m >= n => Risk!Less(m) >= Risk!Less(n)
    BY RiskNumbers DEF Risk!Less
<1>8. ASSUME NEW s \in Strategies, NEW n \in Risk!Left, <<s, n>> \in riskEvents
      PROVE  <<s, Risk!Less(n)>> \in riskEvents'
    BY <1>1, <1>8
<1>9. ASSUME NEW s \in Strategies PROVE ToldOf(s)' /\ HeldFrom(s)'
  <2>1. blocked[s] \in Risk!Left /\ blocked'[s] = Risk!Less(blocked[s])
        /\ (blocked'[s] > 0 => blocked[s] > 1)
      BY <1>1, RiskNumbers DEF Risk!Less, RiskInv, Risk!TypeOK
  <2>2. Told(s) => Told(s)'
    <3>1. ASSUME NEW n \in Risk!Left, n >= blocked[s], <<s, n>> \in riskEvents PROVE Told(s)'
      <4>1. Risk!Less(n) >= blocked'[s] /\ Risk!Less(n) \in Risk!Left
          BY <1>7, <2>1, <3>1, RiskNumbers
      <4> QED BY <1>8, <3>1, <4>1 DEF Told
    <3> QED BY <3>1 DEF Told
  <2>3. Untold(s) => Untold(s)'
    <3>1. ASSUME NEW k \in checks, k.scope = s, k.left >= blocked[s] PROVE Untold(s)'
      <4>1. k.left \in Risk!Left /\ k \in Risk!Checks
          BY <1>3 DEF Risk!Checks
      <4>2. Risk!Less(k.left) >= blocked'[s]
          BY <1>7, <2>1, <3>1, <4>1
      <4>3. Later(k) \in checks' /\ Later(k).scope = s /\ Later(k).left = Risk!Less(k.left)
          BY <1>2, <1>3, <3>1, <4>1
      <4> QED BY <4>2, <4>3 DEF Untold
    <3> QED BY <3>1 DEF Untold
  <2>4. ToldOf(s)'
      BY <1>1, <2>1, <2>2, <2>3, RiskNumbers DEF RiskInv, BlockedTold, ToldOf
  <2>5. blocked'[s] > 0 /\ Ambiguous(s) => Ambiguous(s)'
    <3>1. ASSUME NEW m \in Risk!Left, NEW n \in Risk!Left, m < n, n >= blocked[s],
                 blocked'[s] > 0, <<s, m>> \in riskEvents, <<s, n>> \in riskEvents
          PROVE  Ambiguous(s)'
      <4>1. m \in Nat /\ n \in Nat /\ blocked[s] \in Nat /\ blocked[s] > 1
          BY <2>1, <3>1, RiskNumbers
      <4>2. Risk!Less(m) < Risk!Less(n)
          BY <3>1, <4>1 DEF Risk!Less
      <4>3. Risk!Less(n) >= blocked'[s]
          BY <1>7, <2>1, <3>1
      <4>4. Risk!Less(m) \in Risk!Left /\ Risk!Less(n) \in Risk!Left
          BY RiskNumbers
      <4> QED BY <1>8, <3>1, <4>2, <4>3, <4>4 DEF Ambiguous
    <3> QED BY <3>1 DEF Ambiguous
  <2>6. riskLoop[s] \in DOMAIN breaker =>
          /\ breaker[riskLoop[s]][s] \in Risk!Left
          /\ breaker'[riskLoop[s]][s] = Risk!Less(breaker[riskLoop[s]][s])
      BY <1>1 DEF RiskInv, Risk!TypeOK, Risk!Scopes
  <2>7. HeldFrom(s)'
      BY <1>1, <1>7, <2>1, <2>5, <2>6, RiskNumbers DEF RiskInv, BlockedHeld, HeldFrom
  <2> QED BY <2>4, <2>7
<1> QED BY <1>4, <1>5, <1>6, <1>9 DEF RiskInv, BlockedTold, BlockedHeld

LEMMA RefreshRisk ==
    ASSUME RiskInv, NEW s \in Strategies, Risk!Refresh(s)
    PROVE  RiskInv'
<1>1. CASE riskRow[s] = "stopped_by_risk"
  <2>1. /\ riskLoop' = [riskLoop EXCEPT ![s] = None] /\ placing' = placing \ {s}
        /\ Risk!Forget
        /\ UNCHANGED <<riskRow, riskEvents, streak, checks, blocked, resting>>
      BY <1>1 DEF Risk!Refresh
  <2> QED BY <2>1, StopRisk
<1>2. CASE riskRow[s] # "stopped_by_risk"
  <2>1. /\ riskLoop[s] # None /\ placing' = placing \cup {s}
        /\ \A k \in checks : ~(k.strategy = s /\ k.runner = riskLoop[s])
        /\ UNCHANGED <<riskRow, riskLoop, breaker, riskEvents, streak, checks, blocked, resting>>
      BY <1>2 DEF Risk!Refresh
  <2>2. Risk!TypeOK'
      BY <2>1 DEF RiskInv, Risk!TypeOK
  <2>3. PlacingUnchecked'
      BY <2>1 DEF RiskInv, PlacingUnchecked
  <2>4. BreakersUsed' /\ CheckersLoaded' /\ Risk!AccountRests'
      BY <2>1 DEF RiskInv, BreakersUsed, CheckersLoaded, Risk!AccountRests, Risk!InUse
  <2>5. BlockedTold' /\ BlockedHeld'
      BY <2>1 DEF RiskInv, BlockedTold, BlockedHeld, ToldOf, HeldFrom, Told, Untold, Ambiguous
  <2> QED BY <2>2, <2>3, <2>4, <2>5 DEF RiskInv
<1> QED BY <1>1, <1>2

\* A runner reads its breaker: that of a strategy that is blocked tells it, unless there
\* are several events of which it has read an older one.
LEMMA LoadedHolds ==
    ASSUME RiskInv, NEW s \in Strategies, NEW b \in Risk!Loaded, Told(s), blocked[s] > 0
    PROVE  b[s] >= blocked[s] \/ Ambiguous(s)
<1>1. PICK n \in Risk!Left : n >= blocked[s] /\ <<s, n>> \in riskEvents
    BY DEF Told
<1>2. <<s, n>> \in Risk!Rows(s)
    BY <1>1 DEF Risk!Rows
<1>3. b[s] \in Risk!Left /\ <<s, b[s]>> \in riskEvents
    BY <1>2 DEF Risk!Loaded, Risk!Scopes
<1>4. blocked[s] \in Nat /\ n \in Nat /\ b[s] \in Nat
    BY <1>3, RiskNumbers DEF RiskInv, Risk!TypeOK
<1>5. CASE b[s] < n
    BY <1>1, <1>3, <1>5 DEF Ambiguous
<1>6. CASE b[s] >= n
    BY <1>1, <1>4, <1>6
<1> QED BY <1>4, <1>5, <1>6

\* A breaker of r is kept, with a check or without, and r is used.
LEMMA CachedRisk ==
    ASSUME RiskInv, NEW r \in Runners, NEW b \in Risk!Breakers(r), Risk!Cached(r, b),
           checks \subseteq checks', checks' \subseteq Risk!Checks,
           \A k \in checks' \ checks :
             k.runner = r /\ \A s \in placing' : k.strategy = s => riskLoop[s] # r,
           placing' \subseteq placing, Risk!InUse(r)',
           streak' \in [Strategies -> 0..Threshold],
           UNCHANGED <<riskRow, riskLoop, riskEvents, blocked, resting>>
    PROVE  RiskInv'
<1>1. b \in [Risk!Scopes -> Risk!Left]
    BY DEF Risk!Breakers, Risk!Loaded, RiskInv, Risk!TypeOK
<1>2. /\ DOMAIN breaker' = DOMAIN breaker \cup {r}
      /\ \A q \in DOMAIN breaker' : breaker'[q] = IF q = r THEN b ELSE breaker[q]
    BY DEF Risk!Cached
<1>3. Risk!TypeOK'
    BY <1>1, <1>2 DEF RiskInv, Risk!TypeOK
<1>4. PlacingUnchecked'
    BY DEF RiskInv, PlacingUnchecked
<1>5. BreakersUsed' /\ CheckersLoaded'
    BY <1>2 DEF RiskInv, BreakersUsed, CheckersLoaded, Risk!InUse
<1>6. Risk!AccountRests'
    BY DEF RiskInv, Risk!AccountRests
<1>7. ASSUME NEW s \in Strategies PROVE ToldOf(s)' /\ HeldFrom(s)'
  <2>1. ToldOf(s)'
      BY ToldKept DEF Untold
  <2>2. CASE riskLoop[s] # r \/ r \in DOMAIN breaker
    <3>1. r \in DOMAIN breaker => b = breaker[r]
        BY DEF Risk!Breakers
    <3> QED BY <1>2, <1>3, <2>1, <2>2, <3>1, HeldKept
  <2>3. CASE riskLoop[s] = r /\ r \notin DOMAIN breaker /\ blocked[s] > 0
    <3>1. b \in Risk!Loaded
        BY <2>3 DEF Risk!Breakers
    <3>2. Told(s)
        BY <2>3, RiskNumbers DEF RiskInv, BlockedTold, ToldOf
    <3>3. b[s] >= blocked[s] \/ Ambiguous(s)
        BY <2>3, <3>1, <3>2, LoadedHolds
    <3>4. breaker'[riskLoop'[s]][s] = b[s]
        BY <1>2, <2>3
    <3>5. Ambiguous(s) => Ambiguous(s)'
        BY DEF Ambiguous
    <3> QED BY <2>1, <3>3, <3>4, <3>5 DEF HeldFrom
  <2> QED BY <2>1, <2>2, <2>3 DEF HeldFrom
<1> QED BY <1>3, <1>4, <1>5, <1>6, <1>7 DEF RiskInv, BlockedTold, BlockedHeld

LEMMA TradeRisk ==
    ASSUME RiskInv, NEW s \in Strategies,
           Risk!Order(s) \/ \E r \in Runners : Risk!ManualClose(s, r)
    PROVE  RiskInv'
<1>1. ASSUME NEW r \in Runners, NEW loss \in BOOLEAN, Risk!Closed(s, r, loss)
      PROVE  /\ streak' \in [Strategies -> 0..Threshold]
             /\ checks' \subseteq Risk!Checks /\ checks \subseteq checks'
             /\ \A k \in checks' \ checks : k.strategy = s /\ k.runner = r
             /\ \E k \in checks' : k.runner = r
  <2>1. streak' \in [Strategies -> 0..Threshold]
      BY <1>1, RiskNumbers DEF Risk!Closed, RiskInv, Risk!TypeOK
  <2>2. checks' = checks \cup {Risk!Check(s, r, loss)}
      BY <1>1 DEF Risk!Closed
  <2> QED BY <2>1, <2>2, CheckFacts DEF RiskInv, Risk!TypeOK
<1>2. CASE Risk!Order(s)
  <2>1. /\ s \in placing /\ placing' = placing \ {s} /\ riskLoop[s] \in Runners
        /\ UNCHANGED <<riskRow, riskLoop, riskEvents, blocked, resting>>
      BY <1>2 DEF Risk!Order, RiskInv, Risk!TypeOK
  <2>2. PICK b \in Risk!Breakers(riskLoop[s]) :
          /\ Risk!Cached(riskLoop[s], b)
          /\ \/ UNCHANGED <<streak, checks>>
             \/ \E loss \in BOOLEAN : Risk!Closed(s, riskLoop[s], loss)
      BY <1>2 DEF Risk!Order
  <2>3. Risk!InUse(riskLoop[s])'
      BY <2>1 DEF Risk!InUse
  <2>4. CASE UNCHANGED <<streak, checks>>
      BY <2>1, <2>2, <2>3, <2>4, CachedRisk DEF RiskInv, Risk!TypeOK
  <2>5. CASE \E loss \in BOOLEAN : Risk!Closed(s, riskLoop[s], loss)
    <3>1. PICK loss \in BOOLEAN : Risk!Closed(s, riskLoop[s], loss)
        BY <2>5
    <3> QED BY <1>1, <2>1, <2>2, <2>3, <3>1, CachedRisk
  <2> QED BY <2>2, <2>4, <2>5
<1>3. ASSUME NEW r \in Runners, Risk!ManualClose(s, r) PROVE RiskInv'
  <2>1. UNCHANGED <<riskRow, riskLoop, placing, riskEvents, blocked, resting>>
        /\ ~Risk!InUse(r)
      BY <1>3 DEF Risk!ManualClose
  <2>2. PICK b \in Risk!Loaded : Risk!Cached(r, b)
      BY <1>3 DEF Risk!ManualClose
  <2>3. PICK loss \in BOOLEAN : Risk!Closed(s, r, loss)
      BY <1>3 DEF Risk!ManualClose
  <2>4. r \notin DOMAIN breaker /\ \A t \in Strategies : riskLoop[t] # r
      BY <2>1 DEF RiskInv, BreakersUsed, Risk!InUse
  <2>5. b \in Risk!Breakers(r)
      BY <2>4 DEF Risk!Breakers
  <2>6. Risk!InUse(r)'
      BY <1>1, <2>3 DEF Risk!InUse
  <2>7. placing' \subseteq Strategies
      BY <2>1 DEF RiskInv, Risk!TypeOK
  <2> QED BY <1>1, <2>1, <2>2, <2>3, <2>4, <2>5, <2>6, <2>7, CachedRisk
<1> QED BY <1>2, <1>3

\* The threads.  What k becomes is a check of the same strategy and runner.
Follows(k, by) ==
    /\ by \subseteq Risk!Checks
    /\ checks' = (checks \ {k}) \cup by
    /\ \A j \in by : j.strategy = k.strategy /\ j.runner = k.runner

LEMMA FollowsPlacing ==
    ASSUME RiskInv, NEW k \in checks, NEW by, Follows(k, by), placing' \subseteq placing,
           \A s \in placing' : riskLoop'[s] = riskLoop[s]
    PROVE  /\ PlacingUnchecked'
           /\ checks' \subseteq Risk!Checks
           /\ \A j \in checks' : j.runner \in DOMAIN breaker
<1>1. \A j \in checks' : \E i \in checks : j.strategy = i.strategy /\ j.runner = i.runner
    BY DEF Follows
<1>2. PlacingUnchecked'
    BY <1>1 DEF RiskInv, PlacingUnchecked
<1>3. checks' \subseteq Risk!Checks
    BY DEF Follows, RiskInv, Risk!TypeOK
<1> QED BY <1>1, <1>2, <1>3 DEF RiskInv, CheckersLoaded

\* The runner of k is still used.
LEMMA FollowsUsed ==
    ASSUME RiskInv, NEW k \in checks, NEW by, Follows(k, by), by # {},
           UNCHANGED riskLoop, DOMAIN breaker' = DOMAIN breaker
    PROVE  BreakersUsed' /\ CheckersLoaded'
<1>1. ASSUME NEW r \in DOMAIN breaker PROVE Risk!InUse(r)'
  <2>1. CASE \E s \in Strategies : riskLoop[s] = r
      BY <2>1 DEF Risk!InUse
  <2>2. CASE \E j \in checks : j.runner = r
      BY <2>2 DEF Risk!InUse, Follows
  <2> QED BY <2>1, <2>2 DEF RiskInv, BreakersUsed, Risk!InUse
<1>2. \A j \in checks' : \E i \in checks : j.runner = i.runner
    BY DEF Follows
<1> QED BY <1>1, <1>2 DEF RiskInv, BreakersUsed, CheckersLoaded

\* A breaker is triggered: its runner holds it for the whole cooldown from now on.
LEMMA TriggerRisk ==
    ASSUME RiskInv, NEW k \in checks, Risk!Consecutive(k) \/ Risk!Rapid(k)
    PROVE  RiskInv'
<1>1. /\ k \in Risk!Checks /\ k.scope = None
      /\ UNCHANGED <<riskRow, riskLoop, placing, riskEvents, streak, blocked>>
    BY DEF Risk!Consecutive, Risk!Rapid, Risk!Idle, RiskInv, Risk!TypeOK
<1>2. PICK scope \in Risk!Scopes, S \in SUBSET Strategies :
        /\ Risk!Trigger(k, scope, S)
        /\ \/ resting' = resting
           \/ scope = Account /\ resting' = resting \cup S
  <2>1. CASE Risk!Consecutive(k)
      BY <1>1, <2>1 DEF Risk!Consecutive, Risk!Scopes, Risk!Checks
  <2>2. CASE Risk!Rapid(k)
      BY <2>2 DEF Risk!Rapid, Risk!Scopes
  <2> QED BY <2>1, <2>2
<1>3. PICK j \in Risk!Checks :
        /\ checks' = (checks \ {k}) \cup {j}
        /\ j.strategy = k.strategy /\ j.runner = k.runner
        /\ j.scope = scope /\ j.cancel = S
    BY <1>2, TriggerFacts
<1>4. Follows(k, {j})
    BY <1>3 DEF Follows
<1>5. k.runner \in DOMAIN breaker /\ breaker' = [breaker EXCEPT ![k.runner][scope] = Cooldown]
    BY <1>2 DEF Risk!Trigger, RiskInv, CheckersLoaded
<1>6. /\ DOMAIN breaker' = DOMAIN breaker
      /\ \A r \in DOMAIN breaker : /\ breaker'[r] \in [Risk!Scopes -> Risk!Left]
                                   /\ \A c \in Risk!Scopes : breaker'[r][c] \in {breaker[r][c], Cooldown}
    BY <1>5, RiskNumbers DEF RiskInv, Risk!TypeOK
<1>7. PlacingUnchecked' /\ checks' \subseteq Risk!Checks
    BY <1>1, <1>4, FollowsPlacing
<1>8. BreakersUsed' /\ CheckersLoaded'
    BY <1>1, <1>4, <1>6, FollowsUsed
<1>9. Risk!TypeOK'
    BY <1>1, <1>2, <1>6, <1>7 DEF RiskInv, Risk!TypeOK
<1>10. ASSUME NEW s \in Strategies PROVE ToldOf(s)' /\ HeldFrom(s)'
  <2>1. Untold(s) => Untold(s)'
      BY <1>1, <1>3, RiskNumbers DEF Untold
  <2>2. ToldOf(s)'
      BY <1>1, <2>1, ToldKept
  <2>3. HeldFrom(s)'
      BY <1>1, <1>6, <1>9, HeldKept DEF Risk!Scopes
  <2> QED BY <2>2, <2>3
<1>11. Risk!AccountRests'
  <2>1. ASSUME NEW s \in resting', riskLoop'[s] # None
        PROVE  \E i \in checks' : i.scope = Account /\ s \in i.cancel
    <3>1. CASE s \in resting
        BY <1>1, <1>3, <2>1, <3>1, RiskNumbers DEF RiskInv, Risk!AccountRests
    <3>2. CASE scope = Account /\ s \in S
        BY <1>3, <3>2
    <3> QED BY <1>2, <2>1, <3>1, <3>2
  <2> QED BY <2>1 DEF Risk!AccountRests
<1> QED BY <1>7, <1>8, <1>9, <1>10, <1>11 DEF RiskInv, BlockedTold, BlockedHeld

\* A check goes on, marks a strategy, or ends.
LEMMA CheckRisk ==
    ASSUME RiskInv, NEW k \in checks,
           \/ Risk!NotConsecutive(k) \/ Risk!NotRapid(k)
           \/ \E x \in Strategies : Risk!Mark(k, x)
    PROVE  RiskInv'
<1>1. k \in Risk!Checks
    BY DEF RiskInv, Risk!TypeOK
<1>2. PICK by \in SUBSET Risk!Checks :
        /\ Follows(k, by)
        /\ \A j \in by : j.scope = k.scope /\ j.cancel = k.cancel /\ j.left = k.left
        /\ by # {} \/ (k.scope = None /\ Risk!Forget)
        /\ by = {} \/ UNCHANGED breaker
        /\ riskRow' \in [Strategies -> {"running", "stopped", "stopped_by_risk"}]
        /\ UNCHANGED <<riskLoop, placing, riskEvents, streak, blocked, resting>>
  <2>1. CASE Risk!NotConsecutive(k)
    <3> DEFINE j == [k EXCEPT !.stage = "rapid"]
    <3>1. /\ j \in Risk!Checks /\ j.strategy = k.strategy /\ j.runner = k.runner
          /\ j.scope = k.scope /\ j.cancel = k.cancel /\ j.left = k.left
        BY <1>1 DEF Risk!Checks
    <3>2. Follows(k, {j})
        BY <2>1, <3>1 DEF Follows, Risk!NotConsecutive, Risk!Becomes
    <3>3. {j} \in SUBSET Risk!Checks /\ {j} # {}
        BY <3>1
    <3>4. UNCHANGED <<riskRow, breaker, riskLoop, placing, riskEvents, streak, blocked, resting>>
        BY <2>1 DEF Risk!NotConsecutive
    <3> HIDE DEF j
    <3>5. \A i \in {j} : i.scope = k.scope /\ i.cancel = k.cancel /\ i.left = k.left
        BY <3>1
    <3> QED BY <3>2, <3>3, <3>4, <3>5 DEF RiskInv, Risk!TypeOK
  <2>2. CASE Risk!NotRapid(k)
    <3>1. Follows(k, {})
        BY <2>2 DEF Follows, Risk!NotRapid, Risk!Becomes
    <3>2. {} \in SUBSET Risk!Checks
        OBVIOUS
    <3>3. UNCHANGED <<riskRow, riskLoop, placing, riskEvents, streak, blocked, resting>>
          /\ k.scope = None /\ Risk!Forget
        BY <2>2 DEF Risk!NotRapid, Risk!Idle
    <3> QED BY <3>1, <3>2, <3>3 DEF RiskInv, Risk!TypeOK
  <2>3. ASSUME NEW x \in Strategies, Risk!Mark(k, x)
        PROVE  \E by \in SUBSET Risk!Checks :
                 /\ Follows(k, by)
                 /\ \A j \in by : j.scope = k.scope /\ j.cancel = k.cancel /\ j.left = k.left
                 /\ by # {} /\ UNCHANGED breaker
                 /\ riskRow' \in [Strategies -> {"running", "stopped", "stopped_by_risk"}]
                 /\ UNCHANGED <<riskLoop, placing, riskEvents, streak, blocked, resting>>
    <3> DEFINE j == [k EXCEPT !.mark = {}]
    <3>1. /\ j \in Risk!Checks /\ j.strategy = k.strategy /\ j.runner = k.runner
          /\ j.scope = k.scope /\ j.cancel = k.cancel /\ j.left = k.left
        BY <1>1 DEF Risk!Checks
    <3>2. Follows(k, {j})
        BY <2>3, <3>1 DEF Follows, Risk!Mark, Risk!Becomes
    <3>3. riskRow' \in [Strategies -> {"running", "stopped", "stopped_by_risk"}]
        BY <2>3 DEF Risk!Mark, RiskInv, Risk!TypeOK
    <3>4. {j} \in SUBSET Risk!Checks /\ {j} # {}
        BY <3>1
    <3>5. UNCHANGED <<breaker, riskLoop, placing, riskEvents, streak, blocked, resting>>
        BY <2>3 DEF Risk!Mark
    <3> HIDE DEF j
    <3>6. \A i \in {j} : i.scope = k.scope /\ i.cancel = k.cancel /\ i.left = k.left
        BY <3>1
    <3> QED BY <3>2, <3>3, <3>4, <3>5, <3>6
  <2> QED BY <2>1, <2>2, <2>3
<1>3. /\ PlacingUnchecked' /\ checks' \subseteq Risk!Checks
      /\ \A j \in checks' : j.runner \in DOMAIN breaker
    BY <1>2, FollowsPlacing
<1>4. DOMAIN breaker' \subseteq DOMAIN breaker /\ \A r \in DOMAIN breaker' : breaker'[r] = breaker[r]
    BY <1>2 DEF Risk!Forget
<1>5. Risk!TypeOK'
    BY <1>2, <1>3, <1>4 DEF RiskInv, Risk!TypeOK
<1>6. BreakersUsed' /\ CheckersLoaded'
  <2>1. CASE by # {}
      BY <1>2, <2>1, FollowsUsed
  <2>2. CASE by = {}
      BY <1>2, <1>3, <1>5, <2>2, ForgetFacts
  <2> QED BY <2>1, <2>2
<1>7. \A i \in checks : i.scope # None =>
        \E j \in checks' : j.scope = i.scope /\ j.cancel = i.cancel /\ j.left = i.left
    BY <1>2 DEF Follows
<1>8. ASSUME NEW s \in Strategies PROVE ToldOf(s)' /\ HeldFrom(s)'
  <2>1. Untold(s) => Untold(s)'
      BY <1>2, <1>7, RiskNumbers DEF Untold
  <2>2. ToldOf(s)'
      BY <1>2, <2>1, ToldKept
  <2>3. HeldFrom(s)'
      BY <1>2, <1>4, <1>5, HeldKept
  <2> QED BY <2>2, <2>3
<1>9. Risk!AccountRests'
    BY <1>2, <1>7, RiskNumbers DEF RiskInv, Risk!AccountRests
<1> QED BY <1>3, <1>5, <1>6, <1>8, <1>9 DEF RiskInv, BlockedTold, BlockedHeld

\* The loop of x is cancelled, and if it is x that the breaker is about, what is left of
\* its cooldown is what it has to keep from now on.
LEMMA CancelRisk ==
    ASSUME RiskInv, NEW k \in checks, NEW x \in Strategies, Risk!Cancel(k, x)
    PROVE  RiskInv'
<1> DEFINE j == [k EXCEPT !.cancel = @ \ {x}, !.mark = {x}]
<1>1. k \in Risk!Checks /\ k.left \in Risk!Left
    BY DEF RiskInv, Risk!TypeOK, Risk!Checks
<1>2. /\ j \in Risk!Checks /\ j.strategy = k.strategy /\ j.runner = k.runner
      /\ j.scope = k.scope /\ j.cancel = k.cancel \ {x} /\ j.left = k.left
    BY <1>1 DEF Risk!Checks
<1>3. /\ checks' = (checks \ {k}) \cup {j}
      /\ riskLoop' = [riskLoop EXCEPT ![x] = None] /\ placing' = placing \ {x}
      /\ blocked' = IF k.scope = x THEN [blocked EXCEPT ![x] = k.left] ELSE blocked
      /\ UNCHANGED <<riskRow, riskEvents, streak, resting>> /\ Risk!Forget
    BY DEF Risk!Cancel, Risk!Cancelled, Risk!Becomes
<1> HIDE DEF j
<1>4. Follows(k, {j})
    BY <1>2, <1>3 DEF Follows
<1>5. \A s \in Strategies : riskLoop'[s] = IF s = x THEN None ELSE riskLoop[s]
    BY <1>3 DEF RiskInv, Risk!TypeOK
<1>6. /\ PlacingUnchecked' /\ checks' \subseteq Risk!Checks
      /\ \A i \in checks' : i.runner \in DOMAIN breaker
  <2>1. placing' \subseteq placing /\ \A s \in placing' : riskLoop'[s] = riskLoop[s]
      BY <1>3, <1>5 DEF RiskInv, Risk!TypeOK
  <2> QED BY <1>4, <2>1, FollowsPlacing
<1>7. Risk!TypeOK'
  <2>1. /\ riskLoop' \in [Strategies -> Runners \cup {None}]
        /\ blocked' \in [Strategies -> Risk!Left]
        /\ placing' \subseteq {s \in Strategies : riskLoop'[s] # None}
      BY <1>1, <1>3, <1>5 DEF RiskInv, Risk!TypeOK
  <2>2. DOMAIN breaker' \subseteq DOMAIN breaker /\ \A r \in DOMAIN breaker' : breaker'[r] = breaker[r]
      BY <1>3 DEF Risk!Forget
  <2> QED BY <1>3, <1>6, <2>1, <2>2 DEF RiskInv, Risk!TypeOK
<1>8. /\ BreakersUsed' /\ CheckersLoaded'
      /\ \A r \in DOMAIN breaker' : r \in DOMAIN breaker /\ breaker'[r] = breaker[r]
    BY <1>3, <1>6, <1>7, ForgetFacts
<1>9. None \notin DOMAIN breaker
    BY RiskNumbers DEF RiskInv, Risk!TypeOK
<1>10. ASSUME NEW s \in Strategies PROVE ToldOf(s)' /\ HeldFrom(s)'
  <2>1. CASE s = x /\ k.scope = x
    <3>1. blocked'[s] = k.left /\ riskLoop'[s] = None
        BY <1>3, <1>5, <2>1 DEF RiskInv, Risk!TypeOK
    <3>2. k.left >= k.left
      <4>1. k.left \in Nat
          BY <1>1, RiskNumbers
      <4>2. \A n \in Nat : n >= n
          OBVIOUS
      <4> QED BY <4>1, <4>2
    <3>3. Untold(s)'
        BY <1>2, <1>3, <2>1, <3>1, <3>2 DEF Untold
    <3> QED BY <1>8, <1>9, <3>1, <3>3 DEF ToldOf, HeldFrom
  <2>2. CASE ~(s = x /\ k.scope = x)
    <3>1. blocked'[s] = blocked[s]
        BY <1>3, <2>2 DEF RiskInv, Risk!TypeOK
    <3>2. Untold(s) => Untold(s)'
        BY <1>2, <1>3, <3>1 DEF Untold
    <3>3. ToldOf(s)'
        BY <1>3, <1>5, <3>1, <3>2, ToldKept
    <3>4. HeldFrom(s)'
        BY <1>3, <1>5, <1>7, <1>8, <1>9, <3>1, HeldKept
    <3> QED BY <3>3, <3>4
  <2> QED BY <2>1, <2>2
<1>11. Risk!AccountRests'
  <2>1. ASSUME NEW s \in resting', riskLoop'[s] # None
        PROVE  \E i \in checks' : i.scope = Account /\ s \in i.cancel
    <3>1. s \in resting /\ s # x /\ riskLoop[s] # None
        BY <1>3, <1>5, <2>1 DEF RiskInv, Risk!TypeOK
    <3>2. PICK i \in checks : i.scope = Account /\ s \in i.cancel
        BY <3>1 DEF RiskInv, Risk!AccountRests
    <3> QED BY <1>2, <1>3, <3>1, <3>2
  <2> QED BY <2>1 DEF Risk!AccountRests
<1> QED BY <1>6, <1>7, <1>8, <1>10, <1>11 DEF RiskInv, BlockedTold, BlockedHeld

\* The event is written, or it is not and nothing is kept of it.
LEMMA PersistRisk ==
    ASSUME RiskInv, NEW k \in checks, Risk!Persist(k)
    PROVE  RiskInv'
<1> DEFINE j == [k EXCEPT !.stage = "rapid", !.scope = None, !.left = 0]
<1>1. k \in Risk!Checks /\ k.left \in Risk!Left /\ k.scope \in Risk!Scopes /\ k.cancel = {}
    BY DEF Risk!Persist, Risk!Idle, RiskInv, Risk!TypeOK, Risk!Checks
<1>2. /\ j \in Risk!Checks /\ j.strategy = k.strategy /\ j.runner = k.runner
    BY <1>1, RiskNumbers DEF Risk!Checks
<1>3. /\ UNCHANGED <<riskRow, riskLoop, placing, streak, resting>> /\ Risk!Forget
      /\ \/ riskEvents' = riskEvents \cup {<<k.scope, k.left>>} /\ blocked' = blocked
         \/ /\ riskEvents' = riskEvents
            /\ blocked' = [s \in Strategies |-> IF s = k.scope THEN 0 ELSE blocked[s]]
    BY DEF Risk!Persist
<1>4. \E by \in SUBSET Risk!Checks : Follows(k, by)
  <2>1. CASE k.stage = "streak"
    <3>1. Follows(k, {j})
        BY <1>2, <2>1 DEF Follows, Risk!Persist, Risk!Becomes
    <3>2. {j} \in SUBSET Risk!Checks
        BY <1>2
    <3> HIDE DEF j
    <3> QED BY <3>1, <3>2
  <2>2. CASE k.stage # "streak"
    <3>1. Follows(k, {})
        BY <2>2 DEF Follows, Risk!Persist, Risk!Becomes
    <3>2. {} \in SUBSET Risk!Checks
        OBVIOUS
    <3> QED BY <3>1, <3>2
  <2> QED BY <2>1, <2>2
<1> HIDE DEF j
<1>5. PICK by \in SUBSET Risk!Checks : Follows(k, by)
    BY <1>4
<1>6. /\ PlacingUnchecked' /\ checks' \subseteq Risk!Checks
      /\ \A i \in checks' : i.runner \in DOMAIN breaker
    BY <1>3, <1>5, FollowsPlacing
<1>7. Risk!TypeOK'
  <2>1. riskEvents' \subseteq Risk!Scopes \X Risk!Left /\ blocked' \in [Strategies -> Risk!Left]
      BY <1>1, <1>3, RiskNumbers DEF RiskInv, Risk!TypeOK
  <2>2. DOMAIN breaker' \subseteq DOMAIN breaker /\ \A r \in DOMAIN breaker' : breaker'[r] = breaker[r]
      BY <1>3 DEF Risk!Forget
  <2> QED BY <1>3, <1>6, <2>1, <2>2 DEF RiskInv, Risk!TypeOK
<1>8. /\ BreakersUsed' /\ CheckersLoaded'
      /\ \A r \in DOMAIN breaker' : r \in DOMAIN breaker /\ breaker'[r] = breaker[r]
    BY <1>3, <1>6, <1>7, ForgetFacts
<1>9. \A i \in checks : i # k => i \in checks'
    BY <1>5 DEF Follows
<1>10. ASSUME NEW s \in Strategies PROVE ToldOf(s)' /\ HeldFrom(s)'
  <2>1. blocked'[s] \in {0, blocked[s]} /\ riskEvents \subseteq riskEvents'
      BY <1>3 DEF RiskInv, Risk!TypeOK
  <2>2. ASSUME blocked'[s] > 0, Untold(s) PROVE Untold(s)' \/ Told(s)'
    <3>1. PICK i \in checks : i.scope = s /\ i.left >= blocked[s]
        BY <2>2 DEF Untold
    <3>2. blocked'[s] = blocked[s]
        BY <2>1, <2>2, RiskNumbers
    <3>3. CASE i # k
        BY <1>9, <3>1, <3>2, <3>3 DEF Untold
    <3>4. CASE i = k
      <4>1. <<s, k.left>> \in riskEvents'
          BY <1>3, <2>2, <3>1, <3>4, RiskNumbers
      <4> QED BY <1>1, <3>1, <3>2, <3>4, <4>1 DEF Told
    <3> QED BY <3>3, <3>4
  <2>3. ToldOf(s)'
      BY <1>3, <2>1, <2>2, ToldKept
  <2>4. HeldFrom(s)'
      BY <1>3, <1>7, <1>8, <2>1, HeldKept
  <2> QED BY <2>3, <2>4
<1>11. Risk!AccountRests'
    BY <1>1, <1>3, <1>9 DEF RiskInv, Risk!AccountRests
<1> QED BY <1>6, <1>7, <1>8, <1>10, <1>11 DEF RiskInv, BlockedTold, BlockedHeld

LEMMA InitRisk == Risk!Init => RiskInv
<1> SUFFICES ASSUME Risk!Init PROVE RiskInv
    OBVIOUS
<1>1. Risk!TypeOK
    BY RiskNumbers DEF Risk!Init, Risk!TypeOK
<1>2. PlacingUnchecked /\ BreakersUsed /\ CheckersLoaded
    BY DEF Risk!Init, PlacingUnchecked, BreakersUsed, CheckersLoaded
<1>3. BlockedTold /\ BlockedHeld /\ Risk!AccountRests
    BY DEF Risk!Init, BlockedTold, BlockedHeld, ToldOf, HeldFrom, Risk!AccountRests
<1> QED BY <1>1, <1>2, <1>3 DEF RiskInv

LEMMA NextRisk ==
    ASSUME RiskInv, Risk!Next \/ UNCHANGED riskVars
    PROVE  RiskInv'
<1>1. ASSUME NEW s \in Strategies, Risk!Stop(s) PROVE RiskInv'
  <2>1. /\ riskLoop' = [riskLoop EXCEPT ![s] = None] /\ placing' = placing \ {s}
        /\ riskRow' = [riskRow EXCEPT ![s] = "stopped"] /\ Risk!Forget
        /\ UNCHANGED <<riskEvents, streak, checks, blocked, resting>>
      BY <1>1 DEF Risk!Stop
  <2> QED BY <2>1, StopRisk
<1>2. ASSUME NEW k \in checks, Risk!Thread(k) PROVE RiskInv'
    BY <1>2, TriggerRisk, CheckRisk, CancelRisk, PersistRisk DEF Risk!Thread
<1>3. CASE UNCHANGED riskVars
  <2>1. UNCHANGED <<riskRow, riskLoop, placing, breaker, riskEvents, streak, checks, blocked,
                    resting>>
      BY <1>3 DEF riskVars
  <2>2. Risk!TypeOK' /\ Risk!AccountRests'
      BY <2>1 DEF RiskInv, Risk!TypeOK, Risk!AccountRests
  <2>3. PlacingUnchecked' /\ BreakersUsed' /\ CheckersLoaded'
      BY <2>1 DEF RiskInv, PlacingUnchecked, BreakersUsed, CheckersLoaded, Risk!InUse
  <2>4. BlockedTold' /\ BlockedHeld'
      BY <2>1 DEF RiskInv, BlockedTold, BlockedHeld, ToldOf, HeldFrom, Told, Untold, Ambiguous
  <2> QED BY <2>2, <2>3, <2>4 DEF RiskInv
<1> QED BY <1>1, <1>2, <1>3, StartRisk, RestartRisk, ResetRisk, TickRisk, RefreshRisk, TradeRisk
        DEF Risk!Next

\* Whatever a thread does, what is new is a check of the same strategy and runner.
LEMMA ThreadFollows ==
    ASSUME RiskInv, NEW k \in checks, Risk!Thread(k), NEW i \in checks' \ checks
    PROVE  i.strategy = k.strategy /\ i.runner = k.runner
<1>1. k \in Risk!Checks
    BY DEF RiskInv, Risk!TypeOK
<1>2. CASE \E scope, S : Risk!Trigger(k, scope, S)
  <2>1. PICK scope, S : i = [k EXCEPT !.scope = scope, !.left = Cooldown, !.cancel = S]
      BY <1>2 DEF Risk!Trigger, Risk!Becomes
  <2> QED BY <1>1, <2>1 DEF Risk!Checks
<1>3. CASE Risk!NotConsecutive(k)
  <2>1. i = [k EXCEPT !.stage = "rapid"]
      BY <1>3 DEF Risk!NotConsecutive, Risk!Becomes
  <2> QED BY <1>1, <2>1 DEF Risk!Checks
<1>4. CASE Risk!NotRapid(k)
    BY <1>4 DEF Risk!NotRapid, Risk!Becomes
<1>5. CASE Risk!Persist(k)
  <2>1. i = [k EXCEPT !.stage = "rapid", !.scope = None, !.left = 0]
      BY <1>5 DEF Risk!Persist, Risk!Becomes
  <2> QED BY <1>1, <2>1 DEF Risk!Checks
<1>6. ASSUME NEW x \in Strategies, Risk!Cancel(k, x)
      PROVE  i.strategy = k.strategy /\ i.runner = k.runner
  <2>1. i = [k EXCEPT !.cancel = @ \ {x}, !.mark = {x}]
      BY <1>6 DEF Risk!Cancel, Risk!Cancelled, Risk!Becomes
  <2> QED BY <1>1, <2>1 DEF Risk!Checks
<1>7. ASSUME NEW x \in Strategies, Risk!Mark(k, x)
      PROVE  i.strategy = k.strategy /\ i.runner = k.runner
  <2>1. i = [k EXCEPT !.mark = {}]
      BY <1>7 DEF Risk!Mark, Risk!Becomes
  <2> QED BY <1>1, <2>1 DEF Risk!Checks
<1> QED BY <1>2, <1>3, <1>4, <1>5, <1>6, <1>7 DEF Risk!Thread, Risk!Consecutive, Risk!Rapid

\* Of two events of a strategy one is as old as the other, when there is one at most.
LEMMA OneRow ==
    ASSUME RiskInv, NEW s \in Strategies, Cardinality(Risk!Rows(s)) =< 1
    PROVE  ~Ambiguous(s)
<1> SUFFICES ASSUME NEW m \in Risk!Left, NEW n \in Risk!Left, m < n,
                    <<s, m>> \in riskEvents, <<s, n>> \in riskEvents
             PROVE  FALSE
    BY DEF Ambiguous
<1>1. IsFiniteSet(Risk!Scopes \X Risk!Left)
  <2>1. IsFiniteSet(Risk!Scopes)
      BY ConstantsAssumption, FS_AddElement DEF Risk!Scopes, Risk!ConstantsOK
  <2>2. IsFiniteSet(Risk!Left)
      BY RiskNumbers, FS_Interval DEF Risk!Left
  <2> QED BY <2>1, <2>2, FS_Product
<1>2. IsFiniteSet(Risk!Rows(s))
    BY <1>1, FS_Subset DEF Risk!Rows, RiskInv, Risk!TypeOK
<1>3. m \in Nat /\ n \in Nat /\ m # n
    BY RiskNumbers
<1>4. {<<s, m>>, <<s, n>>} \subseteq Risk!Rows(s)
    BY DEF Risk!Rows
<1>5. Cardinality({<<s, m>>, <<s, n>>}) = 2
  <2>1. IsFiniteSet({<<s, m>>}) /\ Cardinality({<<s, m>>}) = 1
      BY FS_Singleton
  <2>2. <<s, n>> \notin {<<s, m>>}
      BY <1>3
  <2>3. {<<s, m>>, <<s, n>>} = {<<s, m>>} \cup {<<s, n>>}
      OBVIOUS
  <2>4. Cardinality({<<s, m>>} \cup {<<s, n>>}) = Cardinality({<<s, m>>}) + 1
      BY <2>1, <2>2, FS_AddElement
  <2> QED BY <2>1, <2>3, <2>4
<1>6. Cardinality({<<s, m>>, <<s, n>>}) =< Cardinality(Risk!Rows(s))
    BY <1>2, <1>4, FS_Subset
<1>7. Cardinality(Risk!Rows(s)) \in Nat
    BY <1>2, FS_CardinalityType
<1> QED BY <1>5, <1>6, <1>7

\* Only the order of a loop begins a check in the loop's runner, and only when the runner's
\* breaker forbids it nothing.
LEMMA BlockedWaits ==
    ASSUME RiskInv, Risk!Next, NEW s \in Strategies, Risk!Traded(s),
           Cardinality(Risk!Rows(s)) =< 1
    PROVE  blocked[s] = 0
<1>1. s \in placing /\ riskLoop[s] \in Runners
    BY DEF Risk!Traded, RiskInv, Risk!TypeOK
<1>2. PICK i \in checks' \ checks : i.strategy = s /\ i.runner = riskLoop[s]
    BY DEF Risk!Traded
<1>3. \A k \in checks : ~(k.strategy = s /\ k.runner = riskLoop[s])
    BY <1>1 DEF RiskInv, PlacingUnchecked
<1>4. CASE Risk!Order(s)
  <2>1. PICK b \in Risk!Breakers(riskLoop[s]) : ~Risk!IsActive(b, s)
      BY <1>2, <1>4 DEF Risk!Order
  <2>2. b \in [Risk!Scopes -> Risk!Left]
      BY <2>1 DEF Risk!Breakers, Risk!Loaded, RiskInv, Risk!TypeOK
  <2>3. b[s] = 0 /\ blocked[s] \in Nat
    <3>1. b[s] \in Nat /\ blocked[s] \in Nat
        BY <2>2, RiskNumbers DEF Risk!Scopes, RiskInv, Risk!TypeOK
    <3>2. ~(b[s] > 0)
        BY <2>1 DEF Risk!IsActive
    <3> QED BY <3>1, <3>2
  <2>4. ~Ambiguous(s)
      BY OneRow
  <2>5. ASSUME blocked[s] > 0 PROVE FALSE
    <3>1. CASE riskLoop[s] \in DOMAIN breaker
        BY <2>1, <2>3, <2>4, <2>5, <3>1 DEF Risk!Breakers, RiskInv, BlockedHeld, HeldFrom
    <3>2. CASE riskLoop[s] \notin DOMAIN breaker
      <4>1. b \in Risk!Loaded
          BY <2>1, <3>2 DEF Risk!Breakers
      <4>2. Told(s)
          BY <1>1, <2>5, RiskNumbers DEF RiskInv, BlockedTold, ToldOf
      <4>3. b[s] >= blocked[s]
          BY <2>4, <2>5, <4>1, <4>2, LoadedHolds
      <4> QED BY <2>3, <2>5, <4>3
    <3> QED BY <3>1, <3>2
  <2> QED BY <2>3, <2>5
<1>5. ASSUME NEW t \in Strategies, t # s, Risk!Order(t) PROVE FALSE
  <2>1. \A j \in checks' \ checks : j.strategy = t
      BY <1>5, CheckFacts, <1>1 DEF Risk!Order, Risk!Closed, Risk!Check
  <2> QED BY <1>2, <1>5, <2>1
<1>6. ASSUME NEW t \in Strategies, NEW r \in Runners, Risk!ManualClose(t, r) PROVE FALSE
  <2>1. \A j \in checks' \ checks : j.runner = r
      BY <1>6 DEF Risk!ManualClose, Risk!Closed, Risk!Check
  <2>2. riskLoop[s] # r
      BY <1>6 DEF Risk!ManualClose, Risk!InUse
  <2> QED BY <1>2, <2>1, <2>2
<1>7. ASSUME Risk!Tick PROVE FALSE
  <2>1. PICK k \in checks : i = [k EXCEPT !.left = Risk!Less(@)]
      BY <1>2, <1>7 DEF Risk!Tick
  <2>2. i.strategy = k.strategy /\ i.runner = k.runner
      BY <2>1 DEF RiskInv, Risk!TypeOK, Risk!Checks
  <2> QED BY <1>2, <1>3, <2>2
<1>8. ASSUME NEW k \in checks, Risk!Thread(k) PROVE FALSE
  <2>1. i.strategy = k.strategy /\ i.runner = k.runner
      BY <1>2, <1>8, ThreadFollows
  <2> QED BY <1>3, <1>2, <2>1
<1>9. CASE checks' \subseteq checks
    BY <1>2, <1>9
<1> QED BY <1>4, <1>5, <1>6, <1>7, <1>8, <1>9
        DEF Risk!Next, Risk!Stop, Risk!Refresh, Risk!Start, Risk!Restart, Risk!Reset

\* After its losses a strategy trades no more before its cooldown is over, whoever starts
\* it, in whatever runner and after whatever crash; after a rapid loss none goes on.
THEOREM LossesStop == Spec => RiskStops
<1>1. Init => RiskInv
    BY InitRisk DEF Init
<1>2. RiskInv /\ [Next]_vars => RiskInv'
    BY NextRisk, PartsApart
<1>3. RiskInv => Risk!AccountRests
    BY DEF RiskInv
<1>4. RiskInv /\ [Next]_vars =>
        [\A s \in Strategies :
            Risk!Traded(s) /\ Risk!Cardinality(Risk!Rows(s)) =< 1 => blocked[s] = 0]_(Risk!vars)
  <2> SUFFICES ASSUME RiskInv, [Next]_vars, ~UNCHANGED Risk!vars,
                      NEW s \in Strategies, Risk!Traded(s), Risk!Cardinality(Risk!Rows(s)) =< 1
               PROVE  blocked[s] = 0
      OBVIOUS
  <2>1. Risk!Next
      BY PartsApart DEF riskVars, Risk!vars
  <2>2. Risk!Cardinality(Risk!Rows(s)) = Cardinality(Risk!Rows(s))
      BY DEF Risk!Cardinality, Cardinality
  <2>3. Cardinality(Risk!Rows(s)) =< 1
      BY <2>2
  <2> QED BY <2>1, <2>3, BlockedWaits
<1> QED BY <1>1, <1>2, <1>3, <1>4, PTL DEF Spec, RiskStops, Risk!StaysBlocked

-----------------------------------------------------------------------------
(* Protection.                                                             *)

\* An order is placed for the position that is held, which is one that was opened.
LEMMA GuardTyped ==
    ASSUME Guard!TypeOK, Guard!Next \/ UNCHANGED protectionVars
    PROVE  Guard!TypeOK'
<1> DEFINE Places == {"off", "idle", "verify", "sweep", "TP", "SL", "store", "exited"}
<1>1. /\ MaxPositions \in Nat /\ opened \in 0..MaxPositions /\ position \in 0..opened
      /\ held \in 0..opened /\ orders \subseteq Guard!Orders /\ ids \subseteq Guard!Orders
      /\ placed \subseteq Guard!Orders /\ loop \in Places /\ stopper \in {"none", "close", "end"}
    BY ConstantsAssumption DEF Guard!TypeOK, Guard!ConstantsOK
<1>2. ASSUME NEW kind \in Guard!Kinds, held # 0, NEW taken \in Guard!Taken(kind)
      PROVE  taken[1] \subseteq Guard!Orders /\ taken[2] \subseteq Guard!Orders
  <2>1. <<held, kind>> \in Guard!Orders
      BY <1>1, <1>2 DEF Guard!Orders
  <2> QED BY <1>2, <2>1 DEF Guard!Taken
<1>3. \A some : Guard!Reachable(some) \subseteq some
    BY DEF Guard!Reachable
<1>4. CASE Guard!Start \/ Guard!Verify \/ Guard!Sweep \/ Guard!Store
    BY <1>1, <1>3, <1>4
       DEF Guard!Start, Guard!Verify, Guard!Sweep, Guard!Store, Guard!exchange, Guard!summary,
           Guard!TypeOK
<1>5. CASE Guard!Enter
  <2>1. opened' = opened + 1 /\ opened' \in 0..MaxPositions /\ position' = opened' /\ held' = opened'
      BY <1>1, <1>5 DEF Guard!Enter
  <2>2. position' \in 0..opened' /\ held' \in 0..opened'
      BY <2>1
  <2> QED BY <1>1, <1>5, <2>1, <2>2 DEF Guard!Enter, Guard!TypeOK
<1>6. ASSUME NEW kind \in Guard!Kinds, Guard!Place(kind) PROVE Guard!TypeOK'
  <2>1. PICK taken \in Guard!Taken(kind) : orders' = orders \cup taken[1] /\ placed' = placed \cup taken[2]
      BY <1>6 DEF Guard!Place
  <2>2. held # 0 /\ loop' \in Places /\ UNCHANGED <<position, opened, held, ids, stopper>>
      BY <1>6 DEF Guard!Place, Guard!summary
  <2>3. taken[1] \subseteq Guard!Orders /\ taken[2] \subseteq Guard!Orders
      BY <1>2, <2>2
  <2> QED BY <1>1, <2>1, <2>2, <2>3 DEF Guard!TypeOK
<1>7. ASSUME NEW kind \in Guard!Kinds, Guard!PlaceNothing(kind) PROVE Guard!TypeOK'
    BY <1>1, <1>7 DEF Guard!PlaceNothing, Guard!exchange, Guard!summary, Guard!TypeOK
<1>8. CASE Guard!Exit \/ Guard!Exited \/ Guard!Sync
    BY <1>1, <1>3, <1>8 DEF Guard!Exit, Guard!Exited, Guard!Sync, Guard!TypeOK
<1>9. CASE Guard!Trigger \/ Guard!Close
    BY <1>1, <1>9 DEF Guard!Trigger, Guard!Close, Guard!summary, Guard!TypeOK
<1>10. CASE Guard!StopCancel \/ Guard!StopClose
    BY <1>1, <1>3, <1>10 DEF Guard!StopCancel, Guard!StopClose, Guard!summary, Guard!TypeOK
<1>11. CASE Guard!StopEnd \/ Guard!TimeOut
  <2>1. orders' \subseteq Guard!Orders
    <3>1. CASE orders' = orders
        BY <1>1, <3>1
    <3>2. CASE orders' # orders
      <4>1. held # 0 /\ orders' \in {orders \cup taken[1] :
                                     taken \in UNION {Guard!Taken(k) : k \in Guard!Kinds \cap {loop}}}
          BY <1>11, <3>2 DEF Guard!StopEnd, Guard!TimeOut, Guard!Unstored
      <4>2. PICK kind \in Guard!Kinds : \E taken \in Guard!Taken(kind) : orders' = orders \cup taken[1]
          BY <4>1
      <4>3. PICK taken \in Guard!Taken(kind) : orders' = orders \cup taken[1]
          BY <4>2
      <4>4. taken[1] \subseteq Guard!Orders
          BY <1>2, <4>1, <4>3
      <4> QED BY <1>1, <4>3, <4>4
    <3> QED BY <3>1, <3>2
  <2> QED BY <1>1, <1>11, <2>1 DEF Guard!StopEnd, Guard!TimeOut, Guard!summary, Guard!TypeOK
<1>12. CASE UNCHANGED protectionVars
    BY <1>12 DEF protectionVars, Guard!TypeOK, Guard!Orders
<1> QED BY <1>4, <1>5, <1>6, <1>7, <1>8, <1>9, <1>10, <1>11, <1>12 DEF Guard!Next

-----------------------------------------------------------------------------
(* ManualTrading.                                                          *)

CallType ==
    [position : Positions \cup {None}, remaining : 0..2, quantity : 0..2,
     step : {"none", "cancel", "order", "filled", "done"}]

RowType == [status : Manual!Statuses, remaining : 0..2]

ManualTypes ==
    /\ paper \in BOOLEAN /\ amount \in Int
    /\ row \in [Positions -> RowType]
    /\ call \in [Runners -> CallType]

\* A request under way is one to close a position whose row is saved, and asks for what
\* was left of it at most.
UnderWay(v) == v.step \notin {"none", "done"}

InOrder(v) ==
    UnderWay(v) =>
        /\ v.position \in Positions /\ row[v.position].status \notin Manual!Unsaved
        /\ v.quantity =< v.remaining

\* What a request will leave in its row.
Leaves(v) == IF v.step = "filled" THEN v.remaining - v.quantity ELSE v.remaining

\* What is open can be shared out among the positions so that no row, and no request that
\* will write a row, tells of less than the share.
Shares(share) ==
    /\ amount <= Sum(share, Positions)
    /\ \A p \in Positions : share[p] <= Manual!Told(p)
    /\ \A c \in Runners : UnderWay(call[c]) => share[call[c].position] <= Leaves(call[c])

ManualInv ==
    /\ ManualTypes
    /\ \A c \in Runners : InOrder(call[c])
    /\ \E share \in [Positions -> 0..2] : Shares(share)

\* What is told of one position depends on its row alone.
ToldBy(v) ==
    IF v.status \in {"none", "filled", "lost"} THEN IF v.status = "none" THEN 0 ELSE 2
    ELSE v.remaining

LEMMA ToldByRow ==
    /\ \A p \in Positions : Manual!Told(p) = ToldBy(row[p])
    /\ \A p \in Positions : Manual!Told(p)' = ToldBy(row'[p])
    /\ \A v \in RowType : ToldBy(v) \in 0..2
BY DEF Manual!Told, Manual!Unsaved, Manual!Quantity, ToldBy, RowType, Manual!Statuses

LEMMA SharesNumbers ==
    ASSUME NEW share \in [Positions -> 0..2]
    PROVE  /\ IsFiniteSet(Positions) /\ Sum(share, Positions) \in Nat
           /\ \A p \in Positions : share[p] \in Nat /\ share[p] \in Int
<1>1. IsFiniteSet(Positions)
    BY ConstantsAssumption DEF Manual!ConstantsOK, Manual!IsFiniteSet, IsFiniteSet
<1>2. \A p \in Positions : share[p] \in Nat /\ share[p] \in Int
    OBVIOUS
<1> QED BY <1>1, <1>2, SumNat

\* A share that grows or shrinks moves the sum as much.
LEMMA ShareChanged ==
    ASSUME NEW share \in [Positions -> 0..2], NEW p \in Positions, NEW n \in 0..2
    PROVE  /\ [share EXCEPT ![p] = n] \in [Positions -> 0..2]
           /\ Sum([share EXCEPT ![p] = n], Positions) = Sum(share, Positions) + n - share[p]
<1> DEFINE new == [share EXCEPT ![p] = n]
<1>1. new \in [Positions -> 0..2] /\ new[p] = n /\ \A q \in Positions : q # p => share[q] = new[q]
    OBVIOUS
<1>2. \A q \in Positions : share[q] \in Int /\ new[q] \in Int /\ (q # p => share[q] = new[q])
    BY <1>1
<1> HIDE DEF new
<1>3. Sum(new, Positions) = Sum(share, Positions) + new[p] - share[p]
    BY <1>2, SharesNumbers, SumChanged
<1> QED BY <1>1, <1>3 DEF new

\* How orders move what is open: never up but for an opening, and by what was asked for if more
\* than that is open.
LEMMA OrdersMove ==
    ASSUME amount \in Int, NEW q \in Nat
    PROVE  /\ Manual!Buys(q) => amount' \in Int /\ (amount' = 0 \/ amount' = amount + q)
           /\ Manual!Sells(q) => amount' \in Int /\ (amount' = 0 \/ amount' = amount - q)
                                 /\ (amount' = 0 => amount = q \/ amount > 0)
BY DEF Manual!Buys, Manual!Sells, Manual!Moves

\* Nothing is opened, no request begins, and rows tell what they told.
LEMMA SharesStay ==
    ASSUME ManualInv, ManualTypes',
           amount' <= amount \/ amount' = 0,
           \A p \in Positions :
             /\ ToldBy(row'[p]) >= ToldBy(row[p])
             /\ row[p].status \notin Manual!Unsaved => row'[p].status \notin Manual!Unsaved,
           \A c \in Runners :
             UnderWay(call'[c]) =>
               /\ UnderWay(call[c]) /\ Leaves(call'[c]) = Leaves(call[c])
               /\ call'[c].position = call[c].position
               /\ call'[c].quantity = call[c].quantity /\ call'[c].remaining = call[c].remaining
    PROVE  ManualInv'
<1>1. PICK share \in [Positions -> 0..2] : Shares(share)
    BY DEF ManualInv
<1>2. Sum(share, Positions) \in Nat
    BY SharesNumbers
<1>3. amount' <= Sum(share, Positions)
    BY <1>1, <1>2 DEF Shares, ManualInv, ManualTypes
<1>4. \A p \in Positions : share[p] <= Manual!Told(p)'
  <2> SUFFICES ASSUME NEW p \in Positions PROVE share[p] <= Manual!Told(p)'
      OBVIOUS
  <2>1. share[p] \in 0..2 /\ ToldBy(row[p]) \in 0..2 /\ ToldBy(row'[p]) \in 0..2
      BY ToldByRow DEF ManualInv, ManualTypes
  <2>2. share[p] <= ToldBy(row[p]) /\ ToldBy(row'[p]) >= ToldBy(row[p])
      BY <1>1, ToldByRow DEF Shares
  <2>3. share[p] <= ToldBy(row'[p])
      BY <2>1, <2>2
  <2> QED BY <2>3, ToldByRow
<1>5. \A c \in Runners :
        UnderWay(call'[c]) => share[call'[c].position] <= Leaves(call'[c])
    BY <1>1 DEF Shares
<1>6. \A c \in Runners : InOrder(call[c])'
    BY DEF ManualInv, InOrder, UnderWay
<1>7. Shares(share)'
    BY <1>3, <1>4, <1>5 DEF Shares, UnderWay, Leaves
<1> QED BY <1>6, <1>7 DEF ManualInv

LEMMA ManualStarts == Manual!Init => ManualInv
<1> SUFFICES ASSUME Manual!Init PROVE ManualInv
    OBVIOUS
<1> DEFINE share == [p \in Positions |-> 0]
<1>1. ManualTypes
    BY DEF Manual!Init, ManualTypes, RowType, CallType, Manual!Statuses
<1>2. \A c \in Runners : ~UnderWay(call[c]) /\ InOrder(call[c])
    BY DEF Manual!Init, UnderWay, InOrder
<1>3. share \in [Positions -> 0..2] /\ \A p \in Positions : share[p] = 0
    OBVIOUS
<1> HIDE DEF share
<1>4. Sum(share, Positions) = 0
    BY <1>3, SharesNumbers, SumZero
<1>5. \A p \in Positions : Manual!Told(p) = 0
    BY DEF Manual!Init, Manual!Told, Manual!Unsaved
<1>6. Shares(share)
    BY <1>2, <1>3, <1>4, <1>5 DEF Shares, Manual!Init
<1> QED BY <1>1, <1>2, <1>3, <1>6 DEF ManualInv

\* An opening: its position has no share yet and no request.
LEMMA OpenKeeps ==
    ASSUME ManualInv, NEW p \in Positions, Manual!Open(p)
    PROVE  ManualInv'
<1>1. ManualTypes /\ row[p] \in RowType /\ row[p].status = "none" /\ paper' = paper /\ call' = call
      /\ row' = [row EXCEPT ![p].status = "filled"]
    BY DEF ManualInv, ManualTypes, Manual!Open
<1>2. amount' \in Int /\ (amount' = 0 \/ amount' = amount + 2)
    BY <1>1, OrdersMove DEF Manual!Open, Manual!Quantity, ManualTypes
<1>3. row' \in [Positions -> RowType] /\ row'[p].status = "filled"
      /\ \A q \in Positions : q # p => row'[q] = row[q]
    BY <1>1 DEF ManualTypes, RowType, Manual!Statuses
<1>4. PICK share \in [Positions -> 0..2] : Shares(share)
    BY DEF ManualInv
<1> DEFINE new == [share EXCEPT ![p] = 2]
<1>5. share[p] = 0
  <2>1. share[p] <= ToldBy(row[p]) /\ ToldBy(row[p]) = 0
      BY <1>1, <1>4, ToldByRow DEF Shares, ToldBy
  <2> QED BY <2>1
<1>6. /\ new \in [Positions -> 0..2] /\ Sum(new, Positions) = Sum(share, Positions) + 2
      /\ Sum(share, Positions) \in Nat
      /\ new[p] = 2 /\ \A q \in Positions : q # p => new[q] = share[q]
  <2>1. Sum(share, Positions) \in Nat
      BY SharesNumbers
  <2>2. new \in [Positions -> 0..2] /\ Sum(new, Positions) = Sum(share, Positions) + 2 - share[p]
    <3>1. \A n \in 0..2 :
            /\ [share EXCEPT ![p] = n] \in [Positions -> 0..2]
            /\ Sum([share EXCEPT ![p] = n], Positions) = Sum(share, Positions) + n - share[p]
        BY ShareChanged
    <3>2. 2 \in 0..2
        OBVIOUS
    <3> QED BY <3>1, <3>2, Zenon
  <2>3. new[p] = 2 /\ \A q \in Positions : q # p => new[q] = share[q]
      OBVIOUS
  <2> HIDE DEF new
  <2>4. Sum(new, Positions) = Sum(share, Positions) + 2
      BY <1>5, <2>1, <2>2
  <2> QED BY <2>1, <2>2, <2>3, <2>4
<1> HIDE DEF new
<1>7. amount' <= Sum(new, Positions)
    BY <1>1, <1>2, <1>4, <1>6 DEF Shares, ManualTypes
<1>8. \A q \in Positions : new[q] <= Manual!Told(q)'
  <2>1. ToldBy(row'[p]) = 2
      BY <1>3 DEF ToldBy
  <2>2. \A q \in Positions : q # p => new[q] <= ToldBy(row'[q])
      BY <1>3, <1>4, <1>6, ToldByRow DEF Shares
  <2> QED BY <1>6, <2>1, <2>2, ToldByRow
<1>9. ASSUME NEW c \in Runners, UnderWay(call[c])
      PROVE  /\ call[c].position \in Positions /\ call[c].position # p
             /\ new[call[c].position] <= Leaves(call[c])
  <2>1. call[c].position \in Positions /\ row[call[c].position].status \notin Manual!Unsaved
      BY <1>9 DEF ManualInv, InOrder
  <2>2. call[c].position # p
      BY <1>1, <2>1 DEF Manual!Unsaved
  <2> QED BY <1>4, <1>6, <1>9, <2>1, <2>2 DEF Shares
<1>10. \A c \in Runners : InOrder(call[c])'
    BY <1>1, <1>3, <1>9 DEF ManualInv, InOrder, UnderWay
<1>11. Shares(new)'
    BY <1>1, <1>7, <1>8, <1>9 DEF Shares, UnderWay, Leaves
<1> QED BY <1>1, <1>2, <1>3, <1>6, <1>10, <1>11 DEF ManualInv, ManualTypes

\* A row is saved, or forgotten: until then its position counts as a whole one.
LEMMA SaveKeeps ==
    ASSUME ManualInv, NEW p \in Positions, Manual!Save(p) \/ Manual!Modify(p)
    PROVE  ManualInv'
<1>1. ManualTypes /\ amount' = amount /\ call' = call /\ paper' = paper
    BY DEF ManualInv, Manual!Save, Manual!Modify
<1>2. CASE row' = row
    BY <1>1, <1>2, SharesStay, ToldByRow DEF ManualInv, ManualTypes
<1>3. CASE row' # row
  <2>1. PICK v \in RowType : row' = [row EXCEPT ![p] = v] /\ ToldBy(v) = 2
    <3>1. row[p] \in RowType /\ row[p].status = "filled"
        BY <1>1, <1>3 DEF Manual!Save, Manual!Modify, ManualTypes
    <3>2. CASE row' = [row EXCEPT ![p] = [status |-> "OPEN", remaining |-> 2]]
      <4>1. [status |-> "OPEN", remaining |-> 2] \in RowType
            /\ ToldBy([status |-> "OPEN", remaining |-> 2]) = 2
          BY DEF RowType, Manual!Statuses, ToldBy
      <4> QED BY <3>2, <4>1
    <3>3. CASE row' = [row EXCEPT ![p].status = "lost"]
      <4> DEFINE v == [row[p] EXCEPT !.status = "lost"]
      <4>1. v \in RowType /\ ToldBy(v) = 2
          BY <3>1 DEF RowType, Manual!Statuses, ToldBy
      <4>2. row' = [row EXCEPT ![p] = v]
          BY <3>3
      <4> HIDE DEF v
      <4> QED BY <4>1, <4>2
    <3> QED BY <1>3, <3>2, <3>3 DEF Manual!Save, Manual!Modify, Manual!Quantity
  <2>2. row[p].status \in Manual!Unsaved
      BY <1>3 DEF Manual!Save, Manual!Modify, Manual!Unsaved
  <2>3. /\ row' \in [Positions -> RowType] /\ row'[p] = v
        /\ \A q \in Positions : q # p => row'[q] = row[q]
      BY <1>1, <2>1 DEF ManualTypes
  <2>4. ManualTypes'
      BY <1>1, <2>3 DEF ManualTypes
  <2>5. \A q \in Positions :
          /\ ToldBy(row'[q]) >= ToldBy(row[q])
          /\ row[q].status \notin Manual!Unsaved => row'[q].status \notin Manual!Unsaved
    <3> SUFFICES ASSUME NEW q \in Positions
                 PROVE  /\ ToldBy(row'[q]) >= ToldBy(row[q])
                        /\ row[q].status \notin Manual!Unsaved => row'[q].status \notin Manual!Unsaved
        OBVIOUS
    <3>1. ToldBy(row[q]) \in 0..2
        BY <1>1, ToldByRow DEF ManualTypes
    <3> QED BY <2>1, <2>2, <2>3, <3>1
  <2> QED BY <1>1, <2>4, <2>5, SharesStay DEF ManualTypes
<1> QED BY <1>2, <1>3

\* A request begins: it reads what its row tells, or the whole quantity where that is nothing.
LEMMA BeginKeeps ==
    ASSUME ManualInv, NEW c \in Runners, NEW p \in Positions, Manual!Begin(c, p)
    PROVE  ManualInv'
<1> DEFINE some == IF row[p].remaining = 0 THEN Manual!Quantity ELSE row[p].remaining
<1>1. ManualTypes /\ row[p].remaining \in 0..2 /\ row[p].status \notin Manual!Unsaved
      /\ UNCHANGED <<paper, amount, row>>
    BY DEF ManualInv, ManualTypes, RowType, Manual!Begin
<1>2. some \in 1..2 /\ ToldBy(row[p]) <= some
    BY <1>1 DEF Manual!Quantity, ToldBy, Manual!Unsaved
<1>3. PICK q \in {1, some} :
        call' = [call EXCEPT ![c] = [position |-> p, remaining |-> some, quantity |-> q,
                                     step |-> "cancel"]]
    BY DEF Manual!Begin
<1> HIDE DEF some
<1> DEFINE v == [position |-> p, remaining |-> some, quantity |-> q, step |-> "cancel"]
<1>4. v \in CallType /\ v.position = p /\ v.quantity <= v.remaining /\ Leaves(v) = some
    BY <1>2 DEF CallType, Leaves
<1> HIDE DEF v
<1>5. call' \in [Runners -> CallType] /\ call'[c] = v /\ \A d \in Runners : d # c => call'[d] = call[d]
    BY <1>1, <1>3, <1>4 DEF ManualTypes, v
<1>6. \A d \in Runners : InOrder(call[d])'
  <2>1. \A d \in Runners : d # c => InOrder(call[d])'
      BY <1>1, <1>5 DEF ManualInv, InOrder, UnderWay
  <2>2. InOrder(call[c])'
      BY <1>1, <1>4, <1>5 DEF InOrder
  <2> QED BY <2>1, <2>2
<1>7. PICK share \in [Positions -> 0..2] : Shares(share)
    BY DEF ManualInv
<1>8. \A d \in Runners : UnderWay(call'[d]) => share[call'[d].position] <= Leaves(call'[d])
  <2>1. share[p] <= ToldBy(row[p]) /\ share[p] \in 0..2 /\ ToldBy(row[p]) \in 0..2
      BY <1>1, <1>7, ToldByRow DEF Shares, ManualTypes
  <2>2. share[p] <= some
      BY <1>2, <2>1
  <2> QED BY <1>4, <1>5, <1>7, <2>2 DEF Shares
<1>9. Shares(share)'
    BY <1>1, <1>7, <1>8, ToldByRow DEF Shares, UnderWay, Leaves
<1> QED BY <1>1, <1>5, <1>6, <1>9 DEF ManualInv, ManualTypes

\* The order of a request is filled: its position gives up what was asked for, or all it has.
LEMMA OrderKeeps ==
    ASSUME ManualInv, NEW c \in Runners, Manual!Order(c)
    PROVE  ManualInv'
<1> DEFINE v == [call[c] EXCEPT !.step = "filled"]
<1>1. ManualTypes /\ call[c] \in CallType /\ call[c].step = "order" /\ UNCHANGED <<paper, row>>
      /\ call' = [call EXCEPT ![c] = v]
    BY DEF ManualInv, ManualTypes, Manual!Order
<1>0. PICK p \in Positions, q \in 0..2 : p = call[c].position /\ q = call[c].quantity
    BY <1>1 DEF ManualInv, InOrder, UnderWay, CallType
<1>2. call[c].remaining \in 0..2 /\ q <= call[c].remaining /\ row[p].status \notin Manual!Unsaved
    BY <1>0, <1>1 DEF ManualInv, InOrder, UnderWay, CallType
<1>3. v \in CallType /\ v.position = p /\ v.quantity = q /\ v.remaining = call[c].remaining
      /\ v.step = "filled"
    BY <1>0, <1>1 DEF CallType
<1> HIDE DEF v
<1>4. call' \in [Runners -> CallType] /\ call'[c] = v /\ \A d \in Runners : d # c => call'[d] = call[d]
    BY <1>1, <1>3 DEF ManualTypes
<1>5. amount' \in Int /\ (amount' = 0 \/ amount' = amount - q)
    BY <1>0, <1>1, <1>2, OrdersMove DEF Manual!Order, ManualTypes
<1>6. PICK share \in [Positions -> 0..2] : Shares(share)
    BY DEF ManualInv
<1> DEFINE n == IF share[p] < q THEN 0 ELSE share[p] - q
           new == [share EXCEPT ![p] = n]
<1>7. share[p] \in 0..2 /\ n \in 0..2 /\ n <= share[p] /\ share[p] - n <= q
    BY <1>2, <1>6
<1>8. share[p] <= call[c].remaining
    BY <1>0, <1>1, <1>6 DEF Shares, UnderWay, Leaves
<1>9. n <= call[c].remaining - q
    BY <1>2, <1>7, <1>8
<1>10. new[p] = n /\ \A r \in Positions : r # p => new[r] = share[r]
    BY <1>2
<1> HIDE DEF n
<1>11. new \in [Positions -> 0..2] /\ Sum(new, Positions) = Sum(share, Positions) + n - share[p]
    BY <1>2, <1>7, ShareChanged
<1> HIDE DEF new
<1>12. amount' <= Sum(new, Positions)
  <2>1. Sum(share, Positions) \in Nat /\ Sum(new, Positions) \in Nat
      BY <1>11, SharesNumbers
  <2>2. amount <= Sum(share, Positions) /\ amount \in Int
      BY <1>1, <1>6 DEF Shares, ManualTypes
  <2> QED BY <1>2, <1>5, <1>7, <1>11, <2>1, <2>2
<1>13. \A r \in Positions : new[r] \in 0..2 /\ share[r] \in 0..2 /\ new[r] <= share[r]
    BY <1>2, <1>7, <1>10, <1>11
<1>14. \A r \in Positions : new[r] <= Manual!Told(r)'
  <2> SUFFICES ASSUME NEW r \in Positions PROVE new[r] <= Manual!Told(r)'
      OBVIOUS
  <2>1. share[r] <= ToldBy(row[r]) /\ ToldBy(row[r]) \in 0..2
      BY <1>1, <1>6, ToldByRow DEF Shares, ManualTypes
  <2>2. new[r] <= ToldBy(row[r])
      BY <1>13, <2>1
  <2> QED BY <1>1, <2>2, ToldByRow
<1>15. \A d \in Runners : InOrder(call[d])'
  <2>1. \A d \in Runners : d # c => InOrder(call[d])'
      BY <1>1, <1>4 DEF ManualInv, InOrder, UnderWay
  <2>2. InOrder(call[c])'
      BY <1>1, <1>2, <1>3, <1>4 DEF InOrder
  <2> QED BY <2>1, <2>2
<1>16. ASSUME NEW d \in Runners, UnderWay(call'[d])
       PROVE  new[call'[d].position] <= Leaves(call'[d])
  <2>1. CASE d = c
      BY <1>3, <1>4, <1>9, <1>10, <2>1 DEF Leaves
  <2>2. CASE d # c
    <3>1. call'[d] = call[d] /\ call[d] \in CallType
        BY <1>1, <1>4, <2>2 DEF ManualTypes
    <3>2. call[d].position \in Positions
        BY <1>16, <3>1 DEF ManualInv, InOrder
    <3>3. share[call[d].position] <= Leaves(call[d])
        BY <1>6, <1>16, <3>1 DEF Shares
    <3>4. Leaves(call[d]) \in Int
        BY <3>1 DEF Leaves, CallType
    <3> QED BY <1>13, <3>1, <3>2, <3>3, <3>4
  <2> QED BY <2>1, <2>2
<1>17. Shares(new)'
    BY <1>12, <1>14, <1>16 DEF Shares, UnderWay, Leaves
<1> QED BY <1>1, <1>4, <1>5, <1>11, <1>15, <1>17 DEF ManualInv, ManualTypes

\* A request cancels, or ends, whether or not its order is filled.
LEMMA StepKeeps ==
    ASSUME ManualInv, NEW c \in Runners, Manual!CancelStops(c) \/ Manual!Fails(c)
    PROVE  ManualInv'
<1>1. ManualTypes /\ call[c] \in CallType /\ call[c].quantity \in Nat /\ UNCHANGED <<paper, row>>
    BY DEF ManualInv, ManualTypes, CallType, Manual!CancelStops, Manual!Fails
<1>2. amount' \in Int /\ (amount' <= amount \/ amount' = 0)
    BY <1>1, OrdersMove DEF ManualTypes, Manual!CancelStops, Manual!Fails
<1>3. PICK where \in {"order", "done"} :
        /\ call' = [call EXCEPT ![c] = [call[c] EXCEPT !.step = where]]
        /\ call[c].step \in {"cancel", "order"}
    BY DEF Manual!CancelStops, Manual!Fails, ManualInv, ManualTypes
<1> DEFINE v == [call[c] EXCEPT !.step = where]
<1>4. v \in CallType /\ Leaves(v) = Leaves(call[c]) /\ v.position = call[c].position
      /\ v.quantity = call[c].quantity /\ v.remaining = call[c].remaining /\ UnderWay(call[c])
    BY <1>1, <1>3 DEF CallType, Leaves, UnderWay
<1>5. call' = [call EXCEPT ![c] = v]
    BY <1>3
<1> HIDE DEF v
<1>6. call' \in [Runners -> CallType] /\ call'[c] = v /\ \A d \in Runners : d # c => call'[d] = call[d]
    BY <1>1, <1>4, <1>5 DEF ManualTypes
<1>7. ManualTypes'
    BY <1>1, <1>2, <1>6 DEF ManualTypes
<1>8. \A p \in Positions :
        /\ ToldBy(row'[p]) >= ToldBy(row[p])
        /\ row[p].status \notin Manual!Unsaved => row'[p].status \notin Manual!Unsaved
  <2>1. \A p \in Positions : ToldBy(row[p]) \in 0..2
      BY <1>1, ToldByRow DEF ManualTypes
  <2> QED BY <1>1, <2>1
<1> QED BY <1>2, <1>4, <1>6, <1>7, <1>8, SharesStay

\* A request writes down what is left of what it read.
LEMMA RecordKeeps ==
    ASSUME ManualInv, NEW c \in Runners, Manual!Record(c)
    PROVE  ManualInv'
<1> DEFINE p == call[c].position
           v == [call[c] EXCEPT !.step = "done"]
           left == call[c].remaining - call[c].quantity
           new == [status |-> IF left = 0 THEN "CLOSED" ELSE "PARTIAL_CLOSE", remaining |-> left]
<1>1. ManualTypes /\ call[c] \in CallType /\ call[c].step = "filled" /\ UNCHANGED <<paper, amount>>
      /\ row' = [row EXCEPT ![p] = new] /\ call' = [call EXCEPT ![c] = v]
    BY DEF ManualInv, ManualTypes, Manual!Record
<1>2. UnderWay(call[c]) /\ p \in Positions /\ left \in 0..2 /\ Leaves(call[c]) = left
    BY <1>1 DEF ManualInv, InOrder, UnderWay, CallType, Leaves
<1>3. v \in CallType /\ ~UnderWay(v)
    BY <1>1 DEF CallType, UnderWay
<1>4. new \in RowType /\ new.status \notin Manual!Unsaved /\ ToldBy(new) = left
    BY <1>2 DEF RowType, Manual!Statuses, Manual!Unsaved, ToldBy
<1> HIDE DEF v, new, left
<1>5. row' \in [Positions -> RowType] /\ row'[p] = new /\ \A q \in Positions : q # p => row'[q] = row[q]
    BY <1>1, <1>2, <1>4 DEF ManualTypes
<1>6. call' \in [Runners -> CallType] /\ call'[c] = v /\ \A d \in Runners : d # c => call'[d] = call[d]
    BY <1>1, <1>3 DEF ManualTypes
<1>7. PICK share \in [Positions -> 0..2] : Shares(share)
    BY DEF ManualInv
<1>8. \A q \in Positions : share[q] <= Manual!Told(q)'
  <2>1. share[p] <= left
      BY <1>2, <1>7 DEF Shares
  <2>2. \A q \in Positions : q # p => share[q] <= ToldBy(row[q])
      BY <1>7, ToldByRow DEF Shares
  <2> QED BY <1>4, <1>5, <2>1, <2>2, ToldByRow
<1>9. \A d \in Runners : InOrder(call[d])'
  <2>1. InOrder(call[c])'
      BY <1>3, <1>6 DEF InOrder, UnderWay
  <2>2. ASSUME NEW d \in Runners, d # c PROVE InOrder(call[d])'
      BY <1>4, <1>5, <1>6, <2>2 DEF ManualInv, InOrder, UnderWay
  <2> QED BY <2>1, <2>2
<1>10. \A d \in Runners : UnderWay(call'[d]) => share[call'[d].position] <= Leaves(call'[d])
    BY <1>3, <1>6, <1>7 DEF Shares
<1>11. Shares(share)'
    BY <1>1, <1>7, <1>8, <1>10 DEF Shares, UnderWay, Leaves
<1> QED BY <1>1, <1>5, <1>6, <1>9, <1>11 DEF ManualInv, ManualTypes

\* Orders that trigger, events of the stream, and restarts.
LEMMA OutsideKeeps ==
    ASSUME ManualInv, Manual!Trigger \/ Manual!Deliver \/ Manual!Restart \/ UNCHANGED manualVars
    PROVE  ManualInv'
<1>1. ManualTypes
    BY DEF ManualInv
<1>2. amount' \in Int /\ (amount' = amount \/ amount' = 0) /\ paper' = paper
    BY <1>1 DEF ManualTypes, Manual!Trigger, Manual!Deliver, Manual!Restart, Manual!Moves, manualVars
<1>3. /\ row' \in [Positions -> RowType]
      /\ \A p \in Positions :
           /\ ToldBy(row'[p]) = ToldBy(row[p])
           /\ row[p].status \notin Manual!Unsaved => row'[p].status \notin Manual!Unsaved
  <2>1. CASE row' = row
      BY <1>1, <2>1 DEF ManualTypes
  <2> DEFINE Marked(p, status) == [row[p] EXCEPT !.status = status]
  <2>2. ASSUME NEW from \in {"filled", "OPEN"}, NEW to \in {"lost", "CLOSED"},
               from = "filled" <=> to = "lost",
               row' = [p \in Positions |-> IF row[p].status = from THEN Marked(p, to) ELSE row[p]]
        PROVE  /\ row' \in [Positions -> RowType]
               /\ \A p \in Positions :
                    /\ ToldBy(row'[p]) = ToldBy(row[p])
                    /\ row[p].status \notin Manual!Unsaved => row'[p].status \notin Manual!Unsaved
    <3> SUFFICES ASSUME NEW p \in Positions
                 PROVE  /\ row'[p] \in RowType /\ ToldBy(row'[p]) = ToldBy(row[p])
                        /\ row[p].status \notin Manual!Unsaved => row'[p].status \notin Manual!Unsaved
        BY <2>2
    <3>1. row[p] \in RowType
        BY <1>1 DEF ManualTypes
    <3>2. Marked(p, to) \in RowType /\ Marked(p, to).status = to
          /\ Marked(p, to).remaining = row[p].remaining
        BY <3>1 DEF RowType, Manual!Statuses
    <3> HIDE DEF Marked
    <3> QED BY <2>2, <3>1, <3>2 DEF ToldBy, Manual!Unsaved
  <2>3. CASE Manual!Restart
    <3>1. row' = [p \in Positions |-> IF row[p].status = "filled" THEN Marked(p, "lost") ELSE row[p]]
        BY <2>3 DEF Manual!Restart
    <3> HIDE DEF Marked
    <3> QED BY <2>2, <3>1
  <2>4. CASE Manual!ClosedExternally
    <3>1. row' = [p \in Positions |-> IF row[p].status = "OPEN" THEN Marked(p, "CLOSED") ELSE row[p]]
        BY <2>4 DEF Manual!ClosedExternally
    <3> HIDE DEF Marked
    <3> QED BY <2>2, <3>1
  <2> QED BY <2>1, <2>3, <2>4 DEF Manual!Trigger, Manual!Deliver, manualVars
<1>4. /\ call' \in [Runners -> CallType]
      /\ \A c \in Runners : UnderWay(call'[c]) => call'[c] = call[c]
  <2>1. CASE call' = call
      BY <1>1, <2>1 DEF ManualTypes
  <2>2. CASE Manual!Restart
    <3> DEFINE Ended(c) == [call[c] EXCEPT !.step = "done"]
    <3>1. call' = [c \in Runners |-> IF call[c].step = "none" THEN call[c] ELSE Ended(c)]
        BY <2>2 DEF Manual!Restart
    <3>2. \A c \in Runners : call[c] \in CallType /\ Ended(c) \in CallType /\ ~UnderWay(Ended(c))
        BY <1>1 DEF ManualTypes, CallType, UnderWay
    <3> HIDE DEF Ended
    <3> QED BY <3>1, <3>2
  <2> QED BY <2>1, <2>2 DEF Manual!Trigger, Manual!Deliver, manualVars
<1>5. ManualTypes'
    BY <1>1, <1>2, <1>3, <1>4 DEF ManualTypes
<1>6. amount' <= amount \/ amount' = 0
    BY <1>1, <1>2 DEF ManualTypes
<1>7. \A p \in Positions : ToldBy(row'[p]) >= ToldBy(row[p])
    BY <1>1, <1>3, ToldByRow DEF ManualTypes
<1> QED BY <1>3, <1>4, <1>5, <1>6, <1>7, SharesStay

LEMMA ManualKept ==
    ASSUME ManualInv, Manual!Next \/ UNCHANGED manualVars
    PROVE  ManualInv'
BY OpenKeeps, SaveKeeps, BeginKeeps, OrderKeeps, StepKeeps, RecordKeeps, OutsideKeeps DEF Manual!Next

\* What the rows tell adds up, as the sum that the property takes.
LEMMA ToldSum ==
    ASSUME ManualTypes
    PROVE  Manual!NothingForgotten <=> amount <= Sum([p \in Positions |-> ToldBy(row[p])], Positions)
<1> DEFINE told == [p \in Positions |-> ToldBy(row[p])]
           Fold(h) == h = [T \in SUBSET Positions |->
                             IF T = {} THEN 0 ELSE Manual!Told(AnyOf(T)) + h[T \ {AnyOf(T)}]]
           fold == CHOOSE h : Fold(h)
<1>1. Manual!NothingForgotten <=> amount <= fold[Positions]
    BY DEF Manual!NothingForgotten, Manual!MapThenSumSet, Manual!MapThenFoldSet, AnyOf
<1>2. \A T \in SUBSET Positions : T # {} => told[AnyOf(T)] = Manual!Told(AnyOf(T))
    BY AnyOfIsIn, ToldByRow
<1>3. ASSUME NEW h PROVE Fold(h) <=> AreSums(h, told, Positions)
  <2>1. \A T \in SUBSET Positions : AddUp(told, h, T) =
            IF T = {} THEN 0 ELSE Manual!Told(AnyOf(T)) + h[T \ {AnyOf(T)}]
      BY <1>2 DEF AddUp
  <2> HIDE DEF AddUp, told
  <2> QED BY <2>1 DEF AreSums
<1> HIDE DEF told
<1>4. IsFiniteSet(Positions)
    BY ConstantsAssumption DEF Manual!ConstantsOK, Manual!IsFiniteSet, IsFiniteSet
<1>5. \E h : Fold(h)
    BY <1>3, <1>4, SumsExist
<1>6. Fold(fold)
  <2> HIDE DEF Fold
  <2> QED BY <1>5
<1> HIDE DEF fold, Fold
<1>7. AreSums(fold, told, Positions) /\ AreSums(Sums(told, Positions), told, Positions)
    BY <1>3, <1>4, <1>6, SumsAre
<1>8. fold[Positions] = Sum(told, Positions)
    BY <1>4, <1>7, SumsAgree DEF Sum
<1> QED BY <1>1, <1>8 DEF told

\* However requests to close overlap, fail after their order is filled, or write down what
\* they read before another one did, and whichever position an event closes the rows of: the
\* rows tell of all that is open, but for openings that were not saved.
THEOREM RowsForgetNothing == Spec => []NothingForgotten
<1>1. Init => ManualInv
    BY ManualStarts DEF Init
<1>2. ManualInv /\ [Next]_vars => ManualInv'
    BY PartsApart, ManualKept
<1>3. ManualInv => NothingForgotten
  <2> SUFFICES ASSUME ManualInv PROVE Manual!NothingForgotten
      BY DEF NothingForgotten
  <2> DEFINE told == [p \in Positions |-> ToldBy(row[p])]
  <2>1. PICK share \in [Positions -> 0..2] : Shares(share)
      BY DEF ManualInv
  <2>2. \A p \in Positions : share[p] \in Nat /\ told[p] \in Nat /\ (p \in Positions => share[p] <= told[p])
      BY <2>1, ToldByRow DEF ManualInv, ManualTypes, Shares
  <2> HIDE DEF told
  <2>3. IsFiniteSet(Positions) /\ Sum(share, Positions) \in Nat
      BY SharesNumbers
  <2>4. Sum(share, Positions) <= Sum(told, Positions)
      BY <2>2, <2>3, SumAtMost
  <2>5. Sum(told, Positions) \in Nat
      BY <2>2, <2>3, SumNat
  <2>6. amount <= Sum(share, Positions) /\ amount \in Int
      BY <2>1 DEF Shares, ManualInv, ManualTypes
  <2>7. amount <= Sum(told, Positions)
      BY <2>3, <2>4, <2>5, <2>6
  <2> QED BY <2>7, ToldSum DEF told, ManualInv
<1> QED BY <1>1, <1>2, <1>3, PTL DEF Spec

\* What is sent of manual positions, and the orders that are open.
ManualOutside ==
    events \in Seq(Int) /\ last \in {"none", "long", "short", "flat"} /\ stops \subseteq Positions

LEMMA OutsideTyped ==
    ASSUME ManualInv, ManualOutside, Manual!Next \/ UNCHANGED manualVars
    PROVE  ManualOutside'
<1>1. events \in Seq(Int) /\ last \in {"none", "long", "short", "flat"} /\ stops \subseteq Positions
      /\ amount \in Int /\ \A c \in Runners : call[c].quantity \in Nat
    BY DEF ManualOutside, ManualInv, ManualTypes, CallType
<1>2. ASSUME NEW n \in Int, Manual!Moves(n) PROVE events' \in Seq(Int)
  <2>1. Manual!Signed(n) \in Int
      BY DEF Manual!Signed
  <2>2. CASE events' = events
      BY <1>1, <2>2
  <2>3. CASE events' = Append(events, Manual!Signed(n))
      BY <1>1, <2>1, <2>3
  <2> QED BY <1>2, <2>2, <2>3 DEF Manual!Moves
<1>3. ASSUME NEW q \in Nat, Manual!Sells(q) \/ Manual!Buys(q) PROVE events' \in Seq(Int)
  <2>1. \E n \in Int : Manual!Moves(n)
      BY <1>1, <1>3 DEF Manual!Sells, Manual!Buys
  <2> QED BY <1>2, <2>1
<1>4. CASE Manual!Trigger
    BY <1>1, <1>2, <1>4 DEF Manual!Trigger, ManualOutside
<1>5. CASE Manual!Deliver
  <2>1. events' \in Seq(Int) /\ stops' = stops
      BY <1>1, <1>5 DEF Manual!Deliver
  <2>2. last' \in {"none", "long", "short", "flat"}
      BY <1>1, <1>5 DEF Manual!Deliver, Manual!Key
  <2> QED BY <1>1, <2>1, <2>2 DEF ManualOutside
<1>6. ASSUME NEW p \in Positions, Manual!Open(p) PROVE ManualOutside'
  <2>1. Manual!Quantity \in Nat /\ Manual!Buys(Manual!Quantity) /\ UNCHANGED <<stops, last>>
      BY <1>6 DEF Manual!Open, Manual!Quantity
  <2> QED BY <1>1, <1>3, <2>1 DEF ManualOutside
<1>7. ASSUME NEW p \in Positions, Manual!Save(p) \/ Manual!Modify(p) PROVE ManualOutside'
    BY <1>1, <1>7 DEF Manual!Save, Manual!Modify, Manual!Attached, Manual!Cancelled, ManualOutside
<1>8. ASSUME NEW c \in Runners, Manual!Order(c) \/ Manual!Fails(c) PROVE ManualOutside'
  <2>1. /\ UNCHANGED <<stops, last>>
        /\ Manual!Sells(call[c].quantity) \/ UNCHANGED events
      BY <1>8 DEF Manual!Order, Manual!Fails
  <2> QED BY <1>1, <1>3, <2>1 DEF ManualOutside
<1>9. ASSUME NEW c \in Runners, NEW p \in Positions, Manual!Begin(c, p) PROVE ManualOutside'
    BY <1>1, <1>9 DEF Manual!Begin, ManualOutside
<1>10. ASSUME NEW c \in Runners, Manual!CancelStops(c) \/ Manual!Record(c) PROVE ManualOutside'
    BY <1>1, <1>10 DEF Manual!CancelStops, Manual!Record, Manual!Cancelled, ManualOutside
<1>11. CASE Manual!Restart
    BY <1>1, <1>11 DEF Manual!Restart, ManualOutside
<1>12. CASE UNCHANGED manualVars
    BY <1>1, <1>12 DEF manualVars, ManualOutside
<1> QED BY <1>4, <1>5, <1>6, <1>7, <1>8, <1>9, <1>10, <1>11, <1>12 DEF Manual!Next

-----------------------------------------------------------------------------
(* OrderExecution.                                                         *)

\* What MCMoney instantiates is what the proofs are about.
LEMMA OrdersShared ==
    /\ Orders!ConstantsOK => OrderProofs!ConstantsOK
    /\ Orders!Init => OrderProofs!Init
    /\ Orders!Next => OrderProofs!Next
    /\ OrderProofs!OncePerMinute => Orders!OncePerMinute
    /\ OrderProofs!AnswersTrue => Orders!AnswersTrue
<1>1. Orders!ConstantsOK => OrderProofs!ConstantsOK
    BY DEF Orders!ConstantsOK, OrderProofs!ConstantsOK
<1>2. Orders!Init => OrderProofs!Init
    BY DEF Orders!Init, OrderProofs!Init, Orders!Idle, OrderProofs!Idle, Orders!Unknown,
           OrderProofs!Unknown
<1>3. Orders!Next => OrderProofs!Next
    BY DEF Orders!Next, OrderProofs!Next, Orders!Execute, OrderProofs!Execute, Orders!Taken,
           OrderProofs!Taken, Orders!TakenUnseen, OrderProofs!TakenUnseen, Orders!Refused,
           OrderProofs!Refused, Orders!Query, OrderProofs!Query, Orders!Record,
           OrderProofs!Record, Orders!Verify, OrderProofs!Verify, Orders!Ends, OrderProofs!Ends,
           Orders!NewExecutor, OrderProofs!NewExecutor, Orders!Tick, OrderProofs!Tick,
           Orders!Key, OrderProofs!Key, Orders!Unknown, OrderProofs!Unknown, Orders!StateOf,
           OrderProofs!StateOf, Orders!OrdersOf, OrderProofs!OrdersOf, Orders!Take,
           OrderProofs!Take, Orders!Goes, OrderProofs!Goes, Orders!Returns, OrderProofs!Returns
<1>4. OrderProofs!OncePerMinute => Orders!OncePerMinute
    BY DEF OrderProofs!OncePerMinute, Orders!OncePerMinute
<1>5. OrderProofs!AnswersTrue => Orders!AnswersTrue
    BY DEF OrderProofs!AnswersTrue, Orders!AnswersTrue, Orders!OrdersOf, OrderProofs!OrdersOf
<1> QED BY <1>1, <1>2, <1>3, <1>4, <1>5

\* The idempotency key makes one order of a signal within its minute, and a call answers
\* "filled" of orders only that are.
THEOREM OrderTakenOnce == Spec => []OrderOnce
<1>1. OrderProofs!ConstantsOK
    BY OrdersShared, ConstantsAssumption
<1>2. Init => OrderProofs!IInv
    BY <1>1, OrdersShared, OrderProofs!InitKeeps DEF Init
<1>3. OrderProofs!IInv /\ [Next]_vars => OrderProofs!IInv'
  <2>1. UNCHANGED orderVars => UNCHANGED OrderProofs!vars
      BY DEF orderVars, OrderProofs!vars
  <2> QED BY <1>1, <2>1, OrdersShared, PartsApart, OrderProofs!NextKeeps
<1>4. OrderProofs!IInv => OrderOnce
  <2>1. OrderProofs!IInv => OrderProofs!OncePerMinute
      BY DEF OrderProofs!IInv
  <2> QED BY <2>1, OrdersShared, OrderProofs!InvariantAnswers DEF OrderOnce
<1> QED BY <1>2, <1>3, <1>4, PTL DEF Spec

-----------------------------------------------------------------------------
(* StrategyLifecycle.                                                      *)

LEMMA LifecycleParameters ==
    LifecycleProofs!SetsAssumption /\ LifecycleProofs!ParametersAssumption
BY ConstantsAssumption
   DEF LifecycleProofs!SetsAssumption, LifecycleProofs!ParametersAssumption,
       LifecycleProofs!OpNames, IsFiniteSet, LifecycleProofs!IsFiniteSet

\* What MCMoney instantiates is what the proofs are about: the operators ...
LEMMA LifecycleOperators ==
    /\ Serial!Registered = LifecycleProofs!Registered
    /\ Serial!Dead = LifecycleProofs!Dead
    /\ \A S : Serial!Cardinality(S) = LifecycleProofs!Cardinality(S)
    /\ \A s : /\ Serial!Known(s) = LifecycleProofs!Known(s)
              /\ Serial!Fresh(s) = LifecycleProofs!Fresh(s)
              /\ Serial!SymbolConflict(s) = LifecycleProofs!SymbolConflict(s)
              /\ Serial!Cancelled(s) = LifecycleProofs!Cancelled(s)
<1>1. Serial!Registered = LifecycleProofs!Registered
    BY DEF Serial!Registered, LifecycleProofs!Registered
<1>2. \A t : Serial!Finished(t) = LifecycleProofs!Finished(t)
    BY DEF Serial!Finished, LifecycleProofs!Finished
<1>3. Serial!Dead = LifecycleProofs!Dead
    BY <1>1, <1>2 DEF Serial!Dead, LifecycleProofs!Dead
<1>4. \A S : Serial!Cardinality(S) = LifecycleProofs!Cardinality(S)
    BY DEF Serial!Cardinality, LifecycleProofs!Cardinality
<1>5. ASSUME NEW s
      PROVE  /\ Serial!Known(s) = LifecycleProofs!Known(s)
             /\ Serial!Fresh(s) = LifecycleProofs!Fresh(s)
             /\ Serial!SymbolConflict(s) = LifecycleProofs!SymbolConflict(s)
    BY DEF Serial!Known, LifecycleProofs!Known, Serial!Fresh, LifecycleProofs!Fresh,
           Serial!SymbolConflict, LifecycleProofs!SymbolConflict
<1>6. ASSUME NEW s PROVE Serial!Cancelled(s) = LifecycleProofs!Cancelled(s)
    BY <1>2 DEF Serial!Cancelled, LifecycleProofs!Cancelled
<1> QED BY <1>1, <1>3, <1>4, <1>5, <1>6

LEMMA LifecycleUpdates ==
    /\ \A loops : Serial!Collected(loops) = LifecycleProofs!Collected(loops)
    /\ \A s, b : Serial!Shared(s, b) = LifecycleProofs!Shared(s, b)
    /\ \A s, b : Serial!SummaryStatus(s, b) = LifecycleProofs!SummaryStatus(s, b)
    /\ \A s, v : Serial!RowSetTo(s, v) = LifecycleProofs!RowSetTo(s, v)
    /\ \A s, b, v : Serial!SummarySetTo(s, b, v) = LifecycleProofs!SummarySetTo(s, b, v)
    /\ Serial!TasksWithoutDead = LifecycleProofs!TasksWithoutDead
    /\ \A b : /\ Serial!SummariesOfDeadInError(b) = LifecycleProofs!SummariesOfDeadInError(b)
              /\ Serial!RowsOfDeadInError(b) = LifecycleProofs!RowsOfDeadInError(b)
    /\ \A op, s, b, rest : Serial!Closing(op, s, b, rest) = LifecycleProofs!Closing(op, s, b, rest)
    /\ Serial!Idle = LifecycleProofs!Idle
    /\ Serial!NoLoop = LifecycleProofs!NoLoop
<1>1. Serial!Idle = LifecycleProofs!Idle /\ Serial!NoLoop = LifecycleProofs!NoLoop
    BY DEF Serial!Idle, LifecycleProofs!Idle, Serial!NoLoop, LifecycleProofs!NoLoop
<1>2. \A loops : Serial!Collected(loops) = LifecycleProofs!Collected(loops)
    BY <1>1 DEF Serial!Collected, LifecycleProofs!Collected
<1>3. \A s, b : /\ Serial!Shared(s, b) = LifecycleProofs!Shared(s, b)
                /\ Serial!SummaryStatus(s, b) = LifecycleProofs!SummaryStatus(s, b)
    BY DEF Serial!Shared, LifecycleProofs!Shared, Serial!SummaryStatus,
           LifecycleProofs!SummaryStatus
<1>4. \A s, b, v : /\ Serial!RowSetTo(s, v) = LifecycleProofs!RowSetTo(s, v)
                   /\ Serial!SummarySetTo(s, b, v) = LifecycleProofs!SummarySetTo(s, b, v)
    BY DEF Serial!RowSetTo, LifecycleProofs!RowSetTo, Serial!SummarySetTo,
           LifecycleProofs!SummarySetTo
<1>5. Serial!TasksWithoutDead = LifecycleProofs!TasksWithoutDead
    BY LifecycleOperators DEF Serial!TasksWithoutDead, LifecycleProofs!TasksWithoutDead
<1>6. ASSUME NEW b PROVE Serial!DeadSeenRunning(b) = LifecycleProofs!DeadSeenRunning(b)
    BY <1>3, LifecycleOperators DEF Serial!DeadSeenRunning, LifecycleProofs!DeadSeenRunning
<1>7. ASSUME NEW b
      PROVE  /\ Serial!SummariesOfDeadInError(b) = LifecycleProofs!SummariesOfDeadInError(b)
             /\ Serial!RowsOfDeadInError(b) = LifecycleProofs!RowsOfDeadInError(b)
    BY <1>3, <1>6 DEF Serial!SummariesOfDeadInError, LifecycleProofs!SummariesOfDeadInError,
                      Serial!RowsOfDeadInError, LifecycleProofs!RowsOfDeadInError
<1>8. ASSUME NEW op, NEW s, NEW b, NEW rest
      PROVE  Serial!Closing(op, s, b, rest) = LifecycleProofs!Closing(op, s, b, rest)
    BY <1>1, <1>3 DEF Serial!Closing, LifecycleProofs!Closing
<1> QED BY <1>1, <1>2, <1>3, <1>4, <1>5, <1>7, <1>8

\* ... and the actions.
LEMMA RequestsShared ==
    ASSUME NEW r, Serial!Request(r)
    PROVE  LifecycleProofs!Request(r)
<1>1. ASSUME NEW s, Serial!BeginStart(r, s) PROVE LifecycleProofs!BeginStart(r, s)
    BY <1>1, LifecycleOperators, LifecycleUpdates
       DEF Serial!BeginStart, LifecycleProofs!BeginStart
<1>2. ASSUME NEW s, Serial!BeginStop(r, s) PROVE LifecycleProofs!BeginStop(r, s)
    BY <1>2, LifecycleOperators, LifecycleUpdates
       DEF Serial!BeginStop, LifecycleProofs!BeginStop
<1>3. ASSUME NEW s, Serial!BeginDelete(r, s) PROVE LifecycleProofs!BeginDelete(r, s)
    BY <1>3, LifecycleOperators, LifecycleUpdates
       DEF Serial!BeginDelete, LifecycleProofs!BeginDelete, Serial!RemoveStrategy,
           LifecycleProofs!RemoveStrategy
<1>4. ASSUME NEW s, Serial!BeginPause(r, s) PROVE LifecycleProofs!BeginPause(r, s)
    BY <1>4, LifecycleOperators, LifecycleUpdates
       DEF Serial!BeginPause, LifecycleProofs!BeginPause
<1> QED BY <1>1, <1>2, <1>3, <1>4 DEF Serial!Request, LifecycleProofs!Request

LEMMA ResumptionsShared ==
    ASSUME NEW r, Serial!Resume(r)
    PROVE  LifecycleProofs!Resume(r)
<1>1. Serial!RefuseStart(r) => LifecycleProofs!RefuseStart(r)
    BY LifecycleUpdates DEF Serial!RefuseStart, LifecycleProofs!RefuseStart
<1>2. ASSUME NEW t, Serial!RegisterLoop(r, t) PROVE LifecycleProofs!RegisterLoop(r, t)
    BY <1>2, LifecycleUpdates DEF Serial!RegisterLoop, LifecycleProofs!RegisterLoop
<1>3. Serial!StartRegister(r) => LifecycleProofs!StartRegister(r)
    BY <1>1, <1>2, LifecycleOperators
       DEF Serial!StartRegister, LifecycleProofs!StartRegister, Serial!Finished,
           LifecycleProofs!Finished
<1>4. Serial!StartSettle(r) => LifecycleProofs!StartSettle(r)
    BY LifecycleUpdates DEF Serial!StartSettle, LifecycleProofs!StartSettle
<1>5. Serial!StopCancel(r) => LifecycleProofs!StopCancel(r)
    BY LifecycleOperators, LifecycleUpdates DEF Serial!StopCancel, LifecycleProofs!StopCancel
<1>6. Serial!NextToPause(r) = LifecycleProofs!NextToPause(r)
    BY LifecycleUpdates DEF Serial!NextToPause, LifecycleProofs!NextToPause
<1>7. Serial!StopPersist(r) => LifecycleProofs!StopPersist(r)
    BY <1>6, LifecycleUpdates
       DEF Serial!StopPersist, LifecycleProofs!StopPersist, Serial!RemoveStrategy,
           LifecycleProofs!RemoveStrategy
<1> QED BY <1>3, <1>4, <1>5, <1>7 DEF Serial!Resume, LifecycleProofs!Resume

LEMMA LoopsShared ==
    ASSUME NEW t, Serial!Loop(t)
    PROVE  LifecycleProofs!Loop(t)
<1>1. Serial!LoopRefresh(t) => LifecycleProofs!LoopRefresh(t)
    BY LifecycleUpdates DEF Serial!LoopRefresh, LifecycleProofs!LoopRefresh
<1>2. Serial!LoopFail(t) => LifecycleProofs!LoopFail(t)
    BY LifecycleUpdates DEF Serial!LoopFail, LifecycleProofs!LoopFail
<1>3. Serial!LoopCancelled(t) => LifecycleProofs!LoopCancelled(t)
    BY LifecycleUpdates DEF Serial!LoopCancelled, LifecycleProofs!LoopCancelled
<1>4. Serial!SelfStopBegin(t) => LifecycleProofs!SelfStopBegin(t)
    BY DEF Serial!SelfStopBegin, LifecycleProofs!SelfStopBegin
<1>5. Serial!SelfStop(t) => LifecycleProofs!SelfStop(t)
    BY LifecycleOperators, LifecycleUpdates DEF Serial!SelfStop, LifecycleProofs!SelfStop
<1> QED BY <1>1, <1>2, <1>3, <1>4, <1>5 DEF Serial!Loop, LifecycleProofs!Loop

LEMMA LifecycleShared ==
    /\ Serial!Init => LifecycleProofs!Init
    /\ Serial!Next => LifecycleProofs!Next
    /\ LifecycleProofs!LiveHasRunningRow => Serial!LiveHasRunningRow
    /\ LifecycleProofs!SymbolExclusive => Serial!SymbolExclusive
<1>1. Serial!Init => LifecycleProofs!Init
    BY LifecycleUpdates DEF Serial!Init, LifecycleProofs!Init
<1>2. Serial!OtherRequest => LifecycleProofs!OtherRequest
    BY DEF Serial!OtherRequest, LifecycleProofs!OtherRequest
<1>3. Serial!PeriodicCleanup => LifecycleProofs!PeriodicCleanup
    BY LifecycleOperators, LifecycleUpdates
       DEF Serial!PeriodicCleanup, LifecycleProofs!PeriodicCleanup
<1>4. Serial!Restart => LifecycleProofs!Restart
    BY LifecycleUpdates DEF Serial!Restart, LifecycleProofs!Restart, Serial!Status,
                            LifecycleProofs!Status
<1>5. Serial!Next => LifecycleProofs!Next
    BY <1>2, <1>3, <1>4, RequestsShared, ResumptionsShared, LoopsShared
       DEF Serial!Next, LifecycleProofs!Next
<1>6. LifecycleProofs!LiveHasRunningRow => Serial!LiveHasRunningRow
    BY DEF LifecycleProofs!LiveHasRunningRow, Serial!LiveHasRunningRow,
           LifecycleProofs!Trading, Serial!Trading, LifecycleProofs!Exists, Serial!Exists
<1>7. LifecycleProofs!SymbolExclusive => Serial!SymbolExclusive
    BY DEF LifecycleProofs!SymbolExclusive, Serial!SymbolExclusive,
           LifecycleProofs!Trading, Serial!Trading, LifecycleProofs!Exists, Serial!Exists
<1> QED BY <1>1, <1>5, <1>6, <1>7

\* As long as requests come one at a time, a loop that trades has a row that says so, and
\* no other loop of the account trades its symbol.
THEOREM LoopsHaveRows == Spec => []RowsTellLoops
<1> DEFINE SInv == LifecycleProofs!IInv /\ LifecycleProofs!SerialInv
<1>1. Init => SInv
    BY LifecycleParameters, LifecycleShared, LifecycleProofs!InitIInv, LifecycleProofs!InitSerial
       DEF Init
<1>2. LifecycleProofs!OneAtATime
    BY DEF LifecycleProofs!OneAtATime
<1>3. SInv /\ [Next]_vars => SInv'
  <2> SUFFICES ASSUME SInv, [Next]_vars PROVE SInv'
      OBVIOUS
  <2>1. UNCHANGED loopVars => UNCHANGED LifecycleProofs!vars
      BY DEF loopVars, LifecycleProofs!vars
  <2>2. [LifecycleProofs!Next]_(LifecycleProofs!vars)
      BY <2>1, PartsApart, LifecycleShared
  <2>3. LifecycleProofs!IInv'
      BY <2>2, LifecycleParameters, LifecycleProofs!NextIInv
  <2> QED BY <1>2, <2>2, <2>3, LifecycleParameters, LifecycleProofs!NextSerial
<1>4. SInv => RowsTellLoops
  <2>1. LifecycleProofs!SerialInv
            => LifecycleProofs!LiveHasRunningRow /\ LifecycleProofs!SymbolExclusive
      BY DEF LifecycleProofs!SerialInv
  <2> QED BY <2>1, LifecycleShared DEF RowsTellLoops
<1> HIDE DEF SInv
<1> QED BY <1>1, <1>3, <1>4, PTL DEF Spec

-----------------------------------------------------------------------------
(* Types.                                                                  *)

\* What the proofs about orders and the lifecycle say of types is what MCMoney does.
LEMMA TypesShared ==
    /\ OrderProofs!TypeOK => Orders!TypeOK
    /\ LifecycleProofs!TypeOK => Serial!TypeOK
<1>1. OrderProofs!TypeOK => Orders!TypeOK
    BY DEF OrderProofs!TypeOK, Orders!TypeOK, OrderProofs!States, Orders!States,
           OrderProofs!Steps, Orders!Steps, OrderProofs!Answers, Orders!Answers,
           OrderProofs!Unknown, Orders!Unknown
<1>2. LifecycleProofs!LoopType = Serial!LoopType /\ LifecycleProofs!ReqType = Serial!ReqType
    BY DEF LifecycleProofs!LoopType, Serial!LoopType, LifecycleProofs!ReqType, Serial!ReqType,
           LifecycleProofs!LoopStates, Serial!LoopStates, LifecycleProofs!OpNames, Serial!OpNames
<1>3. LifecycleProofs!Status = Serial!Status
    BY DEF LifecycleProofs!Status, Serial!Status
<1>4. LifecycleProofs!TypeOK => Serial!TypeOK
    BY <1>2, <1>3 DEF LifecycleProofs!TypeOK, Serial!TypeOK
<1> QED BY <1>1, <1>4

\* THEOREM (MCMoney, TypesOK).  Every component keeps its variables within their types: among
\* them that nobody holds the lock of a trade that is not matching it, that a loop places
\* orders only while it runs, that a stop or take-profit is of a position that was opened,
\* and that the memory of trades has numbers of trades that are saved.
THEOREM TypesAreKept == Spec => []TypesOK
<1> DEFINE Others == RiskInv /\ ExposureInv /\ Limits!TypeOK /\ TradesInv /\ RowsInv
           Typed == Guard!TypeOK /\ ManualInv /\ ManualOutside /\ MatchInv
           Shared == OrderProofs!IInv /\ LifecycleProofs!IInv
<1>1. Init => Others
    BY InitRisk, ExposureStarts, LimitsStart, TradesStart, RowsStart DEF Init
<1>2. Others /\ [Next]_vars => Others'
    BY PartsApart, NextRisk, ExposureStep, LimitsStep, TradesStep, RowsStep
<1>3. Init => Typed
  <2> SUFFICES ASSUME Init PROVE Typed
      OBVIOUS
  <2>1. Guard!TypeOK
      BY ConstantsAssumption DEF Init, Guard!Init, Guard!TypeOK, Guard!ConstantsOK
  <2>2. ManualInv
      BY ManualStarts DEF Init
  <2>3. ManualOutside
      BY DEF Init, Manual!Init, ManualOutside
  <2>4. MatchInv
      BY MatchStart DEF Init
  <2> QED BY <2>1, <2>2, <2>3, <2>4
<1>4. Typed /\ [Next]_vars => Typed'
  <2> SUFFICES ASSUME Typed, [Next]_vars PROVE Typed'
      OBVIOUS
  <2>1. ManualInv'
      BY PartsApart, ManualKept
  <2>2. ManualOutside'
      BY PartsApart, OutsideTyped
  <2> QED BY <2>1, <2>2, PartsApart, GuardTyped, MatchStep
<1>5. OrderProofs!ConstantsOK
    BY OrdersShared, ConstantsAssumption
<1>6. Init => Shared
    BY <1>5, OrdersShared, OrderProofs!InitKeeps, LifecycleParameters, LifecycleShared,
       LifecycleProofs!InitIInv DEF Init
<1>7. Shared /\ [Next]_vars => Shared'
  <2> SUFFICES ASSUME Shared, [Next]_vars PROVE Shared'
      OBVIOUS
  <2>1. /\ UNCHANGED orderVars => UNCHANGED OrderProofs!vars
        /\ UNCHANGED loopVars => UNCHANGED LifecycleProofs!vars
      BY DEF orderVars, OrderProofs!vars, loopVars, LifecycleProofs!vars
  <2>2. OrderProofs!IInv'
      BY <1>5, <2>1, OrdersShared, PartsApart, OrderProofs!NextKeeps
  <2>3. [LifecycleProofs!Next]_(LifecycleProofs!vars)
      BY <2>1, PartsApart, LifecycleShared
  <2>4. LifecycleProofs!IInv'
      BY <2>3, LifecycleParameters, LifecycleProofs!NextIInv
  <2> QED BY <2>2, <2>4
<1>8. Others /\ Typed /\ Shared => TypesOK
  <2> SUFFICES ASSUME Others, Typed, Shared PROVE TypesOK
      OBVIOUS
  <2>1. Risk!TypeOK /\ Portfolio!TypeOK /\ Limits!TypeOK /\ Trades!TypeOK /\ Recorded!TypeOK
      BY DEF RiskInv, ExposureInv, TradesInv, RowsInv
  <2>2. Guard!TypeOK /\ Fifo!TypeOK
      BY MatchFits
  <2>3. Manual!TypeOK
      BY DEF ManualInv, ManualTypes, ManualOutside, Manual!TypeOK, RowType, CallType, Manual!Quantity
  <2>4. Orders!TypeOK
      BY <1>5, TypesShared, OrderProofs!InvariantTypes
  <2>5. Serial!TypeOK
      BY TypesShared DEF LifecycleProofs!IInv
  <2> QED BY <2>1, <2>2, <2>3, <2>4, <2>5 DEF TypesOK
<1> HIDE DEF Others, Typed, Shared
<1> QED BY <1>1, <1>2, <1>3, <1>4, <1>6, <1>7, <1>8, PTL DEF Spec
=============================================================================
