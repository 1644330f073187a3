----------------------------- MODULE MarketProofs -----------------------------
(***************************************************************************)
(* Proofs about the components of MCMarket.  CircuitBreaker, which MCMarket *)
(* extends, by itself: for any thresholds and any finite set of threads.   *)
(* The others as they are composed there: for any positions, connections,  *)
(* strategies and tasks.  Of candle streams and loops the proofs are those *)
(* of KlineStreamsProofs and StrategyLifecycleProofs, with the constants   *)
(* that MCMarket gives them.                                               *)
(***************************************************************************)
EXTENDS MCMarket, FiniteSetTheorems, TLAPS

-----------------------------------------------------------------------------
(* CircuitBreaker.                                                         *)

(* Successes are only counted during a half-open period. *)
SuccessesOnlyHalfOpen == state # "HALF_OPEN" => successes = 0

(* The inductive invariant.  ProbesBounded is not inductive by itself: it  *)
(* needs the relation between the probes in flight and the two counters,   *)
(* and that relation needs the counters to start a period at zero.         *)
IInv ==
    /\ TypeOK
    /\ ClosedBelowThreshold
    /\ SuccessesOnlyHalfOpen
    /\ SlotsCovered

(* The threads with a probe in flight are finitely many. *)
LEMMA ProbesFinite ==
    /\ IsFiniteSet(Probes)
    /\ Cardinality(Probes) \in Nat
BY CallsAssumption, FS_Subset, FS_CardinalityType DEF Probes

(* The thresholds are positive. *)
LEMMA Positive ==
    /\ FailureThreshold \in Nat /\ FailureThreshold >= 1
    /\ SuccessThreshold \in Nat /\ SuccessThreshold >= 1
BY ConfigAssumption

(* The breaker starts closed, with every counter at zero. *)
LEMMA InitIInv == Init => IInv
<1> SUFFICES ASSUME Init PROVE IInv
    OBVIOUS
<1>1. TypeOK
  <2>1. call \in [Calls -> CallStates]
    BY DEF Init, CallStates
  <2>2. /\ state \in {"CLOSED", "OPEN", "HALF_OPEN"}
        /\ failures \in 0 .. FailureThreshold
        /\ successes \in 0 .. SuccessThreshold - 1
        /\ halfOpenRequests \in Int /\ halfOpenRequests =< SuccessThreshold
        /\ lost \in Nat
    BY Positive DEF Init
  <2>3. cooled \in BOOLEAN
    BY DEF Init
  <2> QED BY <2>1, <2>2, <2>3 DEF TypeOK
<1>2. ClosedBelowThreshold
    BY Positive DEF Init, ClosedBelowThreshold
<1>3. SuccessesOnlyHalfOpen /\ SlotsCovered
    BY DEF Init, SuccessesOnlyHalfOpen, SlotsCovered
<1> QED BY <1>1, <1>2, <1>3 DEF IInv

(* A thread that leaves takes its probe, if it had one, with it. *)
LEMMA ReturnProbes ==
    ASSUME TypeOK, NEW c \in Calls, call[c] # "idle", Return(c)
    PROVE  /\ call' \in [Calls -> CallStates]
           /\ IsFiniteSet(Probes') /\ Cardinality(Probes') \in Nat
           /\ Cardinality(Probes') =< Cardinality(Probes)
           /\ call[c] = "probe" => Cardinality(Probes') = Cardinality(Probes) - 1
<1>1. call' \in [Calls -> CallStates]
    BY DEF TypeOK, Return, CallStates
<1>2. Probes' = Probes \ {c}
    BY DEF TypeOK, Return, Probes
<1>3. /\ IsFiniteSet(Probes \ {c})
      /\ Cardinality(Probes \ {c}) = IF c \in Probes THEN Cardinality(Probes) - 1
                                     ELSE Cardinality(Probes)
    BY ProbesFinite, FS_RemoveElement
<1>4. Cardinality(Probes \ {c}) \in Nat
    BY <1>3, FS_CardinalityType
<1>5. call[c] = "probe" => c \in Probes
    BY DEF Probes
<1> QED BY <1>1, <1>2, <1>3, <1>4, <1>5, ProbesFinite

(* A thread admitted as a probe adds one to the probes in flight. *)
LEMMA EnterProbes ==
    ASSUME TypeOK, NEW c \in Calls, call[c] = "idle",
           call' = [call EXCEPT ![c] = "probe"]
    PROVE  /\ call' \in [Calls -> CallStates]
           /\ Cardinality(Probes') = Cardinality(Probes) + 1
<1>1. call' \in [Calls -> CallStates]
    BY DEF TypeOK, CallStates
<1>2. Probes' = Probes \cup {c}
    BY DEF TypeOK, Probes
<1>3. c \notin Probes
    BY DEF Probes
<1> QED BY <1>1, <1>2, <1>3, ProbesFinite, FS_AddElement

-----------------------------------------------------------------------------
(* One lemma per action: what each locked section keeps.                   *)

LEMMA AdmitClosedKeepsIInv ==
    ASSUME IInv, NEW c \in Calls, AdmitClosed(c)
    PROVE  IInv'
<1>1. TypeOK'
    BY DEF IInv, TypeOK, AdmitClosed, breaker, CallStates
<1>2. ClosedBelowThreshold' /\ SuccessesOnlyHalfOpen'
    BY DEF IInv, ClosedBelowThreshold, SuccessesOnlyHalfOpen, AdmitClosed, breaker
<1>3. SlotsCovered'
    BY DEF SlotsCovered, AdmitClosed, breaker
<1> QED BY <1>1, <1>2, <1>3 DEF IInv

LEMMA AdmitFirstProbeKeepsIInv ==
    ASSUME IInv, NEW c \in Calls, AdmitFirstProbe(c)
    PROVE  IInv'
<1>1. TypeOK'
    BY Positive DEF IInv, TypeOK, AdmitFirstProbe, CallStates
<1>2. ClosedBelowThreshold' /\ SuccessesOnlyHalfOpen'
    BY DEF ClosedBelowThreshold, SuccessesOnlyHalfOpen, AdmitFirstProbe
<1>3. SlotsCovered'
  <2>1. Probes' = {c}
    BY DEF Probes, AdmitFirstProbe
  <2>2. Cardinality(Probes') = 1
    BY <2>1, FS_Singleton, Zenon
  <2>3. halfOpenRequests' = 1 /\ lost' = 0
    BY DEF AdmitFirstProbe
  <2>4. successes' \in Nat
    BY Positive DEF IInv, TypeOK, AdmitFirstProbe
  <2>5. \A s \in Nat : 1 + 0 =< 1 + s
    OBVIOUS
  <2>6. Cardinality(Probes') + lost' =< halfOpenRequests' + successes'
    BY <2>2, <2>3, <2>4, <2>5, Zenon
  <2> QED BY <2>6 DEF SlotsCovered
<1> QED BY <1>1, <1>2, <1>3 DEF IInv

LEMMA AdmitProbeKeepsIInv ==
    ASSUME IInv, NEW c \in Calls, AdmitProbe(c)
    PROVE  IInv'
<1>1. /\ call' \in [Calls -> CallStates]
      /\ Cardinality(Probes') = Cardinality(Probes) + 1
    BY EnterProbes DEF IInv, AdmitProbe
<1>2. TypeOK'
    BY Positive, <1>1 DEF IInv, TypeOK, AdmitProbe
<1>3. ClosedBelowThreshold' /\ SuccessesOnlyHalfOpen'
    BY DEF ClosedBelowThreshold, SuccessesOnlyHalfOpen, AdmitProbe
<1>4. SlotsCovered'
  <2>1. Cardinality(Probes) + lost =< halfOpenRequests + successes
    BY DEF IInv, SlotsCovered, AdmitProbe
  <2>2. /\ halfOpenRequests \in Int /\ successes \in Int /\ lost \in Int
        /\ halfOpenRequests' = halfOpenRequests + 1
        /\ successes' = successes /\ lost' = lost
    BY Positive DEF IInv, TypeOK, AdmitProbe
  <2> QED BY <1>1, <2>1, <2>2, ProbesFinite DEF SlotsCovered
<1> QED BY <1>2, <1>3, <1>4 DEF IInv

(* A success in a half-open period takes one from the slots and adds one   *)
(* to the successes, or ends the period.                                   *)
LEMMA SucceedKeepsIInv ==
    ASSUME IInv, NEW c \in Calls, Succeed(c)
    PROVE  IInv'
<1>1. /\ call' \in [Calls -> CallStates]
      /\ Cardinality(Probes') \in Nat
      /\ Cardinality(Probes') =< Cardinality(Probes)
    BY ReturnProbes DEF IInv, Succeed
<1>2. TypeOK'
    BY Positive, <1>1 DEF IInv, TypeOK, Succeed
<1>3. ClosedBelowThreshold'
    BY Positive DEF IInv, TypeOK, ClosedBelowThreshold, Succeed
<1>4. SuccessesOnlyHalfOpen'
    BY DEF IInv, SuccessesOnlyHalfOpen, Succeed
<1>5. SlotsCovered'
  <2> SUFFICES ASSUME state' = "HALF_OPEN"
               PROVE  Cardinality(Probes') + lost' =< halfOpenRequests' + successes'
    BY DEF SlotsCovered
  <2>1. /\ state = "HALF_OPEN"
        /\ halfOpenRequests' = halfOpenRequests - 1
        /\ successes' = successes + 1
        /\ lost' = lost
    BY DEF Succeed
  <2>2. Cardinality(Probes) + lost =< halfOpenRequests + successes
    BY <2>1 DEF IInv, SlotsCovered
  <2>3. halfOpenRequests \in Int /\ successes \in Int /\ lost \in Int
    BY Positive DEF IInv, TypeOK
  <2> QED BY <1>1, <2>1, <2>2, <2>3, ProbesFinite
<1> QED BY <1>2, <1>3, <1>4, <1>5 DEF IInv

(* A failure never leaves the breaker half-open.                           *)
LEMMA FailKeepsIInv ==
    ASSUME IInv, NEW c \in Calls, Fail(c)
    PROVE  IInv'
<1>1. call' \in [Calls -> CallStates]
    BY ReturnProbes DEF IInv, Fail
<1>2. TypeOK'
  <2>1. failures' \in 0 .. FailureThreshold
    BY Positive DEF IInv, TypeOK, Fail
  <2>2. /\ state' \in {"CLOSED", "OPEN", "HALF_OPEN"}
        /\ successes' \in 0 .. SuccessThreshold - 1
        /\ halfOpenRequests' \in Int /\ halfOpenRequests' =< SuccessThreshold
    BY Positive DEF IInv, TypeOK, Fail
  <2>3. cooled' \in BOOLEAN /\ lost' \in Nat
    BY DEF IInv, TypeOK, Fail
  <2> QED BY <1>1, <2>1, <2>2, <2>3 DEF TypeOK
<1>3. ClosedBelowThreshold'
    BY Positive DEF IInv, TypeOK, ClosedBelowThreshold, Fail
<1>4. SuccessesOnlyHalfOpen'
    BY DEF IInv, SuccessesOnlyHalfOpen, Fail
<1>5. SlotsCovered'
    BY DEF SlotsCovered, Fail
<1> QED BY <1>2, <1>3, <1>4, <1>5 DEF IInv

(* A probe that keeps its slot moves from the probes to the lost slots.    *)
LEMMA RefuseKeepsIInv ==
    ASSUME IInv, NEW c \in Calls, Refuse(c)
    PROVE  IInv'
<1>1. /\ call' \in [Calls -> CallStates]
      /\ Cardinality(Probes') \in Nat
      /\ Cardinality(Probes') =< Cardinality(Probes)
      /\ call[c] = "probe" => Cardinality(Probes') = Cardinality(Probes) - 1
    BY ReturnProbes DEF IInv, Refuse
<1>2. TypeOK'
    BY <1>1 DEF IInv, TypeOK, Refuse, breaker
<1>3. ClosedBelowThreshold' /\ SuccessesOnlyHalfOpen'
    BY DEF IInv, ClosedBelowThreshold, SuccessesOnlyHalfOpen, Refuse, breaker
<1>4. SlotsCovered'
  <2> SUFFICES ASSUME state' = "HALF_OPEN"
               PROVE  Cardinality(Probes') + lost' =< halfOpenRequests' + successes'
    BY DEF SlotsCovered
  <2>1. /\ state = "HALF_OPEN"
        /\ halfOpenRequests' = halfOpenRequests
        /\ successes' = successes
        /\ lost' = IF call[c] = "probe" THEN lost + 1 ELSE lost
    BY DEF Refuse, breaker
  <2>2. Cardinality(Probes) + lost =< halfOpenRequests + successes
    BY <2>1 DEF IInv, SlotsCovered
  <2>3. halfOpenRequests \in Int /\ successes \in Int /\ lost \in Int
    BY Positive DEF IInv, TypeOK
  <2> QED BY <1>1, <2>1, <2>2, <2>3, ProbesFinite
<1> QED BY <1>2, <1>3, <1>4 DEF IInv

LEMMA CoolKeepsIInv ==
    ASSUME IInv, Cool
    PROVE  IInv'
<1>1. TypeOK'
    BY DEF IInv, TypeOK, Cool
<1>2. ClosedBelowThreshold' /\ SuccessesOnlyHalfOpen' /\ SlotsCovered'
    BY DEF IInv, ClosedBelowThreshold, SuccessesOnlyHalfOpen, SlotsCovered, Cool
<1> QED BY <1>1, <1>2 DEF IInv

LEMMA StutterKeepsIInv ==
    ASSUME IInv, UNCHANGED vars
    PROVE  IInv'
<1>1. Probes' = Probes
    BY DEF Probes, vars
<1> QED BY <1>1 DEF IInv, TypeOK, ClosedBelowThreshold, SuccessesOnlyHalfOpen,
                    SlotsCovered, vars, breaker

(* Every step keeps the inductive invariant.                               *)
LEMMA NextIInv == IInv /\ [Next]_vars => IInv'
<1> SUFFICES ASSUME IInv, [Next]_vars PROVE IInv'
    OBVIOUS
<1>1. CASE Cool
    BY <1>1, CoolKeepsIInv
<1>2. ASSUME NEW c \in Calls, Enter(c) PROVE IInv'
    BY <1>2, AdmitClosedKeepsIInv, AdmitFirstProbeKeepsIInv, AdmitProbeKeepsIInv
    DEF Enter
<1>3. ASSUME NEW c \in Calls, Leave(c) PROVE IInv'
    BY <1>3, SucceedKeepsIInv, FailKeepsIInv, RefuseKeepsIInv DEF Leave
<1>4. CASE UNCHANGED vars
    BY <1>4, StutterKeepsIInv
<1> QED BY <1>1, <1>2, <1>3, <1>4 DEF Next

(* The inductive invariant holds of every reachable state.                 *)
LEMMA Invariance == Spec => []IInv
BY InitIInv, NextIInv, PTL DEF Spec

-----------------------------------------------------------------------------
(* The counters of the breaker stay in their ranges: no interleaving of    *)
(* admissions and late results takes the slot counter past the threshold   *)
(* or leaves the success counter at it.                                    *)
THEOREM TypeCorrect == Spec => []TypeOK
<1>1. IInv => TypeOK
    BY DEF IInv
<1> QED BY <1>1, Invariance, PTL

(* A breaker that is closed has failures to spare, whatever results of     *)
(* earlier periods arrive late.                                            *)
THEOREM NeverClosedAtThreshold == Spec => []ClosedBelowThreshold
<1>1. IInv => ClosedBelowThreshold
    BY DEF IInv
<1> QED BY <1>1, Invariance, PTL

(* Every probe in flight, and every slot kept by a call that ended with an *)
(* unexpected exception, is covered by the breaker's own counters.         *)
THEOREM SlotsAlwaysCovered == Spec => []SlotsCovered
<1>1. IInv => SlotsCovered
    BY DEF IInv
<1> QED BY <1>1, Invariance, PTL

(* Fewer than twice success_threshold probes are in flight at once.        *)
THEOREM ProbesAlwaysBounded == Spec => []ProbesBounded
<1>1. IInv => ProbesBounded
  <2> SUFFICES ASSUME IInv, state = "HALF_OPEN"
               PROVE  Cardinality(Probes) < 2 * SuccessThreshold
    BY DEF ProbesBounded
  <2>1. Cardinality(Probes) + lost =< halfOpenRequests + successes
    BY DEF IInv, SlotsCovered
  <2>2. /\ halfOpenRequests \in Int /\ halfOpenRequests =< SuccessThreshold
        /\ successes \in Int /\ successes =< SuccessThreshold - 1
        /\ lost \in Nat
    BY Positive DEF IInv, TypeOK
  <2> QED BY <2>1, <2>2, Positive, ProbesFinite
<1> QED BY <1>1, Invariance, PTL

(* No step takes an open breaker anywhere but to half-open, and only after *)
(* the timeout: the answers of calls still in flight never close it.       *)
THEOREM OpenOnlyToHalfOpen == Spec => LateAnswersDoNotClose
<1>1. TypeOK /\ [Next]_vars
      => [state = "OPEN" /\ state' # "OPEN" => cooled /\ state' = "HALF_OPEN"]_vars
  <2> SUFFICES ASSUME Next, state = "OPEN", state' # "OPEN"
               PROVE  cooled /\ state' = "HALF_OPEN"
    BY DEF vars
  <2>1. CASE Cool
    BY <2>1 DEF Cool
  <2>2. ASSUME NEW c \in Calls, Enter(c) PROVE cooled /\ state' = "HALF_OPEN"
    BY <2>2 DEF Enter, AdmitClosed, AdmitFirstProbe, AdmitProbe
  <2>3. ASSUME NEW c \in Calls, Leave(c) PROVE FALSE
    BY <2>3 DEF Leave, Succeed, Fail, Refuse, breaker
  <2> QED BY <2>1, <2>2, <2>3 DEF Next
<1> QED BY <1>1, TypeCorrect, PTL DEF Spec, LateAnswersDoNotClose

-----------------------------------------------------------------------------
(* MCMarket.                                                               *)

KlineProofs == INSTANCE KlineStreamsProofs WITH
    count <- subscribed, Nobody <- None, Limit <- MaxRows

LoopProofs == INSTANCE StrategyLifecycleProofs WITH
    Strategies <- OneStrategy, Symbol <- [s \in OneStrategy |-> "BTCUSDT"],
    Ops <- {"start", "stop", "delete", "pause"}, MaxConcurrent <- 1, MaxRestarts <- 0

\* A step is one of a component, and leaves the others alone.
LEMMA PartsApart ==
    ASSUME [MarketNext]_marketVars
    PROVE  /\ [Next]_vars
           /\ Loops!Next \/ UNCHANGED loopVars
           /\ Store!Next \/ UNCHANGED databaseVars
           /\ Marks!Next \/ UNCHANGED markVars
           /\ Users!Next \/ UNCHANGED userVars
           /\ Klines!Next \/ UNCHANGED klineVars
BY DEF vars, MarketNext, marketVars, BreakerNext, KlinesNext, MarksNext, UsersNext, DatabaseNext,
       LoopsNext, breakerVars, klineVars, markVars, userVars, databaseVars, loopVars

-----------------------------------------------------------------------------
(* MarkPrices.                                                             *)

\* The connection of the symbol, and no other, listens, is about to, or is polled for.
ConnectionServes ==
    /\ running \subseteq {connection}
    /\ polling => connection \in running
    /\ connection # None => connection \in sleeping \cup running
    /\ None \notin running

\* The count tells whether there is a connection, unless a subscribe has given back
\* the count of a later one.
CountTells ==
    /\ count \in {0, 1}
    /\ connection = None => count = 0
    /\ connection # None /\ ~superseded => count = 1

\* Positions have a connection, and a connection that is counted has positions.
ConnectionNeeded ==
    /\ registry # {} => connection # None
    /\ registry = {} => count = 0

MarksInv == ConnectionServes /\ CountTells /\ ConnectionNeeded

LEMMA OpenKeeps ==
    ASSUME MarksInv, NEW p \in Positions, Marks!Open(p)
    PROVE  MarksInv'
<1>1. None \notin Connections
    BY ConstantsAssumption DEF Marks!ConstantsOK
<1>2. CASE connection # None
    BY <1>2 DEF Marks!Open, MarksInv, ConnectionServes, CountTells, ConnectionNeeded
<1>3. CASE connection = None
  <2>1. running = {} /\ ~polling
      BY <1>3 DEF MarksInv, ConnectionServes
  <2>2. PICK c \in Connections : connection' = c /\ count' = 1 /\ sleeping' = sleeping \cup {c}
      BY <1>3 DEF Marks!Open
  <2> QED BY <1>1, <2>1, <2>2 DEF Marks!Open, MarksInv, ConnectionServes, CountTells,
                                  ConnectionNeeded
<1> QED BY <1>2, <1>3

\* A subscribe wakes up and connects, or finds that its connection has been thrown away.
LEMMA WakeKeeps ==
    ASSUME MarksInv, NEW c \in Connections, Marks!Connect(c) \/ Marks!Superseded(c)
    PROVE  MarksInv'
<1>1. None \notin Connections
    BY ConstantsAssumption DEF Marks!ConstantsOK
<1>2. CASE Marks!Connect(c)
    BY <1>1, <1>2 DEF Marks!Connect, MarksInv, ConnectionServes, CountTells, ConnectionNeeded
<1>3. CASE Marks!Superseded(c)
    BY <1>1, <1>3 DEF Marks!Superseded, MarksInv, ConnectionServes, CountTells, ConnectionNeeded
<1> QED BY <1>2, <1>3

LEMMA CloseKeeps ==
    ASSUME MarksInv, NEW p \in Positions, Marks!Close(p)
    PROVE  MarksInv'
<1>1. CASE registry' = {} /\ count > 0
    BY <1>1 DEF Marks!Close, MarksInv, ConnectionServes, CountTells, ConnectionNeeded
<1>2. CASE ~(registry' = {} /\ count > 0)
  <2>1. UNCHANGED <<connection, count, running, polling, sleeping, superseded>>
      BY <1>2 DEF Marks!Close
  <2>2. registry' = {} => count = 0
      BY <1>2 DEF MarksInv, CountTells
  <2> QED BY <2>1, <2>2 DEF Marks!Close, MarksInv, ConnectionServes, CountTells, ConnectionNeeded
<1> QED BY <1>1, <1>2

\* However positions open and close while a subscribe is asleep, a registered one has its
\* prices, of one connection, and a connection is closed with its last position unless a
\* subscription was counted twice.
THEOREM PricesStreamed == MarketSpec => []PositionsStreamed
<1>1. MarketInit => MarksInv
    BY DEF MarketInit, Marks!Init, MarksInv, ConnectionServes, CountTells, ConnectionNeeded
<1>2. MarksInv /\ [MarketNext]_marketVars => MarksInv'
  <2>1. ASSUME MarksInv, UNCHANGED markVars PROVE MarksInv'
      BY <2>1 DEF markVars, MarksInv, ConnectionServes, CountTells, ConnectionNeeded
  <2> QED BY <2>1, PartsApart, OpenKeeps, WakeKeeps, CloseKeeps DEF Marks!Next
<1>3. MarksInv => PositionsStreamed
    BY DEF MarksInv, ConnectionServes, CountTells, ConnectionNeeded, PositionsStreamed,
           Marks!OneConnection, Marks!RegisteredIsStreamed, Marks!UnusedIsClosed
<1> QED BY <1>1, <1>2, <1>3, PTL DEF MarketSpec

-----------------------------------------------------------------------------
(* UserStreams.                                                            *)

\* Who makes a stream holds the lock, and has taken down the one before.
CreatorHolds ==
  \A a \in Askers : asking[a] = "create" => holder = a /\ current = None

\* Of a stream that has been replaced, neither task is left.
NothingLeftOver == \A s \in Sockets : s # current => streams[s] = Users!NewStream

\* KeyKept is not inductive: that a half-hour leaves the key valid takes a loop that
\* has kept it alive before; and that a loop does not end by itself takes its key to
\* be the account's.
Kept ==
  current # None /\ ~Users!Failed(current) =>
    /\ streams[current].key = key
    /\ streams[current].keeper \in {"sleeping", "done"}
    /\ valid > 0 /\ (streams[current].keeper = "done" => valid = Users!Hour)

UsersInv == Users!TypeOK /\ CreatorHolds /\ NothingLeftOver /\ Kept

LEMMA StreamTypes ==
    /\ Users!NewStream \in [link : Users!Links, key : 0..MaxKey, keeper : Users!Keepers]
    /\ MaxKey \in Nat /\ Users!Hour \in Nat /\ None \notin Askers /\ None \notin Sockets
BY ConstantsAssumption
   DEF Users!ConstantsOK, Users!NewStream, Users!Links, Users!Keepers, Users!Hour

\* _stop_stream_internal leaves no stream behind.
LEMMA StoppedIsNew ==
    ASSUME Users!TypeOK, NothingLeftOver
    PROVE  /\ Users!Stopped \in [Sockets -> [link : Users!Links, key : 0..MaxKey, keeper : Users!Keepers]]
           /\ \A s \in Sockets : Users!Stopped[s] = Users!NewStream
BY StreamTypes DEF Users!Stopped, Users!TypeOK, NothingLeftOver

LEMMA LookKeeps ==
    ASSUME UsersInv, NEW a \in Askers, Users!Look(a)
    PROVE  UsersInv'
<1>1. Users!TypeOK /\ holder = None /\ \A b \in Askers : asking[b] # "create"
    BY StreamTypes DEF UsersInv, CreatorHolds, Users!Look
<1>2. CASE UNCHANGED <<holder, current, streams>> /\ asking' = [asking EXCEPT ![a] = "idle"]
  <2>1. Users!TypeOK'
      BY <1>1, <1>2 DEF Users!Look, Users!TypeOK, Users!Steps
  <2>2. CreatorHolds'
      BY <1>1, <1>2 DEF Users!TypeOK, CreatorHolds
  <2>3. NothingLeftOver' /\ Kept'
      BY <1>2 DEF UsersInv, Users!Look, NothingLeftOver, Kept, Users!Failed
  <2> QED BY <2>1, <2>2, <2>3 DEF UsersInv
<1>3. CASE /\ streams' = Users!Stopped /\ current' = None /\ holder' = a
             /\ asking' = [asking EXCEPT ![a] = "create"]
  <2>1. Users!TypeOK'
      BY <1>1, <1>3, StoppedIsNew DEF UsersInv, Users!Look, Users!TypeOK, Users!Steps
  <2>2. CreatorHolds'
      BY <1>1, <1>3 DEF Users!TypeOK, CreatorHolds
  <2>3. NothingLeftOver'
      BY <1>3, StoppedIsNew DEF UsersInv, NothingLeftOver
  <2>4. Kept'
      BY <1>3 DEF Kept
  <2> QED BY <2>1, <2>2, <2>3, <2>4 DEF UsersInv
<1> QED BY <1>2, <1>3 DEF Users!Look

LEMMA CreateKeyKeeps ==
    ASSUME UsersInv, NEW a \in Askers, Users!CreateKey(a)
    PROVE  UsersInv'
<1> DEFINE made == IF valid > 0 THEN key ELSE key + 1
             new == [link |-> "off", key |-> made, keeper |-> "sleeping"]
<1>1. PICK s \in Sockets :
        /\ key' = made /\ valid' = Users!Hour
        /\ streams' = [streams EXCEPT ![s] = new] /\ current' = s
    BY DEF Users!CreateKey
<1>2. Users!TypeOK /\ holder = a /\ current = None
    BY DEF UsersInv, CreatorHolds, Users!CreateKey
<1>3. made \in 0..MaxKey
    BY <1>2, StreamTypes DEF Users!CreateKey, Users!TypeOK
<1>4. new \in [link : Users!Links, key : 0..MaxKey, keeper : Users!Keepers]
    BY <1>3 DEF Users!Links, Users!Keepers
<1> HIDE DEF made
<1>5. streams'[s] = new /\ \A x \in Sockets \ {s} : streams'[x] = streams[x]
    BY <1>1, <1>2 DEF Users!TypeOK
<1>6. Users!TypeOK'
    BY <1>1, <1>2, <1>3, <1>4, StreamTypes DEF Users!CreateKey, Users!TypeOK, Users!Steps, Users!Hour
<1>7. CreatorHolds'
    BY <1>2 DEF UsersInv, CreatorHolds, Users!CreateKey, Users!TypeOK
<1>8. NothingLeftOver'
    BY <1>1, <1>2, <1>5, StreamTypes DEF UsersInv, NothingLeftOver
<1>9. Kept'
    BY <1>1, <1>5 DEF Kept, Users!Failed, Users!Hour
<1> QED BY <1>6, <1>7, <1>8, <1>9 DEF UsersInv

LEMMA AskersKeep ==
    ASSUME UsersInv, NEW a \in Askers, Users!Ask(a) \/ Users!CreateFails(a)
    PROVE  UsersInv'
<1>1. CASE Users!Ask(a)
    BY <1>1 DEF Users!Ask, UsersInv, Users!TypeOK, Users!Steps, CreatorHolds, NothingLeftOver, Kept, Users!Failed
<1>2. CASE Users!CreateFails(a)
    BY <1>2 DEF Users!CreateFails, UsersInv, Users!TypeOK, Users!Steps, CreatorHolds, NothingLeftOver, Kept, Users!Failed
<1> QED BY <1>1, <1>2

LEMMA StopAllKeeps ==
    ASSUME UsersInv, Users!StopAll
    PROVE  UsersInv'
<1>1. Users!TypeOK' /\ NothingLeftOver'
    BY StoppedIsNew DEF UsersInv, Users!StopAll, Users!TypeOK, NothingLeftOver
<1>2. CreatorHolds' /\ Kept'
    BY StreamTypes DEF UsersInv, Users!StopAll, CreatorHolds, Kept
<1> QED BY <1>1, <1>2 DEF UsersInv

\* What a socket does is done by the account's.
LEMMA LinksKeep ==
    ASSUME UsersInv, NEW s \in Sockets, Users!Connect(s) \/ Users!Drop(s)
    PROVE  UsersInv'
<1>1. PICK to \in Users!Links : streams' = [streams EXCEPT ![s].link = to]
    BY DEF Users!Connect, Users!Drop, Users!Links
<1>2. UNCHANGED <<key, valid, holder, asking, current, ended>>
    BY DEF Users!Connect, Users!Drop
<1>3. s = current
    BY DEF UsersInv, NothingLeftOver, Users!NewStream, Users!Connect, Users!Drop
<1>4. Users!TypeOK'
    BY <1>1, <1>2 DEF UsersInv, Users!TypeOK
<1>5. /\ streams'[s].key = streams[s].key /\ streams'[s].keeper = streams[s].keeper
      /\ \A x \in Sockets \ {s} : streams'[x] = streams[x]
    BY <1>1 DEF UsersInv, Users!TypeOK
<1>6. CreatorHolds' /\ NothingLeftOver' /\ Kept'
    BY <1>2, <1>3, <1>5 DEF UsersInv, CreatorHolds, NothingLeftOver, Kept, Users!Failed
<1> QED BY <1>4, <1>6 DEF UsersInv

LEMMA KeepAliveKeeps ==
    ASSUME UsersInv, NEW s \in Sockets, Users!KeepAlive(s)
    PROVE  UsersInv'
<1>1. s = current /\ current # None /\ streams[s].keeper = "sleeping"
    BY StreamTypes DEF UsersInv, NothingLeftOver, Users!NewStream, Users!KeepAlive
<1>2. Users!Valid(s)
    BY <1>1 DEF UsersInv, Kept, Users!Failed, Users!Valid
<1>3. PICK keeper \in {"done", "failed"} :
        /\ streams' = [streams EXCEPT ![s].keeper = keeper]
        /\ keeper = "done" => valid' = Users!Hour
        /\ valid' \in {valid, Users!Hour}
    BY <1>1, <1>2 DEF Users!KeepAlive
<1>4. UNCHANGED <<key, holder, asking, current, ended>>
    BY DEF Users!KeepAlive
<1>5. /\ streams'[s].key = streams[s].key /\ streams'[s].keeper = keeper
      /\ \A x \in Sockets \ {s} : streams'[x] = streams[x]
    BY <1>3 DEF UsersInv, Users!TypeOK
<1>6. Users!TypeOK'
    BY <1>3, <1>4 DEF UsersInv, Users!TypeOK, Users!Keepers, Users!Hour
<1>7. CreatorHolds' /\ NothingLeftOver'
    BY <1>1, <1>4, <1>5 DEF UsersInv, CreatorHolds, NothingLeftOver
<1>8. Kept'
    BY <1>1, <1>2, <1>3, <1>4, <1>5 DEF Kept, Users!Failed, Users!Valid, Users!Hour
<1> QED BY <1>6, <1>7, <1>8 DEF UsersInv

\* A stream when a half-hour has passed.
Woken(x) == [link |-> IF x.link = "up" /\ valid = 1 THEN "off" ELSE x.link,
               key |-> x.key,
               keeper |-> IF x.keeper = "done" THEN "sleeping" ELSE x.keeper]

LEMMA WokenFields ==
    ASSUME NEW x \in [link : Users!Links, key : 0..MaxKey, keeper : Users!Keepers]
    PROVE  /\ Woken(x) \in [link : Users!Links, key : 0..MaxKey, keeper : Users!Keepers]
           /\ Woken(x).key = x.key
           /\ Woken(x).keeper = IF x.keeper = "done" THEN "sleeping" ELSE x.keeper
           /\ x = Users!NewStream => Woken(x) = Users!NewStream
BY DEF Woken, Users!Links, Users!Keepers, Users!NewStream

\* A loop that keeps a key alive has done so before a half-hour passes.
LEMMA TickKeeps ==
    ASSUME UsersInv, Users!Tick
    PROVE  UsersInv'
<1>1. \A s \in Sockets : streams'[s] = Woken(streams[s])
    BY DEF Woken, Users!Tick, UsersInv, Users!TypeOK
<1>2. /\ valid > 0 /\ valid' = valid - 1 /\ UNCHANGED <<key, holder, asking, current, ended>>
      /\ streams' = [s \in Sockets |-> streams'[s]]
      /\ \A s \in Sockets : streams[s].keeper # "sleeping"
    BY DEF Users!Tick
<1>3. Users!TypeOK'
  <2>1. \A s \in Sockets : streams'[s] \in [link : Users!Links, key : 0..MaxKey, keeper : Users!Keepers]
      BY <1>1, WokenFields DEF UsersInv, Users!TypeOK
  <2>2. streams' \in [Sockets -> [link : Users!Links, key : 0..MaxKey, keeper : Users!Keepers]]
      BY <1>2, <2>1
  <2>3. valid' \in 0..Users!Hour
      BY <1>2 DEF UsersInv, Users!TypeOK, Users!Hour
  <2> QED BY <1>2, <2>2, <2>3 DEF UsersInv, Users!TypeOK
<1>4. CreatorHolds'
    BY <1>2 DEF UsersInv, CreatorHolds
<1>5. NothingLeftOver'
    BY <1>1, <1>2, WokenFields DEF UsersInv, Users!TypeOK, NothingLeftOver
<1>6. Kept'
  <2> SUFFICES ASSUME current # None, streams'[current].keeper # "failed"
                 PROVE  /\ streams'[current].key = key
                        /\ streams'[current].keeper = "sleeping" /\ valid' > 0
      BY <1>2 DEF Kept, Users!Failed
  <2>1. /\ current \in Sockets /\ streams'[current].key = streams[current].key
        /\ streams'[current].keeper = IF streams[current].keeper = "done" THEN "sleeping"
                                         ELSE streams[current].keeper
      BY <1>1, WokenFields DEF UsersInv, Users!TypeOK
  <2>2. streams[current].keeper = "done" /\ valid = Users!Hour /\ streams[current].key = key
      BY <1>2, <2>1 DEF UsersInv, Kept, Users!Failed
  <2> QED BY <1>2, <2>1, <2>2 DEF Users!Hour
<1> QED BY <1>3, <1>4, <1>5, <1>6 DEF UsersInv

LEMMA InitUsers ==
    ASSUME Users!Init
    PROVE  UsersInv
<1>1. 0 \in 0..MaxKey /\ 0 \in 0..Users!Hour
    BY StreamTypes DEF Users!Hour
<1>2. asking \in [Askers -> Users!Steps]
    BY DEF Users!Init, Users!Steps
<1>3. Users!TypeOK
    BY <1>1, <1>2, StreamTypes DEF Users!Init, Users!TypeOK
<1> QED BY <1>3 DEF UsersInv, Users!Init, CreatorHolds, NothingLeftOver, Kept

LEMMA NextUsers ==
    ASSUME UsersInv, Users!Next \/ UNCHANGED userVars
    PROVE  UsersInv'
<1>1. CASE UNCHANGED userVars
    BY <1>1 DEF userVars, UsersInv, Users!TypeOK, CreatorHolds, NothingLeftOver, Kept, Users!Failed
<1> QED BY <1>1, AskersKeep, LookKeeps, CreateKeyKeeps, LinksKeep, KeepAliveKeeps, StopAllKeeps,
             TickKeeps DEF Users!Next

LEMMA InvariantStream == UsersInv => StreamKept
BY DEF UsersInv, StreamKept, NothingLeftOver, Users!OneStream, Users!Running, Users!NewStream, Kept,
       Users!KeyKept, Users!Valid, Users!Failed

\* However many starts ask for it together, whatever they find after waiting for the lock and
\* however a connection comes and goes, the account has one stream, by a key that is valid
\* as long as its keep-alives succeed.
THEOREM AccountStreamed == MarketSpec => []StreamKept
<1>1. MarketInit => UsersInv
    BY InitUsers DEF MarketInit
<1>2. UsersInv /\ [MarketNext]_marketVars => UsersInv'
    BY PartsApart, NextUsers
<1> QED BY <1>1, <1>2, InvariantStream, PTL DEF MarketSpec

-----------------------------------------------------------------------------
(* KlineStreams.                                                           *)

\* What MCMarket instantiates is what the proofs are about: the assumptions ...
LEMMA CandleConstants == Klines!ConstantsOK => KlineProofs!ConstantsOK
<1>1. Klines!IsFiniteSet(Strategies) <=> KlineProofs!IsFiniteSet(Strategies)
    BY DEF Klines!IsFiniteSet, KlineProofs!IsFiniteSet
<1>2. Klines!Cardinality(Strategies) = KlineProofs!Cardinality(Strategies)
    BY DEF Klines!Cardinality, KlineProofs!Cardinality
<1> QED BY <1>1, <1>2 DEF Klines!ConstantsOK, KlineProofs!ConstantsOK

\* ... the operators ...
LEMMA CandleOperators ==
    /\ Klines!Fetched = KlineProofs!Fetched
    /\ Klines!Looping = KlineProofs!Looping
    /\ \A rows : Klines!LastClosed(rows) = KlineProofs!LastClosed(rows)
    /\ \A rows, row : Klines!Added(rows, row) = KlineProofs!Added(rows, row)
BY DEF Klines!Fetched, KlineProofs!Fetched, Klines!Looping, KlineProofs!Looping,
       Klines!LastClosed, KlineProofs!LastClosed, Klines!Added, KlineProofs!Added

LEMMA CandleUpdates ==
    /\ Klines!Counted <=> KlineProofs!Counted
    /\ Klines!Uncounted <=> KlineProofs!Uncounted
    /\ \A s : Klines!Subscribed(s) <=> KlineProofs!Subscribed(s)
    /\ \A s, where : Klines!Goto(s, where) <=> KlineProofs!Goto(s, where)
    /\ \A s, row : Klines!Process(s, row) <=> KlineProofs!Process(s, row)
<1>1. Klines!Counted <=> KlineProofs!Counted
    BY DEF Klines!Counted, KlineProofs!Counted
<1>2. Klines!Uncounted <=> KlineProofs!Uncounted
    BY DEF Klines!Uncounted, KlineProofs!Uncounted
<1>3. \A s, where : Klines!Goto(s, where) <=> KlineProofs!Goto(s, where)
    BY DEF Klines!Goto, KlineProofs!Goto
<1>4. \A s : Klines!Subscribed(s) <=> KlineProofs!Subscribed(s)
    BY DEF Klines!Goto, KlineProofs!Goto, Klines!Subscribed, KlineProofs!Subscribed
<1>5. \A s, row : Klines!Process(s, row) <=> KlineProofs!Process(s, row)
    BY DEF Klines!Process, KlineProofs!Process
<1> QED BY <1>1, <1>2, <1>3, <1>4, <1>5

\* ... and the actions.
LEMMA CandlesShared ==
    /\ Klines!Init => KlineProofs!Init
    /\ Klines!Next => KlineProofs!Next
<1>1. Klines!Init => KlineProofs!Init
    BY DEF Klines!Init, KlineProofs!Init
<1>2. ASSUME NEW s
      PROVE  /\ Klines!Connect(s) => KlineProofs!Connect(s)
             /\ Klines!Join(s) => KlineProofs!Join(s)
             /\ Klines!Read(s) => KlineProofs!Read(s)
             /\ Klines!Fetch(s) => KlineProofs!Fetch(s)
             /\ Klines!FetchFails(s) => KlineProofs!FetchFails(s)
             /\ Klines!Unsubscribe(s) => KlineProofs!Unsubscribe(s)
  <2>1. Klines!Connect(s) => KlineProofs!Connect(s)
      BY CandleUpdates DEF Klines!Connect, KlineProofs!Connect, Klines!exchangeVars,
         KlineProofs!exchangeVars
  <2>2. Klines!Join(s) => KlineProofs!Join(s)
      BY CandleUpdates DEF Klines!Join, KlineProofs!Join, Klines!exchangeVars,
         KlineProofs!exchangeVars
  <2>3. Klines!Read(s) => KlineProofs!Read(s)
      BY CandleOperators, CandleUpdates DEF Klines!Read, KlineProofs!Read,
         Klines!exchangeVars, KlineProofs!exchangeVars
  <2>4. Klines!Fetch(s) => KlineProofs!Fetch(s)
      BY CandleOperators, CandleUpdates DEF Klines!Fetch, KlineProofs!Fetch,
         Klines!exchangeVars, KlineProofs!exchangeVars
  <2>5. Klines!FetchFails(s) => KlineProofs!FetchFails(s)
      BY CandleOperators, CandleUpdates DEF Klines!FetchFails, KlineProofs!FetchFails,
         Klines!exchangeVars, KlineProofs!exchangeVars, Klines!managerVars,
         KlineProofs!managerVars
  <2>6. Klines!Unsubscribe(s) => KlineProofs!Unsubscribe(s)
      BY CandleUpdates DEF Klines!Unsubscribe, KlineProofs!Unsubscribe
  <2> QED BY <2>1, <2>2, <2>3, <2>4, <2>5, <2>6
<1>3. ASSUME NEW s
      PROVE  /\ Klines!Start(s) => KlineProofs!Start(s)
             /\ Klines!Connected(s) => KlineProofs!Connected(s)
             /\ Klines!Timeout(s) => KlineProofs!Timeout(s)
             /\ Klines!Stop(s) => KlineProofs!Stop(s)
             /\ Klines!Die(s) => KlineProofs!Die(s)
    BY CandleOperators, CandleUpdates
       DEF Klines!Start, KlineProofs!Start, Klines!Connected, KlineProofs!Connected,
           Klines!Timeout, KlineProofs!Timeout, Klines!Stop, KlineProofs!Stop,
           Klines!Die, KlineProofs!Die, Klines!exchangeVars, KlineProofs!exchangeVars,
           Klines!managerVars, KlineProofs!managerVars
<1>4. /\ Klines!Deliver => KlineProofs!Deliver
      /\ Klines!LinkUp => KlineProofs!LinkUp
      /\ Klines!LinkLost => KlineProofs!LinkLost
      /\ Klines!CandleCloses => KlineProofs!CandleCloses
    BY CandleOperators
       DEF Klines!Deliver, KlineProofs!Deliver, Klines!LinkUp, KlineProofs!LinkUp,
           Klines!LinkLost, KlineProofs!LinkLost, Klines!CandleCloses,
           KlineProofs!CandleCloses, Klines!exchangeVars, KlineProofs!exchangeVars,
           Klines!managerVars, KlineProofs!managerVars
<1>5. Klines!Next => KlineProofs!Next
    BY <1>2, <1>3, <1>4
       DEF Klines!Next, KlineProofs!Next, Klines!Loop, KlineProofs!Loop, Klines!Locking,
           KlineProofs!Locking
<1> QED BY <1>1, <1>5

\* The stream of a strategy that goes on is never closed, its rows stay in order unless a
\* fetch overtakes the socket, and no forming candle is taken for a closed one, whatever
\* the order of starts, stops, deaths, fetches and lost connections.
THEOREM CandlesAreServed == MarketSpec => []CandlesServed
<1>1. KlineProofs!ConstantsOK
    BY CandleConstants, ConstantsAssumption
<1>2. MarketInit => KlineProofs!IInv
    BY <1>1, CandlesShared, KlineProofs!InitKeeps DEF MarketInit
<1>3. KlineProofs!IInv /\ [MarketNext]_marketVars => KlineProofs!IInv'
  <2>1. UNCHANGED klineVars => UNCHANGED KlineProofs!vars
      BY DEF klineVars, KlineProofs!vars
  <2> QED BY <1>1, <2>1, CandlesShared, PartsApart, KlineProofs!NextKeeps
<1>4. ASSUME KlineProofs!IInv PROVE CandlesServed
  <2>1. KlineProofs!RunningHasStream
      BY <1>1, <1>4, KlineProofs!InvariantStream
  <2>2. KlineProofs!BufferOrdered /\ KlineProofs!OnlyClosedProcessed
      BY <1>4, KlineProofs!InvariantRows
  <2> QED BY <2>1, <2>2, CandleOperators
          DEF CandlesServed, Klines!RunningHasStream, KlineProofs!RunningHasStream,
              Klines!BufferOrdered, KlineProofs!BufferOrdered,
              Klines!OnlyClosedProcessed, KlineProofs!OnlyClosedProcessed
<1> QED BY <1>2, <1>3, <1>4, PTL DEF MarketSpec

-----------------------------------------------------------------------------
(* StrategyLifecycle.                                                      *)

LEMMA LifecycleParameters ==
    LoopProofs!SetsAssumption /\ LoopProofs!ParametersAssumption
BY ConstantsAssumption, FS_Singleton
   DEF OneStrategy, LoopProofs!SetsAssumption, LoopProofs!ParametersAssumption,
       LoopProofs!OpNames, IsFiniteSet, LoopProofs!IsFiniteSet

\* What MCMarket instantiates is what the proofs are about: the operators ...
LEMMA LifecycleOperators ==
    /\ Loops!Registered = LoopProofs!Registered
    /\ Loops!Dead = LoopProofs!Dead
    /\ \A S : Loops!Cardinality(S) = LoopProofs!Cardinality(S)
    /\ \A s : /\ Loops!Known(s) = LoopProofs!Known(s)
              /\ Loops!Fresh(s) = LoopProofs!Fresh(s)
              /\ Loops!SymbolConflict(s) = LoopProofs!SymbolConflict(s)
              /\ Loops!Cancelled(s) = LoopProofs!Cancelled(s)
<1>1. Loops!Registered = LoopProofs!Registered
    BY DEF Loops!Registered, LoopProofs!Registered
<1>2. \A t : Loops!Finished(t) = LoopProofs!Finished(t)
    BY DEF Loops!Finished, LoopProofs!Finished
<1>3. Loops!Dead = LoopProofs!Dead
    BY <1>1, <1>2 DEF Loops!Dead, LoopProofs!Dead
<1>4. \A S : Loops!Cardinality(S) = LoopProofs!Cardinality(S)
    BY DEF Loops!Cardinality, LoopProofs!Cardinality
<1>5. ASSUME NEW s
      PROVE  /\ Loops!Known(s) = LoopProofs!Known(s)
             /\ Loops!Fresh(s) = LoopProofs!Fresh(s)
             /\ Loops!SymbolConflict(s) = LoopProofs!SymbolConflict(s)
    BY DEF Loops!Known, LoopProofs!Known, Loops!Fresh, LoopProofs!Fresh,
           Loops!SymbolConflict, LoopProofs!SymbolConflict
<1>6. ASSUME NEW s PROVE Loops!Cancelled(s) = LoopProofs!Cancelled(s)
    BY <1>2 DEF Loops!Cancelled, LoopProofs!Cancelled
<1> QED BY <1>1, <1>3, <1>4, <1>5, <1>6

LEMMA LifecycleUpdates ==
    /\ \A loops : Loops!Collected(loops) = LoopProofs!Collected(loops)
    /\ \A s, b : Loops!Shared(s, b) = LoopProofs!Shared(s, b)
    /\ \A s, b : Loops!SummaryStatus(s, b) = LoopProofs!SummaryStatus(s, b)
    /\ \A s, v : Loops!RowSetTo(s, v) = LoopProofs!RowSetTo(s, v)
    /\ \A s, b, v : Loops!SummarySetTo(s, b, v) = LoopProofs!SummarySetTo(s, b, v)
    /\ Loops!TasksWithoutDead = LoopProofs!TasksWithoutDead
    /\ \A b : /\ Loops!SummariesOfDeadInError(b) = LoopProofs!SummariesOfDeadInError(b)
              /\ Loops!RowsOfDeadInError(b) = LoopProofs!RowsOfDeadInError(b)
    /\ \A op, s, b, rest : Loops!Closing(op, s, b, rest) = LoopProofs!Closing(op, s, b, rest)
    /\ Loops!Idle = LoopProofs!Idle
    /\ Loops!NoLoop = LoopProofs!NoLoop
<1>1. Loops!Idle = LoopProofs!Idle /\ Loops!NoLoop = LoopProofs!NoLoop
    BY DEF Loops!Idle, LoopProofs!Idle, Loops!NoLoop, LoopProofs!NoLoop
<1>2. \A loops : Loops!Collected(loops) = LoopProofs!Collected(loops)
    BY <1>1 DEF Loops!Collected, LoopProofs!Collected
<1>3. \A s, b : /\ Loops!Shared(s, b) = LoopProofs!Shared(s, b)
                /\ Loops!SummaryStatus(s, b) = LoopProofs!SummaryStatus(s, b)
    BY DEF Loops!Shared, LoopProofs!Shared, Loops!SummaryStatus,
           LoopProofs!SummaryStatus
<1>4. \A s, b, v : /\ Loops!RowSetTo(s, v) = LoopProofs!RowSetTo(s, v)
                   /\ Loops!SummarySetTo(s, b, v) = LoopProofs!SummarySetTo(s, b, v)
    BY DEF Loops!RowSetTo, LoopProofs!RowSetTo, Loops!SummarySetTo,
           LoopProofs!SummarySetTo
<1>5. Loops!TasksWithoutDead = LoopProofs!TasksWithoutDead
    BY LifecycleOperators DEF Loops!TasksWithoutDead, LoopProofs!TasksWithoutDead
<1>6. ASSUME NEW b PROVE Loops!DeadSeenRunning(b) = LoopProofs!DeadSeenRunning(b)
    BY <1>3, LifecycleOperators DEF Loops!DeadSeenRunning, LoopProofs!DeadSeenRunning
<1>7. ASSUME NEW b
      PROVE  /\ Loops!SummariesOfDeadInError(b) = LoopProofs!SummariesOfDeadInError(b)
             /\ Loops!RowsOfDeadInError(b) = LoopProofs!RowsOfDeadInError(b)
    BY <1>3, <1>6 DEF Loops!SummariesOfDeadInError, LoopProofs!SummariesOfDeadInError,
                      Loops!RowsOfDeadInError, LoopProofs!RowsOfDeadInError
<1>8. ASSUME NEW op, NEW s, NEW b, NEW rest
      PROVE  Loops!Closing(op, s, b, rest) = LoopProofs!Closing(op, s, b, rest)
    BY <1>1, <1>3 DEF Loops!Closing, LoopProofs!Closing
<1> QED BY <1>1, <1>2, <1>3, <1>4, <1>5, <1>7, <1>8

\* ... and the actions.
LEMMA RequestsShared ==
    ASSUME NEW r, Loops!Request(r)
    PROVE  LoopProofs!Request(r)
<1>1. ASSUME NEW s, Loops!BeginStart(r, s) PROVE LoopProofs!BeginStart(r, s)
    BY <1>1, LifecycleOperators, LifecycleUpdates
       DEF Loops!BeginStart, LoopProofs!BeginStart
<1>2. ASSUME NEW s, Loops!BeginStop(r, s) PROVE LoopProofs!BeginStop(r, s)
    BY <1>2, LifecycleOperators, LifecycleUpdates
       DEF Loops!BeginStop, LoopProofs!BeginStop
<1>3. ASSUME NEW s, Loops!BeginDelete(r, s) PROVE LoopProofs!BeginDelete(r, s)
    BY <1>3, LifecycleOperators, LifecycleUpdates
       DEF Loops!BeginDelete, LoopProofs!BeginDelete, Loops!RemoveStrategy,
           LoopProofs!RemoveStrategy
<1>4. ASSUME NEW s, Loops!BeginPause(r, s) PROVE LoopProofs!BeginPause(r, s)
    BY <1>4, LifecycleOperators, LifecycleUpdates
       DEF Loops!BeginPause, LoopProofs!BeginPause
<1> QED BY <1>1, <1>2, <1>3, <1>4 DEF Loops!Request, LoopProofs!Request

LEMMA ResumptionsShared ==
    ASSUME NEW r, Loops!Resume(r)
    PROVE  LoopProofs!Resume(r)
<1>1. Loops!RefuseStart(r) => LoopProofs!RefuseStart(r)
    BY LifecycleUpdates DEF Loops!RefuseStart, LoopProofs!RefuseStart
<1>2. ASSUME NEW t, Loops!RegisterLoop(r, t) PROVE LoopProofs!RegisterLoop(r, t)
    BY <1>2, LifecycleUpdates DEF Loops!RegisterLoop, LoopProofs!RegisterLoop
<1>3. Loops!StartRegister(r) => LoopProofs!StartRegister(r)
    BY <1>1, <1>2, LifecycleOperators
       DEF Loops!StartRegister, LoopProofs!StartRegister, Loops!Finished,
           LoopProofs!Finished
<1>4. Loops!StartSettle(r) => LoopProofs!StartSettle(r)
    BY LifecycleUpdates DEF Loops!StartSettle, LoopProofs!StartSettle
<1>5. Loops!StopCancel(r) => LoopProofs!StopCancel(r)
    BY LifecycleOperators, LifecycleUpdates DEF Loops!StopCancel, LoopProofs!StopCancel
<1>6. Loops!NextToPause(r) = LoopProofs!NextToPause(r)
    BY LifecycleUpdates DEF Loops!NextToPause, LoopProofs!NextToPause
<1>7. Loops!StopPersist(r) => LoopProofs!StopPersist(r)
    BY <1>6, LifecycleUpdates
       DEF Loops!StopPersist, LoopProofs!StopPersist, Loops!RemoveStrategy,
           LoopProofs!RemoveStrategy
<1> QED BY <1>3, <1>4, <1>5, <1>7 DEF Loops!Resume, LoopProofs!Resume

LEMMA TasksShared ==
    ASSUME NEW t, Loops!Loop(t)
    PROVE  LoopProofs!Loop(t)
<1>1. Loops!LoopRefresh(t) => LoopProofs!LoopRefresh(t)
    BY LifecycleUpdates DEF Loops!LoopRefresh, LoopProofs!LoopRefresh
<1>2. Loops!LoopFail(t) => LoopProofs!LoopFail(t)
    BY LifecycleUpdates DEF Loops!LoopFail, LoopProofs!LoopFail
<1>3. Loops!LoopCancelled(t) => LoopProofs!LoopCancelled(t)
    BY LifecycleUpdates DEF Loops!LoopCancelled, LoopProofs!LoopCancelled
<1>4. Loops!SelfStopBegin(t) => LoopProofs!SelfStopBegin(t)
    BY DEF Loops!SelfStopBegin, LoopProofs!SelfStopBegin
<1>5. Loops!SelfStop(t) => LoopProofs!SelfStop(t)
    BY LifecycleOperators, LifecycleUpdates DEF Loops!SelfStop, LoopProofs!SelfStop
<1> QED BY <1>1, <1>2, <1>3, <1>4, <1>5 DEF Loops!Loop, LoopProofs!Loop

LEMMA LifecycleShared ==
    /\ Loops!Init => LoopProofs!Init
    /\ Loops!Next => LoopProofs!Next
<1>1. Loops!Init => LoopProofs!Init
    BY LifecycleUpdates DEF Loops!Init, LoopProofs!Init
<1>2. Loops!OtherRequest => LoopProofs!OtherRequest
    BY DEF Loops!OtherRequest, LoopProofs!OtherRequest
<1>3. Loops!PeriodicCleanup => LoopProofs!PeriodicCleanup
    BY LifecycleOperators, LifecycleUpdates
       DEF Loops!PeriodicCleanup, LoopProofs!PeriodicCleanup
<1>4. Loops!Restart => LoopProofs!Restart
    BY LifecycleUpdates DEF Loops!Restart, LoopProofs!Restart, Loops!Status,
                            LoopProofs!Status
<1>5. Loops!Next => LoopProofs!Next
    BY <1>2, <1>3, <1>4, RequestsShared, ResumptionsShared, TasksShared
       DEF Loops!Next, LoopProofs!Next
<1> QED BY <1>1, <1>5

-----------------------------------------------------------------------------
(* Types.                                                                  *)

LEMMA MarksTyped ==
    ASSUME Marks!TypeOK, Marks!Next \/ UNCHANGED markVars
    PROVE  Marks!TypeOK'
<1>1. ASSUME NEW p \in Positions, Marks!Open(p) \/ Marks!Close(p) PROVE Marks!TypeOK'
    BY <1>1 DEF Marks!TypeOK, Marks!Open, Marks!Close
<1>2. ASSUME NEW c \in Connections, Marks!Connect(c) PROVE Marks!TypeOK'
    BY <1>2 DEF Marks!TypeOK, Marks!Connect
<1>3. ASSUME NEW c \in Connections, Marks!Superseded(c) PROVE Marks!TypeOK'
  <2>1. superseded' \in BOOLEAN
    <3>1. \A a, b : (a \/ b) \in BOOLEAN
        OBVIOUS
    <3> QED BY <1>3, <3>1 DEF Marks!Superseded
  <2> QED BY <1>3, <2>1 DEF Marks!TypeOK, Marks!Superseded
<1>4. CASE UNCHANGED markVars
    BY <1>4 DEF Marks!TypeOK, markVars
<1> QED BY <1>1, <1>2, <1>3, <1>4 DEF Marks!Next

\* A thread holds the lock only as itself.
LEMMA StoreTyped ==
    ASSUME Store!TypeOK, Store!Next \/ UNCHANGED databaseVars
    PROVE  Store!TypeOK'
<1> USE DEF Store!TypeOK
<1>1. ASSUME NEW t \in Sessions, NEW place \in Store!Places, Store!Goes(t, place)
      PROVE  at' \in [Sessions -> Store!Places]
    BY <1>1 DEF Store!Goes
<1>2. ASSUME NEW t \in Sessions,
             Store!Ask(t) \/ Store!Look(t) \/ Store!Validate(t) \/ Store!Bind(t)
      PROVE  Store!TypeOK'
    BY <1>1, <1>2 DEF Store!Ask, Store!Look, Store!Validate, Store!Bind, Store!Places
<1>3. ASSUME NEW t \in Sessions, Store!Enter(t) PROVE Store!TypeOK'
    BY <1>1, <1>3 DEF Store!Enter, Store!Reset, Store!Places
<1>4. ASSUME NEW t \in Sessions, Store!Make(t) \/ Store!Test(t) PROVE Store!TypeOK'
    BY <1>1, <1>4 DEF Store!Make, Store!Test, Store!Places
<1>5. ASSUME NEW t \in Sessions, Store!Work(t) PROVE Store!TypeOK'
    BY <1>1, <1>5 DEF Store!Work, Store!Reset, Store!Places
<1>6. CASE Store!Outage
  <2>1. up' \in BOOLEAN
      BY <1>6, Zenon DEF Store!Outage
  <2> QED BY <1>6, <2>1 DEF Store!Outage
<1>7. CASE UNCHANGED databaseVars
    BY <1>7 DEF databaseVars
<1> QED BY <1>2, <1>3, <1>4, <1>5, <1>6, <1>7 DEF Store!Next, Store!Step

\* What the proofs about candles and loops say of types is what MCMarket does.
LEMMA TypesShared ==
    /\ KlineProofs!TypeOK => Klines!TypeOK
    /\ LoopProofs!TypeOK => Loops!TypeOK
<1>1. KlineProofs!TypeOK => Klines!TypeOK
    BY DEF KlineProofs!TypeOK, Klines!TypeOK, KlineProofs!Candles, Klines!Candles,
           KlineProofs!Rows, Klines!Rows, KlineProofs!Steps, Klines!Steps
<1>2. LoopProofs!LoopType = Loops!LoopType /\ LoopProofs!ReqType = Loops!ReqType
    BY DEF LoopProofs!LoopType, Loops!LoopType, LoopProofs!ReqType, Loops!ReqType,
           LoopProofs!LoopStates, Loops!LoopStates, LoopProofs!OpNames, Loops!OpNames
<1>3. LoopProofs!Status = Loops!Status
    BY DEF LoopProofs!Status, Loops!Status
<1>4. LoopProofs!TypeOK => Loops!TypeOK
    BY <1>2, <1>3 DEF LoopProofs!TypeOK, Loops!TypeOK
<1> QED BY <1>1, <1>4

\* Every component keeps its variables within their types: among them that the breaker's slots
\* and successes stay below their threshold, that no candle is counted for more strategies
\* than the bound allows and that a stream without a connection has no rows, that the lock of
\* the database is held by a thread, and that the registry of loops is of strategies and loops.
THEOREM TypesAreKept == MarketSpec => []TypesOK
<1> DEFINE Shared == IInv /\ KlineProofs!IInv /\ LoopProofs!IInv /\ UsersInv
           Typed == Marks!TypeOK /\ Store!TypeOK
<1>1. KlineProofs!ConstantsOK
    BY CandleConstants, ConstantsAssumption
<1>2. MarketInit => Shared
  <2>1. Init => IInv
      BY InitIInv
  <2>2. Klines!Init => KlineProofs!IInv
      BY <1>1, CandlesShared, KlineProofs!InitKeeps
  <2>3. Loops!Init => LoopProofs!IInv
      BY LifecycleParameters, LifecycleShared, LoopProofs!InitIInv
  <2>4. Users!Init => UsersInv
      BY InitUsers
  <2> QED BY <2>1, <2>2, <2>3, <2>4 DEF MarketInit
<1>3. Shared /\ [MarketNext]_marketVars => Shared'
  <2> SUFFICES ASSUME Shared, [MarketNext]_marketVars PROVE Shared'
      OBVIOUS
  <2>1. IInv'
      BY PartsApart, NextIInv
  <2>2. /\ UNCHANGED klineVars => UNCHANGED KlineProofs!vars
        /\ UNCHANGED loopVars => UNCHANGED LoopProofs!vars
      BY DEF klineVars, KlineProofs!vars, loopVars, LoopProofs!vars
  <2>3. KlineProofs!IInv'
      BY <1>1, <2>2, CandlesShared, PartsApart, KlineProofs!NextKeeps
  <2>4. [LoopProofs!Next]_(LoopProofs!vars)
      BY <2>2, PartsApart, LifecycleShared
  <2>5. LoopProofs!IInv'
      BY <2>4, LifecycleParameters, LoopProofs!NextIInv
  <2>6. UsersInv'
      BY PartsApart, NextUsers
  <2> QED BY <2>1, <2>3, <2>5, <2>6
<1>4. MarketInit => Typed
  <2>1. Marks!Init => Marks!TypeOK
      BY DEF Marks!Init, Marks!TypeOK
  <2>2. Store!Init => Store!TypeOK
      BY DEF Store!Init, Store!TypeOK, Store!Places
  <2> QED BY <2>1, <2>2 DEF MarketInit
<1>5. Typed /\ [MarketNext]_marketVars => Typed'
    BY PartsApart, MarksTyped, StoreTyped
<1>6. Shared /\ Typed => TypesOK
  <2>1. IInv => TypeOK
      BY DEF IInv
  <2>2. KlineProofs!IInv => Klines!TypeOK
      BY TypesShared DEF KlineProofs!IInv
  <2>3. LoopProofs!IInv => Loops!TypeOK
      BY TypesShared DEF LoopProofs!IInv
  <2> QED BY <2>1, <2>2, <2>3 DEF TypesOK, UsersInv
<1> HIDE DEF Shared, Typed
<1> QED BY <1>2, <1>3, <1>4, <1>5, <1>6, PTL DEF MarketSpec
=============================================================================
