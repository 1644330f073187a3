------------------------- MODULE OrderExecutionProofs -------------------------
(***************************************************************************)
(* Proofs about OrderExecution, for any threads, signals, and numbers of   *)
(* minutes and executors.                                                  *)
(***************************************************************************)
EXTENDS OrderExecution, TLAPS

-----------------------------------------------------------------------------
(* The inductive invariant.                                                *)

Keys == [signal : Signals, minute : 0..MaxMinute]

CallType ==
  [step : Steps, signal : Signals \cup {Unknown}, key : Keys \cup {Unknown},
   by : 0..MaxExecutors, seen : States \cup {Unknown}, tries : 0..3, answer : Answers]

Known(key) == \E o \in orders : o.id = key
Filled(key) == \E o \in orders : o.id = key /\ o.state = "filled"

\* The exchange has one order of an id.
OrdersDiffer ==
  /\ orders \subseteq [id : Keys, state : States]
  /\ \A o, p \in orders : o.id = p.id => o = p

\* It still has every order that it has taken, ...
TakenIsKnown ==
  /\ accepted \subseteq [signal : Signals, minute : 0..MaxMinute, by : Calls]
  /\ \A a \in accepted : Known([signal |-> a.signal, minute |-> a.minute])

\* ... those that an executor remembers ...
RememberedIsKnown == recent \subseteq Keys /\ \A key \in recent : Known(key)

\* ... and those that a thread goes on about, in the state that it has seen or, if
\* that was open, in a later one.
Sound(v) ==
  /\ v \in CallType /\ v.by =< executor
  /\ v.step # "idle" => v.key \in Keys /\ v.key.signal = v.signal
  /\ v.step \in {"query", "record", "verify"} =>
       Known(v.key) /\ (v.seen = "filled" => Filled(v.key))
  /\ v.answer = "filled" => Filled(v.key)

CallsSound == call \in [Calls -> CallType] /\ \A c \in Calls : Sound(call[c])

IInv ==
  /\ minute \in 0..MaxMinute /\ executor \in 0..MaxExecutors
  /\ OrdersDiffer /\ TakenIsKnown /\ OncePerMinute
  /\ RememberedIsKnown /\ CallsSound

-----------------------------------------------------------------------------
(* Lemmas.                                                                 *)

\* What asking for an order finds.
LEMMA StateOfKnown ==
  ASSUME OrdersDiffer, NEW key, Known(key)
  PROVE  StateOf(key) \in States /\ (StateOf(key) = "filled" => Filled(key))
<1> DEFINE o == CHOOSE p \in OrdersOf(key) : TRUE
<1>1. o \in OrdersOf(key)
    BY DEF Known, OrdersOf
<1>2. o \in orders /\ o.id = key /\ o.state \in States /\ StateOf(key) = o.state
    BY <1>1 DEF OrdersOf, OrdersDiffer, StateOf
<1> HIDE DEF o
<1> QED BY <1>2 DEF Filled

\* An order is never forgotten, nor is it filled no longer.
Lasting == \A key : (Known(key) => Known(key)') /\ (Filled(key) => Filled(key)')

LEMMA SoundLasts ==
  ASSUME Lasting, NEW v, Sound(v), executor' >= executor,
         executor \in Nat, executor' \in Nat, MaxExecutors \in Nat
  PROVE  Sound(v)'
<1>1. v.by \in Nat
    BY DEF Sound, CallType
<1> QED BY <1>1 DEF Sound, Lasting

LEMMA KnownLasts ==
  ASSUME Lasting, TakenIsKnown, RememberedIsKnown, accepted' = accepted, recent' = recent
  PROVE  TakenIsKnown' /\ RememberedIsKnown'
BY DEF Lasting, TakenIsKnown, RememberedIsKnown

\* One thread goes on, and the orders are as they were.
LEMMA ThreadMoves ==
  ASSUME ConstantsOK, IInv, NEW c \in Calls, NEW v, Sound(v), call' = [call EXCEPT ![c] = v],
         UNCHANGED <<minute, executor, orders, accepted>>,
         recent' \subseteq recent \/ (recent' = recent \cup {call[c].key} /\ Known(call[c].key)
                                      /\ call[c].key \in Keys)
  PROVE  IInv'
<1>1. Lasting
    BY DEF Lasting, Known, Filled
<1>2. \A x \in Calls : Sound(call[x])' <=> Sound(call'[x])
    BY DEF Sound, Known, Filled
<1>3. \A x \in Calls : call'[x] = IF x = c THEN v ELSE call[x]
    BY DEF IInv, CallsSound
<1>4. v \in CallType /\ call' \in [Calls -> CallType]
    BY DEF IInv, CallsSound, Sound
<1>5. CallsSound'
    BY <1>2, <1>3, <1>4 DEF IInv, CallsSound
<1>6. RememberedIsKnown'
    BY <1>1 DEF IInv, RememberedIsKnown, Lasting
<1>7. OrdersDiffer' /\ TakenIsKnown' /\ OncePerMinute'
    BY <1>1 DEF IInv, OrdersDiffer, TakenIsKnown, OncePerMinute, Lasting
<1> QED BY <1>5, <1>6, <1>7 DEF IInv

-----------------------------------------------------------------------------
(* One lemma per action.                                                   *)

LEMMA CallFields ==
  ASSUME IInv, NEW c \in Calls
  PROVE  call[c] \in CallType /\ Sound(call[c]) /\ OrdersDiffer /\ executor \in 0..MaxExecutors
BY DEF IInv, CallsSound

\* A duplicate is answered by an order that the exchange has.
LEMMA ExecuteKeeps ==
  ASSUME ConstantsOK, IInv, NEW c \in Calls, NEW signal \in Signals, Execute(c, signal)
  PROVE  IInv'
<1> DEFINE key == Key(c, signal)
           begun == [step |-> "send", signal |-> signal, key |-> key, by |-> executor,
                     seen |-> Unknown, tries |-> 0, answer |-> Unknown]
<1>1. key \in Keys /\ key.signal = signal
    BY DEF Key, Keys, IInv
<1>2. begun \in CallType /\ executor =< executor
  <2> HIDE DEF key
  <2> QED BY <1>1, CallFields DEF CallType, Steps, States, Answers, ConstantsOK
<1>3. Sound(begun)
  <2> HIDE DEF key
  <2> QED BY <1>1, <1>2 DEF Sound, Unknown
<1>4. ASSUME key \in recent, NEW answer \in {StateOf(key), Unknown}
      PROVE  Sound([begun EXCEPT !.step = "idle", !.answer = answer])
  <2>1. Known(key)
      BY <1>4 DEF IInv, RememberedIsKnown
  <2>2. answer \in Answers /\ (answer = "filled" => Filled(key))
      BY <2>1, StateOfKnown DEF IInv, Answers, Unknown
  <2> HIDE DEF key
  <2> QED BY <1>1, <1>2, <2>2, CallFields DEF Sound, CallType, Steps, States, ConstantsOK
<1>5. \E v : Sound(v) /\ call' = [call EXCEPT ![c] = v]
  <2>1. CASE key \in recent
    <3>1. PICK answer \in {StateOf(key), Unknown} :
            call' = [call EXCEPT ![c] = [begun EXCEPT !.step = "idle", !.answer = answer]]
        BY <2>1 DEF Execute
    <3> HIDE DEF begun, key
    <3> QED BY <1>4, <2>1, <3>1
  <2>2. CASE key \notin recent
    <3>1. call' = [call EXCEPT ![c] = begun]
        BY <2>2 DEF Execute
    <3> HIDE DEF begun, key
    <3> QED BY <1>3, <3>1
  <2> QED BY <2>1, <2>2
<1>6. UNCHANGED <<minute, executor, recent, orders, accepted>>
    BY DEF Execute
<1> QED BY <1>5, <1>6, ThreadMoves

\* A call of whatever length goes on to another step, or returns.
LEMMA RefusedKeeps ==
  ASSUME ConstantsOK, IInv, NEW c \in Calls, Refused(c)
  PROVE  IInv'
<1> DEFINE v == [[call[c] EXCEPT !.step = "idle"] EXCEPT !.answer = "error"]
<1>1. Sound(v)
    BY CallFields DEF Sound, CallType, Steps, Answers, Refused
<1>2. call' = [call EXCEPT ![c] = v]
    BY DEF Refused, Returns, IInv, CallsSound
<1>3. UNCHANGED <<minute, executor, recent, orders, accepted>>
    BY DEF Refused
<1> HIDE DEF v
<1> QED BY <1>1, <1>2, <1>3, ThreadMoves

LEMMA QueryKeeps ==
  ASSUME ConstantsOK, IInv, NEW c \in Calls, Query(c)
  PROVE  IInv'
<1>1. PICK state \in {StateOf(call[c].key), call[c].seen} : Goes(c, "record", state)
    BY DEF Query
<1> DEFINE v == [[call[c] EXCEPT !.step = "record"] EXCEPT !.seen = state]
<1>2. Known(call[c].key) /\ (call[c].seen = "filled" => Filled(call[c].key))
    BY CallFields DEF Sound, Query
<1>3. state \in States \cup {Unknown} /\ (state = "filled" => Filled(call[c].key))
    BY <1>2, CallFields, StateOfKnown DEF CallType
<1>4. Sound(v)
    BY <1>2, <1>3, CallFields DEF Sound, CallType, Steps, Query
<1>5. call' = [call EXCEPT ![c] = v]
    BY <1>1 DEF Goes, IInv, CallsSound
<1>6. UNCHANGED <<minute, executor, recent, orders, accepted>>
    BY DEF Query
<1> HIDE DEF v
<1> QED BY <1>4, <1>5, <1>6, ThreadMoves

LEMMA RecordKeeps ==
  ASSUME ConstantsOK, IInv, NEW c \in Calls, Record(c)
  PROVE  IInv'
<1> DEFINE w == IF call[c].seen = "filled"
                THEN [[call[c] EXCEPT !.step = "idle"] EXCEPT !.answer = "filled"]
                ELSE [[call[c] EXCEPT !.step = "verify"] EXCEPT !.seen = call[c].seen]
<1>1. /\ Known(call[c].key) /\ (call[c].seen = "filled" => Filled(call[c].key))
      /\ call[c].key \in Keys
    BY CallFields DEF Sound, Record
<1>2. Sound(w)
    BY <1>1, CallFields DEF Sound, CallType, Steps, Answers, States, Record
<1>3. call' = [call EXCEPT ![c] = w]
    BY DEF Record, Goes, Returns, IInv, CallsSound
<1>4. /\ recent' = recent \/ recent' = recent \cup {call[c].key}
      /\ UNCHANGED <<minute, executor, orders, accepted>>
    BY DEF Record
<1> HIDE DEF w
<1> QED BY <1>1, <1>2, <1>3, <1>4, ThreadMoves

LEMMA VerifyKeeps ==
  ASSUME ConstantsOK, IInv, NEW c \in Calls, Verify(c)
  PROVE  IInv'
<1>1. Known(call[c].key) /\ (call[c].seen = "filled" => Filled(call[c].key))
    BY CallFields DEF Sound, Verify
<1>2. PICK state \in {StateOf(call[c].key), Unknown} :
        \/ call[c].tries < 2 /\ call' = [call EXCEPT ![c].tries = @ + 1]
        \/ Returns(c, IF state = Unknown THEN call[c].seen ELSE state)
    BY DEF Verify
<1> DEFINE answer == IF state = Unknown THEN call[c].seen ELSE state
<1>3. answer \in Answers /\ (answer = "filled" => Filled(call[c].key))
    BY <1>1, CallFields, StateOfKnown DEF CallType, Answers
<1>4. ASSUME call[c].tries < 2 PROVE Sound([call[c] EXCEPT !.tries = call[c].tries + 1])
    BY <1>1, <1>4, CallFields DEF Sound, CallType
<1>5. Sound([[call[c] EXCEPT !.step = "idle"] EXCEPT !.answer = answer])
  <2> HIDE DEF answer
  <2> QED BY <1>1, <1>3, CallFields DEF Sound, CallType, Steps
<1>6. \/ call[c].tries < 2 /\ call' = [call EXCEPT ![c] = [call[c] EXCEPT !.tries = call[c].tries + 1]]
      \/ call' = [call EXCEPT ![c] = [[call[c] EXCEPT !.step = "idle"] EXCEPT !.answer = answer]]
    BY <1>2 DEF Returns, IInv, CallsSound
<1>7. UNCHANGED <<minute, executor, recent, orders, accepted>>
    BY DEF Verify
<1> HIDE DEF answer
<1> QED BY <1>4, <1>5, <1>6, <1>7, ThreadMoves

\* The exchange takes an order whose id it has not seen: then it has not taken one for
\* the same signal and minute.
LEMMA TakeKeeps ==
  ASSUME ConstantsOK, IInv, NEW c \in Calls, call[c].step = "send",
         NEW state \in {"open", "filled"}, Take(c, state),
         NEW key, key = call[c].key
  PROVE  /\ OrdersDiffer' /\ TakenIsKnown' /\ OncePerMinute' /\ Lasting
         /\ Known(key)' /\ (state = "filled" => Filled(key)')
<1> DEFINE new == [id |-> key, state |-> state]
           entry == [signal |-> call[c].signal, minute |-> key.minute, by |-> c]
<1>1. key \in Keys /\ key.signal = call[c].signal
    BY CallFields DEF Sound
<1>2. /\ ~Known(key) /\ orders' = orders \cup {new} /\ accepted' = accepted \cup {entry}
      /\ new.id = key /\ new.state = state
    BY DEF Take, OrdersOf, Known
<1>3. new \in [id : Keys, state : States] /\ entry \in [signal : Signals, minute : 0..MaxMinute, by : Calls]
    BY <1>1 DEF States, Keys
<1>4. [signal |-> entry.signal, minute |-> entry.minute] = key
    BY <1>1 DEF Keys
<1> HIDE DEF new, entry
<1>5. Lasting
    BY <1>2 DEF Lasting, Known, Filled
<1>6. Known(key)' /\ (state = "filled" => Filled(key)')
    BY <1>2 DEF Known, Filled
<1>7. OrdersDiffer'
    BY <1>2, <1>3 DEF IInv, OrdersDiffer, Known
<1>8. TakenIsKnown'
    BY <1>2, <1>3, <1>4, <1>5 DEF IInv, TakenIsKnown, Lasting, Known
<1>9. OncePerMinute'
  <2>1. \A a \in accepted : ~(a.signal = entry.signal /\ a.minute = entry.minute)
      BY <1>2, <1>4 DEF IInv, TakenIsKnown
  <2> QED BY <1>2, <2>1 DEF IInv, OncePerMinute
<1> QED BY <1>5, <1>6, <1>7, <1>8, <1>9

LEMMA TakenKeeps ==
  ASSUME ConstantsOK, IInv, NEW c \in Calls, Taken(c) \/ TakenUnseen(c)
  PROVE  IInv'
<1>1. PICK state \in {"open", "filled"} :
        /\ Take(c, state)
        /\ \/ Goes(c, IF state = "open" THEN "query" ELSE "record", state)
           \/ Returns(c, "lost")
    BY DEF Taken, TakenUnseen
<1>2. call[c].step = "send" /\ UNCHANGED <<minute, executor, recent>>
    BY DEF Taken, TakenUnseen
<1> DEFINE v == [[call[c] EXCEPT !.step = IF state = "open" THEN "query" ELSE "record"]
                   EXCEPT !.seen = state]
           w == [[call[c] EXCEPT !.step = "idle"] EXCEPT !.answer = "lost"]
<1> PICK key : key = call[c].key
    OBVIOUS
<1>3. /\ OrdersDiffer' /\ TakenIsKnown' /\ OncePerMinute' /\ Lasting
      /\ Known(key)' /\ (state = "filled" => Filled(key)')
    BY <1>1, <1>2, TakeKeeps
<1>4. call' = [call EXCEPT ![c] = v] \/ call' = [call EXCEPT ![c] = w]
    BY <1>1 DEF Goes, Returns, IInv, CallsSound
<1>5. /\ v \in CallType /\ v.by = call[c].by /\ v.key = key /\ v.signal = call[c].signal
      /\ v.seen = state /\ v.answer = call[c].answer
    BY CallFields DEF CallType, Steps, States
<1>6. /\ w \in CallType /\ w.by = call[c].by /\ w.step = "idle" /\ w.answer = "lost"
    BY CallFields DEF CallType, Steps, Answers
<1>7. \A x \in Calls : call'[x] = call[x] \/ (x = c /\ (call'[x] = v \/ call'[x] = w))
  <2> HIDE DEF v, w
  <2> QED BY <1>4 DEF IInv, CallsSound
<1>8. call' \in [Calls -> CallType]
  <2> HIDE DEF v, w
  <2> QED BY <1>4, <1>5, <1>6 DEF IInv, CallsSound
<1> HIDE DEF v, w
<1>9. Sound(call[c]) /\ key = call[c].key /\ call[c].step = "send" /\ executor' = executor
    BY <1>2, CallFields
<1>10. ASSUME NEW x \in Calls PROVE Sound(call[x])'
  <2>1. CASE call'[x] = call[x]
    <3>1. Sound(call[x])
        BY CallFields
    <3> QED BY <1>2, <1>3, <2>1, <3>1 DEF Sound, Lasting
  <2>2. CASE x = c /\ call'[x] = v
      BY <1>3, <1>5, <1>9, <2>2 DEF Sound, Lasting
  <2>3. CASE x = c /\ call'[x] = w
      BY <1>6, <1>9, <2>3 DEF Sound
  <2> QED BY <1>7, <2>1, <2>2, <2>3
<1>11. CallsSound'
    BY <1>8, <1>10 DEF CallsSound
<1>12. RememberedIsKnown'
    BY <1>2, <1>3 DEF IInv, RememberedIsKnown, Lasting
<1> QED BY <1>2, <1>3, <1>11, <1>12 DEF IInv

\* An open order is filled or expires.
LEMMA EndsKeeps ==
  ASSUME ConstantsOK, IInv, NEW o \in orders, Ends(o)
  PROVE  IInv'
<1>1. PICK state \in {"filled", "expired"} : orders' = (orders \ {o}) \cup {[o EXCEPT !.state = state]}
    BY DEF Ends
<1> DEFINE new == [o EXCEPT !.state = state]
<1>2. UNCHANGED <<minute, executor, recent, call, accepted>> /\ o.state = "open"
    BY DEF Ends
<1>3. new \in [id : Keys, state : States] /\ new.id = o.id
    BY DEF IInv, OrdersDiffer, States
<1> HIDE DEF new
<1>4. Lasting
    BY <1>1, <1>2, <1>3 DEF Lasting, Known, Filled, new
<1>5. OrdersDiffer'
    BY <1>1, <1>3 DEF IInv, OrdersDiffer, new
<1>6. TakenIsKnown' /\ RememberedIsKnown' /\ OncePerMinute'
    BY <1>2, <1>4, KnownLasts DEF IInv, OncePerMinute
<1>7. CallsSound'
    BY <1>2, <1>4 DEF IInv, CallsSound, Sound, Lasting
<1> QED BY <1>2, <1>5, <1>6, <1>7 DEF IInv

LEMMA TimeKeeps ==
  ASSUME ConstantsOK, IInv, NewExecutor \/ Tick \/ UNCHANGED vars
  PROVE  IInv'
<1>1. /\ minute' \in 0..MaxMinute /\ executor' \in 0..MaxExecutors
      /\ executor \in Nat /\ executor' \in Nat /\ executor' >= executor
      /\ recent' \subseteq recent /\ UNCHANGED <<orders, call, accepted>>
    BY DEF NewExecutor, Tick, vars, IInv, ConstantsOK
<1>2. Lasting
    BY <1>1 DEF Lasting, Known, Filled
<1>3. OrdersDiffer' /\ TakenIsKnown' /\ OncePerMinute' /\ RememberedIsKnown'
    BY <1>1, <1>2 DEF IInv, OrdersDiffer, TakenIsKnown, OncePerMinute, RememberedIsKnown, Lasting
<1>4. CallsSound'
  <2>1. \A x \in Calls : call[x].by \in Nat
      BY CallFields DEF CallType
  <2> QED BY <1>1, <1>2, <2>1 DEF IInv, CallsSound, Sound, Lasting
<1> QED BY <1>1, <1>3, <1>4 DEF IInv

LEMMA InitKeeps ==
  ASSUME ConstantsOK, Init
  PROVE  IInv
<1>1. 0 \in 0..MaxMinute /\ 0 \in 0..MaxExecutors
    BY DEF ConstantsOK
<1>2. Idle \in CallType /\ Sound(Idle)
    BY <1>1 DEF Init, Idle, CallType, Sound, Steps, Answers, States, Unknown
<1>3. CallsSound
    BY <1>2 DEF Init, CallsSound
<1> QED BY <1>1, <1>3 DEF Init, IInv, OrdersDiffer, TakenIsKnown, OncePerMinute, RememberedIsKnown

LEMMA NextKeeps ==
  ASSUME ConstantsOK, IInv, [Next]_vars
  PROVE  IInv'
BY ExecuteKeeps, TakenKeeps, RefusedKeeps, QueryKeeps, RecordKeeps, VerifyKeeps, EndsKeeps,
   TimeKeeps DEF Next

LEMMA Invariance == ConstantsOK => (Spec => []IInv)
<1> SUFFICES ASSUME ConstantsOK PROVE Spec => []IInv
    OBVIOUS
<1>1. Init => IInv
    BY InitKeeps
<1>2. IInv /\ [Next]_vars => IInv'
    BY NextKeeps
<1> QED BY <1>1, <1>2, PTL DEF Spec

-----------------------------------------------------------------------------
(* What the invariant says of the properties.                              *)

LEMMA InvariantTypes == IInv => TypeOK
<1> SUFFICES ASSUME IInv PROVE TypeOK
    OBVIOUS
<1>1. \A o \in orders : o.state \in States
    BY DEF IInv, OrdersDiffer
<1>2. \A c \in Calls :
        /\ call[c].step \in Steps /\ call[c].by =< executor
        /\ call[c].seen \in States \cup {Unknown} /\ call[c].answer \in Answers
        /\ call[c].tries \in 0..3
        /\ call[c].step # "idle" => call[c].signal \in Signals
    BY CallFields DEF Sound, CallType, Keys
<1> QED BY <1>1, <1>2 DEF IInv, TypeOK

LEMMA InvariantAnswers == IInv => AnswersTrue
<1> SUFFICES ASSUME IInv PROVE AnswersTrue
    OBVIOUS
<1>1. ASSUME NEW c \in Calls, call[c].answer = "filled"
      PROVE  \E o \in OrdersOf(call[c].key) : o.state = "filled"
    BY <1>1, CallFields DEF Sound, Filled, OrdersOf
<1>2. \A key \in recent : OrdersOf(key) # {}
    BY DEF IInv, RememberedIsKnown, Known, OrdersOf
<1> QED BY <1>1, <1>2 DEF AnswersTrue

\* Every variable keeps its type; a call returns nothing that is not an answer.
THEOREM TypeCorrect == ConstantsOK => (Spec => []TypeOK)
<1> SUFFICES ASSUME ConstantsOK PROVE Spec => []TypeOK
    OBVIOUS
<1>1. IInv => TypeOK
    BY InvariantTypes
<1>2. Spec => []IInv
    BY Invariance
<1> QED BY <1>1, <1>2, PTL

\* The idempotency key makes one order of a signal within its minute, of however many
\* threads that execute it, retry it or have lost its answer.
THEOREM TakenOnce == ConstantsOK => (Spec => []OncePerMinute)
<1> SUFFICES ASSUME ConstantsOK PROVE Spec => []OncePerMinute
    OBVIOUS
<1>1. IInv => OncePerMinute
    BY DEF IInv
<1>2. Spec => []IInv
    BY Invariance
<1> QED BY <1>1, <1>2, PTL

\* A call says "filled" of orders only that are, although it may have asked for the
\* state before the order was filled, not at all, or for another call's order.
THEOREM AnswersAreTrue == ConstantsOK => (Spec => []AnswersTrue)
<1> SUFFICES ASSUME ConstantsOK PROVE Spec => []AnswersTrue
    OBVIOUS
<1>1. IInv => AnswersTrue
    BY InvariantAnswers
<1>2. Spec => []IInv
    BY Invariance
<1> QED BY <1>1, <1>2, PTL
=============================================================================
