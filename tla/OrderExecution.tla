---------------------------- MODULE OrderExecution ----------------------------
(***************************************************************************)
(* How a signal becomes an order: OrderExecutor of                         *)
(* app/services/order_executor.py and place_order of                       *)
(* app/core/my_binance_client.py, called from several threads, since a     *)
(* loop that has waited long enough leaves its thread behind.              *)
(*                                                                         *)
(* The exchange is external: it refuses a client order id it has seen, and *)
(* a market order that it takes is filled at once, later, or expires.      *)
(***************************************************************************)
EXTENDS Naturals

CONSTANTS
  Calls,        \* threads in execute
  Signals,      \* symbol, action, quantity and price of a strategy's signals
  MaxMinute,    \* bound
  MaxExecutors  \* bound: executors one after another

ConstantsOK == MaxMinute \in Nat /\ MaxExecutors \in Nat

Unknown == "none"

VARIABLES
  minute,       \* time.time() // 60
  executor,     \* the strategy's executor; start makes a new one
  recent,       \* _recent_orders of that executor: keys
  orders,       \* the exchange's: a client order id and a state each
  call,         \* the threads
  accepted      \* history: signal, minute and call of every order taken

vars == <<minute, executor, recent, orders, call, accepted>>

\* Variant: the key is made of the seconds, and two calls never have the same.
KeyOfCall(c, signal) == [signal |-> signal, minute |-> minute, of |-> c]

\* _generate_idempotency_key
Key(c, signal) == [signal |-> signal, minute |-> minute]

Steps == {"idle", "send", "query", "record", "verify"}
States == {"open", "filled", "expired"}
Answers == States \cup {Unknown, "error", "lost"}

Idle == [step |-> "idle", signal |-> Unknown, key |-> Unknown, by |-> 0, seen |-> Unknown,
         tries |-> 0, answer |-> Unknown]

TypeOK ==
  /\ minute \in 0..MaxMinute /\ executor \in 0..MaxExecutors
  /\ \A o \in orders : o.state \in States
  /\ \A c \in Calls :
       /\ call[c].step \in Steps /\ call[c].by =< executor
       /\ call[c].seen \in States \cup {Unknown} /\ call[c].answer \in Answers
       /\ call[c].tries \in 0..3
       /\ call[c].step # "idle" => call[c].signal \in Signals

Init ==
  /\ minute = 0 /\ executor = 0 /\ recent = {}
  /\ orders = {}
  /\ call = [c \in Calls |-> Idle]
  /\ accepted = {}

-----------------------------------------------------------------------------
(* The exchange.                                                           *)

OrdersOf(key) == {o \in orders : o.id = key}
StateOf(key) == (CHOOSE o \in OrdersOf(key) : TRUE).state

Take(c, state) ==
  /\ OrdersOf(call[c].key) = {}
  /\ orders' = orders \cup {[id |-> call[c].key, state |-> state]}
  /\ accepted' = accepted \cup {[signal |-> call[c].signal, minute |-> call[c].key.minute, by |-> c]}

Ends(o) ==
  /\ o.state = "open"
  /\ \E state \in {"filled", "expired"} :
       orders' = (orders \ {o}) \cup {[o EXCEPT !.state = state]}
  /\ UNCHANGED <<minute, executor, recent, call, accepted>>

-----------------------------------------------------------------------------
(* execute                                                                 *)

Goes(c, step, seen) == call' = [call EXCEPT ![c].step = step, ![c].seen = seen]
Returns(c, answer) ==
  call' = [call EXCEPT ![c].step = "idle", ![c].answer = answer]

\* A duplicate is answered with the state of the order recorded, or not at all.
Execute(c, signal) ==
  LET key == Key(c, signal)
      begun == [step |-> "send", signal |-> signal, key |-> key, by |-> executor,
                seen |-> Unknown, tries |-> 0, answer |-> Unknown] IN
  /\ call[c].step = "idle"
  /\ IF key \in recent
       THEN \E answer \in {StateOf(key), Unknown} :
              call' = [call EXCEPT ![c] = [begun EXCEPT !.step = "idle", !.answer = answer]]
       ELSE call' = [call EXCEPT ![c] = begun]
  /\ UNCHANGED <<minute, executor, recent, orders, accepted>>

\* _place_order_impl: the order is taken, and the answer shows its state.  An open
\* one is asked for again.
Taken(c) ==
  /\ call[c].step = "send"
  /\ \E state \in {"open", "filled"} :
       Take(c, state) /\ Goes(c, IF state = "open" THEN "query" ELSE "record", state)
  /\ UNCHANGED <<minute, executor, recent>>

\* The order is taken but its answer does not arrive; or it was taken by the second
\* request, after -1021, in which case the first one's error is raised all the same.
TakenUnseen(c) ==
  /\ call[c].step = "send"
  /\ \E state \in {"open", "filled"} : Take(c, state)
  /\ Returns(c, "lost")
  /\ UNCHANGED <<minute, executor, recent>>

\* Any other error, a client order id seen before among them, is not retried.
Refused(c) ==
  /\ call[c].step = "send"
  /\ Returns(c, "error")
  /\ UNCHANGED <<minute, executor, recent, orders, accepted>>

\* get_order_status, which may fail.
Query(c) ==
  /\ call[c].step = "query"
  /\ \E state \in {StateOf(call[c].key), call[c].seen} : Goes(c, "record", state)
  /\ UNCHANGED <<minute, executor, recent, orders, accepted>>

\* The order is remembered, by the executor that was called.
Record(c) ==
  /\ call[c].step = "record"
  /\ recent' = IF call[c].by = executor THEN recent \cup {call[c].key} ELSE recent
  /\ IF call[c].seen = "filled" THEN Returns(c, "filled") ELSE Goes(c, "verify", call[c].seen)
  /\ UNCHANGED <<minute, executor, orders, accepted>>

\* _verify_order_state: three looks, each of which may fail.  Without an answer the
\* first one stands.
Verify(c) ==
  /\ call[c].step = "verify"
  /\ \E state \in {StateOf(call[c].key), Unknown} :
       IF state \in {"open", Unknown} /\ call[c].tries < 2
         THEN call' = [call EXCEPT ![c].tries = @ + 1]
         ELSE Returns(c, IF state = Unknown THEN call[c].seen ELSE state)
  /\ UNCHANGED <<minute, executor, recent, orders, accepted>>

-----------------------------------------------------------------------------
\* The strategy is started again: a new executor remembers nothing.
NewExecutor ==
  /\ executor < MaxExecutors
  /\ executor' = executor + 1 /\ recent' = {}
  /\ UNCHANGED <<minute, orders, call, accepted>>

Tick ==
  /\ minute < MaxMinute /\ minute' = minute + 1
  /\ UNCHANGED <<executor, recent, orders, call, accepted>>

Next ==
  \/ \E c \in Calls :
       \/ \E signal \in Signals : Execute(c, signal)
       \/ Taken(c) \/ TakenUnseen(c) \/ Refused(c) \/ Query(c) \/ Record(c) \/ Verify(c)
  \/ \E o \in orders : Ends(o)
  \/ NewExecutor \/ Tick

Spec == Init /\ [][Next]_vars

-----------------------------------------------------------------------------
(* Properties.                                                             *)

\* One signal is one order within its minute, however many threads execute it, and
\* also for an executor that has forgotten the order or not seen its answer.
OncePerMinute ==
  \A a, b \in accepted : a.signal = b.signal /\ a.minute = b.minute => a = b

\* What the caller is told has happened: a call that answers "filled" is about an
\* order that is, and an order remembered is one the exchange has.
AnswersTrue ==
  /\ \A c \in Calls : call[c].answer = "filled" =>
       \E o \in OrdersOf(call[c].key) : o.state = "filled"
  /\ \A key \in recent : OrdersOf(key) # {}
=============================================================================
