------------------------------ MODULE Database ------------------------------
(* app/core/database.py: the engine and the session factory that every     *)
(* thread shares, and how they are made again when the database has been   *)
(* away.  Threads are requests and loops that open a session with          *)
(* get_db_session.  The engine is made under a lock and thrown away        *)
(* without it; the two assignments that throw it away are one step here.   *)
(* The asynchronous engine is handled in the same way, without a lock.     *)
EXTENDS Naturals

CONSTANTS
  Threads,
  Nobody,
  LongOutages   \* may an outage outlast the ten attempts of init_database?

ConstantsOK == Nobody \notin Threads /\ LongOutages \in BOOLEAN

VARIABLES
  up,           \* external: the database answers
  engine,       \* _engine is not None
  factory,      \* _SessionLocal is not None
  holder,       \* _connection_lock
  at,           \* where each thread is
  retried       \* threads whose session broke: the second round of get_db_session

vars == <<up, engine, factory, holder, at, retried>>

Places == {"away", "look", "wait", "wait to force", "make", "test", "validate", "bind", "work", "refused"}

TypeOK ==
  /\ up \in BOOLEAN /\ engine \in BOOLEAN /\ factory \in BOOLEAN
  /\ holder \in Threads \cup {Nobody}
  /\ at \in [Threads -> Places] /\ retried \subseteq Threads

\* Before init_database in the startup of main.py.
Init ==
  /\ up \in BOOLEAN /\ engine = FALSE /\ factory = FALSE /\ holder = Nobody
  /\ at = [t \in Threads |-> "away"] /\ retried = {}

Goes(t, place) == at' = [at EXCEPT ![t] = place]

-----------------------------------------------------------------------------
Ask(t) ==
  /\ at[t] \in {"away", "refused"} /\ Goes(t, "look") /\ retried' = retried \ {t}
  /\ UNCHANGED <<up, engine, factory, holder>>

\* get_engine: without an engine one is made.
Look(t) ==
  /\ at[t] = "look" /\ Goes(t, IF engine THEN "validate" ELSE "wait")
  /\ UNCHANGED <<up, engine, factory, holder, retried>>

\* SELECT 1.  Only the first round tries to connect again.
Validate(t) ==
  /\ at[t] = "validate"
  /\ Goes(t, IF ~engine THEN "refused"
             ELSE IF up THEN "bind"
             ELSE IF t \in retried THEN "refused" ELSE "wait to force")
  /\ UNCHANGED <<up, engine, factory, holder, retried>>

Reset == engine' = FALSE /\ factory' = FALSE

\* init_database: an engine that another thread has made meanwhile is enough.
Enter(t) ==
  /\ at[t] \in {"wait", "wait to force"} /\ holder = Nobody
  /\ IF at[t] = "wait" /\ engine /\ up
     THEN Goes(t, "validate") /\ UNCHANGED <<engine, factory, holder>>
     ELSE /\ Goes(t, "make") /\ holder' = t
          /\ IF at[t] = "wait" /\ engine THEN Reset ELSE UNCHANGED <<engine, factory>>
  /\ UNCHANGED <<up, retried>>

\* An attempt: the engine is there before it has been tried.
Make(t) ==
  /\ at[t] = "make" /\ Goes(t, "test") /\ engine' = TRUE
  /\ UNCHANGED <<up, factory, holder, retried>>

\* Variant: the engine that connects is kept, and the factory forgotten.
TestEngineOnly(t) ==
  /\ at[t] = "test" /\ UNCHANGED factory
  /\ IF up /\ engine
     THEN Goes(t, "validate") /\ holder' = Nobody
     ELSE \/ Goes(t, "make") /\ UNCHANGED holder
          \/ LongOutages /\ Goes(t, "refused") /\ holder' = Nobody
  /\ UNCHANGED <<up, engine, retried>>

\* The factory follows if the engine connects.  After the last attempt the engine stays.
Test(t) ==
  /\ at[t] = "test"
  /\ IF up /\ engine
     THEN factory' = TRUE /\ Goes(t, "validate") /\ holder' = Nobody
     ELSE /\ UNCHANGED factory
          /\ \/ Goes(t, "make") /\ UNCHANGED holder
             \/ LongOutages /\ Goes(t, "refused") /\ holder' = Nobody
  /\ UNCHANGED <<up, engine, retried>>

\* get_session_factory
Bind(t) ==
  /\ at[t] = "bind" /\ Goes(t, IF factory THEN "work" ELSE "refused")
  /\ UNCHANGED <<up, engine, factory, holder, retried>>

\* The body and the commit.  When the connection is lost everything is thrown away and the
\* generator goes round once more; a context manager that yields again is an error.
Work(t) ==
  /\ at[t] = "work"
  /\ IF t \in retried THEN Goes(t, "refused") /\ UNCHANGED <<engine, factory, retried>>
     ELSE IF up THEN Goes(t, "away") /\ UNCHANGED <<engine, factory, retried>>
     ELSE Reset /\ retried' = retried \cup {t} /\ Goes(t, "look")
  /\ UNCHANGED <<up, holder>>

Step(t) ==
  \/ Ask(t) \/ Look(t) \/ Validate(t) \/ Enter(t) \/ Make(t) \/ Test(t) \/ Bind(t) \/ Work(t)

\* External.
Outage == up' = ~up /\ UNCHANGED <<engine, factory, holder, at, retried>>

Next == (\E t \in Threads : Step(t)) \/ Outage

(* Sessions are asked for again and again, by the loops at least, and no   *)
(* thread stops in the middle.                                             *)
Fairness == \A t \in Threads : WF_vars(Step(t))

Spec == Init /\ [][Next]_vars /\ Fairness

-----------------------------------------------------------------------------
(* Once the database is back for good, sessions are given again: get_engine *)
(* and get_db_session "automatically recover from connection failures by   *)
(* recreating the engine" (core/database.py:222, 377).                     *)
Recovers == <>[]up => <>[](\A t \in Threads : at[t] # "refused")

=============================================================================
