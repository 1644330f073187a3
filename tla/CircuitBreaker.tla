--------------------------- MODULE CircuitBreaker ---------------------------
(***************************************************************************)
(* app/core/circuit_breaker.py: the breaker that every BinanceClient puts  *)
(* around get_price and place_order (app/core/my_binance_client.py:125).   *)
(* Several strategies share one client, and each call runs in a thread of  *)
(* its own (asyncio.to_thread), so calls overlap.  call_sync takes its     *)
(* lock once to admit a call and once to account for its result; the call  *)
(* itself runs between the two, outside the lock.  Each locked section is  *)
(* one action here.  call_async (which nothing in app/ calls) is the same  *)
(* code over an asyncio lock.                                              *)
(***************************************************************************)
EXTENDS Integers, FiniteSets

CONSTANTS
    Calls,             \* the threads that may be inside call_sync
    FailureThreshold,  \* config.failure_threshold: failures before opening
    SuccessThreshold   \* config.success_threshold: successes before closing

ASSUME ConfigAssumption ==
    /\ FailureThreshold \in Nat \ {0}
    /\ SuccessThreshold \in Nat \ {0}

(* asyncio.to_thread runs on an executor with a bounded number of threads. *)
ASSUME CallsAssumption == IsFiniteSet(Calls)

VARIABLES
    state,             \* self.state
    failures,          \* stats.failures, counted up to FailureThreshold: the
                       \* code only compares it with that threshold
    successes,         \* stats.successes
    halfOpenRequests,  \* self._half_open_requests
    cooled,            \* time.time() - stats.last_failure_time >= config.timeout
    call,              \* where each thread is, see CallStates
    lost               \* history: half-open slots of calls of this half-open
                       \* period that ended without giving them back

breaker == <<state, failures, successes, halfOpenRequests, cooled>>
vars == <<breaker, call, lost>>

(* "probe": admitted in the half-open period that is under way.            *)
(* "earlier": in flight since before it (the code keeps no such mark: it   *)
(* is history, read only by the properties).                               *)
CallStates == {"idle", "probe", "earlier"}

Probes == {c \in Calls : call[c] = "probe"}

TypeOK ==
    /\ state \in {"CLOSED", "OPEN", "HALF_OPEN"}
    /\ failures \in 0 .. FailureThreshold
    /\ successes \in 0 .. SuccessThreshold - 1
    /\ halfOpenRequests \in Int
    /\ halfOpenRequests =< SuccessThreshold
    /\ cooled \in BOOLEAN
    /\ call \in [Calls -> CallStates]
    /\ lost \in Nat

Init ==
    /\ state = "CLOSED"
    /\ failures = 0
    /\ successes = 0
    /\ halfOpenRequests = 0
    /\ cooled = FALSE
    /\ call = [c \in Calls |-> "idle"]
    /\ lost = 0

-----------------------------------------------------------------------------
(* Variants of the actions below, each with one plausible bug.  No action  *)
(* of Next is one of them: they are there to show that each property fails *)
(* when the code it is about is wrong.                                     *)

Return(c) == call' = [call EXCEPT ![c] = "idle"]

(* The first probe resets the slot counter and is not counted itself. *)
AdmitFirstProbeUncounted(c) ==
    /\ call[c] = "idle" /\ state = "OPEN" /\ cooled
    /\ state' = "HALF_OPEN"
    /\ halfOpenRequests' = 0
    /\ call' = [d \in Calls |-> IF d = c THEN "probe"
                                ELSE IF call[d] = "idle" THEN "idle" ELSE "earlier"]
    /\ lost' = 0
    /\ UNCHANGED <<failures, successes, cooled>>

(* The slot counter is kept and not compared with the threshold. *)
AdmitProbeUnlimited(c) ==
    /\ call[c] = "idle" /\ state = "HALF_OPEN"
    /\ halfOpenRequests' = halfOpenRequests + 1
    /\ call' = [call EXCEPT ![c] = "probe"]
    /\ UNCHANGED <<state, failures, successes, cooled, lost>>

(* A success closes the breaker whatever its state. *)
SucceedAnyState(c) ==
    /\ call[c] # "idle"
    /\ Return(c)
    /\ state' = "CLOSED" /\ failures' = 0 /\ successes' = 0
    /\ UNCHANGED <<halfOpenRequests, cooled, lost>>

(* Closing after enough successes leaves the old failure count. *)
SucceedKeepingFailures(c) ==
    /\ call[c] # "idle" /\ state = "HALF_OPEN"
    /\ Return(c)
    /\ halfOpenRequests' = halfOpenRequests - 1
    /\ IF successes + 1 >= SuccessThreshold
       THEN state' = "CLOSED" /\ successes' = 0
       ELSE state' = state /\ successes' = successes + 1
    /\ UNCHANGED <<failures, cooled, lost>>

(* last_failure_time is never old enough. *)
NeverCool == FALSE /\ UNCHANGED vars

-----------------------------------------------------------------------------
(* Admission, the first locked section.  A call that is refused changes    *)
(* nothing but a counter of refusals.                                      *)

AdmitClosed(c) ==
    /\ call[c] = "idle"
    /\ state = "CLOSED"
    /\ call' = [call EXCEPT ![c] = "earlier"]
    /\ UNCHANGED <<breaker, lost>>

(* The timeout has passed: this call turns the breaker half-open, resets   *)
(* the slot counter and takes the first slot.  Calls still in flight were  *)
(* admitted before this period.                                            *)
AdmitFirstProbe(c) ==
    /\ call[c] = "idle"
    /\ state = "OPEN"
    /\ cooled
    /\ state' = "HALF_OPEN"
    /\ halfOpenRequests' = 1
    /\ call' = [d \in Calls |-> IF d = c THEN "probe"
                                ELSE IF call[d] = "idle" THEN "idle" ELSE "earlier"]
    /\ lost' = 0
    /\ UNCHANGED <<failures, successes, cooled>>

AdmitProbe(c) ==
    /\ call[c] = "idle"
    /\ state = "HALF_OPEN"
    /\ halfOpenRequests < SuccessThreshold
    /\ halfOpenRequests' = halfOpenRequests + 1
    /\ call' = [call EXCEPT ![c] = "probe"]
    /\ UNCHANGED <<state, failures, successes, cooled, lost>>

-----------------------------------------------------------------------------
(* The second locked section, on what func() did.                          *)

(* A success is credited to the state the breaker is in when it arrives,   *)
(* whatever state admitted the call: in HALF_OPEN any success counts, and  *)
(* gives back a slot.                                                      *)
Succeed(c) ==
    /\ call[c] # "idle"
    /\ Return(c)
    /\ \/ /\ state = "HALF_OPEN"
          /\ halfOpenRequests' = halfOpenRequests - 1
          /\ IF successes + 1 >= SuccessThreshold
             THEN state' = "CLOSED" /\ failures' = 0 /\ successes' = 0
             ELSE /\ successes' = successes + 1
                  /\ UNCHANGED <<state, failures>>
       \/ /\ state = "CLOSED"
          /\ failures' = 0
          /\ UNCHANGED <<state, successes, halfOpenRequests>>
       \/ /\ state = "OPEN"
          /\ UNCHANGED <<state, failures, successes, halfOpenRequests>>
    /\ UNCHANGED <<cooled, lost>>

(* An exception of config.expected_exception: the Binance API and network  *)
(* errors.  It restarts the timeout whatever the state.                    *)
Fail(c) ==
    /\ call[c] # "idle"
    /\ Return(c)
    /\ cooled' = FALSE
    /\ failures' = IF failures < FailureThreshold THEN failures + 1 ELSE failures
    /\ \/ /\ state = "HALF_OPEN"
          /\ state' = "OPEN"
          /\ successes' = 0
          /\ halfOpenRequests' = halfOpenRequests - 1
       \/ /\ state = "CLOSED"
          /\ state' = IF failures' >= FailureThreshold THEN "OPEN" ELSE "CLOSED"
          /\ UNCHANGED <<successes, halfOpenRequests>>
       \/ /\ state = "OPEN"
          /\ UNCHANGED <<state, successes, halfOpenRequests>>
    /\ UNCHANGED lost

(* Any other exception leaves call_sync without a second locked section.   *)
(* place_order raises OrderExecutionError, which is not an expected        *)
(* exception, for orders the exchange refuses (no margin, bad quantity).   *)
Refuse(c) ==
    /\ call[c] # "idle"
    /\ Return(c)
    /\ lost' = IF call[c] = "probe" /\ state = "HALF_OPEN" THEN lost + 1 ELSE lost
    /\ UNCHANGED breaker

(* config.timeout passes after the last recorded failure.  Only an open    *)
(* breaker reads the clock.                                                *)
Cool ==
    /\ state = "OPEN"
    /\ ~cooled
    /\ cooled' = TRUE
    /\ UNCHANGED <<state, failures, successes, halfOpenRequests, call, lost>>

Enter(c) == AdmitClosed(c) \/ AdmitFirstProbe(c) \/ AdmitProbe(c)
Leave(c) == Succeed(c) \/ Fail(c) \/ Refuse(c)

Next ==
    \/ Cool
    \/ \E c \in Calls : Enter(c) \/ Leave(c)

(* Time passes; running strategies keep asking for prices; every HTTP      *)
(* request has a timeout, so every call leaves.                            *)
Fairness ==
    /\ WF_vars(Cool)
    /\ \A c \in Calls : WF_vars(Enter(c)) /\ WF_vars(Leave(c))

Spec == Init /\ [][Next]_vars /\ Fairness

-----------------------------------------------------------------------------
(* A closed breaker always has failures to spare: no interleaving of late  *)
(* results leaves it closed with its threshold already reached.            *)
ClosedBelowThreshold == state = "CLOSED" => failures < FailureThreshold

(* The calls of a half-open period that are in flight or that kept their   *)
(* slot are covered by the slot counter and the successes counted.         *)
SlotsCovered ==
    state = "HALF_OPEN" =>
        Cardinality(Probes) + lost =< halfOpenRequests + successes

(* How many probes may really hit a recovering exchange at once: a call    *)
(* left over from before gives back a slot it never took, so the bound is  *)
(* not success_threshold but less than twice that.                         *)
ProbesBounded ==
    state = "HALF_OPEN" => Cardinality(Probes) < 2 * SuccessThreshold

(* A late answer never closes an open breaker: an open breaker can only    *)
(* become half-open, and only after the timeout since its last failure.    *)
LateAnswersDoNotClose ==
    [][state = "OPEN" /\ state' # "OPEN" => cooled /\ state' = "HALF_OPEN"]_vars

(* An open breaker is eventually tried again: the failures of calls still  *)
(* in flight put the timeout off, but not for ever.                        *)
OpenIsRetried == state = "OPEN" ~> state = "HALF_OPEN"

(* A half-open period ends, in one direction or the other, as long as no   *)
(* probe ends with an exception the breaker does not expect.               *)
HalfOpenEndsIfNoneLost ==
    [](lost = 0) => (state = "HALF_OPEN" ~> state # "HALF_OPEN")

(* "Circuit breakers ... allowing the system to recover gracefully": a     *)
(* half-open period ends.                                                  *)
HalfOpenEnds == state = "HALF_OPEN" ~> state # "HALF_OPEN"
=============================================================================
