------------------------------ MODULE Exposure ------------------------------
(***************************************************************************)
(* The exposure limit of one account: PortfolioRiskManager checks an order *)
(* and reserves its exposure under the account's lock, the order manager   *)
(* confirms the reservation when the exchange has answered and releases it *)
(* when the order raised.  Nothing in app/ builds a                        *)
(* portfolio_risk_manager_factory for the order manager: the limit is      *)
(* enforced only where one is passed in, as the tests do.                  *)
(*                                                                         *)
(* An exposure is a number of units.  A strategy has a fixed_amount, whose *)
(* exposure is Estimate[s]; without one the estimate is zero, and the      *)
(* limit says nothing.  An order executes for at most its estimate, at     *)
(* once or not at all: a market order that answers NEW and fills later, a  *)
(* price that moves, and an order thread that outlives its cancelled loop  *)
(* are not modelled.                                                       *)
(***************************************************************************)
EXTENDS Integers, FiniteSets, FiniteSetsExt

CONSTANTS
    Strategies,     \* the strategies of the account
    Limit,          \* max_portfolio_exposure_usdt
    Estimate,       \* _calculate_order_exposure of each strategy
    None            \* no reservation

Statuses == {"reserved", "partial", "confirmed"}
Reservations == [status : Statuses, amount : Nat]

ConstantsOK ==
    /\ Limit \in Nat
    /\ Estimate \in [Strategies -> Nat \ {0}]
    /\ None \notin Reservations

VARIABLES
    ordering,       \* strategies between check_order_allowed and the end of execute_order
    position,       \* exposure of each strategy's summary.position_size
    reservation     \* _reservations[account]

vars == <<ordering, position, reservation>>

TypeOK ==
    /\ ordering \subseteq Strategies
    /\ position \in [Strategies -> Nat]
    /\ reservation \in [Strategies -> Reservations \union {None}]

Init ==
    /\ ordering = {}
    /\ position = [s \in Strategies |-> 0]
    /\ reservation = [s \in Strategies |-> None]

(* The exposure of the positions, and of the reservations that count:      *)
(* a confirmed one stands for a position that counts by itself, a partial  *)
(* one is counted beside it.                                               *)
RealExposure == MapThenSumSet(LAMBDA s : position[s], Strategies)

Reserved(s) ==
    /\ reservation[s] # None
    /\ reservation[s].status \in {"reserved", "partial"}

ReservedExposure ==
    MapThenSumSet(LAMBDA s : reservation[s].amount, {s \in Strategies : Reserved(s)})

Fits(s) == RealExposure + ReservedExposure + Estimate[s] <= Limit

(* check_order_allowed, the same for an order that opens and one that      *)
(* closes; a refused order has no effect here, whatever                    *)
(* auto_reduce_order_size says: the reduced size is never found.           *)
Check(s) ==
    /\ s \notin ordering
    /\ Fits(s)
    /\ ordering' = ordering \union {s}
    /\ reservation' = [reservation EXCEPT ![s] =
                          [status |-> "reserved", amount |-> Estimate[s]]]
    /\ UNCHANGED position

(* An active breaker, a leverage that cannot be set, a position of         *)
(* somebody else, a size of zero, a position already closed: the order is  *)
(* never sent, and its reservation stays.                                  *)
Abandon(s) ==
    /\ s \in ordering
    /\ ordering' = ordering \ {s}
    /\ UNCHANGED <<position, reservation>>

(* The order raised: release_reservation.                                  *)
Fail(s) ==
    /\ s \in ordering
    /\ ordering' = ordering \ {s}
    /\ reservation' = [reservation EXCEPT ![s] = None]
    /\ UNCHANGED position

(* confirm_exposure: FILLED or within five percent of the reservation is   *)
(* confirmed, less is partial and goes on counting.                        *)
Confirmed(s, executed, filled) ==
    [status |-> IF filled \/ 100 * executed >= 95 * reservation[s].amount
                THEN "confirmed" ELSE "partial",
     amount |-> executed]

(* The exchange answers.  No await separates the confirmation from the     *)
(* update of the summary: an order that opens sets the position's size,    *)
(* one that closes takes from it.                                          *)
Execute(s) ==
    \E executed \in 0 .. Estimate[s], filled \in BOOLEAN :
        /\ s \in ordering
        /\ filled => executed > 0
        /\ position[s] > 0 => executed <= position[s]
        /\ ordering' = ordering \ {s}
        /\ reservation' = [reservation EXCEPT ![s] = Confirmed(s, executed, filled)]
        /\ position' = [position EXCEPT ![s] =
                           IF position[s] = 0 THEN executed ELSE @ - executed]

(* External: a stop at the exchange or the user closes the position and    *)
(* the next synchronisation sees it.                                       *)
Closed(s) ==
    /\ s \notin ordering
    /\ position[s] > 0
    /\ position' = [position EXCEPT ![s] = 0]
    /\ UNCHANGED <<ordering, reservation>>

(* The process restarts between orders: the reservations were in memory.   *)
Restart ==
    /\ ordering = {}
    /\ reservation' = [s \in Strategies |-> None]
    /\ UNCHANGED <<ordering, position>>

Next ==
    \/ \E s \in Strategies :
        Check(s) \/ Abandon(s) \/ Fail(s) \/ Execute(s) \/ Closed(s)
    \/ Restart

Spec == Init /\ [][Next]_vars

(***************************************************************************)
(* The positions of an account, with the orders on their way counted in    *)
(* full, stay within its limit, although strategies check and order at the *)
(* same time, orders fill in part, reservations are left behind or lost in *)
(* a restart (portfolio_risk_manager.py:189, "Reserve exposure BEFORE      *)
(* order execution").                                                      *)
(***************************************************************************)
OnTheWay == {s \in ordering : position[s] = 0}

WithinLimit ==
    RealExposure + MapThenSumSet(LAMBDA s : Estimate[s], OnTheWay) <= Limit

=============================================================================
