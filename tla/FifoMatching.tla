---------------------------- MODULE FifoMatching ----------------------------
(***************************************************************************)
(* How trades are matched, first in first out, to completed positions:     *)
(* the same loop three times, in app/services/trade_matcher.py (fees       *)
(* estimated), app/api/routes/reports.py (fees as paid) and                *)
(* app/services/strategy_statistics.py (as the reports, over the trades    *)
(* that are in memory, whatever their order).  A step is one round of the  *)
(* inner loop, or what is done with a trade after it.                      *)
(***************************************************************************)
EXTENDS Integers, Sequences, SequencesExt, FiniteSets, FiniteSetsExt, Functions

CONSTANTS
  Prices, Quantities,   \* of the trades
  Rate,                 \* fee of one unit at price one
  MaxTrades             \* bound

ConstantsOK ==
  /\ Prices \subseteq Nat \ {0} /\ Quantities \subseteq Nat \ {0}
  /\ Rate \in Nat \ {0} /\ MaxTrades \in Nat
  \* fees are divided by what is left of a quantity
  /\ \A q \in Quantities : \A n \in 1..q : Rate % n = 0

VARIABLES
  trades,       \* every filled trade, in the order of order_id and time
  memory,       \* _trades[strategy_id], as numbers of trades
  batch,        \* the trades that are matched, in the order they are taken
  turn,         \* the place in batch of the one that is looked at, and past all when done
  leftover,     \* remaining_qty of it
  queue,        \* position_queue: what is open of the trade at each place, 0 if nothing is
  fees,         \* ... and the fee that its entry has
  positions     \* completed_trades

vars == <<trades, memory, batch, turn, leftover, queue, fees, positions>>

BUY == 1
SELL == -1

PositionType == [
  entry : DOMAIN batch, exit : DOMAIN batch, quantity : Nat, gross : Int,
  reported : Nat, estimated : Nat]

TypeOK ==
  /\ trades \in BoundedSeq([side : {BUY, SELL}, quantity : Quantities, price : Prices], MaxTrades)
  /\ memory \in BoundedSeq(DOMAIN trades, MaxTrades)
  /\ batch \in BoundedSeq(DOMAIN trades, MaxTrades)
  /\ turn \in 1..Len(batch) + 1 /\ leftover \in Nat
  /\ queue \in [DOMAIN batch -> Nat] /\ fees \in [DOMAIN batch -> Nat]
  /\ positions \subseteq PositionType

\* Nothing is matched.
Idle ==
  batch = <<>> /\ turn = 1 /\ leftover = 0 /\ queue = <<>> /\ fees = <<>> /\ positions = {}

Init == trades = <<>> /\ memory = <<>> /\ Idle

-----------------------------------------------------------------------------
(* The algorithm.  A queue entry has the side of the trade that opened it. *)

Trade(i) == trades[batch[i]]
Commission(i) == Rate * Trade(i).quantity * Trade(i).price
Done == turn > Len(batch)

Waiting == {i \in DOMAIN batch : queue[i] > 0}
First == Min(Waiting)
Opposite == Waiting # {} /\ Trade(First).side # Trade(turn).side

\* Fees of a completed position that closes quantity of an entry: the matcher takes
\* the closed share of the fee of what is closed,
Estimated(entry, quantity) ==
  (Rate * quantity * (Trade(entry).price + Trade(turn).price) * quantity) \div queue[entry]

\* and the report the closed share of the fee that the entry has, and of the exit's.
Reported(entry, quantity) ==
  (fees[entry] * quantity) \div queue[entry] + (Commission(turn) * quantity) \div Trade(turn).quantity

Position(entry, quantity) == [
  entry |-> entry, exit |-> turn, quantity |-> quantity,
  gross |-> Trade(entry).side * (Trade(turn).price - Trade(entry).price) * quantity,
  reported |-> Reported(entry, quantity),
  estimated |-> Estimated(entry, quantity)]

\* The next trade, of numbers.
Take(numbers, i) ==
  turn' = i /\ leftover' = IF i <= Len(numbers) THEN trades[numbers[i]].quantity ELSE 0

Begin(numbers) ==
  /\ Done /\ batch' = numbers /\ Take(numbers, 1)
  /\ queue' = [i \in DOMAIN numbers |-> 0] /\ fees' = [i \in DOMAIN numbers |-> 0]
  /\ positions' = {} /\ UNCHANGED <<trades, memory>>

Report == Begin([n \in DOMAIN trades |-> n])
Statistics == Begin(memory)

\* One round of the loop: the first entry is closed, or as much of it as remains of the
\* trade; an entry that is closed in part keeps its fee.
Close ==
  /\ ~Done /\ leftover > 0 /\ Opposite
  /\ LET quantity == Min({queue[First], leftover})
     IN  /\ positions' = positions \cup {Position(First, quantity)}
         /\ queue' = [queue EXCEPT ![First] = @ - quantity]
         /\ leftover' = leftover - quantity
  /\ UNCHANGED <<trades, memory, batch, turn, fees>>

\* Variant: what remains after closing is dropped.
OpenFlat ==
  /\ ~Done /\ (leftover = 0 \/ ~Opposite)
  /\ queue' = [queue EXCEPT ![turn] = IF leftover < Trade(turn).quantity THEN 0 ELSE leftover]
  /\ fees' = [fees EXCEPT ![turn] = (Commission(turn) * leftover) \div Trade(turn).quantity]
  /\ Take(batch, turn + 1)
  /\ UNCHANGED <<trades, memory, batch, positions>>

\* What remains opens a position of the other side, with its share of the fee.
Open ==
  /\ ~Done /\ (leftover = 0 \/ ~Opposite)
  /\ queue' = [queue EXCEPT ![turn] = leftover]
  /\ fees' = [fees EXCEPT ![turn] = (Commission(turn) * leftover) \div Trade(turn).quantity]
  /\ Take(batch, turn + 1)
  /\ UNCHANGED <<trades, memory, batch, positions>>

-----------------------------------------------------------------------------
(* The trades.  Nothing is awaited while they are matched; what was matched *)
(* has been returned and is forgotten.                                     *)

Forget ==
  /\ Done
  /\ batch' = <<>> /\ turn' = 1 /\ leftover' = 0 /\ queue' = <<>> /\ fees' = <<>> /\ positions' = {}

\* An order is filled, and its trade saved and tracked.
Fill(side, quantity, price) ==
  /\ Len(trades) < MaxTrades
  /\ trades' = Append(trades, [side |-> side, quantity |-> quantity, price |-> price])
  /\ memory' = Append(memory, Len(trades) + 1)
  /\ Forget

Restart == memory # <<>> /\ memory' = <<>> /\ UNCHANGED trades /\ Forget

\* _ensure_trades_loaded: what redis has, in order, or the rows, the latest first.
Load ==
  /\ memory = <<>> /\ trades # <<>>
  /\ memory' \in {[n \in DOMAIN trades |-> n], Reverse([n \in DOMAIN trades |-> n])}
  /\ UNCHANGED trades /\ Forget

Next ==
  \/ \E side \in {BUY, SELL}, quantity \in Quantities, price \in Prices : Fill(side, quantity, price)
  \/ Restart \/ Load \/ Report \/ Statistics \/ Close \/ Open

Spec == Init /\ [][Next]_vars

-----------------------------------------------------------------------------
(* Properties of what has been matched.                                    *)

Total(values) == FoldFunction(+, 0, values)

\* Every unit of a trade is in one place: in a completed position, which it opened or
\* closed, or in the queue; and the queue is of one side.
EveryUnitOnce ==
  Done =>
    /\ \A i \in DOMAIN batch :
         Total([p \in {p \in positions : i \in {p.entry, p.exit}} |-> p.quantity]) + queue[i]
           = Trade(i).quantity
    /\ \A i, j \in Waiting : Trade(i).side = Trade(j).side
    /\ \A p \in positions : p.entry < p.exit /\ Trade(p.entry).side # Trade(p.exit).side

\* What was paid and earned is what the positions made and the open ones have cost, in
\* whatever order the trades were taken: so that statistics over all trades agree with
\* the report once as much was bought as sold, and nothing is open then.
Gross == Total([p \in positions |-> p.gross])
Cost == Total([i \in DOMAIN batch |-> Trade(i).side * queue[i] * Trade(i).price])
Cash(all) == Total([n \in DOMAIN all |-> -all[n].side * all[n].quantity * all[n].price])
Net == Total([n \in DOMAIN trades |-> trades[n].side * trades[n].quantity])

GainsAreCash ==
  Done =>
    /\ Gross - Cost = Cash([i \in DOMAIN batch |-> Trade(i)])
    /\ Len(batch) = Len(trades) /\ Net = 0 => Waiting = {} /\ Gross = Cash(trades)

\* An entry that is closed in parts, or in part so far.
Split ==
  \E p \in positions :
    p.entry \in Waiting \/ \E other \in positions \ {p} : p.entry = other.entry

\* The fees that were paid are the fees of the report and those of the open entries,
\* unless an entry is closed in parts: then the report charges more than was paid, and
\* the matcher less.
FeesAsPaid ==
  Done =>
    LET paid == Total([i \in DOMAIN batch |-> Commission(i)])
        reported == Total([p \in positions |-> p.reported]) + Total([i \in Waiting |-> fees[i]])
        estimated == Total([p \in positions |-> p.estimated])
                     + Total([i \in Waiting |-> Rate * queue[i] * Trade(i).price]) IN
    IF Split THEN reported > paid /\ estimated < paid ELSE reported = paid /\ estimated = paid
=============================================================================
