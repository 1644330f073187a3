-------------------------- MODULE TradingLoopProofs --------------------------
(***************************************************************************)
(* Proofs about TradingLoop, for any margin and any number of candles and  *)
(* troubles.                                                               *)
(***************************************************************************)
EXTENDS TradingLoop, SequenceTheorems, WellFoundedInduction, TLAPS

-----------------------------------------------------------------------------
(* What the operators of the model return.                                 *)

LEMMA SignType == ASSUME NEW x \in Int PROVE Sign(x) \in {-1, 0, 1} /\ (x # 0 => Sign(x) \in {-1, 1})
BY DEF Sign

LEMMA SizeType == ASSUME NEW x \in Int PROVE Size(x) \in Nat
BY DEF Size

LEMMA LeastType == ASSUME NEW x \in Nat, NEW y \in Nat
                   PROVE  Least(x, y) \in Nat /\ Least(x, y) =< x /\ Least(x, y) =< y
BY DEF Least

LEMMA OneWay ==
    ASSUME NEW x \in Int, NEW d \in {-1, 1}
    PROVE  /\ x * d \in Int
           /\ d = 1 => x * d = x
           /\ d = -1 => x * d = -x
<1>1. CASE d = 1 BY <1>1
<1>2. CASE d = -1
    <2>1. x * (-1) = -x OBVIOUS
    <2> QED BY <1>2, <2>1
<1> QED BY <1>1, <1>2

LEMMA AfterFillType ==
    ASSUME NEW s \in Int, NEW q \in Nat, NEW d \in {-1, 1}
    PROVE  AfterFill(s, d * q, d) \in Int /\ d * q \in Int
<1>1. q * d \in Int /\ d * q = q * d
    BY OneWay
<1> QED BY <1>1 DEF AfterFill

(* The last entry of a side is a position of the ledger: a set of numbers  *)
(* bounded by its length has a greatest element.                           *)
LEMMA LastEntryType ==
    ASSUME TypeOK, NEW side \in {-1, 1}
    PROVE  /\ LastEntry(side) \in 0 .. Len(trades)
           /\ LastEntry(side) # 0 => trades[LastEntry(side)].side = side
<1> DEFINE n == Len(trades)
           E == {i \in DOMAIN trades : trades[i].side = side}
           below == {n - i : i \in E}
<1>1. n \in Nat /\ DOMAIN trades = 1 .. n
    BY LenProperties DEF TypeOK
<1>2. CASE E = {}
    BY <1>1, <1>2 DEF LastEntry
<1>3. CASE E # {}
    <2>1. below \subseteq Nat /\ below # {}
        BY <1>1, <1>3
    <2>2. PICK m \in below : \A k \in below : <<k, m>> \notin OpToRel(<, Nat)
        <3> HIDE DEF below
        <3> QED BY <2>1, WFMin, NatLessThanWellFounded
    <2>3. PICK i \in E : m = n - i
        BY <2>2
    <2>4. ASSUME NEW j \in E PROVE j =< i
        <3>1. n - j \in below /\ n - j \in Nat /\ m \in Nat
            BY <2>1, <2>2
        <3>2. ~(n - j < m)
            BY <2>2, <3>1 DEF OpToRel
        <3> QED BY <1>1, <2>3, <3>2
    <2>5. LastEntry(side) \in E
        BY <1>3, <2>4 DEF LastEntry
    <2> QED BY <1>1, <2>5
<1> QED BY <1>2, <1>3

(* Recording a trade keeps the ledger's type, never shortens it, and makes *)
(* room for the instance of an entry.                                      *)
LEMMA TaggedType ==
    ASSUME TypeOK, NEW o \in Orders, NEW q \in Nat, NEW i \in 0 .. Len(trades) + 1,
           i = Len(trades) + 1 => q # 0
    PROVE  /\ Tagged(i, o, q) \in Seq(TradeSums)
           /\ i =< Len(Tagged(i, o, q))
           /\ Len(trades) =< Len(Tagged(i, o, q))
<1>1. trades \in Seq(TradeSums) /\ Len(trades) \in Nat
    BY LenProperties DEF TypeOK
<1> DEFINE side == IF o.exit THEN -o.d ELSE o.d
           new == [side |-> side, bought |-> q, sold |-> 0]
<1>2. side \in {-1, 1} /\ new \in TradeSums
    BY DEF Orders, TradeSums
<1>3. CASE q = 0 \/ i = 0
    BY <1>1, <1>3 DEF Tagged
<1>4. CASE q # 0 /\ i > Len(trades)
    <2>1. Tagged(i, o, q) = Append(trades, new)
        BY <1>1, <1>4 DEF Tagged
    <2>2. Append(trades, new) \in Seq(TradeSums) /\ Len(Append(trades, new)) = Len(trades) + 1
        BY <1>1, <1>2, AppendProperties
    <2> QED BY <1>1, <2>1, <2>2
<1>5. CASE q # 0 /\ i # 0 /\ i =< Len(trades)
    <2>1. i \in 1 .. Len(trades)
        BY <1>1, <1>5
    <2>2. trades[i] \in TradeSums
        BY <1>1, <2>1, ElementOfSeq
    <2> DEFINE more == [trades[i] EXCEPT !.bought = @ + q]
               less == [trades[i] EXCEPT !.sold = @ + q]
    <2>3. more \in TradeSums /\ less \in TradeSums
        BY <2>2 DEF TradeSums
    <2>4. /\ [trades EXCEPT ![i] = more] \in Seq(TradeSums)
          /\ Len([trades EXCEPT ![i] = more]) = Len(trades)
          /\ [trades EXCEPT ![i] = less] \in Seq(TradeSums)
          /\ Len([trades EXCEPT ![i] = less]) = Len(trades)
        BY <1>1, <2>1, <2>3, ExceptSeq
    <2>5. Tagged(i, o, q) \in {trades, [trades EXCEPT ![i] = more], [trades EXCEPT ![i] = less]}
        BY <1>1, <1>5 DEF Tagged
    <2> QED BY <1>1, <1>5, <2>4, <2>5
<1> QED BY <1>1, <1>3, <1>4, <1>5

LEMMA IngestedType ==
    ASSUME TypeOK, NEW held \in Held, held.inst =< Len(trades), NEW t \in Ingested(held)
    PROVE  t \in Seq(TradeSums) /\ Len(t) = Len(trades)
<1>1. trades \in Seq(TradeSums) /\ Len(trades) \in Nat
    BY LenProperties DEF TypeOK
<1>2. CASE t = trades
    BY <1>1, <1>2
<1>3. CASE t # trades
    <2> DEFINE i == held.inst
               closed == [trades[i] EXCEPT !.sold = Size(held.pos)]
    <2>1. i \in 1 .. Len(trades) /\ t = [trades EXCEPT ![i] = closed]
        BY <1>1, <1>3 DEF Ingested, Held
    <2>2. closed \in TradeSums
        <3>1. trades[i] \in TradeSums
            BY <1>1, <2>1, ElementOfSeq
        <3>2. Size(held.pos) \in Nat
            BY SizeType DEF Held
        <3> QED BY <3>1, <3>2 DEF TradeSums
    <2> QED BY <1>1, <2>1, <2>2, ExceptSeq
<1> QED BY <1>2, <1>3

-----------------------------------------------------------------------------
(* The inductive invariant: the types, and that a position whose close is  *)
(* being ingested is known to the ledger, without which Ingested would     *)
(* write beyond it.                                                        *)
Known(held) == held.inst =< Len(trades)

IInv == TypeOK /\ Known(gone) /\ Known(clearing)

LEMMA InitIInv == Init => IInv
<1> SUFFICES ASSUME Init PROVE IInv
    OBVIOUS
<1>1. 0 \in Positions /\ 0 \in Nat /\ MaxLots \in Nat
    BY ParametersAssumption DEF Positions
<1>2. <<>> \in Seq(TradeSums) /\ <<>> \in Seq(Positions) /\ Len(<<>>) = 0
    BY EmptySeq
<1>3. NoOrder \in Orders /\ Nothing \in Held
    BY DEF NoOrder, Orders, Nothing, Held
<1> QED BY <1>1, <1>2, <1>3, ParametersAssumption DEF Init, IInv, TypeOK, Known, Nothing, Troubles

-----------------------------------------------------------------------------
(* Steps of Binance and of the world outside.                              *)

LEMMA TypesOfNumbers ==
    /\ MaxLots \in Nat \ {0} /\ MaxCandles \in Nat /\ MaxTroubles \in Nat
    /\ Sides \subseteq {-1, 1}
    /\ Positions \subseteq Int /\ 0 \in Positions
BY ParametersAssumption DEF Positions

LEMMA SufferType ==
    ASSUME TypeOK, NEW t \in Troubles, Suffer(t)
    PROVE  trouble' \subseteq Troubles /\ troubles' \in 0 .. MaxTroubles
BY TypesOfNumbers DEF TypeOK, Suffer

LEMMA TakenOverType ==
    ASSUME TypeOK, NEW x
    PROVE  TakenOver(x) \subseteq Troubles
BY DEF TypeOK, TakenOver, Troubles

LEMMA ReportType ==
    ASSUME TypeOK, NEW x \in Positions
    PROVE  Append(stream, x) \in Seq(Positions)
BY AppendProperties DEF TypeOK

(* An order that is not rejected leaves the position within the margin.    *)
LEMMA ExecutionType ==
    ASSUME TypeOK, NEW o \in Orders, ~Rejects(o), Move(o.d * Executed(o))
    PROVE  /\ Executed(o) \in Nat
           /\ exch' \in Positions /\ own' \in Int /\ stream' \in Seq(Positions)
<1>1. exch \in Positions /\ exch \in Int /\ own \in Int
    BY TypesOfNumbers DEF TypeOK
<1>2. o.d \in {-1, 1} /\ o.qty \in Nat /\ o.reduce \in BOOLEAN
    BY DEF Orders
<1>3. Executed(o) \in Nat
    BY <1>1, <1>2, SizeType, LeastType DEF Executed
<1> DEFINE q == Executed(o)
           x == o.d * q
<1>4. x \in Int /\ (o.d = 1 => x = q) /\ (o.d = -1 => x = -q)
    <2>1. q * o.d \in Int /\ (o.d = 1 => q * o.d = q) /\ (o.d = -1 => q * o.d = -q) /\ o.d * q = q * o.d
        BY <1>2, <1>3, OneWay
    <2> QED BY <2>1
<1>5. exch + x \in Positions
    <2>1. CASE o.reduce
        <3>1. /\ ~(exch * o.d >= 0) /\ exch * o.d \in Int
              /\ o.d = 1 => exch * o.d = exch
              /\ o.d = -1 => exch * o.d = -exch
            BY <1>1, <1>2, <2>1, OneWay DEF Rejects
        <3>2. q =< Size(exch) /\ Size(exch) \in Nat
            BY <1>1, <1>2, <2>1, SizeType, LeastType DEF Executed
        <3> QED BY <1>1, <1>2, <1>3, <1>4, <3>1, <3>2, TypesOfNumbers DEF Positions, Size
    <2>2. CASE ~o.reduce
        BY <2>2 DEF Rejects, Executed
    <2> QED BY <1>2, <2>1, <2>2
<1>6. Share(own + x, exch + x) \in Int
    BY <1>1, <1>4 DEF Share
<1> QED BY <1>3, <1>5, <1>6, ReportType DEF Move

LEMMA ExchangeType ==
    ASSUME IInv, Exchange
    PROVE  IInv'
<1>1. order \in Orders /\ TypeOK
    BY DEF IInv, TypeOK
<1>2. CASE Rejects(order)
    <2>1. order' \in Orders
        BY <1>1, <1>2 DEF Exchange, Orders
    <2> QED BY <1>1, <1>2, <2>1 DEF Exchange, IInv, TypeOK, Known, row
<1>3. CASE ~Rejects(order)
    <2>1. Executed(order) \in Nat /\ exch' \in Positions /\ own' \in Int /\ stream' \in Seq(Positions)
        BY <1>1, <1>3, ExecutionType DEF Exchange
    <2>2. order' \in Orders
        BY <1>1, <1>3, <2>1 DEF Exchange, Orders
    <2> QED BY <1>1, <1>3, <2>1, <2>2 DEF Exchange, IInv, TypeOK, Known, row
<1> QED BY <1>2, <1>3

LEMMA NoOrderType == NoOrder \in Orders /\ Nothing \in Held /\ Nothing.inst = 0
BY DEF NoOrder, Orders, Nothing, Held

LEMMA ExchangeLateType ==
    ASSUME IInv, ExchangeLate
    PROVE  IInv'
<1>1. late \in Orders /\ TypeOK
    BY DEF IInv, TypeOK
<1>2. CASE Rejects(late)
    BY <1>1, <1>2, NoOrderType DEF ExchangeLate, IInv, TypeOK, Known, row
<1>3. CASE ~Rejects(late)
    <2>1. exch' \in Positions /\ own' \in Int /\ stream' \in Seq(Positions)
        BY <1>1, <1>3, ExecutionType DEF ExchangeLate
    <2> QED BY <1>1, <1>3, <2>1, NoOrderType DEF ExchangeLate, IInv, TypeOK, Known, row
<1> QED BY <1>2, <1>3

LEMMA CandleClosesType ==
    ASSUME IInv, CandleCloses
    PROVE  IInv'
BY TypesOfNumbers DEF CandleCloses, IInv, TypeOK, Known, row, loop

LEMMA ClosedOutsideType ==
    ASSUME IInv, ClosedOutside
    PROVE  IInv'
<1>1. trouble' \subseteq Troubles /\ troubles' \in 0 .. MaxTroubles
    BY SufferType DEF ClosedOutside, IInv, Troubles
<1>2. stream' \in Seq(Positions) /\ exch' \in Positions /\ own' \in Int
    BY ReportType, TypesOfNumbers DEF ClosedOutside, IInv
<1> QED BY <1>1, <1>2 DEF ClosedOutside, IInv, TypeOK, Known, row, loop

LEMMA AddedOutsideType ==
    ASSUME IInv, AddedOutside
    PROVE  IInv'
<1>1. trouble' \subseteq Troubles /\ troubles' \in 0 .. MaxTroubles
    BY SufferType DEF AddedOutside, IInv, Troubles
<1>2. stream' \in Seq(Positions) /\ exch' \in Positions
    BY ReportType, TypesOfNumbers DEF AddedOutside, IInv
<1> QED BY <1>1, <1>2 DEF AddedOutside, IInv, TypeOK, Known, row, loop

LEMMA RestartType ==
    ASSUME IInv, Restart
    PROVE  IInv'
<1>1. trouble' \subseteq Troubles /\ troubles' \in 0 .. MaxTroubles
    BY SufferType DEF Restart, IInv, Troubles
<1>2. <<>> \in Seq(Positions) /\ Len(trades) \in Nat
    BY EmptySeq, LenProperties DEF IInv, TypeOK
<1> QED BY <1>1, <1>2, NoOrderType, TypesOfNumbers DEF Restart, IInv, TypeOK, Known, row

-----------------------------------------------------------------------------
(* Steps of the user data stream.                                          *)

LEMMA StreamOpenType ==
    ASSUME IInv, StreamOpen
    PROVE  IInv'
<1>1. Head(stream) \in Positions /\ Tail(stream) \in Seq(Positions)
    BY HeadTailProperties DEF StreamOpen, IInv, TypeOK
<1>2. trouble' \subseteq Troubles
    BY TakenOverType DEF StreamOpen, IInv
<1> QED BY <1>1, <1>2, TypesOfNumbers DEF StreamOpen, IInv, TypeOK, Known, loop

LEMMA StreamIngestType ==
    ASSUME IInv, StreamIngest
    PROVE  IInv'
<1>1. Len(trades) \in Nat
    BY LenProperties DEF IInv, TypeOK
<1>2. clearing' \in Held /\ clearing'.inst =< Len(trades)
    BY <1>1 DEF StreamIngest, IInv, TypeOK, Held
<1> QED BY <1>2 DEF StreamIngest, IInv, TypeOK, Known, row, loop

LEMMA StreamClearType ==
    ASSUME IInv, StreamClear
    PROVE  IInv'
<1>1. Len(trades) \in Nat /\ TypeOK
    BY LenProperties DEF IInv, TypeOK
<1>2. trades' \in Seq(TradeSums) /\ Len(trades') = Len(trades)
    BY IngestedType DEF StreamClear, IInv, TypeOK, Known
<1>3. Tail(stream) \in Seq(Positions)
    BY HeadTailProperties DEF StreamClear, IInv, TypeOK
<1>4. trouble' \subseteq Troubles
    BY TakenOverType DEF StreamClear, IInv
<1> QED BY <1>1, <1>2, <1>3, <1>4, NoOrderType DEF StreamClear, IInv, TypeOK, Known, loop

-----------------------------------------------------------------------------
(* Steps of the loop.                                                      *)

LEMMA LedgerLength == ASSUME IInv PROVE Len(trades) \in Nat /\ TypeOK
BY LenProperties DEF IInv, TypeOK

(* A read answers a position or, when it fails, none. *)
LEMMA ReadsType ==
    ASSUME TypeOK, Reads
    PROVE  /\ read' \in Positions
           /\ trouble' \subseteq Troubles /\ troubles' \in 0 .. MaxTroubles
<1>1. CASE read' = exch /\ UNCHANGED <<trouble, troubles>>
    BY <1>1 DEF TypeOK
<1>2. CASE read' = 0 /\ Suffer("sync")
    BY <1>2, SufferType, TypesOfNumbers DEF Troubles
<1> QED BY <1>1, <1>2 DEF Reads

LEMMA ReadType ==
    ASSUME IInv, Sync \/ BeginReconcile
    PROVE  IInv'
<1>1. /\ read' \in Positions
      /\ trouble' \subseteq Troubles /\ troubles' \in 0 .. MaxTroubles
    BY ReadsType DEF Sync, BeginReconcile, IInv
<1> QED BY <1>1 DEF Sync, BeginReconcile, IInv, TypeOK, Known, row, outside

LEMMA ApplyType ==
    ASSUME IInv, Apply
    PROVE  IInv'
<1>1. Len(trades) \in Nat /\ TypeOK
    BY LedgerLength
<1>2. gone' \in Held /\ gone'.inst =< Len(trades)
    BY <1>1 DEF Apply, IInv, TypeOK, Known, Held
<1>3. trouble' \subseteq Troubles
    BY <1>1, TakenOverType DEF Apply, TypeOK
<1>4. sum' \in Int /\ inst' \in 0 .. Len(trades)
    BY <1>1, TypesOfNumbers DEF Apply, TypeOK
<1> QED BY <1>1, <1>2, <1>3, <1>4 DEF Apply, IInv, TypeOK, Known, outside

LEMMA SyncClearType ==
    ASSUME IInv, SyncClear
    PROVE  IInv'
<1>1. Len(trades) \in Nat /\ TypeOK
    BY LedgerLength
<1>2. trades' \in Seq(TradeSums) /\ Len(trades') = Len(trades)
    BY IngestedType DEF SyncClear, IInv, TypeOK, Known
<1>3. trouble' \subseteq Troubles
    BY <1>1, TakenOverType DEF SyncClear
<1> QED BY <1>1, <1>2, <1>3, NoOrderType DEF SyncClear, IInv, TypeOK, Known, outside

LEMMA SyncFailsType ==
    ASSUME IInv, SyncFails
    PROVE  IInv'
<1>1. trouble' \subseteq Troubles /\ troubles' \in 0 .. MaxTroubles
    BY SufferType DEF SyncFails, IInv, Troubles
<1>2. Len(trades) \in Nat
    BY LedgerLength
<1> QED BY <1>1, <1>2, NoOrderType DEF SyncFails, IInv, TypeOK, Known, row, outside

LEMMA ReconcileType ==
    ASSUME IInv, Reconcile
    PROVE  IInv'
<1>1. Len(trades) \in Nat /\ TypeOK
    BY LedgerLength
<1>2. trouble' \subseteq Troubles
    BY <1>1, TakenOverType DEF Reconcile
<1>3. inst' \in 0 .. Len(trades)
    <2>1. sum \in Int /\ inst \in 0 .. Len(trades)
        BY <1>1 DEF TypeOK
    <2>2. sum # 0 => LastEntry(Sign(sum)) \in 0 .. Len(trades)
        BY <1>1, <2>1, SignType, LastEntryType
    <2> QED BY <1>1, <2>1, <2>2 DEF Reconcile
<1> QED BY <1>1, <1>2, <1>3, TypesOfNumbers DEF Reconcile, IInv, TypeOK, Known, outside

LEMMA EvaluateType ==
    ASSUME IInv, Evaluate
    PROVE  IInv'
<1>1. TypeOK
    BY DEF IInv
<1>2. ASSUME NEW d \in {-1, 1}, NEW b \in BOOLEAN, Signal(d, b)
      PROVE  order' \in Orders /\ pc' = "begin"
    <2>1. NoOrder \in Orders /\ order' = [NoOrder EXCEPT !.d = d, !.exit = b]
        BY <1>2, NoOrderType DEF Signal
    <2>2. ASSUME NEW o \in Orders
          PROVE  [o EXCEPT !.d = d, !.exit = b] \in Orders
        BY DEF Orders
    <2> QED BY <1>2, <2>1, <2>2 DEF Signal
<1>3. order' \in Orders /\ pc' \in {"begin", "sync"}
    <2>1. CASE pc' = "sync" /\ UNCHANGED order
        BY <1>1, <2>1 DEF TypeOK
    <2>2. CASE sum # 0 /\ Signal(-Sign(sum), TRUE)
        <3>1. -Sign(sum) \in {-1, 1}
            BY <1>1, <2>2, SignType DEF TypeOK
        <3> QED BY <1>2, <2>2, <3>1
    <2>3. CASE \E d \in Sides : Signal(d, FALSE)
        BY <1>2, <2>3, TypesOfNumbers
    <2> QED BY <2>1, <2>2, <2>3 DEF Evaluate
<1>4. last' \in 0 .. candle /\ candle \in 0 .. MaxCandles
    BY <1>1, TypesOfNumbers DEF Evaluate, TypeOK
<1> QED BY <1>1, <1>3, <1>4 DEF Evaluate, IInv, TypeOK, Known, row, outside

LEMMA BeginOrderType ==
    ASSUME IInv, BeginOrder
    PROVE  IInv'
<1>1. order' \in Orders
    BY DEF BeginOrder, IInv, TypeOK, Orders
<1>2. trouble' \subseteq Troubles
    BY DEF BeginOrder, IInv, TypeOK, Troubles
<1> QED BY <1>1, <1>2 DEF BeginOrder, IInv, TypeOK, Known, row, outside

(* Whatever Binance answered, recording it keeps row and ledger well       *)
(* formed, and forgets no trade.                                           *)
LEMMA RespondType ==
    ASSUME IInv, NEW o \in Orders, NEW q \in Nat, NEW b \in BOOLEAN, Respond(o, q, b)
    PROVE  /\ sum' \in Int /\ trades' \in Seq(TradeSums) /\ inst' \in 0 .. Len(trades')
           /\ Len(trades) =< Len(trades') /\ Len(trades') \in Nat
           /\ pc' \in {"settle", "sync"} /\ order' \in Orders
<1> DEFINE closing == \/ o.prev * o.d < 0 /\ Size(o.prev) =< q
                      \/ o.prev = 0 /\ o.exit /\ b
           opening == ~o.exit /\ q > 0 /\ (o.prev = 0 \/ Size(o.prev) = q)
           flat == o.prev * o.d =< 0 /\ Size(o.prev) =< q /\ (o.prev # 0 \/ q = 0)
           found == IF closing THEN LastEntry(-o.d) ELSE 0
           i == IF found # 0 THEN found
                ELSE IF opening THEN Len(trades) + 1
                ELSE IF inst = 0 /\ sum # 0 /\ ~flat THEN LastEntry(Sign(sum))
                ELSE inst
<1>1. Len(trades) \in Nat /\ TypeOK
    BY LedgerLength
<1>2. o.d \in {-1, 1} /\ -o.d \in {-1, 1}
    BY DEF Orders
<1>3. sum \in Int /\ inst \in 0 .. Len(trades)
    BY <1>1 DEF TypeOK
<1>4. found \in 0 .. Len(trades)
    BY <1>1, <1>2, LastEntryType
<1>5. sum # 0 => LastEntry(Sign(sum)) \in 0 .. Len(trades)
    BY <1>1, <1>3, SignType, LastEntryType
<1>6. i \in 0 .. Len(trades) + 1 /\ (i = Len(trades) + 1 => q # 0)
    <2> HIDE DEF found, flat
    <2> QED BY <1>1, <1>3, <1>4, <1>5
<1>7. /\ sum' = AfterFill(AfterFill(sum, o.d * q, o.d), o.d * q, o.d)
      /\ trades' = Tagged(i, o, q) /\ inst' = i
      /\ pc' \in {"settle", "sync"} /\ order' = NoOrder
    BY DEF Respond
<1> HIDE DEF i
<1>8. trades' \in Seq(TradeSums) /\ i =< Len(trades') /\ Len(trades) =< Len(trades')
    BY <1>1, <1>6, <1>7, TaggedType
<1>9. Len(trades') \in Nat
    BY <1>8, LenProperties
<1>10. sum' \in Int
    BY <1>2, <1>3, <1>7, AfterFillType
<1> QED BY <1>1, <1>6, <1>7, <1>8, <1>9, <1>10, NoOrderType

(* The rest of the state is left alone where an answer is recorded.        *)
LEMMA RespondKeepsIInv ==
    ASSUME IInv, NEW q \in Nat, NEW b \in BOOLEAN, Respond(order, q, b),
           UNCHANGED <<read, gone, last, late, outside>>,
           trouble' \subseteq Troubles, troubles' \in 0 .. MaxTroubles
    PROVE  IInv'
<1>1. Len(trades) \in Nat /\ TypeOK /\ order \in Orders
    BY LedgerLength DEF TypeOK
<1>2. /\ sum' \in Int /\ trades' \in Seq(TradeSums) /\ inst' \in 0 .. Len(trades')
      /\ Len(trades) =< Len(trades') /\ Len(trades') \in Nat
      /\ pc' \in {"settle", "sync"} /\ order' \in Orders
    BY <1>1, RespondType
<1>3. gone'.inst =< Len(trades') /\ clearing'.inst =< Len(trades')
    BY <1>1, <1>2 DEF IInv, TypeOK, Known, Held, outside
<1> QED BY <1>1, <1>2, <1>3 DEF IInv, TypeOK, Known, outside

LEMMA PlaceType ==
    ASSUME IInv, Place
    PROVE  IInv'
<1>1. /\ read' \in Positions
      /\ trouble' \subseteq Troubles /\ troubles' \in 0 .. MaxTroubles
    BY ReadsType DEF Place, IInv
<1> QED BY <1>1 DEF Place, IInv, TypeOK, Known, row, outside

LEMMA DecideType ==
    ASSUME IInv, Decide
    PROVE  IInv'
<1>1. /\ Len(trades) \in Nat /\ TypeOK /\ order \in Orders
      /\ trouble \subseteq Troubles /\ troubles \in 0 .. MaxTroubles
    BY LedgerLength DEF TypeOK
<1> DEFINE current == IF read # 0 THEN read ELSE sum
           owned == Owned(inst, Sign(current))
<1>2. current \in Int
    BY <1>1, TypesOfNumbers DEF TypeOK
<1>3. owned \in Nat
    <2>1. CASE owned = 0
        BY <2>1
    <2>2. CASE owned # 0
        <3>1. inst \in 1 .. Len(trades) /\ trades[inst].sold < trades[inst].bought
              /\ owned = trades[inst].bought - trades[inst].sold
            BY <1>1, <2>2 DEF Owned, TypeOK
        <3>2. trades[inst] \in TradeSums
            BY <1>1, <3>1, ElementOfSeq DEF TypeOK
        <3> QED BY <3>1, <3>2 DEF TradeSums
    <2> QED BY <2>1, <2>2
<1>4. CASE \E b \in BOOLEAN : Respond(order, 0, b)
    BY <1>1, <1>4, RespondKeepsIInv DEF Decide
<1>5. CASE /\ order' = [order EXCEPT !.qty = Least(owned, Size(current)), !.reduce = TRUE]
           /\ pc' = "recheck" /\ UNCHANGED row
    <2>1. Least(owned, Size(current)) \in Nat
        BY <1>2, <1>3, SizeType, LeastType
    <2>2. order' \in Orders
        BY <1>1, <1>5, <2>1 DEF Orders
    <2> QED BY <1>1, <1>5, <2>2 DEF Decide, IInv, TypeOK, Known, row, outside
<1>6. CASE order' = [order EXCEPT !.qty = 1, !.at = "sent"] /\ pc' = "answer" /\ UNCHANGED row
    <2>1. order' \in Orders
        BY <1>1, <1>6 DEF Orders
    <2> QED BY <1>1, <1>6, <2>1 DEF Decide, IInv, TypeOK, Known, row, outside
<1> QED BY <1>4, <1>5, <1>6 DEF Decide

LEMMA RecheckType ==
    ASSUME IInv, Recheck
    PROVE  IInv'
<1>1. order' \in Orders /\ pc' \in {"skip", "answer"}
    BY DEF Recheck, IInv, TypeOK, Orders
<1>2. /\ read' \in Positions
      /\ trouble' \subseteq Troubles /\ troubles' \in 0 .. MaxTroubles
    BY ReadsType DEF Recheck, IInv
<1> QED BY <1>1, <1>2 DEF Recheck, IInv, TypeOK, Known, row, outside

LEMMA RecordedType ==
    ASSUME IInv, Skip \/ Record
    PROVE  IInv'
<1>1. order.qty \in Nat /\ trouble \subseteq Troubles /\ troubles \in 0 .. MaxTroubles
    BY DEF IInv, TypeOK, Orders
<1>2. CASE Skip
    BY <1>1, <1>2, RespondKeepsIInv DEF Skip
<1>3. CASE Record
    BY <1>1, <1>3, RespondKeepsIInv DEF Record
<1> QED BY <1>2, <1>3

LEMMA OrderFailsType ==
    ASSUME IInv, OrderFails
    PROVE  IInv'
BY NoOrderType DEF OrderFails, IInv, TypeOK, Known, row, outside

LEMMA AnswerLostType ==
    ASSUME IInv, AnswerLost
    PROVE  IInv'
<1>1. trouble' \subseteq Troubles /\ troubles' \in 0 .. MaxTroubles
    BY SufferType DEF AnswerLost, IInv, Troubles
<1>2. CASE pc' = "sync" /\ order' = NoOrder /\ UNCHANGED row
    BY <1>1, <1>2, NoOrderType DEF AnswerLost, IInv, TypeOK, Known, row, outside
<1>3. CASE \E b \in BOOLEAN : Respond(order, 0, b)
    BY <1>1, <1>3, RespondKeepsIInv DEF AnswerLost
<1> QED BY <1>2, <1>3 DEF AnswerLost

LEMMA SettleType ==
    ASSUME IInv, Settle
    PROVE  IInv'
<1>1. Len(trades) \in Nat
    BY LedgerLength
<1> QED BY <1>1 DEF Settle, IInv, TypeOK, Known, outside

LEMMA GiveUpType ==
    ASSUME IInv, GiveUp
    PROVE  IInv'
<1>1. trouble' \subseteq Troubles /\ troubles' \in 0 .. MaxTroubles
    BY SufferType DEF GiveUp, IInv, Troubles
<1> QED BY <1>1, NoOrderType DEF GiveUp, IInv, TypeOK, Known, row, outside

-----------------------------------------------------------------------------
LEMMA NextIInv == IInv /\ [Next]_vars => IInv'
<1> SUFFICES ASSUME IInv, [Next]_vars PROVE IInv'
    OBVIOUS
<1>1. CASE Loop
    BY <1>1, ReadType, ApplyType, SyncClearType, SyncFailsType, ReconcileType, EvaluateType,
       BeginOrderType, PlaceType, DecideType, RecheckType, RecordedType, OrderFailsType,
       AnswerLostType, SettleType, GiveUpType DEF Loop
<1>2. CASE Stream
    BY <1>2, StreamOpenType, StreamIngestType, StreamClearType DEF Stream
<1>3. CASE World
    BY <1>3, ExchangeType, ExchangeLateType, CandleClosesType, ClosedOutsideType,
       AddedOutsideType, RestartType DEF World
<1>4. CASE UNCHANGED vars
    BY <1>4 DEF vars, IInv, TypeOK, Known
<1> QED BY <1>1, <1>2, <1>3, <1>4 DEF Next

(* Every variable keeps its type: the position never leaves the margin,    *)
(* whatever orders, retries and threads run late, and the instance of the  *)
(* row is always one that the ledger knows, whoever writes them last.      *)
THEOREM TypeCorrect == Spec => []TypeOK
<1>1. IInv => TypeOK
    BY DEF IInv
<1> QED BY <1>1, InitIInv, NextIInv, PTL DEF Spec

-----------------------------------------------------------------------------
(* Signs and sizes.                                                        *)

(* x has the side of y, unless there is no x. *)
Aligned(x, y) == (x > 0 => y > 0) /\ (x < 0 => y < 0)

(* An order of direction d adds nothing to x; it reduces x. *)
Against(x, d) == (d = 1 => x =< 0) /\ (d = -1 => x >= 0)
Opposes(x, d) == (d = 1 => x < 0) /\ (d = -1 => x > 0)

LEMMA Products ==
    ASSUME NEW x \in Int, NEW y \in Int
    PROVE  /\ x * y \in Int
           /\ x * y > 0 <=> (x > 0 /\ y > 0) \/ (x < 0 /\ y < 0)
OBVIOUS

(* An exit signal is for the side opposite to the position. *)
LEMMA Opposite ==
    ASSUME NEW x \in Int, x # 0
    PROVE  /\ -Sign(x) \in {-1, 1} /\ Opposes(x, -Sign(x))
           /\ x > 0 => -Sign(x) = -1
           /\ x < 0 => -Sign(x) = 1
<1>1. CASE x > 0
    BY <1>1 DEF Sign, Opposes
<1>2. CASE x < 0
    <2>1. Sign(x) \in Int /\ Sign(x) + 1 = 0
        BY <1>2 DEF Sign
    <2>2. \A s \in Int : s + 1 = 0 => -s = 1
        OBVIOUS
    <2>3. -Sign(x) = 1
        BY <2>1, <2>2
    <2> QED BY <1>2, <2>3 DEF Opposes
<1> QED BY <1>1, <1>2

(* The strategy's share is its contribution or what there is of it. *)
LEMMA ShareFacts ==
    ASSUME NEW x \in Int, NEW p \in Int
    PROVE  /\ Share(x, p) \in Int
           /\ Aligned(Share(x, p), p) /\ Size(Share(x, p)) =< Size(p)
           /\ Aligned(Share(x, p), x) /\ Size(Share(x, p)) =< Size(x)
           /\ Aligned(x, p) /\ Size(x) =< Size(p) => Share(x, p) = x
<1>1. x * p =< 0 <=> ~((x > 0 /\ p > 0) \/ (x < 0 /\ p < 0))
    BY Products
<1> QED BY <1>1 DEF Share, Aligned, Size

(* What an order that is not rejected does to the position. *)
LEMMA ExecutedFacts ==
    ASSUME TypeOK, NEW o \in Orders, ~Rejects(o)
    PROVE  /\ exch \in Int /\ own \in Int /\ Executed(o) \in Nat /\ o.d * Executed(o) \in Int
           /\ o.d = 1 => o.d * Executed(o) = Executed(o)
           /\ o.d = -1 => o.d * Executed(o) = -Executed(o)
           /\ o.reduce => Opposes(exch, o.d) /\ Executed(o) =< Size(exch)
           /\ Executed(o) =< o.qty
           /\ ~o.reduce => Executed(o) = o.qty
           /\ o.qty > 0 => Executed(o) > 0
<1>1. exch \in Int /\ own \in Int
    BY TypesOfNumbers DEF TypeOK
<1>2. o.d \in {-1, 1} /\ o.qty \in Nat /\ o.reduce \in BOOLEAN
    BY DEF Orders
<1>3. Executed(o) \in Nat /\ Executed(o) =< o.qty /\ (~o.reduce => Executed(o) = o.qty)
    <2>1. Size(exch) \in Nat
        BY <1>1, SizeType
    <2>2. CASE o.reduce
        BY <1>2, <2>1, <2>2, LeastType DEF Executed
    <2>3. CASE ~o.reduce
        BY <1>2, <2>3 DEF Executed
    <2> QED BY <1>2, <2>2, <2>3
<1>4. /\ Executed(o) * o.d \in Int /\ o.d * Executed(o) = Executed(o) * o.d
      /\ o.d = 1 => Executed(o) * o.d = Executed(o)
      /\ o.d = -1 => Executed(o) * o.d = -Executed(o)
    BY <1>2, <1>3, OneWay
<1>5. CASE o.reduce
    <2>1. /\ ~(exch * o.d >= 0) /\ exch * o.d \in Int
          /\ o.d = 1 => exch * o.d = exch
          /\ o.d = -1 => exch * o.d = -exch
        BY <1>1, <1>2, <1>5, OneWay DEF Rejects
    <2>2. Opposes(exch, o.d)
        BY <1>1, <1>2, <2>1 DEF Opposes
    <2>3. Executed(o) =< Size(exch) /\ (o.qty > 0 => Executed(o) > 0)
        BY <1>1, <1>2, <1>5, <2>2 DEF Executed, Least, Size, Opposes
    <2> QED BY <1>1, <1>2, <1>3, <1>4, <2>2, <2>3
<1>6. CASE ~o.reduce
    BY <1>1, <1>2, <1>3, <1>4, <1>6
<1> QED BY <1>2, <1>5, <1>6

(* What has happened is not forgotten. *)
LEMMA TroubleGrows == [Next]_vars => trouble \subseteq trouble'
<1> SUFFICES ASSUME [Next]_vars PROVE trouble \subseteq trouble'
    OBVIOUS
<1> USE DEF Suffer, TakenOver, Reads, row, loop, outside
<1>1. CASE Loop
    BY <1>1 DEF Loop, Sync, Apply, SyncClear, SyncFails, BeginReconcile, Reconcile, Evaluate,
       BeginOrder, Place, Decide, Recheck, Skip, OrderFails, Record, AnswerLost, Settle, GiveUp
<1>2. CASE Stream
    BY <1>2 DEF Stream, StreamOpen, StreamIngest, StreamClear
<1>3. CASE World
    BY <1>3 DEF World, Exchange, ExchangeLate, CandleCloses, ClosedOutside, AddedOutside, Restart
<1>4. CASE UNCHANGED vars
    BY <1>4 DEF vars
<1> QED BY <1>1, <1>2, <1>3, <1>4 DEF Next

-----------------------------------------------------------------------------
(* The strategy's share is part of the position, on the same side.         *)
Shared == Aligned(own, exch) /\ Size(own) =< Size(exch)

LEMMA MoveShares ==
    ASSUME exch \in Int, own \in Int, NEW x \in Int, Move(x)
    PROVE  Shared'
BY ShareFacts DEF Move, Shared

(* Only Binance and the world outside change it. *)
LEMMA LoopLeavesPosition ==
    ASSUME Loop \/ Stream \/ CandleCloses \/ Restart \/ UNCHANGED vars
    PROVE  UNCHANGED <<exch, own>>
<1> USE DEF outside
<1>1. CASE Loop
    BY <1>1 DEF Loop, Sync, Apply, SyncClear, SyncFails, BeginReconcile, Reconcile, Evaluate,
       BeginOrder, Place, Decide, Recheck, Skip, OrderFails, Record, AnswerLost, Settle, GiveUp
<1>2. CASE Stream
    BY <1>2 DEF Stream, StreamOpen, StreamIngest, StreamClear
<1>3. CASE CandleCloses
    BY <1>3 DEF CandleCloses
<1>4. CASE Restart
    BY <1>4 DEF Restart
<1>5. CASE UNCHANGED vars
    BY <1>5 DEF vars
<1> QED BY <1>1, <1>2, <1>3, <1>4, <1>5

LEMMA NextShared == IInv /\ Shared /\ [Next]_vars => Shared'
<1> SUFFICES ASSUME IInv, Shared, [Next]_vars PROVE Shared'
    OBVIOUS
<1>1. TypeOK /\ exch \in Int /\ own \in Int /\ order \in Orders /\ late \in Orders
    BY TypesOfNumbers DEF IInv, TypeOK
<1>2. CASE Exchange
    BY <1>1, <1>2, ExecutedFacts, MoveShares DEF Exchange, Shared
<1>3. CASE ExchangeLate
    BY <1>1, <1>3, ExecutedFacts, MoveShares DEF ExchangeLate, Shared
<1>4. CASE ClosedOutside
    BY <1>4 DEF ClosedOutside, Shared, Aligned, Size
<1>5. CASE AddedOutside
    <2>1. PICK side \in {-1, 1} : exch * side >= 0 /\ exch' = exch + side /\ own' = own
        BY <1>5 DEF AddedOutside
    <2>2. /\ exch * side \in Int
          /\ side = 1 => exch * side = exch
          /\ side = -1 => exch * side = -exch
        BY <1>1, OneWay
    <2> QED BY <1>1, <2>1, <2>2 DEF Shared, Aligned, Size
<1>6. CASE Loop \/ Stream \/ CandleCloses \/ Restart \/ UNCHANGED vars
    BY <1>6, LoopLeavesPosition DEF Shared
<1> QED BY <1>2, <1>3, <1>4, <1>5, <1>6 DEF Next, World

-----------------------------------------------------------------------------
(* Where the loop is tells how far the order is, and what is in it.        *)
OrderKnown ==
    /\ pc \notin {"begin", "place", "decide", "recheck", "skip", "answer"} => order = NoOrder
    /\ pc \in {"begin", "place", "decide"} => order.at = "signal" /\ order.qty = 0 /\ ~order.reduce
    /\ pc \in {"recheck", "skip"} => order.at = "signal" /\ order.qty > 0 /\ order.reduce
    /\ pc = "answer" => order.at # "signal" /\ order.qty > 0
    /\ ~order.reduce => order.qty =< 1

LEMMA NoOrderFacts ==
    /\ NoOrder.at = "signal" /\ NoOrder.qty = 0 /\ ~NoOrder.reduce /\ ~NoOrder.exit
    /\ NoOrder.prev = 0 /\ NoOrder.d = 1
BY DEF NoOrder

(* The instance a decision is about owns a natural number of lots. *)
LEMMA OwnedType ==
    ASSUME IInv, NEW side
    PROVE  /\ Owned(inst, side) \in Nat
           /\ Owned(inst, side) # 0 => /\ inst \in 1 .. Len(trades)
                                       /\ trades[inst] \in TradeSums /\ trades[inst].side = side
                                       /\ trades[inst].sold < trades[inst].bought
                                       /\ Owned(inst, side) = trades[inst].bought - trades[inst].sold
<1>1. Len(trades) \in Nat /\ TypeOK
    BY LedgerLength
<1>2. CASE Owned(inst, side) = 0
    BY <1>2
<1>3. CASE Owned(inst, side) # 0
    <2>1. inst \in 1 .. Len(trades)
        BY <1>1, <1>3 DEF Owned, TypeOK
    <2>2. trades[inst] \in TradeSums
        BY <1>1, <2>1, ElementOfSeq DEF TypeOK
    <2> QED BY <1>3, <2>1, <2>2 DEF Owned, TradeSums
<1> QED BY <1>2, <1>3

(* A signal, as Evaluate makes one. *)
LEMMA SignalFacts ==
    ASSUME NEW d \in {-1, 1}, NEW b \in BOOLEAN, Signal(d, b)
    PROVE  /\ pc' = "begin" /\ order'.d = d /\ order'.exit = b /\ order'.prev = 0
           /\ order'.qty = 0 /\ ~order'.reduce /\ order'.at = "signal"
BY DEF Signal, NoOrder

(* Decide, branch by branch. *)
LEMMA DecideFacts ==
    ASSUME IInv, Decide
    PROVE  LET current == IF read # 0 THEN read ELSE sum IN
           /\ current \in Int /\ order \in Orders
           /\ \/ /\ Opposes(current, order.d) /\ Owned(inst, Sign(current)) = 0
                 /\ \E b \in BOOLEAN : Respond(order, 0, b)
              \/ /\ Opposes(current, order.d) /\ Owned(inst, Sign(current)) \in Nat \ {0}
                 /\ order' = [order EXCEPT
                                !.qty = Least(Owned(inst, Sign(current)), Size(current)),
                                !.reduce = TRUE]
                 /\ Least(Owned(inst, Sign(current)), Size(current)) \in Nat \ {0}
                 /\ pc' = "recheck" /\ UNCHANGED row
              \/ /\ ~Opposes(current, order.d)
                 /\ order' = [order EXCEPT !.qty = 1, !.at = "sent"]
                 /\ pc' = "answer" /\ UNCHANGED row
<1> DEFINE current == IF read # 0 THEN read ELSE sum
           owned == Owned(inst, Sign(current))
<1>1. TypeOK /\ current \in Int /\ order \in Orders /\ order.d \in {-1, 1}
    BY TypesOfNumbers DEF IInv, TypeOK, Orders
<1>2. owned \in Nat
    BY OwnedType
<1>3. current * order.d < 0 <=> Opposes(current, order.d)
    <2> HIDE DEF current
    <2>1. /\ current * order.d \in Int
          /\ order.d = 1 => current * order.d = current
          /\ order.d = -1 => current * order.d = -current
        BY <1>1, OneWay
    <2> QED BY <1>1, <2>1 DEF Opposes
<1>4. Opposes(current, order.d) /\ owned # 0 => Least(owned, Size(current)) \in Nat \ {0}
    BY <1>1, <1>2 DEF Least, Size, Opposes
<1>5. current * order.d >= 0 => ~(current * order.d < 0)
    <2> HIDE DEF current
    <2>1. current * order.d \in Int
        BY <1>1, OneWay
    <2> QED BY <2>1
<1>6. \/ /\ current * order.d < 0 /\ owned = 0
         /\ \E b \in BOOLEAN : Respond(order, 0, b)
      \/ /\ current * order.d < 0 /\ owned # 0
         /\ order' = [order EXCEPT !.qty = Least(owned, Size(current)), !.reduce = TRUE]
         /\ pc' = "recheck" /\ UNCHANGED row
      \/ /\ current * order.d >= 0
         /\ order' = [order EXCEPT !.qty = 1, !.at = "sent"]
         /\ pc' = "answer" /\ UNCHANGED row
    BY DEF Decide
<1> HIDE DEF current, owned
<1>7. \/ /\ Opposes(current, order.d) /\ owned = 0
         /\ \E b \in BOOLEAN : Respond(order, 0, b)
      \/ /\ Opposes(current, order.d) /\ owned \in Nat \ {0}
         /\ order' = [order EXCEPT !.qty = Least(owned, Size(current)), !.reduce = TRUE]
         /\ Least(owned, Size(current)) \in Nat \ {0}
         /\ pc' = "recheck" /\ UNCHANGED row
      \/ /\ ~Opposes(current, order.d)
         /\ order' = [order EXCEPT !.qty = 1, !.at = "sent"]
         /\ pc' = "answer" /\ UNCHANGED row
    BY <1>2, <1>3, <1>4, <1>5, <1>6
<1> QED BY <1>1, <1>7 DEF current, owned

LEMMA RespondEnds ==
    ASSUME NEW o, NEW q, NEW b, Respond(o, q, b)
    PROVE  pc' \in {"settle", "sync"} /\ order' = NoOrder
BY DEF Respond

LEMMA NextOrderKnown == IInv /\ OrderKnown /\ [Next]_vars => OrderKnown'
<1> SUFFICES ASSUME IInv, OrderKnown, [Next]_vars PROVE OrderKnown'
    OBVIOUS
<1>1. TypeOK /\ order \in Orders /\ sum \in Int
    BY DEF IInv, TypeOK
<1>2. CASE \E q, b : Respond(order, q, b)
    BY <1>2, RespondEnds, NoOrderFacts DEF OrderKnown
<1>3. CASE order' = NoOrder /\ pc' \notin {"begin", "place", "decide", "recheck", "skip", "answer"}
    BY <1>3, NoOrderFacts DEF OrderKnown
<1>4. CASE Sync \/ Apply \/ SyncClear \/ SyncFails \/ BeginReconcile \/ Reconcile
    BY <1>4 DEF OrderKnown, Sync, Apply, SyncClear, SyncFails, BeginReconcile, Reconcile
<1>5. CASE Evaluate
    <2>1. ASSUME NEW d \in {-1, 1}, NEW b \in BOOLEAN, Signal(d, b)
          PROVE  OrderKnown'
        BY <2>1, SignalFacts DEF OrderKnown
    <2>2. sum # 0 => -Sign(sum) \in {-1, 1}
        BY <1>1, SignType
    <2>3. CASE pc' = "sync" /\ UNCHANGED order
        BY <1>5, <2>3 DEF OrderKnown, Evaluate
    <2> QED BY <1>5, <2>1, <2>2, <2>3, TypesOfNumbers DEF Evaluate
<1>6. CASE BeginOrder \/ Place
    BY <1>1, <1>6 DEF OrderKnown, BeginOrder, Place, Orders
<1>7. CASE Decide
    <2> DEFINE current == IF read # 0 THEN read ELSE sum
               least == Least(Owned(inst, Sign(current)), Size(current))
    <2>1. CASE \E b : Respond(order, 0, b)
        BY <1>2, <2>1
    <2>2. CASE /\ order' = [order EXCEPT !.qty = least, !.reduce = TRUE]
               /\ least \in Nat \ {0} /\ pc' = "recheck"
        <3> HIDE DEF least
        <3> QED BY <1>1, <1>7, <2>2 DEF OrderKnown, Decide, Orders
    <2>3. CASE order' = [order EXCEPT !.qty = 1, !.at = "sent"] /\ pc' = "answer"
        BY <1>1, <2>3 DEF OrderKnown, Orders
    <2> QED BY <1>7, <2>1, <2>2, <2>3, DecideFacts
<1>8. CASE Recheck
    BY <1>1, <1>8 DEF OrderKnown, Recheck, Orders
<1>9. CASE Skip \/ Record \/ AnswerLost
    BY <1>2, <1>3, <1>9 DEF Skip, Record, AnswerLost
<1>10. CASE OrderFails \/ GiveUp \/ Restart
    BY <1>3, <1>10 DEF OrderFails, GiveUp, Restart
<1>11. CASE Settle
    BY <1>11 DEF OrderKnown, Settle
<1>12. CASE Exchange
    <2>1. CASE Rejects(order)
        BY <1>1, <1>12, <2>1 DEF OrderKnown, Exchange, Orders
    <2>2. CASE ~Rejects(order)
        <3>1. /\ Executed(order) \in Nat /\ (order.qty > 0 => Executed(order) > 0)
              /\ (~order.reduce => Executed(order) = order.qty)
            BY <1>1, <2>2, ExecutedFacts
        <3> QED BY <1>1, <1>12, <2>2, <3>1 DEF OrderKnown, Exchange, Orders
    <2> QED BY <2>1, <2>2
<1>13. CASE Stream \/ ExchangeLate \/ CandleCloses \/ ClosedOutside \/ AddedOutside \/ UNCHANGED vars
    BY <1>13 DEF OrderKnown, Stream, StreamOpen, StreamIngest, StreamClear, ExchangeLate,
       CandleCloses, ClosedOutside, AddedOutside, loop, vars
<1> QED BY <1>4, <1>5, <1>6, <1>7, <1>8, <1>9, <1>10, <1>11, <1>12, <1>13 DEF Next, Loop, World

-----------------------------------------------------------------------------
(* The strategy never adds to its own position.  Unless the loop gives up  *)
(* an order or takes over what is not true, no order is late, an order is  *)
(* made only where its own share of the position is known, and until it    *)
(* is decided on nothing is added to that share.                           *)
Clean == trouble \cap {"giveup", "sync", "stale"} = {}

Pending == pc \in {"begin", "place", "decide", "recheck", "skip"} \/ order.at = "sent"

SingleInv ==
    Clean =>
        /\ late = NoOrder
        /\ Size(own) =< 1
        /\ pc = "evaluate" => Aligned(own, sum)
        /\ Pending => Against(own, order.d)

LEMMA SingleUnchanged ==
    ASSUME SingleInv, Clean' => Clean, UNCHANGED <<own, late>>,
           pc' # "evaluate" \/ UNCHANGED <<pc, sum>>,
           ~Pending' \/ (Pending /\ order'.d = order.d)
    PROVE  SingleInv'
BY DEF SingleInv, Aligned, Against

(* The share after an order of q lots in direction d that it is against.  *)
LEMMA OneLotLeft ==
    ASSUME NEW s \in Int, NEW p \in Int, NEW t \in Int, NEW q \in Nat, NEW d \in {-1, 1},
           NEW x \in Int, d = 1 => x = q, d = -1 => x = -q,
           Size(s) =< 1, Against(s, d), Aligned(s, p), Size(s) =< Size(p),
           Aligned(t, p + x), Aligned(t, s + x), Size(t) =< Size(s + x),
           q =< 1 \/ (Opposes(p, d) /\ q =< Size(p))
    PROVE  Size(t) =< 1
<1>1. CASE d = 1
    BY <1>1 DEF Size, Aligned, Against, Opposes
<1>2. CASE d = -1
    BY <1>2 DEF Size, Aligned, Against, Opposes
<1> QED BY <1>1, <1>2

(* An order makes of the strategy's share at most one lot. *)
LEMMA OneLot ==
    ASSUME IInv, OrderKnown, Shared, pc = "answer", ~Rejects(order),
           Size(own) =< 1, Against(own, order.d), Move(order.d * Executed(order))
    PROVE  Size(own') =< 1
<1>1. TypeOK /\ order \in Orders /\ order.d \in {-1, 1}
    BY DEF IInv, TypeOK, Orders
<1> DEFINE x == order.d * Executed(order)
<1>2. /\ exch \in Int /\ own \in Int /\ Executed(order) \in Nat /\ x \in Int
      /\ order.d = 1 => x = Executed(order)
      /\ order.d = -1 => x = -Executed(order)
      /\ order.reduce => Opposes(exch, order.d) /\ Executed(order) =< Size(exch)
      /\ ~order.reduce => Executed(order) = order.qty
    BY <1>1, ExecutedFacts
<1>3. own' = Share(own + x, exch + x)
    BY DEF Move
<1> HIDE DEF x
<1>4. /\ own' \in Int
      /\ Aligned(own', exch + x) /\ Aligned(own', own + x)
      /\ Size(own') =< Size(own + x) /\ Size(own') =< Size(exch + x)
    BY <1>2, <1>3, ShareFacts
<1>5. Executed(order) =< 1 \/ (Opposes(exch, order.d) /\ Executed(order) =< Size(exch))
    BY <1>1, <1>2 DEF OrderKnown, Orders
<1> QED BY <1>1, <1>2, <1>4, <1>5, OneLotLeft DEF Shared

LEMMA NextSingle == IInv /\ Shared /\ OrderKnown /\ SingleInv /\ [Next]_vars => SingleInv'
<1> SUFFICES ASSUME IInv, Shared, OrderKnown, SingleInv, [Next]_vars, Clean'
             PROVE  SingleInv'
    BY DEF SingleInv
<1>1. /\ TypeOK /\ exch \in Int /\ own \in Int /\ sum \in Int
      /\ order \in Orders /\ order.d \in {-1, 1} /\ late \in Orders
    BY TypesOfNumbers DEF IInv, TypeOK, Orders
<1>2. Clean /\ late = NoOrder /\ Size(own) =< 1
    BY TroubleGrows DEF Clean, SingleInv
<1>3. \A x : trouble' = TakenOver(x) => x = exch
    BY DEF Clean, TakenOver
<1>4. CASE \E q, b : Respond(order, q, b) /\ UNCHANGED <<own, late>>
    BY <1>2, <1>4, RespondEnds, NoOrderFacts DEF SingleInv, Pending
<1>5. CASE Sync \/ BeginReconcile
    BY <1>2, <1>5, SingleUnchanged, NoOrderFacts
       DEF Sync, BeginReconcile, outside, Pending, OrderKnown
<1>6. CASE Apply \/ SyncClear \/ Reconcile
    BY <1>1, <1>2, <1>3, <1>6, NoOrderFacts
       DEF Apply, SyncClear, Reconcile, outside, SingleInv, Pending, OrderKnown, Shared, Aligned, Size
<1>7. CASE SyncFails
    BY <1>7 DEF SyncFails, Suffer, Clean
<1>8. CASE Evaluate
    <2>1. Aligned(own, sum) /\ UNCHANGED <<own, late>> /\ pc' # "evaluate"
        BY <1>2, <1>8 DEF Evaluate, Signal, SingleInv, outside
    <2>2. CASE pc' = "sync" /\ UNCHANGED order
        BY <1>2, <1>8, <2>1, <2>2, NoOrderFacts DEF Evaluate, SingleInv, Pending, OrderKnown
    <2>3. ASSUME NEW d \in {-1, 1}, NEW b \in BOOLEAN, Signal(d, b), Against(own, d)
          PROVE  SingleInv'
        BY <1>2, <2>1, <2>3, SignalFacts DEF SingleInv, Against
    <2>4. CASE sum # 0 /\ Signal(-Sign(sum), TRUE)
        <3>1. -Sign(sum) \in {-1, 1} /\ Against(own, -Sign(sum))
            BY <1>1, <2>1, <2>4, Opposite DEF Against, Aligned
        <3> QED BY <2>3, <2>4, <3>1
    <2>5. CASE sum = 0 /\ \E d \in Sides : Signal(d, FALSE)
        <3>1. own = 0
            BY <1>1, <2>1, <2>5 DEF Aligned
        <3>2. PICK d \in Sides : Signal(d, FALSE)
            BY <2>5
        <3>3. d \in {-1, 1} /\ Against(own, d)
            BY <3>1, TypesOfNumbers DEF Against
        <3> QED BY <2>3, <3>2, <3>3
    <2> QED BY <1>8, <2>2, <2>4, <2>5 DEF Evaluate
<1>9. CASE BeginOrder \/ Place \/ Recheck
    <2>1. /\ Pending /\ order'.d = order.d /\ pc' # "evaluate" /\ UNCHANGED <<own, late>>
        BY <1>1, <1>9 DEF BeginOrder, Place, Recheck, Pending, Orders, outside
    <2> QED BY <1>2, <2>1, SingleUnchanged
<1>10. CASE Decide
    <2>1. UNCHANGED <<own, late>> /\ Pending
        BY <1>10 DEF Decide, outside, Pending
    <2>2. (order'.d = order.d /\ pc' # "evaluate") \/ \E q, b : Respond(order, q, b)
        BY <1>1, <1>10, DecideFacts DEF Orders
    <2> QED BY <1>2, <1>4, <2>1, <2>2, SingleUnchanged
<1>11. CASE Skip \/ Record
    BY <1>4, <1>11 DEF Skip, Record, outside
<1>12. CASE AnswerLost
    <2>1. CASE pc' = "sync" /\ order' = NoOrder
        BY <1>2, <1>12, <2>1, NoOrderFacts DEF AnswerLost, outside, SingleInv, Pending
    <2> QED BY <1>4, <1>12, <2>1 DEF AnswerLost, outside
<1>13. CASE OrderFails
    BY <1>2, <1>13, NoOrderFacts DEF OrderFails, outside, SingleInv, Pending
<1>14. CASE Settle
    BY <1>2, <1>14, NoOrderFacts DEF Settle, outside, SingleInv, Pending, OrderKnown
<1>15. CASE GiveUp
    BY <1>15 DEF GiveUp, Suffer, Clean
<1>16. CASE Restart
    BY <1>2, <1>16, NoOrderFacts DEF Restart, SingleInv, Pending
<1>17. CASE Exchange
    <2>1. /\ pc = "answer" /\ pc' = "answer" /\ order.at = "sent" /\ Pending
          /\ order'.at # "sent" /\ late' = NoOrder
        BY <1>1, <1>2, <1>17 DEF Exchange, Pending, Orders
    <2>2. Size(own') =< 1
        <3>1. Against(own, order.d)
            BY <1>2, <2>1 DEF SingleInv
        <3> QED BY <1>2, <1>17, <2>1, <3>1, OneLot DEF Exchange
    <2> QED BY <2>1, <2>2 DEF SingleInv, Pending
<1>18. CASE ExchangeLate
    BY <1>2, <1>18 DEF ExchangeLate
<1>19. CASE ClosedOutside
    BY <1>2, <1>19 DEF ClosedOutside, SingleInv, Pending, loop, Aligned, Against, Size
<1>20. CASE CandleCloses \/ AddedOutside \/ StreamIngest \/ UNCHANGED vars
    <2>1. UNCHANGED <<own, late, pc, sum, order>>
        BY <1>20 DEF CandleCloses, AddedOutside, StreamIngest, row, loop, vars
    <2> QED BY <1>2, <2>1, SingleUnchanged DEF Pending
<1>21. CASE StreamOpen \/ StreamClear
    <2>1. UNCHANGED <<own, late, pc, order>> /\ sum' = exch
        BY <1>3, <1>21 DEF StreamOpen, StreamClear, loop
    <2> QED BY <1>2, <2>1 DEF SingleInv, Pending, Shared
<1> QED BY <1>5, <1>6, <1>7, <1>8, <1>9, <1>10, <1>11, <1>12, <1>13, <1>14, <1>15, <1>16, <1>17,
           <1>18, <1>19, <1>20, <1>21 DEF Next, Loop, Stream, World

-----------------------------------------------------------------------------
(* An exit meets the position it was decided on.  Unless a read fails or   *)
(* somebody else closes the position, an exit signal is for the opposite   *)
(* of what is on Binance, and so it becomes a reduce-only order.           *)
Quiet == trouble \subseteq {"answer", "restart", "adds"}

ReducesInv ==
    Quiet =>
        /\ pc \in {"evaluate", "begin"} => Aligned(sum, exch)
        /\ order.exit /\ Pending => Opposes(exch, order.d)
        /\ order.exit /\ pc = "decide" => Opposes(read, order.d)
        /\ order.exit /\ order.at = "sent" => order.reduce

LEMMA QuietIsClean == Quiet => Clean
BY DEF Quiet, Clean

(* In quiet times a read answers the position, which another can only      *)
(* enlarge, and what is taken over is the position.                        *)
LEMMA QuietFacts ==
    ASSUME Quiet'
    PROVE  /\ Reads => read' = exch
           /\ \A x : trouble' = TakenOver(x) => x = exch
           /\ ~ClosedOutside /\ ~GiveUp /\ ~SyncFails
BY DEF Quiet, Reads, TakenOver, Suffer, ClosedOutside, GiveUp, SyncFails

LEMMA AddsFacts ==
    ASSUME exch \in Int, AddedOutside
    PROVE  /\ exch' \in Int
           /\ exch > 0 => exch' > 0
           /\ exch < 0 => exch' < 0
           /\ UNCHANGED <<own, candle, clearing, row, loop>>
<1>1. PICK side \in {-1, 1} : exch * side >= 0 /\ exch' = exch + side
    BY DEF AddedOutside
<1>2. /\ exch * side \in Int
      /\ side = 1 => exch * side = exch
      /\ side = -1 => exch * side = -exch
    BY OneWay
<1> QED BY <1>1, <1>2 DEF AddedOutside

LEMMA NextReduces ==
    IInv /\ Shared /\ OrderKnown /\ SingleInv /\ ReducesInv /\ [Next]_vars => ReducesInv'
<1> SUFFICES ASSUME IInv, Shared, OrderKnown, SingleInv, ReducesInv, [Next]_vars, Quiet'
             PROVE  ReducesInv'
    BY DEF ReducesInv
<1>1. /\ TypeOK /\ exch \in Int /\ sum \in Int /\ read \in Int
      /\ order \in Orders /\ order.d \in {-1, 1} /\ order.exit \in BOOLEAN
    BY TypesOfNumbers DEF IInv, TypeOK, Orders
<1>2. Quiet /\ Clean /\ late = NoOrder
    BY TroubleGrows, QuietIsClean DEF Quiet, SingleInv
<1>3. CASE ~order'.exit /\ (pc' \notin {"evaluate", "begin"} \/ sum' = exch')
    BY <1>3 DEF ReducesInv, Aligned
<1>4. CASE \E q, b : Respond(order, q, b)
    BY <1>3, <1>4, RespondEnds, NoOrderFacts
<1>5. CASE Sync \/ BeginReconcile
    BY <1>3, <1>5, NoOrderFacts DEF Sync, BeginReconcile, OrderKnown
<1>6. CASE Apply \/ SyncClear \/ Reconcile
    BY <1>3, <1>6, NoOrderFacts, QuietFacts
       DEF Apply, SyncClear, Reconcile, outside, OrderKnown
<1>7. CASE SyncFails \/ GiveUp \/ ClosedOutside
    BY <1>7, QuietFacts
<1>8. CASE Evaluate
    <2>1. Aligned(sum, exch) /\ UNCHANGED <<sum, exch>>
        BY <1>2, <1>8 DEF Evaluate, ReducesInv, outside, row
    <2>2. CASE pc' = "sync" /\ UNCHANGED order
        BY <1>3, <1>8, <2>2, NoOrderFacts DEF Evaluate, OrderKnown
    <2>3. CASE sum # 0 /\ Signal(-Sign(sum), TRUE)
        <3>1. -Sign(sum) \in {-1, 1} /\ Opposes(exch, -Sign(sum))
            BY <1>1, <2>1, <2>3, Opposite DEF Opposes, Aligned
        <3> QED BY <2>1, <2>3, <3>1, SignalFacts DEF ReducesInv
    <2>4. CASE \E d \in Sides : Signal(d, FALSE)
        <3>1. PICK d \in Sides : Signal(d, FALSE)
            BY <2>4
        <3> QED BY <2>1, <3>1, SignalFacts, TypesOfNumbers DEF ReducesInv
    <2> QED BY <1>8, <2>2, <2>3, <2>4 DEF Evaluate
<1>9. CASE BeginOrder
    BY <1>1, <1>2, <1>9 DEF BeginOrder, ReducesInv, OrderKnown, Pending, Orders, outside
<1>10. CASE Place
    BY <1>1, <1>2, <1>10, QuietFacts DEF Place, ReducesInv, OrderKnown, Pending, outside
<1>11. CASE Decide
    <2> DEFINE current == IF read # 0 THEN read ELSE sum
               least == Least(Owned(inst, Sign(current)), Size(current))
    <2>1. /\ pc = "decide" /\ UNCHANGED exch /\ Pending
          /\ order.exit => Opposes(exch, order.d) /\ Opposes(read, order.d)
        BY <1>2, <1>11 DEF Decide, ReducesInv, Pending, outside
    <2>2. order.exit => Opposes(current, order.d)
        BY <1>1, <2>1 DEF Opposes
    <2>3. CASE order' = [order EXCEPT !.qty = least, !.reduce = TRUE] /\ pc' = "recheck"
        <3> HIDE DEF least
        <3> QED BY <1>1, <2>1, <2>3 DEF ReducesInv, Orders
    <2>4. CASE /\ ~Opposes(current, order.d)
               /\ order' = [order EXCEPT !.qty = 1, !.at = "sent"] /\ pc' = "answer"
        BY <1>1, <2>2, <2>4 DEF ReducesInv, Orders
    <2> QED BY <1>4, <1>11, <2>3, <2>4, DecideFacts
<1>12. CASE Recheck
    BY <1>1, <1>2, <1>12 DEF Recheck, ReducesInv, OrderKnown, Pending, Orders, outside
<1>13. CASE Skip \/ Record
    BY <1>4, <1>13 DEF Skip, Record
<1>14. CASE AnswerLost
    BY <1>3, <1>4, <1>14, NoOrderFacts DEF AnswerLost
<1>15. CASE OrderFails \/ Restart
    BY <1>3, <1>15, NoOrderFacts DEF OrderFails, Restart
<1>16. CASE Settle
    BY <1>3, <1>16, NoOrderFacts DEF Settle, OrderKnown
<1>17. CASE Exchange
    BY <1>1, <1>17 DEF Exchange, ReducesInv, Pending, Orders
<1>18. CASE ExchangeLate
    BY <1>2, <1>18 DEF ExchangeLate
<1>19. CASE AddedOutside
    <2>1. UNCHANGED <<pc, sum, read, order>>
        BY <1>1, <1>19, AddsFacts DEF loop, row
    <2>2. /\ Aligned(sum, exch) => Aligned(sum, exch')
          /\ \A d \in {-1, 1} : Opposes(exch, d) => Opposes(exch', d)
        BY <1>1, <1>19, AddsFacts DEF Aligned, Opposes
    <2> QED BY <1>1, <1>2, <2>1, <2>2 DEF ReducesInv, Pending
<1>20. CASE CandleCloses \/ StreamIngest \/ UNCHANGED vars
    <2>1. UNCHANGED <<exch, pc, sum, read, order>>
        BY <1>20 DEF CandleCloses, StreamIngest, row, loop, vars
    <2> QED BY <1>2, <2>1 DEF ReducesInv, Pending, Aligned, Opposes
<1>21. CASE StreamOpen \/ StreamClear
    <2>1. UNCHANGED <<exch, pc, read, order>> /\ sum' = exch
        BY <1>21, QuietFacts DEF StreamOpen, StreamClear, loop
    <2> QED BY <1>2, <2>1 DEF ReducesInv, Pending, Aligned, Opposes
<1> QED BY <1>5, <1>6, <1>7, <1>8, <1>9, <1>10, <1>11, <1>12, <1>13, <1>14, <1>15, <1>16, <1>17,
           <1>18, <1>19, <1>20, <1>21 DEF Next, Loop, Stream, World

-----------------------------------------------------------------------------
(* Every entry has an instance of its own.  Unless an entry was begun      *)
(* beside several lots, no instance has bought more than one, so that no   *)
(* exit is for more.                                                       *)
SeparateInv ==
    "beside" \notin trouble =>
        /\ \A i \in DOMAIN trades : trades[i].bought =< 1
        /\ order.qty =< 1
        /\ ~order.exit => Size(order.prev) =< 1

LEMMA IngestedKeepsBought ==
    ASSUME TypeOK, NEW held, NEW t \in Ingested(held)
    PROVE  DOMAIN t = DOMAIN trades /\ \A i \in DOMAIN trades : t[i].bought = trades[i].bought
<1>1. \A i \in DOMAIN trades : trades[i] \in TradeSums
    BY ElementOfSeq, LenProperties DEF TypeOK
<1>2. CASE t = trades
    BY <1>2
<1>3. CASE t = [trades EXCEPT ![held.inst] = [trades[held.inst] EXCEPT !.sold = Size(held.pos)]]
    BY <1>1, <1>3 DEF TradeSums
<1> QED BY <1>2, <1>3 DEF Ingested

(* An order's direction against the position it was begun with, as the     *)
(* code computes it.                                                       *)
LEMMA DirectionFacts ==
    ASSUME NEW o \in Orders
    PROVE  /\ o.prev \in Int /\ o.d \in {-1, 1} /\ -o.d \in {-1, 1} /\ o.exit \in BOOLEAN
           /\ o.qty \in Nat /\ -o.d # o.d
           /\ o.prev * o.d < 0 <=> Opposes(o.prev, o.d)
<1>1. o.prev \in Int /\ o.d \in {-1, 1} /\ o.exit \in BOOLEAN /\ o.qty \in Nat
    BY DEF Orders
<1>2. /\ o.prev * o.d \in Int
      /\ o.d = 1 => o.prev * o.d = o.prev
      /\ o.d = -1 => o.prev * o.d = -o.prev
    BY <1>1, OneWay
<1> QED BY <1>1, <1>2 DEF Opposes

(* The instance a recorded answer belongs to, and what becomes of it.      *)
LEMMA RespondInstance ==
    ASSUME IInv, NEW o \in Orders, NEW q \in Nat, NEW b \in BOOLEAN, Respond(o, q, b)
    PROVE  /\ trades' = Tagged(inst', o, q)
           /\ inst' \in 0 .. Len(trades) + 1
           /\ inst' = Len(trades) + 1 => ~o.exit /\ q > 0
           /\ ~o.exit /\ q = 1 /\ Size(o.prev) =< 1 =>
                \/ inst' = Len(trades) + 1
                \/ inst' \in 1 .. Len(trades) /\ trades[inst'].side = -o.d
           /\ ~o.exit /\ q = 1 /\ Size(o.prev) =< 1 /\ ~Opposes(o.prev, o.d) =>
                inst' = Len(trades) + 1 /\ pc' = "sync"
<1> DEFINE closing == \/ o.prev * o.d < 0 /\ Size(o.prev) =< q
                      \/ o.prev = 0 /\ o.exit /\ b
           opening == ~o.exit /\ q > 0 /\ (o.prev = 0 \/ Size(o.prev) = q)
           flat == o.prev * o.d =< 0 /\ Size(o.prev) =< q /\ (o.prev # 0 \/ q = 0)
           found == IF closing THEN LastEntry(-o.d) ELSE 0
           i == IF found # 0 THEN found
                ELSE IF opening THEN Len(trades) + 1
                ELSE IF inst = 0 /\ sum # 0 /\ ~flat THEN LastEntry(Sign(sum))
                ELSE inst
           drops == /\ o.exit \/ o.prev * o.d < 0
                    /\ inst # 0 \/ (found = 0 /\ i # 0)
<1>1. Len(trades) \in Nat /\ TypeOK /\ sum \in Int /\ inst \in 0 .. Len(trades)
    BY LedgerLength DEF TypeOK
<1>2. /\ o.prev \in Int /\ o.d \in {-1, 1} /\ -o.d \in {-1, 1} /\ o.exit \in BOOLEAN
      /\ o.prev * o.d < 0 <=> Opposes(o.prev, o.d)
    BY DirectionFacts
<1>3. trades' = Tagged(i, o, q) /\ inst' = i /\ pc' = IF drops THEN "settle" ELSE "sync"
    BY DEF Respond
<1>4. found \in 0 .. Len(trades) /\ (found # 0 => trades[found].side = -o.d)
    BY <1>1, <1>2, LastEntryType
<1>5. sum # 0 => LastEntry(Sign(sum)) \in 0 .. Len(trades)
    BY <1>1, SignType, LastEntryType
<1>6. opening => ~o.exit /\ q > 0
    OBVIOUS
<1>7. i \in 0 .. Len(trades) + 1 /\ (i = Len(trades) + 1 => opening)
    <2> HIDE DEF found, flat, opening
    <2> QED BY <1>1, <1>4, <1>5
<1>8. ASSUME ~o.exit, q = 1, Size(o.prev) =< 1
      PROVE  opening \/ found # 0 \/ Opposes(o.prev, o.d)
    BY <1>2, <1>8 DEF Size
<1>9. ASSUME ~o.exit, q = 1, Size(o.prev) =< 1
      PROVE  opening
    BY <1>2, <1>9 DEF Size
<1>10. ASSUME ~o.exit, ~Opposes(o.prev, o.d)
       PROVE  found = 0 /\ ~drops
    BY <1>2, <1>10
<1> HIDE DEF found, flat, opening, drops
<1>11. ASSUME ~o.exit, q = 1, Size(o.prev) =< 1
       PROVE  i = Len(trades) + 1 \/ (i \in 1 .. Len(trades) /\ trades[i].side = -o.d)
    BY <1>1, <1>4, <1>9, <1>11
<1>12. ASSUME ~o.exit, q = 1, Size(o.prev) =< 1, ~Opposes(o.prev, o.d)
       PROVE  i = Len(trades) + 1 /\ pc' = "sync"
    BY <1>3, <1>9, <1>10, <1>12
<1> HIDE DEF i
<1> QED BY <1>3, <1>6, <1>7, <1>11, <1>12

LEMMA RespondSeparate ==
    ASSUME IInv, NEW o \in Orders, NEW q \in Nat, NEW b \in BOOLEAN, Respond(o, q, b),
           q =< 1, ~o.exit => Size(o.prev) =< 1,
           \A i \in DOMAIN trades : trades[i].bought =< 1
    PROVE  \A i \in DOMAIN trades' : trades'[i].bought =< 1
<1>1. /\ Len(trades) \in Nat /\ trades \in Seq(TradeSums) /\ DOMAIN trades = 1 .. Len(trades)
    BY LedgerLength, LenProperties DEF TypeOK
<1>2. /\ o.d \in {-1, 1} /\ o.exit \in BOOLEAN /\ -o.d # o.d
    BY DirectionFacts
<1> DEFINE side == IF o.exit THEN -o.d ELSE o.d
           new == [side |-> side, bought |-> q, sold |-> 0]
<1>3. trades' = Tagged(inst', o, q) /\ inst' \in 0 .. Len(trades) + 1
    BY RespondInstance
<1>4. CASE q = 0 \/ inst' = 0
    BY <1>3, <1>4 DEF Tagged
<1>5. CASE q = 1 /\ inst' = Len(trades) + 1
    <2>1. trades' = Append(trades, new)
        BY <1>1, <1>3, <1>5 DEF Tagged
    <2>2. /\ Len(trades') = Len(trades) + 1 /\ DOMAIN trades' = 1 .. Len(trades) + 1
          /\ \A i \in 1 .. Len(trades) : trades'[i] = trades[i]
          /\ trades'[Len(trades) + 1] = new
        <3>1. new \in TradeSums
            BY <1>2 DEF TradeSums
        <3> HIDE DEF new
        <3> QED BY <1>1, <2>1, <3>1, AppendProperties, LenProperties
    <2> QED BY <1>1, <1>5, <2>2
<1>6. CASE q = 1 /\ inst' \in 1 .. Len(trades) /\ o.exit
    BY <1>1, <1>3, <1>6 DEF Tagged
<1>7. CASE q = 1 /\ inst' \in 1 .. Len(trades) /\ ~o.exit
    <2>1. trades[inst'].side = -o.d
        BY <1>1, <1>7, RespondInstance
    <2> QED BY <1>1, <1>2, <1>3, <1>7, <2>1 DEF Tagged
<1> QED BY <1>1, <1>2, <1>3, <1>4, <1>5, <1>6, <1>7

LEMMA NextSeparate == IInv /\ OrderKnown /\ SeparateInv /\ [Next]_vars => SeparateInv'
<1> SUFFICES ASSUME IInv, OrderKnown, SeparateInv, [Next]_vars, "beside" \notin trouble'
             PROVE  SeparateInv'
    BY DEF SeparateInv
<1>1. /\ TypeOK /\ order \in Orders /\ order.d \in {-1, 1} /\ order.exit \in BOOLEAN
      /\ order.qty \in Nat /\ sum \in Int
    BY DEF IInv, TypeOK, Orders
<1>2. /\ \A i \in DOMAIN trades : trades[i].bought =< 1
      /\ order.qty =< 1
      /\ ~order.exit => Size(order.prev) =< 1
    BY TroubleGrows DEF SeparateInv
<1>3. CASE UNCHANGED <<trades, order>>
    BY <1>2, <1>3 DEF SeparateInv
<1>4. NoOrder.qty =< 1 /\ Size(NoOrder.prev) =< 1
    BY NoOrderFacts DEF Size
<1>5. CASE UNCHANGED trades /\ order' = NoOrder
    BY <1>2, <1>4, <1>5 DEF SeparateInv
<1>6. CASE \E q \in {0, order.qty}, b \in BOOLEAN : Respond(order, q, b)
    BY <1>1, <1>2, <1>4, <1>6, RespondSeparate, RespondEnds DEF SeparateInv
<1>7. ASSUME NEW held, trades' \in Ingested(held), UNCHANGED order
      PROVE  SeparateInv'
    BY <1>1, <1>2, <1>7, IngestedKeepsBought DEF SeparateInv
<1>8. CASE Sync \/ Apply \/ SyncFails \/ BeginReconcile \/ Reconcile \/ Place \/ Settle
    BY <1>3, <1>8 DEF Sync, Apply, SyncFails, BeginReconcile, Reconcile, Place, Settle, row
<1>9. CASE SyncClear \/ StreamClear
    BY <1>7, <1>9 DEF SyncClear, StreamClear, loop
<1>10. CASE Evaluate
    <2>1. UNCHANGED trades
        BY <1>10 DEF Evaluate, row
    <2>2. ASSUME NEW d \in {-1, 1}, NEW b \in BOOLEAN, Signal(d, b)
          PROVE  SeparateInv'
        <3>1. order'.qty = 0 /\ order'.prev = 0 /\ Size(0) = 0
            BY <2>2, SignalFacts DEF Size
        <3> QED BY <1>2, <2>1, <3>1 DEF SeparateInv
    <2>3. CASE pc' = "sync" /\ UNCHANGED order
        BY <1>3, <2>1, <2>3
    <2>4. sum # 0 => -Sign(sum) \in {-1, 1}
        BY <1>1, Opposite
    <2> QED BY <1>10, <2>2, <2>3, <2>4, TypesOfNumbers DEF Evaluate
<1>11. CASE BeginOrder
    <2>1. ~order.exit => Size(sum) =< 1
        <3>1. Size(sum) \in Nat
            BY <1>1, SizeType
        <3> QED BY <1>11, <3>1 DEF BeginOrder
    <2> QED BY <1>1, <1>2, <1>11, <2>1 DEF BeginOrder, SeparateInv, Orders, row
<1>12. CASE Decide
    <2> DEFINE current == IF read # 0 THEN read ELSE sum
               owned == Owned(inst, Sign(current))
               least == Least(owned, Size(current))
    <2>1. owned =< 1
        <3>1. owned # 0 => /\ inst \in 1 .. Len(trades) /\ trades[inst] \in TradeSums
                           /\ owned = trades[inst].bought - trades[inst].sold
            BY OwnedType
        <3>2. inst \in 1 .. Len(trades) => trades[inst].bought =< 1
            BY <1>1, <1>2, LenProperties DEF TypeOK
        <3> QED BY <3>1, <3>2 DEF TradeSums
    <2>2. least =< 1
        <3>1. Size(current) \in Nat /\ owned \in Nat
            BY OwnedType, DecideFacts, SizeType, <1>12
        <3> QED BY <2>1, <3>1, LeastType
    <2>3. CASE order' = [order EXCEPT !.qty = least, !.reduce = TRUE] /\ UNCHANGED row
        <3> HIDE DEF least
        <3> QED BY <1>1, <1>2, <2>2, <2>3 DEF SeparateInv, Orders, row
    <2>4. CASE order' = [order EXCEPT !.qty = 1, !.at = "sent"] /\ UNCHANGED row
        BY <1>1, <1>2, <2>4 DEF SeparateInv, Orders, row
    <2> HIDE DEF least
    <2> QED BY <1>6, <1>12, <2>3, <2>4, DecideFacts DEF least
<1>13. CASE Recheck
    BY <1>1, <1>2, <1>13 DEF Recheck, SeparateInv, Orders, row
<1>14. CASE Skip \/ Record
    BY <1>6, <1>14 DEF Skip, Record
<1>15. CASE AnswerLost
    BY <1>5, <1>6, <1>15 DEF AnswerLost, row
<1>16. CASE OrderFails \/ GiveUp \/ Restart
    BY <1>5, <1>16 DEF OrderFails, GiveUp, Restart, row
<1>17. CASE Exchange
    <2>1. ~Rejects(order) => Executed(order) =< 1 /\ Executed(order) \in Nat
        BY <1>1, <1>2, ExecutedFacts
    <2> QED BY <1>1, <1>2, <1>17, <2>1 DEF Exchange, SeparateInv, Orders, row
<1>18. CASE StreamOpen \/ StreamIngest \/ ExchangeLate \/ CandleCloses \/ ClosedOutside
            \/ AddedOutside \/ UNCHANGED vars
    BY <1>3, <1>18 DEF StreamOpen, StreamIngest, ExchangeLate, CandleCloses, ClosedOutside,
       AddedOutside, row, loop, vars
<1> QED BY <1>8, <1>9, <1>10, <1>11, <1>12, <1>13, <1>14, <1>15, <1>16, <1>17, <1>18
        DEF Next, Loop, Stream, World

-----------------------------------------------------------------------------
(* The ledger knows the strategy's position.  As long as all answers come  *)
(* and others do no more than add to the position, a lot of the strategy's *)
(* is the row's instance's, except between its execution and its record,   *)
(* and the row loses the instance only when the lot is gone.               *)
Plain == trouble \subseteq {"adds"}

Holds(i, side) == i # 0 /\ trades[i].side = side /\ trades[i].bought = trades[i].sold + 1

BookedInv ==
    Plain =>
        /\ own # 0 /\ order.at # "filled" => Holds(inst, Sign(own))
        /\ ~order.exit /\ Pending => own = 0 /\ Aligned(order.prev, exch)
        /\ own # 0 /\ order.at = "filled" =>
             ~order.exit /\ order.qty = 1 /\ own = order.d /\ ~Opposes(order.prev, order.d)
        /\ pc \in {"settle", "skip"} => own = 0

LEMMA PlainIsQuiet == Plain => Quiet /\ Clean /\ "beside" \notin trouble
BY DEF Plain, Quiet, Clean

(* The trade of an entry opens an instance that holds it. *)
LEMMA RespondOpens ==
    ASSUME IInv, NEW o \in Orders, NEW b \in BOOLEAN, Respond(o, 1, b),
           ~o.exit, Size(o.prev) =< 1, ~Opposes(o.prev, o.d)
    PROVE  /\ pc' = "sync" /\ inst' # 0
           /\ trades'[inst'] = [side |-> o.d, bought |-> 1, sold |-> 0]
<1>1. Len(trades) \in Nat /\ trades \in Seq(TradeSums)
    BY LedgerLength DEF TypeOK
<1>2. trades' = Tagged(inst', o, 1) /\ inst' = Len(trades) + 1 /\ pc' = "sync"
    BY RespondInstance
<1> DEFINE new == [side |-> o.d, bought |-> 1, sold |-> 0]
<1>3. trades' = Append(trades, new) /\ new \in TradeSums
    BY <1>1, <1>2, DirectionFacts DEF Tagged, TradeSums
<1> HIDE DEF new
<1>4. trades'[Len(trades) + 1] = new
    BY <1>1, <1>3, AppendProperties
<1> QED BY <1>1, <1>2, <1>4 DEF new

LEMMA PlainFacts ==
    ASSUME Plain'
    PROVE  /\ Reads => read' = exch
           /\ \A x : trouble' = TakenOver(x) => x = exch
           /\ ~ClosedOutside /\ ~GiveUp /\ ~SyncFails /\ ~AnswerLost /\ ~Restart
<1>1. Quiet'
    BY DEF Plain, Quiet
<1> QED BY <1>1, QuietFacts DEF Plain, Suffer, AnswerLost, Restart

(* What an executed order leaves to the strategy, in numbers: nothing, if  *)
(* it reduced the position ...                                             *)
LEMMA NothingLeft ==
    ASSUME NEW s \in Int, NEW p \in Int, NEW t \in Int, NEW q \in Nat \ {0}, NEW d \in {-1, 1},
           NEW x \in Int, d = 1 => x = q, d = -1 => x = -q,
           Size(s) =< 1, Against(s, d), Aligned(s, p),
           Aligned(t, p + x), Aligned(t, s + x), Opposes(p, d), q =< Size(p)
    PROVE  t = 0
<1>1. CASE d = 1
    BY <1>1 DEF Size, Aligned, Against, Opposes
<1>2. CASE d = -1
    BY <1>2 DEF Size, Aligned, Against, Opposes
<1> QED BY <1>1, <1>2

(* ... and a lot of a strategy that had none, unless that was swallowed by *)
(* a position of the other side.                                           *)
LEMMA LotLeft ==
    ASSUME NEW p \in Int, NEW t \in Int, NEW d \in {-1, 1},
           Aligned(t, p + d), Aligned(t, d), Size(t) =< Size(d)
    PROVE  t = 0 \/ (t = d /\ ~Opposes(p, d))
<1>1. CASE d = 1
    BY <1>1 DEF Size, Aligned, Opposes
<1>2. CASE d = -1
    BY <1>2 DEF Size, Aligned, Opposes
<1> QED BY <1>1, <1>2

LEMMA ExchangeBooks ==
    ASSUME IInv, Shared, OrderKnown, SingleInv, ReducesInv, BookedInv, Exchange, Plain
    PROVE  BookedInv'
<1>1. /\ TypeOK /\ exch \in Int /\ own \in Int
      /\ order \in Orders /\ order.d \in {-1, 1} /\ order.exit \in BOOLEAN /\ order.qty \in Nat
      /\ order.prev \in Int /\ order.reduce \in BOOLEAN
    BY TypesOfNumbers DEF IInv, TypeOK, Orders
<1>2. /\ Pending /\ pc = "answer" /\ pc' = "answer" /\ order.at = "sent"
      /\ order.qty > 0 /\ (~order.reduce => order.qty =< 1)
      /\ UNCHANGED row
    BY DEF Exchange, Pending, OrderKnown
<1>3. /\ Size(own) =< 1 /\ Against(own, order.d) /\ Aligned(own, exch)
      /\ order.exit => order.reduce
      /\ ~order.exit => own = 0 /\ Aligned(order.prev, exch)
      /\ own # 0 => Holds(inst, Sign(own))
    BY <1>2, PlainIsQuiet DEF SingleInv, ReducesInv, BookedInv, Shared
<1>4. CASE Rejects(order)
    <2>1. order'.at = "rejected" /\ UNCHANGED own
        BY <1>1, <1>4 DEF Exchange, Orders
    <2> QED BY <1>2, <1>3, <2>1 DEF BookedInv, Pending, Holds, row
<1>5. CASE ~Rejects(order)
    <2> DEFINE q == Executed(order)
               x == order.d * q
    <2>1. /\ order'.at = "filled" /\ order'.qty = q /\ order'.d = order.d
          /\ order'.exit = order.exit /\ order'.prev = order.prev
          /\ own' = Share(own + x, exch + x)
        BY <1>1, <1>5 DEF Exchange, Move, Orders
    <2>2. /\ q \in Nat \ {0} /\ x \in Int
          /\ order.d = 1 => x = q
          /\ order.d = -1 => x = -q
          /\ order.reduce => Opposes(exch, order.d) /\ q =< Size(exch)
          /\ ~order.reduce => q =< 1
        BY <1>1, <1>2, <1>5, ExecutedFacts
    <2> HIDE DEF q, x
    <2>3. /\ own' \in Int /\ Aligned(own', exch + x) /\ Aligned(own', own + x)
          /\ Size(own') =< Size(own + x)
        BY <1>1, <2>1, <2>2, ShareFacts
    <2>4. /\ own \in Int /\ exch \in Int /\ order.d \in {-1, 1}
          /\ Size(own) =< 1 /\ Against(own, order.d) /\ Aligned(own, exch)
        BY <1>1, <1>3
    <2>5. order.reduce => own' = 0
        BY <2>2, <2>3, <2>4, NothingLeft
    <2>6. own = 0 /\ ~order.reduce /\ own' # 0 => q = 1 /\ own' = order.d /\ ~Opposes(exch, order.d)
        <3> SUFFICES ASSUME own = 0, ~order.reduce, own' # 0
                     PROVE  q = 1 /\ own' = order.d /\ ~Opposes(exch, order.d)
            OBVIOUS
        <3>1. q = 1 /\ x = order.d
            BY <2>2, <2>4
        <3>2. own + x = order.d
            BY <2>4, <3>1
        <3> QED BY <2>3, <2>4, <3>1, <3>2, LotLeft
    <2>7. own' # 0 => ~order.exit /\ q = 1 /\ own' = order.d /\ ~Opposes(exch, order.d)
        BY <1>1, <1>3, <2>5, <2>6
    <2>8. ~order.exit /\ ~Opposes(exch, order.d) => ~Opposes(order.prev, order.d)
        BY <1>1, <1>3 DEF Aligned, Opposes
    <2> QED BY <1>2, <2>1, <2>7, <2>8 DEF BookedInv, Pending
<1> QED BY <1>4, <1>5

LEMMA NextBooked ==
    /\ IInv /\ Shared /\ OrderKnown /\ SingleInv /\ ReducesInv /\ SeparateInv /\ BookedInv
    /\ [Next]_vars
    => BookedInv'
<1> SUFFICES ASSUME IInv, Shared, OrderKnown, SingleInv, ReducesInv, SeparateInv, BookedInv,
                    [Next]_vars, Plain'
             PROVE  BookedInv'
    BY DEF BookedInv
<1>1. /\ TypeOK /\ exch \in Int /\ own \in Int /\ sum \in Int /\ read \in Int
      /\ order \in Orders /\ order.d \in {-1, 1} /\ order.exit \in BOOLEAN
    BY TypesOfNumbers DEF IInv, TypeOK, Orders
<1>2. Plain /\ Quiet /\ Clean /\ "beside" \notin trouble /\ late = NoOrder
    BY TroubleGrows, PlainIsQuiet DEF Plain, SingleInv
<1>3. exch = 0 => own = 0
    BY <1>1 DEF Shared, Aligned
<1>4. ASSUME own' = 0, order' = NoOrder, pc' \in {"settle", "sync"}
      PROVE  BookedInv'
    BY <1>4, NoOrderFacts DEF BookedInv, Pending
<1>5. ASSUME UNCHANGED <<own, inst, trades>>, order' = NoOrder, order.at # "filled",
             pc' \notin {"begin", "place", "decide", "recheck", "skip", "settle"}
      PROVE  BookedInv'
    BY <1>2, <1>5, NoOrderFacts DEF BookedInv, Pending, Holds
<1>6. CASE Sync \/ BeginReconcile
    BY <1>5, <1>6, NoOrderFacts DEF Sync, BeginReconcile, OrderKnown, row, outside
<1>7. CASE Apply \/ Reconcile
    <2>1. /\ order = NoOrder /\ order' = NoOrder /\ UNCHANGED <<own, trades>>
          /\ pc' \in {"clear", "evaluate"}
        BY <1>7 DEF Apply, Reconcile, outside, OrderKnown
    <2>2. CASE own = 0
        BY <2>1, <2>2, NoOrderFacts DEF BookedInv, Pending
    <2>3. CASE own # 0
        <3>1. inst # 0
            BY <1>2, <2>1, <2>3, NoOrderFacts DEF BookedInv, Holds
        <3>2. UNCHANGED inst
            BY <1>3, <1>7, <2>3, <3>1, PlainFacts DEF Apply, Reconcile
        <3> QED BY <1>5, <2>1, <3>2, NoOrderFacts
    <2> QED BY <2>2, <2>3
<1>8. CASE SyncClear
    <2>1. own' = 0 /\ order' = NoOrder /\ pc' = "evaluate"
        BY <1>3, <1>8, PlainFacts DEF SyncClear, outside, OrderKnown
    <2> QED BY <2>1, NoOrderFacts DEF BookedInv, Pending
<1>9. CASE SyncFails \/ AnswerLost \/ GiveUp \/ ClosedOutside \/ Restart
    BY <1>9, PlainFacts
<1>10. CASE Evaluate
    <2>1. /\ Aligned(own, sum) /\ UNCHANGED <<own, inst, trades, exch>> /\ order = NoOrder
          /\ own # 0 => Holds(inst, Sign(own))
        BY <1>2, <1>10, NoOrderFacts DEF Evaluate, SingleInv, BookedInv, OrderKnown, outside, row
    <2>2. CASE pc' = "sync" /\ UNCHANGED order
        BY <1>5, <2>1, <2>2, NoOrderFacts
    <2>3. CASE sum # 0 /\ Signal(-Sign(sum), TRUE)
        <3>1. -Sign(sum) \in {-1, 1}
            BY <1>1, <2>3, Opposite
        <3> QED BY <2>1, <2>3, <3>1, SignalFacts DEF BookedInv, Holds
    <2>4. CASE sum = 0 /\ \E d \in Sides : Signal(d, FALSE)
        <3>1. own = 0
            BY <1>1, <2>1, <2>4 DEF Aligned
        <3>2. PICK d \in Sides : Signal(d, FALSE)
            BY <2>4
        <3>3. /\ pc' = "begin" /\ ~order'.exit /\ order'.prev = 0 /\ order'.at = "signal"
            BY <3>2, SignalFacts, TypesOfNumbers
        <3> QED BY <2>1, <3>1, <3>3 DEF BookedInv, Aligned
    <2> QED BY <1>10, <2>2, <2>3, <2>4 DEF Evaluate
<1>11. CASE BeginOrder
    <2>1. Aligned(sum, exch) /\ pc = "begin" /\ order.at = "signal"
        BY <1>2, <1>11 DEF BeginOrder, ReducesInv, OrderKnown
    <2> QED BY <1>1, <1>2, <1>11, <2>1 DEF BeginOrder, BookedInv, Holds, Pending, Orders, row, outside
<1>12. CASE Place
    BY <1>2, <1>12 DEF Place, BookedInv, OrderKnown, Holds, Pending, row, outside
<1>13. CASE Decide
    <2> DEFINE current == IF read # 0 THEN read ELSE sum
               owned == Owned(inst, Sign(current))
               least == Least(owned, Size(current))
    <2>1. /\ pc = "decide" /\ order.at = "signal" /\ Pending /\ UNCHANGED <<own, exch>>
          /\ own # 0 => Holds(inst, Sign(own))
          /\ ~order.exit => own = 0 /\ Aligned(order.prev, exch)
        BY <1>2, <1>13 DEF Decide, BookedInv, OrderKnown, Pending, outside
    <2>2. own # 0 => owned # 0
        <3> SUFFICES ASSUME own # 0 PROVE owned # 0
            OBVIOUS
        <3>1. order.exit /\ Opposes(read, order.d) /\ Against(own, order.d)
            BY <1>2, <2>1 DEF ReducesInv, SingleInv
        <3>2. current = read /\ Sign(current) = Sign(own)
            BY <1>1, <3>1 DEF Opposes, Against, Sign
        <3>3. inst \in 1 .. Len(trades) /\ trades[inst] \in TradeSums
            BY <1>1, <2>1, LedgerLength, ElementOfSeq DEF TypeOK, Holds
        <3> HIDE DEF current
        <3>4. owned = trades[inst].bought - trades[inst].sold
            BY <2>1, <3>2, <3>3 DEF Owned, Holds, TradeSums
        <3> QED BY <2>1, <3>3, <3>4 DEF Holds, TradeSums
    <2>3. CASE owned = 0 /\ \E b : Respond(order, 0, b)
        BY <1>4, <2>1, <2>2, <2>3, RespondEnds
    <2> HIDE DEF owned
    <2>4. CASE /\ order' = [order EXCEPT !.qty = least, !.reduce = TRUE] /\ pc' = "recheck"
               /\ UNCHANGED row
        <3> HIDE DEF least
        <3> QED BY <1>1, <2>1, <2>4 DEF BookedInv, Holds, Orders, row
    <2>5. CASE order' = [order EXCEPT !.qty = 1, !.at = "sent"] /\ pc' = "answer" /\ UNCHANGED row
        BY <1>1, <2>1, <2>5 DEF BookedInv, Holds, Orders, row
    <2> QED BY <1>13, <2>3, <2>4, <2>5, DecideFacts DEF owned
<1>14. CASE Recheck
    <2>1. /\ order.at = "signal" /\ Pending /\ UNCHANGED <<own, exch, inst, trades>>
          /\ pc' \in {"answer", "skip"} /\ (own # 0 => pc' = "answer")
        BY <1>3, <1>14, PlainFacts DEF Recheck, OrderKnown, Pending, outside, row
    <2>2. /\ order'.at \in {"signal", "sent"} /\ order'.exit = order.exit
          /\ order'.prev = order.prev
        BY <1>1, <1>14, <2>1 DEF Recheck, Orders
    <2> QED BY <1>2, <2>1, <2>2 DEF BookedInv, Holds
<1>15. CASE Skip
    BY <1>2, <1>4, <1>15, RespondEnds DEF Skip, BookedInv, outside
<1>16. CASE OrderFails
    BY <1>5, <1>16 DEF OrderFails, OrderKnown, row, outside
<1>17. CASE Record
    <2>1. UNCHANGED own /\ order.at = "filled"
        BY <1>17 DEF Record, outside
    <2>2. PICK b \in BOOLEAN : Respond(order, order.qty, b)
        BY <1>17 DEF Record
    <2>3. CASE own = 0
        BY <1>4, <2>1, <2>2, <2>3, RespondEnds
    <2>4. CASE own # 0
        <3>1. /\ ~order.exit /\ order.qty = 1 /\ own = order.d /\ ~Opposes(order.prev, order.d)
              /\ Size(order.prev) =< 1
            BY <1>2, <2>1, <2>4 DEF BookedInv, SeparateInv
        <3>2. /\ pc' = "sync" /\ inst' # 0 /\ order' = NoOrder
              /\ trades'[inst'] = [side |-> order.d, bought |-> 1, sold |-> 0]
            BY <1>1, <2>2, <3>1, RespondOpens, RespondEnds
        <3>3. Sign(order.d) = order.d
            BY <1>1 DEF Sign
        <3>4. Holds(inst, Sign(own))'
            BY <2>1, <3>1, <3>2, <3>3 DEF Holds
        <3> QED BY <3>2, <3>4, NoOrderFacts DEF BookedInv, Pending
    <2> QED BY <2>3, <2>4
<1>18. CASE Settle
    BY <1>2, <1>4, <1>18 DEF Settle, BookedInv, OrderKnown, outside
<1>19. CASE Exchange
    BY <1>2, <1>19, ExchangeBooks
<1>20. CASE ExchangeLate
    BY <1>2, <1>20 DEF ExchangeLate
<1>21. CASE AddedOutside
    <2>1. UNCHANGED <<own, order, pc, inst, trades>>
        BY <1>1, <1>21, AddsFacts DEF loop, row
    <2>2. \A x \in Int : Aligned(x, exch) => Aligned(x, exch')
        BY <1>1, <1>21, AddsFacts DEF Aligned
    <2>3. order.prev \in Int
        BY <1>1 DEF Orders
    <2> QED BY <1>2, <2>1, <2>2, <2>3 DEF BookedInv, Pending, Holds
<1>22. CASE CandleCloses \/ StreamOpen \/ StreamIngest \/ UNCHANGED vars
    <2>1. UNCHANGED <<own, order, pc, inst, trades, exch>>
        BY <1>22 DEF CandleCloses, StreamOpen, StreamIngest, row, loop, vars
    <2> QED BY <1>2, <2>1 DEF BookedInv, Pending, Holds, Aligned
<1>23. CASE StreamClear
    <2>1. UNCHANGED <<own, order, pc, exch>> /\ own = 0
        BY <1>3, <1>23, PlainFacts DEF StreamClear, loop
    <2> QED BY <1>2, <2>1 DEF BookedInv, Pending, Aligned
<1> QED BY <1>6, <1>7, <1>8, <1>9, <1>10, <1>11, <1>12, <1>13, <1>14, <1>15, <1>16, <1>17,
           <1>18, <1>19, <1>20, <1>21, <1>22, <1>23 DEF Next, Loop, Stream, World

-----------------------------------------------------------------------------
(* All of it together is inductive.                                        *)
PositionInv ==
    IInv /\ Shared /\ OrderKnown /\ SingleInv /\ ReducesInv /\ SeparateInv /\ BookedInv

LEMMA InitPositionInv == Init => PositionInv
<1> SUFFICES ASSUME Init PROVE PositionInv
    OBVIOUS
<1>1. DOMAIN trades = {} /\ Size(0) = 0
    BY DEF Init, Size
<1> QED BY <1>1, InitIInv, NoOrderFacts
        DEF Init, PositionInv, Shared, OrderKnown, SingleInv, ReducesInv, SeparateInv, BookedInv,
            Aligned, Against, Pending

LEMMA NextPositionInv == PositionInv /\ [Next]_vars => PositionInv'
BY NextIInv, NextShared, NextOrderKnown, NextSingle, NextReduces, NextSeparate, NextBooked
   DEF PositionInv

LEMMA Positioned == Spec => []PositionInv
BY InitPositionInv, NextPositionInv, PTL DEF Spec

(* The strategy never adds to a position of its own, for any number of     *)
(* lost answers, restarts, closes and lots of the user's: no entry meets a *)
(* position that an earlier one made.                                      *)
THEOREM OnePosition == Spec => []SinglePosition
<1>1. PositionInv => SinglePosition
    BY DEF PositionInv, SingleInv, Clean, SinglePosition
<1> QED BY <1>1, Positioned, PTL

(* Whenever the loop begins a round, what the strategy made of the         *)
(* position is what the ledger says it owns, however often others add.     *)
THEOREM LedgerKnowsPosition == Spec => []OwnedIsRecorded
<1>1. PositionInv => OwnedIsRecorded
    <2> SUFFICES ASSUME PositionInv, pc = "sync", own # 0, Plain
                 PROVE  Owned(inst, Sign(own)) = Size(own)
        BY DEF OwnedIsRecorded, Plain
    <2>1. TypeOK /\ own \in Int /\ IInv
        BY DEF PositionInv, IInv, TypeOK
    <2>2. Holds(inst, Sign(own)) /\ Size(own) =< 1
        BY PlainIsQuiet, NoOrderFacts
           DEF PositionInv, OrderKnown, BookedInv, SingleInv
    <2>3. inst \in 1 .. Len(trades) /\ trades[inst] \in TradeSums
        BY <2>1, <2>2, LedgerLength, ElementOfSeq DEF TypeOK, Holds
    <2>4. Size(own) = 1
        BY <2>1, <2>2 DEF Size
    <2> QED BY <2>2, <2>3, <2>4 DEF Owned, Holds, TradeSums
<1> QED BY <1>1, Positioned, PTL

(* Only Binance executes the order that the loop waits for. *)
LEMMA ExchangeExecutes ==
    ASSUME PositionInv, [Next]_vars, ExitExecutes
    PROVE  Exchange /\ ~Rejects(order) /\ Pending
<1>1. order \in Orders /\ pc = "answer"
    BY DEF PositionInv, IInv, TypeOK, OrderKnown, ExitExecutes, NoOrder
<1> USE <1>1, NoOrderFacts DEF ExitExecutes
<1>2. ~Loop
    BY DEF Loop, Sync, Apply, SyncClear, SyncFails, BeginReconcile, Reconcile, Evaluate,
       BeginOrder, Place, Decide, Recheck, Skip, OrderFails, Record, AnswerLost, Settle, GiveUp
<1>3. ~Stream /\ ~UNCHANGED vars
    BY DEF Stream, StreamOpen, StreamIngest, StreamClear, loop, vars
<1>4. ~(ExchangeLate \/ CandleCloses \/ ClosedOutside \/ AddedOutside \/ Restart)
    BY DEF ExchangeLate, CandleCloses, ClosedOutside, AddedOutside, Restart, loop
<1>5. Exchange
    BY <1>2, <1>3, <1>4 DEF Next, World
<1> QED BY <1>5 DEF Exchange, Orders, Pending

(* An exit never reverses the position, nor leaves it as it was, though it *)
(* is reduce-only just when the loop itself has found a position to close. *)
THEOREM ExitsOnlyReduce == Spec => ExitsReduce
<1>1. ASSUME PositionInv, [Next]_vars, ExitExecutes, trouble \subseteq {"answer", "restart", "adds"}
      PROVE  ExitReduces
    <2>1. Exchange /\ ~Rejects(order) /\ Pending
        BY <1>1, ExchangeExecutes
    <2>2. order.reduce /\ Quiet /\ order \in Orders /\ order.qty > 0
        BY <1>1 DEF PositionInv, ReducesInv, Quiet, OrderKnown, ExitExecutes, IInv, TypeOK, NoOrder
    <2> DEFINE x == order.d * Executed(order)
    <2>3. /\ exch \in Int /\ Executed(order) \in Nat \ {0} /\ x \in Int
          /\ order.d = 1 => x = Executed(order)
          /\ order.d = -1 => x = -Executed(order)
          /\ Opposes(exch, order.d) /\ Executed(order) =< Size(exch)
        BY <1>1, <2>1, <2>2, ExecutedFacts DEF PositionInv, IInv
    <2>4. exch' = exch + x
        BY <2>1 DEF Exchange, Move
    <2>5. order.d \in {-1, 1}
        BY <2>2 DEF Orders
    <2> HIDE DEF x
    <2>6. exch' \in Int /\ Size(exch') < Size(exch) /\ Aligned(exch', exch)
        BY <2>3, <2>4, <2>5 DEF Size, Opposes, Aligned
    <2>7. exch * exch' >= 0
        <3>1. CASE exch' = 0
            BY <2>3, <3>1
        <3>2. CASE exch' # 0
            <4>1. (exch > 0 /\ exch' > 0) \/ (exch < 0 /\ exch' < 0)
                BY <2>3, <2>6, <3>2 DEF Aligned
            <4>2. exch * exch' \in Int /\ exch * exch' > 0
                BY <2>3, <2>6, <4>1, Products
            <4> QED BY <4>2
        <3> QED BY <3>1, <3>2
    <2> QED BY <2>6, <2>7 DEF ExitReduces
<1>2. PositionInv /\ [Next]_vars =>
        [ExitExecutes /\ trouble \subseteq {"answer", "restart", "adds"} => ExitReduces]_vars
    BY <1>1
<1> QED BY <1>2, Positioned, PTL DEF Spec, ExitsReduce

(* An exit takes from the position what it takes from the strategy's       *)
(* share, and nothing that the user added, whatever went wrong before.     *)
THEOREM ExitsTakeNoOtherLots == Spec => ExitsTakeOwnLots
<1>1. ASSUME PositionInv, [Next]_vars, ExitExecutes, own # 0, "beside" \notin trouble
      PROVE  exch' - exch = own' - own
    <2>1. Exchange /\ ~Rejects(order)
        BY <1>1, ExchangeExecutes
    <2>2. /\ order \in Orders /\ order.d \in {-1, 1} /\ order.qty =< 1
          /\ Aligned(own, exch) /\ Size(own) =< Size(exch)
        BY <1>1 DEF PositionInv, SeparateInv, Shared, IInv, TypeOK, Orders
    <2> DEFINE x == order.d * Executed(order)
    <2>3. /\ exch \in Int /\ own \in Int /\ Executed(order) \in Nat /\ Executed(order) =< 1
          /\ x \in Int
          /\ order.d = 1 => x = Executed(order)
          /\ order.d = -1 => x = -Executed(order)
        <3>1. order.qty \in Nat
            BY <2>2 DEF Orders
        <3> QED BY <1>1, <2>1, <2>2, <3>1, ExecutedFacts DEF PositionInv, IInv
    <2>4. exch' = exch + x /\ own' = Share(own + x, exch + x)
        BY <2>1 DEF Exchange, Move
    <2> HIDE DEF x
    <2>5. Aligned(own + x, exch + x) /\ Size(own + x) =< Size(exch + x)
        BY <1>1, <2>2, <2>3 DEF Aligned, Size
    <2>6. own' = own + x
        BY <2>3, <2>4, <2>5, ShareFacts
    <2> QED BY <2>3, <2>4, <2>6
<1>2. PositionInv /\ [Next]_vars =>
        [ExitExecutes /\ own # 0 /\ "beside" \notin trouble => exch' - exch = own' - own]_vars
    BY <1>1
<1> QED BY <1>2, Positioned, PTL DEF Spec, ExitsTakeOwnLots
=============================================================================
