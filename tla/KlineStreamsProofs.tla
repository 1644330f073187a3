-------------------------- MODULE KlineStreamsProofs --------------------------
(***************************************************************************)
(* Proofs about KlineStreams, for any finite set of strategies, any number *)
(* of candles that an evaluation asks for and any number that close.       *)
(***************************************************************************)
EXTENDS KlineStreams, SequenceTheorems, FiniteSetTheorems, TLAPS

-----------------------------------------------------------------------------
(* The inductive invariant.                                                *)

\* The strategies whose loop goes on, that wait to unsubscribe, or that connect: each
\* has been counted and not been given back.
Holders == {s \in Strategies : step[s] \in Looping \cup {"stopping"} \/ lock = s}

CountCovers == Cardinality(Holders) =< count

\* Only a subscription that connects keeps the lock across an await.
LockerSubscribes == lock # Nobody => step[lock] \in {"start", "evaluate", "rest"}

\* Candles come in order, each when it has closed.
SocketOrdered ==
  /\ \A i, j \in 1..Len(socket) : i < j => socket[i] < socket[j]
  /\ \A i \in 1..Len(socket) : socket[i] < now

\* No row is of a later candle than those that are still in the socket.
RowsBefore ==
  "overtaken" \notin trouble =>
    \A i \in 1..Len(buffer) :
      buffer[i].candle =< now /\ \A j \in 1..Len(socket) : buffer[i].candle =< socket[j]

\* The candle that the socket brings next.
Coming == IF socket = <<>> THEN now ELSE socket[1]

\* A row that is not final is the last one, and will be replaced.
OnlyLastForms ==
  trouble = {} =>
    \A i \in 1..Len(buffer) :
      buffer[i].final \/ (i = Len(buffer) /\ buffer[i].candle = Coming)

RowsInOrder == SocketOrdered /\ BufferOrdered /\ RowsBefore /\ OnlyLastForms

IInv ==
  /\ TypeOK /\ now >= Limit
  /\ CountCovers /\ LockerSubscribes /\ RowsInOrder /\ OnlyClosedProcessed

-----------------------------------------------------------------------------
(* Lemmas about the operators.                                             *)

LEMMA AddedProperties ==
  ASSUME NEW rows \in Seq(Rows), NEW row \in Rows
  PROVE  /\ Added(rows, row) \in Seq(Rows)
         /\ \/ /\ rows # <<>> /\ Len(Added(rows, row)) = Len(rows)
               /\ rows[Len(rows)].candle = row.candle
               /\ \A i \in 1..Len(rows) :
                    Added(rows, row)[i] = IF i = Len(rows) THEN row ELSE rows[i]
            \/ /\ Len(Added(rows, row)) = Len(rows) + 1
               /\ rows # <<>> => rows[Len(rows)].candle # row.candle
               /\ \A i \in 1..Len(rows) + 1 :
                    Added(rows, row)[i] = IF i = Len(rows) + 1 THEN row ELSE rows[i]
<1>1. CASE rows # <<>> /\ rows[Len(rows)].candle = row.candle
  <2>1. Len(rows) \in 1..Len(rows)
      BY <1>1, EmptySeq, LenProperties
  <2>2. Added(rows, row) = [rows EXCEPT ![Len(rows)] = row]
      BY <1>1 DEF Added
  <2> QED BY <1>1, <2>1, <2>2, ExceptSeq
<1>2. CASE ~(rows # <<>> /\ rows[Len(rows)].candle = row.candle)
  <2>1. Added(rows, row) = Append(rows, row)
      BY <1>2 DEF Added
  <2>2. Len(rows) \in Nat
      BY LenProperties
  <2> QED BY <1>2, <2>1, <2>2, AppendProperties
<1> QED BY <1>1, <1>2

LEMMA FetchedProperties ==
  ASSUME ConstantsOK, now \in Candles, now >= Limit
  PROVE  /\ Fetched \in Seq(Rows) /\ Len(Fetched) = Limit
         /\ \A i \in 1..Limit :
              Fetched[i].candle = now - Limit + i /\ (Fetched[i].final <=> i < Limit)
<1>1. Limit \in Nat /\ MaxCandle \in Nat /\ now \in Nat /\ now =< MaxCandle
    BY DEF ConstantsOK, Candles
<1>2. \A i \in 1..Limit : [candle |-> now - Limit + i, final |-> i < Limit] \in Rows
    BY <1>1 DEF Rows, Candles
<1>3. Fetched \in [1..Limit -> Rows]
    BY <1>2 DEF Fetched
<1>4. Fetched \in Seq(Rows)
    BY <1>1, <1>3, SeqDef
<1>5. Len(Fetched) = Limit
    BY <1>1, <1>3, <1>4, LenProperties
<1>6. \A i \in 1..Limit :
        Fetched[i].candle = now - Limit + i /\ (Fetched[i].final <=> i < Limit)
    BY DEF Fetched
<1> QED BY <1>4, <1>5, <1>6

\* The last closed one of enough rows is a row, and final unless something went wrong.
LEMMA LastClosedFinal ==
  ASSUME ConstantsOK, NEW rows \in Seq(Rows), Len(rows) >= Limit,
         NEW calm, calm => \A i \in 1..Len(rows) : rows[i].final \/ i = Len(rows)
  PROVE  LastClosed(rows) \in Rows /\ (calm => LastClosed(rows).final)
<1>1. Len(rows) \in Nat /\ Limit \in Nat /\ Limit > 1
    BY LenProperties DEF ConstantsOK
<1>2. Len(rows) - 1 \in 1..Len(rows) /\ Len(rows) - 1 # Len(rows)
    BY <1>1
<1>3. rows[Len(rows) - 1] \in Rows
    BY <1>2, ElementOfSeq
<1> QED BY <1>2, <1>3 DEF LastClosed

LEMMA ProcessKeeps ==
  ASSUME ConstantsOK, TypeOK, OnlyClosedProcessed, NEW s \in Strategies, NEW row \in Rows,
         Process(s, row), trouble' = {} => trouble = {} /\ row.final
  PROVE  /\ seen' \in [Strategies -> 0..MaxCandle] /\ misread' \subseteq Strategies
         /\ OnlyClosedProcessed'
<1>1. row.candle \in 0..MaxCandle
    BY DEF Rows, Candles, ConstantsOK
<1>2. seen' \in [Strategies -> 0..MaxCandle]
    BY <1>1 DEF Process, TypeOK
<1>3. misread' \subseteq Strategies
    BY DEF Process, TypeOK
<1>4. OnlyClosedProcessed'
    BY DEF Process, OnlyClosedProcessed
<1> QED BY <1>2, <1>3, <1>4

-----------------------------------------------------------------------------
(* The count.                                                              *)

LEMMA HoldersFinite ==
  ASSUME ConstantsOK
  PROVE  /\ IsFiniteSet(Holders) /\ Cardinality(Holders) \in Nat
         /\ Cardinality(Holders) =< Cardinality(Strategies) /\ Cardinality(Strategies) \in Nat
         /\ IsFiniteSet(Holders)' /\ Cardinality(Holders') \in Nat
         /\ Cardinality(Holders') =< Cardinality(Strategies)
<1>1. IsFiniteSet(Strategies) /\ Holders \in SUBSET Strategies /\ Holders' \in SUBSET Strategies
    BY DEF ConstantsOK, Holders
<1>2. Cardinality(Strategies) \in Nat
    BY <1>1, FS_CardinalityType
<1>3. IsFiniteSet(Holders) /\ Cardinality(Holders) =< Cardinality(Strategies)
    BY <1>1, FS_Subset
<1>4. IsFiniteSet(Holders') /\ Cardinality(Holders') =< Cardinality(Strategies)
    BY <1>1, FS_Subset
<1>5. Cardinality(Holders) \in Nat /\ Cardinality(Holders') \in Nat
    BY <1>3, <1>4, FS_CardinalityType
<1> QED BY <1>2, <1>3, <1>4, <1>5

\* A strategy that is counted may become a holder.
LEMMA CountedKeeps ==
  ASSUME ConstantsOK, TypeOK, CountCovers, Counted, NEW s, Holders' \subseteq Holders \cup {s}
  PROVE  count' \in 1..MaxCount /\ CountCovers'
<1>1. Cardinality(Holders \cup {s}) =< Cardinality(Holders) + 1
  <2>1. \/ Cardinality(Holders \cup {s}) = Cardinality(Holders)
        \/ Cardinality(Holders \cup {s}) = Cardinality(Holders) + 1
      BY HoldersFinite, FS_AddElement
  <2> QED BY <2>1, HoldersFinite
<1>2. Cardinality(Holders') =< Cardinality(Holders \cup {s})
    BY HoldersFinite, FS_AddElement, FS_Subset
<1>3. Cardinality(Holders \cup {s}) \in Nat
    BY HoldersFinite, FS_AddElement, FS_CardinalityType
<1>4. /\ MaxCount \in Nat /\ MaxCount > Cardinality(Strategies)
      /\ count \in 0..MaxCount /\ Cardinality(Holders) =< count
      /\ count' = IF count < MaxCount THEN count + 1 ELSE count
    BY DEF ConstantsOK, TypeOK, CountCovers, Counted
<1>5. Cardinality(Holders') =< count' /\ count' \in 1..MaxCount
    BY <1>1, <1>2, <1>3, <1>4, HoldersFinite
<1> QED BY <1>5 DEF CountCovers

\* One that is given back is no holder any more, and was one before.
LEMMA UncountedKeeps ==
  ASSUME ConstantsOK, TypeOK, CountCovers, NEW s \in Holders, Holders' \subseteq Holders \ {s}
  PROVE  /\ count # 0
         /\ count = 1 => Holders' = {}
         /\ count > 1 /\ Uncounted => count' \in 1..MaxCount /\ CountCovers'
<1>1. Cardinality(Holders \ {s}) = Cardinality(Holders) - 1 /\ IsFiniteSet(Holders \ {s})
    BY HoldersFinite, FS_RemoveElement
<1>2. Cardinality(Holders') =< Cardinality(Holders) - 1
    BY <1>1, FS_Subset
<1>3. /\ MaxCount \in Nat /\ MaxCount > Cardinality(Strategies)
      /\ count \in 0..MaxCount /\ Cardinality(Holders) =< count
    BY DEF ConstantsOK, TypeOK, CountCovers
<1>4. Cardinality(Holders) >= 1 /\ count # 0
    BY <1>2, <1>3, HoldersFinite
<1>5. ASSUME count = 1 PROVE Holders' = {}
  <2>1. Cardinality(Holders') = 0
      BY <1>2, <1>3, <1>5, HoldersFinite
  <2> QED BY <2>1, HoldersFinite, FS_EmptySet
<1>6. ASSUME count > 1, Uncounted PROVE count' \in 1..MaxCount /\ CountCovers'
  <2>1. count' = count - 1 \/ (count = MaxCount /\ count' = count)
      BY <1>6 DEF Uncounted
  <2>2. count' \in 1..MaxCount /\ Cardinality(Holders') =< count'
      BY <1>2, <1>3, <1>6, <2>1, HoldersFinite
  <2> QED BY <2>2 DEF CountCovers
<1> QED BY <1>4, <1>5, <1>6

\* A stream that is not there has no holders.
LEMMA NoStreamNoHolders ==
  ASSUME ConstantsOK, TypeOK, CountCovers, link = "none"
  PROVE  Holders = {}
<1>1. Cardinality(Holders) = 0
    BY HoldersFinite DEF TypeOK, CountCovers
<1> QED BY <1>1, HoldersFinite, FS_EmptySet

\* Nothing is counted, and nobody becomes a holder.
LEMMA HoldersKept ==
  ASSUME ConstantsOK, TypeOK, CountCovers, count' = count, Holders' \subseteq Holders
  PROVE  CountCovers'
<1>1. Cardinality(Holders') =< Cardinality(Holders)
    BY HoldersFinite, FS_Subset
<1>2. Cardinality(Holders) =< count /\ count \in Nat
    BY DEF CountCovers, TypeOK, ConstantsOK
<1>3. Cardinality(Holders') =< count'
    BY <1>1, <1>2, HoldersFinite
<1> QED BY <1>3 DEF CountCovers

-----------------------------------------------------------------------------
(* The rows.                                                               *)

LEMMA RowTypes ==
  ASSUME ConstantsOK, TypeOK
  PROVE  /\ Len(buffer) \in Nat /\ Len(socket) \in Nat /\ now \in Nat
         /\ socket = <<>> <=> Len(socket) = 0
         /\ \A i \in 1..Len(buffer) : buffer[i] \in Rows /\ buffer[i].candle \in Nat
         /\ \A i \in 1..Len(socket) : socket[i] \in Candles /\ socket[i] \in Nat
<1>1. buffer \in Seq(Rows) /\ socket \in Seq(Candles)
    BY DEF TypeOK
<1>2. Candles \subseteq Nat
    BY DEF Candles
<1>3. Len(buffer) \in Nat /\ Len(socket) \in Nat /\ (socket = <<>> <=> Len(socket) = 0)
    BY <1>1, LenProperties, EmptySeq
<1>4. \A i \in 1..Len(buffer) : buffer[i] \in Rows /\ buffer[i].candle \in Nat
  <2>1. \A i \in 1..Len(buffer) : buffer[i] \in Rows
      BY <1>1, ElementOfSeq
  <2> QED BY <1>2, <2>1 DEF Rows
<1>5. \A i \in 1..Len(socket) : socket[i] \in Candles /\ socket[i] \in Nat
    BY <1>1, <1>2, ElementOfSeq
<1> QED BY <1>2, <1>3, <1>4, <1>5 DEF TypeOK

LEMMA RowsUnchanged ==
  ASSUME RowsInOrder, UNCHANGED <<now, socket, buffer, trouble>>
  PROVE  RowsInOrder'
BY DEF RowsInOrder, SocketOrdered, BufferOrdered, RowsBefore, OnlyLastForms, Coming

LEMMA RowsThrownAway ==
  ASSUME RowsInOrder, UNCHANGED <<now, trouble>>, buffer' = <<>>, socket' \in {socket, <<>>}
  PROVE  RowsInOrder'
<1>1. Len(buffer') = 0 /\ (socket' = <<>> => Len(socket') = 0)
    BY EmptySeq
<1>2. SocketOrdered'
    BY <1>1 DEF RowsInOrder, SocketOrdered
<1> QED BY <1>1, <1>2 DEF RowsInOrder, BufferOrdered, RowsBefore, OnlyLastForms

\* What is fetched ends with the forming candle, which nothing in the socket precedes.
LEMMA RowsFetched ==
  ASSUME ConstantsOK, TypeOK, now >= Limit, RowsInOrder, UNCHANGED <<now, socket>>,
         buffer' = Fetched,
         trouble' = IF socket = <<>> THEN trouble ELSE trouble \cup {"overtaken"}
  PROVE  RowsInOrder'
<1>1. /\ Len(buffer') = Limit
      /\ \A i \in 1..Limit : buffer'[i].candle = now - Limit + i /\ (buffer'[i].final <=> i < Limit)
    BY FetchedProperties DEF TypeOK
<1>2. now \in Nat /\ Limit \in Nat
    BY RowTypes DEF ConstantsOK
<1>3. SocketOrdered'
    BY DEF RowsInOrder, SocketOrdered
<1>4. BufferOrdered'
    BY <1>1, <1>2 DEF BufferOrdered
<1>5. CASE socket = <<>>
    BY <1>1, <1>2, <1>3, <1>4, <1>5, RowTypes DEF RowsInOrder, RowsBefore, OnlyLastForms, Coming
<1>6. CASE socket # <<>>
    BY <1>3, <1>4, <1>6 DEF RowsInOrder, RowsBefore, OnlyLastForms
<1> QED BY <1>5, <1>6

\* A closed candle replaces the row of its own or comes after all others.
LEMMA RowsDelivered ==
  ASSUME ConstantsOK, TypeOK, RowsInOrder, Deliver
  PROVE  RowsInOrder' /\ buffer' \in Seq(Rows) /\ socket' \in Seq(Candles)
<1> DEFINE row == [candle |-> Head(socket), final |-> TRUE]
           n == Len(buffer)
<1>1. /\ socket # <<>> /\ socket' = Tail(socket) /\ buffer' = Added(buffer, row)
      /\ UNCHANGED <<now, trouble>>
    BY DEF Deliver
<1>2. /\ Head(socket) = socket[1] /\ Len(socket) >= 1
      /\ socket' \in Seq(Candles) /\ Len(socket') = Len(socket) - 1
      /\ \A i \in 1..Len(socket') : socket'[i] = socket[i + 1]
    BY <1>1, RowTypes, HeadTailProperties DEF TypeOK
<1>3. row \in Rows /\ row.candle = socket[1] /\ row.final
    BY <1>2, RowTypes DEF Rows
<1>4. /\ buffer' \in Seq(Rows) /\ n \in Nat
      /\ \/ /\ n # 0 /\ Len(buffer') = n /\ buffer[n].candle = socket[1]
            /\ \A i \in 1..n : buffer'[i] = IF i = n THEN row ELSE buffer[i]
         \/ /\ Len(buffer') = n + 1 /\ (n # 0 => buffer[n].candle # socket[1])
            /\ \A i \in 1..n + 1 : buffer'[i] = IF i = n + 1 THEN row ELSE buffer[i]
  <2>1. buffer \in Seq(Rows)
      BY DEF TypeOK
  <2>2. (buffer = <<>> <=> n = 0) /\ n \in Nat
      BY <2>1, EmptySeq, LenProperties
  <2> HIDE DEF row
  <2>3. \/ /\ buffer # <<>> /\ Len(buffer') = n /\ buffer[n].candle = row.candle
           /\ \A i \in 1..n : buffer'[i] = IF i = n THEN row ELSE buffer[i]
        \/ /\ Len(buffer') = n + 1 /\ (buffer # <<>> => buffer[n].candle # row.candle)
           /\ \A i \in 1..n + 1 : buffer'[i] = IF i = n + 1 THEN row ELSE buffer[i]
    <3> DEFINE new == Added(buffer, row)
    <3>1. \/ /\ buffer # <<>> /\ Len(new) = n /\ buffer[n].candle = row.candle
             /\ \A i \in 1..n : new[i] = IF i = n THEN row ELSE buffer[i]
          \/ /\ Len(new) = n + 1 /\ (buffer # <<>> => buffer[n].candle # row.candle)
             /\ \A i \in 1..n + 1 : new[i] = IF i = n + 1 THEN row ELSE buffer[i]
        BY <1>3, <2>1, AddedProperties, Zenon
    <3> HIDE DEF new
    <3>2. buffer' = new
        BY <1>1 DEF new
    <3> QED BY <3>1, <3>2, Zenon
  <2>4. buffer' \in Seq(Rows)
      BY <1>1, <1>3, <2>1, AddedProperties
  <2> HIDE DEF n
  <2> QED BY <1>3, <2>2, <2>3, <2>4
<1> HIDE DEF row, n
<1>5. SocketOrdered'
  <2>1. \A i \in 1..Len(socket') : i + 1 \in 1..Len(socket)
      BY <1>2, RowTypes
  <2>2. ASSUME NEW i \in 1..Len(socket'), NEW j \in 1..Len(socket'), i < j
        PROVE  socket'[i] < socket'[j]
    <3>1. i + 1 < j + 1 /\ i + 1 \in 1..Len(socket) /\ j + 1 \in 1..Len(socket)
        BY <1>2, <2>1, <2>2, RowTypes
    <3>2. socket[i + 1] < socket[j + 1]
        BY <3>1 DEF RowsInOrder, SocketOrdered
    <3> QED BY <1>2, <3>2
  <2>3. \A i \in 1..Len(socket') : socket'[i] < now'
      BY <1>1, <1>2, <2>1 DEF RowsInOrder, SocketOrdered
  <2> QED BY <2>2, <2>3 DEF SocketOrdered
<1>6. ASSUME "overtaken" \notin trouble
      PROVE  /\ \A i \in 1..n : buffer[i].candle =< socket[1]
             /\ \A i \in 1..n : i # n => buffer[i].candle < buffer[n].candle
    BY <1>2, <1>4, <1>6, RowTypes DEF RowsInOrder, RowsBefore, BufferOrdered, n
<1>7. BufferOrdered'
  <2> SUFFICES ASSUME "overtaken" \notin trouble',
                      NEW i \in 1..Len(buffer'), NEW j \in 1..Len(buffer'), i < j
               PROVE  buffer'[i].candle < buffer'[j].candle
      BY DEF BufferOrdered
  <2>1. "overtaken" \notin trouble
      BY <1>1
  <2>2. \A x, y \in 1..n : x < y => buffer[x].candle < buffer[y].candle
      BY <2>1 DEF RowsInOrder, BufferOrdered, n
  <2>3. socket[1] \in Nat /\ \A x \in 1..n : buffer[x].candle \in Nat
      BY <1>2, RowTypes DEF n
  <2>4. CASE Len(buffer') = n /\ buffer[n].candle = socket[1]
             /\ \A x \in 1..n : buffer'[x] = IF x = n THEN row ELSE buffer[x]
      BY <1>3, <1>4, <2>2, <2>4
  <2>5. CASE Len(buffer') = n + 1 /\ (n # 0 => buffer[n].candle # socket[1])
             /\ \A x \in 1..n + 1 : buffer'[x] = IF x = n + 1 THEN row ELSE buffer[x]
    <3>1. \A x \in 1..n : buffer[x].candle < socket[1]
        BY <1>4, <1>6, <2>1, <2>3, <2>5
    <3>2. i \in 1..n /\ buffer'[i] = buffer[i]
        BY <1>4, <2>5
    <3>3. CASE j = n + 1
        BY <1>3, <2>5, <3>1, <3>2, <3>3
    <3>4. CASE j # n + 1
        BY <1>4, <2>2, <2>5, <3>2, <3>4
    <3> QED BY <3>3, <3>4
  <2> QED BY <1>4, <2>4, <2>5
<1>8. RowsBefore'
  <2> SUFFICES ASSUME "overtaken" \notin trouble', NEW i \in 1..Len(buffer')
               PROVE  buffer'[i].candle =< now'
                      /\ \A j \in 1..Len(socket') : buffer'[i].candle =< socket'[j]
      BY DEF RowsBefore
  <2>1. buffer'[i] = row \/ (i \in 1..n /\ buffer'[i] = buffer[i])
      BY <1>4
  <2>2. 1 \in 1..Len(socket) /\ socket[1] < now
      BY <1>2, RowTypes DEF RowsInOrder, SocketOrdered
  <2>3. buffer'[i].candle =< socket[1] /\ buffer'[i].candle \in Nat
      BY <1>1, <1>3, <1>6, <2>1, <2>2, RowTypes DEF n
  <2>4. ASSUME NEW j \in 1..Len(socket') PROVE socket[1] < socket'[j] /\ socket'[j] \in Nat
    <3>1. j + 1 \in 1..Len(socket) /\ 1 < j + 1
        BY <1>2, RowTypes
    <3> QED BY <1>2, <2>2, <3>1, RowTypes DEF RowsInOrder, SocketOrdered
  <2>5. buffer'[i].candle =< now'
      BY <1>1, <2>2, <2>3, RowTypes
  <2>6. \A j \in 1..Len(socket') : buffer'[i].candle =< socket'[j]
      BY <2>2, <2>3, <2>4, RowTypes
  <2> QED BY <2>5, <2>6
<1>9. OnlyLastForms'
  <2> SUFFICES ASSUME trouble' = {}, NEW i \in 1..Len(buffer')
               PROVE  buffer'[i].final
      BY DEF OnlyLastForms
  <2>1. \A x \in 1..n : buffer[x].final \/ (x = n /\ buffer[x].candle = socket[1])
      BY <1>1 DEF RowsInOrder, OnlyLastForms, Coming, n
  <2> QED BY <1>3, <1>4, <2>1
<1> QED BY <1>2, <1>4, <1>5, <1>7, <1>8, <1>9 DEF RowsInOrder

\* What was in the socket is lost.
LEMMA RowsCutOff ==
  ASSUME ConstantsOK, TypeOK, RowsInOrder, LinkLost
  PROVE  RowsInOrder'
<1>1. /\ UNCHANGED <<now, buffer>> /\ socket' = <<>>
      /\ trouble' = IF socket = <<>> THEN trouble ELSE trouble \cup {"missed"}
    BY DEF LinkLost
<1>2. Len(socket') = 0
    BY <1>1, EmptySeq
<1> QED BY <1>1, <1>2 DEF RowsInOrder, SocketOrdered, BufferOrdered, RowsBefore, OnlyLastForms,
                          Coming

\* A candle closes after all that are in the socket, and after all rows but its own.
LEMMA RowsGrowOld ==
  ASSUME ConstantsOK, TypeOK, RowsInOrder, CandleCloses
  PROVE  RowsInOrder' /\ socket' \in Seq(Candles)
<1>1. now' = now + 1 /\ buffer' = buffer /\ now \in Candles
    BY DEF CandleCloses, managerVars, TypeOK
<1>2. CASE link # "up"
  <2>1. /\ socket' = socket /\ (trouble' = {} => trouble = {})
        /\ ("overtaken" \notin trouble' => "overtaken" \notin trouble)
        /\ (buffer # <<>> => trouble' # {})
      BY <1>2 DEF CandleCloses
  <2>2. buffer = <<>> => Len(buffer) = 0
      BY EmptySeq
  <2>3. SocketOrdered' /\ BufferOrdered'
      BY <1>1, <2>1, RowTypes DEF RowsInOrder, SocketOrdered, BufferOrdered
  <2>4. RowsBefore'
    <3> SUFFICES ASSUME "overtaken" \notin trouble', NEW i \in 1..Len(buffer')
                 PROVE  buffer'[i].candle =< now'
                        /\ \A j \in 1..Len(socket') : buffer'[i].candle =< socket'[j]
        BY DEF RowsBefore
    <3>1. buffer[i].candle =< now /\ buffer[i].candle \in Nat
          /\ \A j \in 1..Len(socket) : buffer[i].candle =< socket[j]
        BY <1>1, <2>1, RowTypes DEF RowsInOrder, RowsBefore
    <3> QED BY <1>1, <2>1, <3>1, RowTypes
  <2>5. OnlyLastForms'
      BY <1>1, <2>1, <2>2 DEF OnlyLastForms
  <2> QED BY <2>1, <2>3, <2>4, <2>5 DEF RowsInOrder, TypeOK
<1>3. CASE link = "up"
  <2> DEFINE m == Len(socket)
  <2>1. socket' = Append(socket, now) /\ trouble' = trouble
      BY <1>3 DEF CandleCloses
  <2>2. /\ socket' \in Seq(Candles) /\ Len(socket') = m + 1 /\ socket' # <<>> /\ m \in Nat
        /\ \A i \in 1..m : socket'[i] = socket[i]
        /\ socket'[m + 1] = now
      BY <1>1, <2>1, RowTypes, AppendProperties DEF TypeOK
  <2> HIDE DEF m
  <2>3. SocketOrdered'
    <3>1. /\ \A i, j \in 1..m : i < j => socket[i] < socket[j]
          /\ \A i \in 1..m : socket[i] < now /\ socket[i] \in Nat
        BY RowTypes DEF RowsInOrder, SocketOrdered, m
    <3>2. now \in Nat
        BY RowTypes
    <3>3. ASSUME NEW i \in 1..Len(socket'), NEW j \in 1..Len(socket'), i < j
          PROVE  socket'[i] < socket'[j]
      <4>1. i \in 1..m /\ socket'[i] = socket[i]
          BY <2>2, <3>3
      <4> QED BY <2>2, <3>1, <3>3, <4>1
    <3>4. \A i \in 1..Len(socket') : socket'[i] < now'
        BY <1>1, <2>2, <3>1, <3>2
    <3> QED BY <3>3, <3>4 DEF SocketOrdered
  <2>4. BufferOrdered'
      BY <1>1, <2>1 DEF RowsInOrder, BufferOrdered
  <2>5. RowsBefore'
    <3> SUFFICES ASSUME "overtaken" \notin trouble', NEW i \in 1..Len(buffer')
                 PROVE  buffer'[i].candle =< now'
                        /\ \A j \in 1..Len(socket') : buffer'[i].candle =< socket'[j]
        BY DEF RowsBefore
    <3>1. buffer[i].candle =< now /\ buffer[i].candle \in Nat
          /\ \A j \in 1..m : buffer[i].candle =< socket[j]
        BY <1>1, <2>1, RowTypes DEF RowsInOrder, RowsBefore, m
    <3> QED BY <1>1, <2>2, <3>1, RowTypes
  <2>6. Coming' = Coming
    <3>1. CASE socket = <<>>
        BY <2>2, <3>1, EmptySeq DEF Coming, m
    <3>2. CASE socket # <<>>
        BY <2>2, <3>2, RowTypes DEF Coming, m
    <3> QED BY <3>1, <3>2
  <2>7. OnlyLastForms'
      BY <1>1, <2>1, <2>6 DEF RowsInOrder, OnlyLastForms
  <2> QED BY <2>2, <2>3, <2>4, <2>5, <2>7 DEF RowsInOrder
<1> QED BY <1>2, <1>3

-----------------------------------------------------------------------------
(* One lemma per action.                                                   *)

LEMMA GotoType ==
  ASSUME TypeOK, NEW s \in Strategies, NEW where \in Steps, Goto(s, where)
  PROVE  /\ step' \in [Strategies -> Steps]
         /\ \A x \in Strategies : step'[x] = IF x = s THEN where ELSE step[x]
BY DEF TypeOK, Goto

\* A strategy starts, waits, is stopped or dies: none becomes a holder by that.
LEMMA StartKeeps ==
  ASSUME ConstantsOK, IInv, NEW s \in Strategies, Start(s)
  PROVE  IInv'
<1>1. /\ step' \in [Strategies -> Steps]
      /\ \A x \in Strategies : step'[x] = IF x = s THEN "start" ELSE step[x]
    BY GotoType DEF Start, IInv, Steps
<1>2. Holders' \subseteq Holders
    BY <1>1 DEF Start, managerVars, Holders, Looping
<1>3. CountCovers'
    BY <1>2, HoldersKept DEF Start, managerVars, IInv
<1>4. RowsInOrder'
    BY RowsUnchanged DEF IInv, Start, exchangeVars, managerVars
<1>5. seen' \in [Strategies -> 0..MaxCandle] /\ misread' \subseteq misread
    BY DEF IInv, TypeOK, Start, ConstantsOK
<1>6. LockerSubscribes'
    BY <1>1 DEF IInv, TypeOK, LockerSubscribes, Start, managerVars
<1> QED BY <1>1, <1>3, <1>4, <1>5, <1>6
        DEF IInv, TypeOK, Start, exchangeVars, managerVars, OnlyClosedProcessed

LEMMA MovesKeeps ==
  ASSUME ConstantsOK, IInv, NEW s \in Strategies, Timeout(s) \/ Die(s) \/ Stop(s)
  PROVE  IInv'
<1>1. PICK where \in {"evaluate", "out", "stopping"} : Goto(s, where)
    BY DEF Timeout, Die, Stop
<1>2. /\ step' \in [Strategies -> Steps]
      /\ \A x \in Strategies : step'[x] = IF x = s THEN where ELSE step[x]
    BY <1>1, GotoType DEF IInv, Steps
<1>3. /\ step[s] \in Looping /\ lock' \in {lock, Nobody}
      /\ UNCHANGED <<exchangeVars, link, count, buffer, seen, misread, trouble>>
    BY DEF Timeout, Die, Stop, managerVars, Looping
<1>4. Nobody \notin Strategies
    BY DEF ConstantsOK
<1>5. Holders' \subseteq Holders
    BY <1>2, <1>3, <1>4 DEF Holders, Looping
<1>6. CountCovers'
    BY <1>3, <1>5, HoldersKept DEF IInv
<1>7. RowsInOrder'
    BY <1>3, RowsUnchanged DEF IInv, exchangeVars
<1>8. LockerSubscribes'
  <2>1. lock' # Nobody => lock' = lock /\ lock # s /\ lock \in Strategies
      BY DEF IInv, TypeOK, LockerSubscribes, Timeout, Die, Stop, managerVars
  <2> QED BY <1>2, <2>1 DEF IInv, LockerSubscribes
<1> QED BY <1>2, <1>3, <1>6, <1>7, <1>8 DEF IInv, TypeOK, exchangeVars, OnlyClosedProcessed

\* Only the first subscription of a stream connects, and it is of no loop yet: all
\* that go on have a stream.
LEMMA ConnectKeeps ==
  ASSUME ConstantsOK, IInv, NEW s \in Strategies, Connect(s)
  PROVE  IInv'
<1>1. /\ link' = "opening" /\ Counted /\ lock' = s /\ buffer' = <<>> /\ lock = Nobody
      /\ UNCHANGED <<exchangeVars, step, seen, misread, trouble>>
    BY DEF Connect
<1>2. Holders' \subseteq Holders \cup {s}
    BY <1>1 DEF Holders, ConstantsOK
<1>3. count' \in 1..MaxCount /\ CountCovers'
    BY <1>1, <1>2, CountedKeeps DEF IInv
<1>4. RowsInOrder'
    BY <1>1, RowsThrownAway DEF IInv, exchangeVars
<1>5. buffer' \in Seq(Rows)
    BY <1>1, EmptySeq
<1>6. LockerSubscribes'
    BY <1>1 DEF LockerSubscribes, Connect
<1> QED BY <1>1, <1>3, <1>4, <1>5, <1>6 DEF IInv, TypeOK, exchangeVars, OnlyClosedProcessed, ConstantsOK

\* Where a strategy that has subscribed goes on.
LEMMA SubscribedType ==
  ASSUME TypeOK, NEW s \in Strategies, Subscribed(s), step[s] \in {"start", "evaluate", "rest"}
  PROVE  /\ step' \in [Strategies -> Steps]
         /\ \E where \in Looping : step' = [step EXCEPT ![s] = where]
         /\ \A x \in Strategies : x # s => step'[x] = step[x]
<1>1. PICK where \in {"evaluate", "fetch", "waiting"} : Goto(s, where)
    BY DEF Subscribed
<1> QED BY <1>1, GotoType DEF Goto, Steps, Looping

LEMMA JoinKeeps ==
  ASSUME ConstantsOK, IInv, NEW s \in Strategies, Join(s)
  PROVE  IInv'
<1>1. /\ step[s] \in {"start", "evaluate", "rest"} /\ Subscribed(s) /\ Counted /\ link # "none"
      /\ UNCHANGED <<exchangeVars, link, lock, buffer, seen, misread, trouble>>
    BY DEF Join
<1>2. step' \in [Strategies -> Steps] /\ \A x \in Strategies : x # s => step'[x] = step[x]
    BY <1>1, SubscribedType DEF IInv
<1>3. Holders' \subseteq Holders \cup {s}
    BY <1>1, <1>2 DEF Holders
<1>4. count' \in 1..MaxCount /\ CountCovers'
    BY <1>1, <1>3, CountedKeeps DEF IInv
<1>5. RowsInOrder'
    BY <1>1, RowsUnchanged DEF IInv, exchangeVars
<1>6. LockerSubscribes'
    BY DEF LockerSubscribes, Join
<1> QED BY <1>1, <1>2, <1>4, <1>5, <1>6 DEF IInv, TypeOK, exchangeVars, OnlyClosedProcessed

\* Who holds the lock was counted when it connected.
LEMMA ConnectedKeeps ==
  ASSUME ConstantsOK, IInv, NEW s \in Strategies, Connected(s)
  PROVE  IInv'
<1>1. /\ lock = s /\ lock' = Nobody /\ Subscribed(s)
      /\ UNCHANGED <<exchangeVars, link, count, buffer, seen, misread, trouble>>
    BY DEF Connected
<1>2. step' \in [Strategies -> Steps] /\ \A x \in Strategies : x # s => step'[x] = step[x]
  <2>1. step[s] \in {"start", "evaluate", "rest"}
      BY <1>1 DEF IInv, LockerSubscribes, ConstantsOK
  <2> QED BY <1>1, <2>1, SubscribedType DEF IInv
<1>3. Holders' \subseteq Holders
    BY <1>1, <1>2 DEF Holders, ConstantsOK
<1>4. CountCovers'
    BY <1>1, <1>3, HoldersKept DEF IInv
<1>5. RowsInOrder'
    BY <1>1, RowsUnchanged DEF IInv, exchangeVars
<1>6. LockerSubscribes'
    BY <1>1 DEF LockerSubscribes
<1> QED BY <1>1, <1>2, <1>4, <1>5, <1>6 DEF IInv, TypeOK, exchangeVars, OnlyClosedProcessed

\* What is the last closed row of a buffer has closed, unless something went wrong.
LEMMA BufferFinal ==
  ASSUME ConstantsOK, IInv, Len(buffer) >= Limit
  PROVE  LastClosed(buffer) \in Rows /\ (trouble = {} => LastClosed(buffer).final)
<1>1. buffer \in Seq(Rows)
    BY DEF IInv, TypeOK
<1>2. trouble = {} => \A i \in 1..Len(buffer) : buffer[i].final \/ i = Len(buffer)
    BY DEF IInv, RowsInOrder, OnlyLastForms
<1> QED BY <1>1, <1>2, LastClosedFinal

LEMMA FetchedFinal ==
  ASSUME ConstantsOK, IInv
  PROVE  LastClosed(Fetched) \in Rows /\ LastClosed(Fetched).final
<1>1. now \in Candles /\ now >= Limit /\ Limit \in Nat
    BY DEF IInv, TypeOK, ConstantsOK
<1>2. /\ Fetched \in Seq(Rows) /\ Len(Fetched) = Limit
      /\ \A i \in 1..Len(Fetched) : Fetched[i].final \/ i = Len(Fetched)
    BY <1>1, FetchedProperties
<1> QED BY <1>1, <1>2, LastClosedFinal

LEMMA ReadKeeps ==
  ASSUME ConstantsOK, IInv, NEW s \in Strategies, Read(s)
  PROVE  IInv'
<1>1. /\ Len(buffer) >= Limit /\ Process(s, LastClosed(buffer)) /\ Counted /\ lock = Nobody
      /\ Goto(s, "rest") /\ link # "none"
      /\ UNCHANGED <<exchangeVars, link, lock, buffer, trouble>>
    BY DEF Read
<1>2. /\ step' \in [Strategies -> Steps]
      /\ \A x \in Strategies : step'[x] = IF x = s THEN "rest" ELSE step[x]
    BY <1>1, GotoType DEF IInv, Steps
<1>3. Holders' \subseteq Holders \cup {s}
    BY <1>1, <1>2 DEF Holders
<1>4. count' \in 1..MaxCount /\ CountCovers'
    BY <1>1, <1>3, CountedKeeps DEF IInv
<1>5. RowsInOrder'
    BY <1>1, RowsUnchanged DEF IInv, exchangeVars
<1>6. /\ seen' \in [Strategies -> 0..MaxCandle] /\ misread' \subseteq Strategies
      /\ OnlyClosedProcessed'
    BY <1>1, BufferFinal, ProcessKeeps DEF IInv
<1> QED BY <1>1, <1>2, <1>4, <1>5, <1>6 DEF IInv, TypeOK, exchangeVars, LockerSubscribes

\* Fetched or found, the rows that are evaluated are in order; the branch of no stream is
\* never taken.
LEMMA FetchKeeps ==
  ASSUME ConstantsOK, IInv, NEW s \in Strategies, Fetch(s) \/ FetchFails(s)
  PROVE  IInv'
<1>1. /\ step[s] = "fetch" /\ lock = Nobody /\ Goto(s, "rest")
      /\ UNCHANGED <<exchangeVars, link, count, lock>>
    BY DEF Fetch, FetchFails, managerVars
<1>2. /\ step' \in [Strategies -> Steps]
      /\ \A x \in Strategies : step'[x] = IF x = s THEN "rest" ELSE step[x]
    BY <1>1, GotoType DEF IInv, Steps
<1>3. s \in Holders /\ Holders' \subseteq Holders
    BY <1>1, <1>2 DEF Holders, Looping
<1>4. link # "none"
    BY <1>3, NoStreamNoHolders DEF IInv
<1>5. CountCovers'
    BY <1>1, <1>3, HoldersKept DEF IInv
<1>6. \/ UNCHANGED <<buffer, trouble>>
      \/ /\ buffer' = Fetched
         /\ trouble' = IF socket = <<>> THEN trouble ELSE trouble \cup {"overtaken"}
    BY <1>4 DEF Fetch, FetchFails, managerVars
<1>7. RowsInOrder'
  <2>1. CASE UNCHANGED <<buffer, trouble>>
      BY <1>1, <2>1, RowsUnchanged DEF IInv, exchangeVars
  <2>2. CASE buffer' = Fetched
             /\ trouble' = IF socket = <<>> THEN trouble ELSE trouble \cup {"overtaken"}
      BY <1>1, <2>2, RowsFetched DEF IInv, exchangeVars
  <2> QED BY <1>6, <2>1, <2>2
<1>8. PICK row : /\ Process(s, row)
                 /\ \/ row = LastClosed(buffer) /\ Len(buffer) >= Limit
                    \/ row = LastClosed(Fetched)
    BY <1>4 DEF Fetch, FetchFails
<1>9. /\ seen' \in [Strategies -> 0..MaxCandle] /\ misread' \subseteq Strategies
      /\ OnlyClosedProcessed'
  <2>1. trouble' = {} => trouble = {}
      BY <1>6
  <2>2. row \in Rows /\ (trouble = {} => row.final)
      BY <1>8, BufferFinal, FetchedFinal
  <2> QED BY <1>8, <2>1, <2>2, ProcessKeeps DEF IInv
<1>10. buffer' \in Seq(Rows) /\ trouble' \subseteq {"overtaken", "missed"}
    BY <1>6, FetchedProperties DEF IInv, TypeOK
<1> QED BY <1>1, <1>2, <1>4, <1>5, <1>7, <1>9, <1>10
        DEF IInv, TypeOK, exchangeVars, LockerSubscribes

\* The last one that is counted takes the stream with it, and then there is no other.
LEMMA UnsubscribeKeeps ==
  ASSUME ConstantsOK, IInv, NEW s \in Strategies, Unsubscribe(s)
  PROVE  IInv'
<1>1. /\ step[s] = "stopping" /\ lock = Nobody /\ Goto(s, "out")
      /\ UNCHANGED <<now, lock, seen, misread, trouble>>
    BY DEF Unsubscribe
<1>2. /\ step' \in [Strategies -> Steps]
      /\ \A x \in Strategies : step'[x] = IF x = s THEN "out" ELSE step[x]
    BY <1>1, GotoType DEF IInv, Steps
<1>3. s \in Holders /\ Holders' \subseteq Holders \ {s}
    BY <1>1, <1>2 DEF Holders, Looping, ConstantsOK
<1>4. link # "none" /\ count # 0
    BY <1>3, NoStreamNoHolders, UncountedKeeps DEF IInv
<1>5. CASE count > 1 /\ Uncounted /\ UNCHANGED <<socket, link, buffer>>
  <2>1. count' \in 1..MaxCount /\ CountCovers'
      BY <1>3, <1>5, UncountedKeeps DEF IInv
  <2>2. RowsInOrder'
      BY <1>1, <1>5, RowsUnchanged DEF IInv
  <2> QED BY <1>1, <1>2, <1>4, <1>5, <2>1, <2>2
          DEF IInv, TypeOK, LockerSubscribes, OnlyClosedProcessed
<1>6. CASE count = 1 /\ count' = 0 /\ link' = "none" /\ buffer' = <<>> /\ socket' = <<>>
  <2>1. Holders' = {}
      BY <1>3, <1>6, UncountedKeeps DEF IInv
  <2>2. CountCovers'
      BY <1>6, <2>1, FS_EmptySet DEF CountCovers
  <2>3. RowsInOrder'
      BY <1>1, <1>6, RowsThrownAway DEF IInv
  <2>4. 0 \in 0..MaxCount /\ buffer' \in Seq(Rows) /\ socket' \in Seq(Candles)
      BY <1>6, EmptySeq DEF ConstantsOK
  <2> QED BY <1>1, <1>2, <1>6, <2>2, <2>3, <2>4
          DEF IInv, TypeOK, LockerSubscribes, OnlyClosedProcessed
<1> QED BY <1>4, <1>5, <1>6 DEF Unsubscribe

LEMMA DeliverKeeps ==
  ASSUME ConstantsOK, IInv, Deliver
  PROVE  IInv'
<1>1. /\ link = "up" /\ UNCHANGED <<now, link, count, lock, seen, misread, trouble>>
      /\ step' = [s \in Strategies |-> IF step[s] = "waiting" THEN "evaluate" ELSE step[s]]
    BY DEF Deliver
<1>2. step' \in [Strategies -> Steps]
    BY <1>1 DEF IInv, TypeOK, Steps
<1>3. Holders' \subseteq Holders
    BY <1>1 DEF Holders, Looping
<1>4. CountCovers'
    BY <1>1, <1>3, HoldersKept DEF IInv
<1>5. RowsInOrder' /\ buffer' \in Seq(Rows) /\ socket' \in Seq(Candles)
    BY RowsDelivered DEF IInv
<1>6. LockerSubscribes'
    BY <1>1 DEF IInv, TypeOK, LockerSubscribes
<1> QED BY <1>1, <1>2, <1>4, <1>5, <1>6 DEF IInv, TypeOK, OnlyClosedProcessed

LEMMA LinkKeeps ==
  ASSUME ConstantsOK, IInv, LinkUp \/ LinkLost \/ CandleCloses \/ UNCHANGED vars
  PROVE  IInv'
<1>1. UNCHANGED <<count, lock, buffer, step, seen, misread>>
    BY DEF LinkUp, LinkLost, CandleCloses, vars, managerVars
<1>2. link' \in {"none", "opening", "up", "down"} /\ (link' = "none" => link = "none")
    BY DEF IInv, TypeOK, LinkUp, LinkLost, CandleCloses, vars, managerVars
<1>3. Holders' = Holders
    BY <1>1 DEF Holders
<1>4. CountCovers' /\ LockerSubscribes'
    BY <1>1, <1>3 DEF IInv, CountCovers, LockerSubscribes
<1>5. RowsInOrder' /\ socket' \in Seq(Candles)
  <2>1. CASE LinkUp \/ UNCHANGED vars
      BY <2>1, RowsUnchanged DEF IInv, TypeOK, LinkUp, exchangeVars, vars
  <2>2. CASE LinkLost
      BY <2>2, RowsCutOff, EmptySeq DEF IInv, LinkLost
  <2>3. CASE CandleCloses
      BY <2>3, RowsGrowOld DEF IInv
  <2> QED BY <2>1, <2>2, <2>3
<1>6. trouble' \in {trouble, trouble \cup {"missed"}}
    BY DEF LinkUp, LinkLost, CandleCloses, vars
<1>7. trouble' \subseteq {"overtaken", "missed"} /\ (trouble' = {} => trouble = {})
    BY <1>6 DEF IInv, TypeOK
<1>8. now' = now \/ (now < MaxCandle /\ now' = now + 1)
    BY DEF LinkUp, LinkLost, CandleCloses, vars, exchangeVars
<1>9. now' \in Candles /\ now' >= Limit
    BY <1>8 DEF IInv, TypeOK, Candles, ConstantsOK
<1> QED BY <1>1, <1>2, <1>4, <1>5, <1>7, <1>9 DEF IInv, TypeOK, OnlyClosedProcessed

LEMMA InitKeeps ==
  ASSUME ConstantsOK, Init
  PROVE  IInv
<1>1. socket = <<>> /\ buffer = <<>> /\ Len(<<>>) = 0
    BY EmptySeq DEF Init
<1>2. TypeOK /\ now >= Limit
    BY EmptySeq DEF Init, TypeOK, ConstantsOK, Candles, Steps
<1>3. Holders = {}
    BY DEF Init, Holders, Looping, ConstantsOK
<1>4. CountCovers
    BY <1>3, FS_EmptySet DEF Init, CountCovers
<1>5. RowsInOrder
    BY <1>1 DEF RowsInOrder, SocketOrdered, BufferOrdered, RowsBefore, OnlyLastForms
<1> QED BY <1>2, <1>4, <1>5 DEF Init, IInv, LockerSubscribes, OnlyClosedProcessed

LEMMA NextKeeps ==
  ASSUME ConstantsOK, IInv, [Next]_vars
  PROVE  IInv'
BY StartKeeps, MovesKeeps, ConnectKeeps, JoinKeeps, ConnectedKeeps, ReadKeeps, FetchKeeps,
   UnsubscribeKeeps, DeliverKeeps, LinkKeeps DEF Next, Loop, Locking

LEMMA Invariance == ConstantsOK => (Spec => []IInv)
<1> SUFFICES ASSUME ConstantsOK PROVE Spec => []IInv
    OBVIOUS
<1>1. Init => IInv
    BY InitKeeps
<1>2. IInv /\ [Next]_vars => IInv'
    BY NextKeeps
<1> QED BY <1>1, <1>2, PTL DEF Spec

-----------------------------------------------------------------------------
(* What the invariant says of the properties.                              *)

LEMMA InvariantStream ==
  ASSUME ConstantsOK, IInv
  PROVE  RunningHasStream
<1>1. ASSUME NEW s \in Strategies, step[s] \in Looping PROVE link # "none"
  <2>1. s \in Holders
      BY <1>1 DEF Holders
  <2> QED BY <2>1, NoStreamNoHolders DEF IInv
<1> QED BY <1>1 DEF RunningHasStream

LEMMA InvariantRows == IInv => BufferOrdered /\ OnlyClosedProcessed
BY DEF IInv, RowsInOrder

\* Every variable keeps its type: what is fetched, delivered and replaced are rows.
THEOREM TypeCorrect == ConstantsOK => (Spec => []TypeOK)
<1> SUFFICES ASSUME ConstantsOK PROVE Spec => []TypeOK
    OBVIOUS
<1>1. IInv => TypeOK
    BY DEF IInv
<1>2. Spec => []IInv
    BY Invariance
<1> QED BY <1>1, <1>2, PTL

\* Whatever the order of starts, refusals, stops and deaths, and although a loop is
\* counted with every round and given back once, no stream is closed under a strategy
\* whose loop goes on.
THEOREM StreamOutlivesLoops == ConstantsOK => (Spec => []RunningHasStream)
<1> SUFFICES ASSUME ConstantsOK PROVE Spec => []RunningHasStream
    OBVIOUS
<1>1. IInv => RunningHasStream
    BY InvariantStream
<1>2. Spec => []IInv
    BY Invariance
<1> QED BY <1>1, <1>2, PTL

\* The rows are in the order of their candles, each candle once, as long as no fetch
\* has overtaken candles that were in the socket.
THEOREM RowsStayOrdered == ConstantsOK => (Spec => []BufferOrdered)
<1> SUFFICES ASSUME ConstantsOK PROVE Spec => []BufferOrdered
    OBVIOUS
<1>1. IInv => BufferOrdered
    BY InvariantRows
<1>2. Spec => []IInv
    BY Invariance
<1> QED BY <1>1, <1>2, PTL

\* No strategy takes a forming candle for a closed one, as long as nothing was missed or
\* overtaken: the forming row is the last one, and what comes next replaces it.
THEOREM FormingNotProcessed == ConstantsOK => (Spec => []OnlyClosedProcessed)
<1> SUFFICES ASSUME ConstantsOK PROVE Spec => []OnlyClosedProcessed
    OBVIOUS
<1>1. IInv => OnlyClosedProcessed
    BY InvariantRows
<1>2. Spec => []IInv
    BY Invariance
<1> QED BY <1>1, <1>2, PTL
=============================================================================
