----------------------------- MODULE HistoryPages -----------------------------
(***************************************************************************)
(* The candles of a period, fetched in pages: _fetch_historical_klines and *)
(* _fetch_historical_klines_mainnet of app/api/routes/backtesting.py.  A   *)
(* candle is the number of its opening time, in intervals.                 *)
(***************************************************************************)
EXTENDS Integers, FiniteSets

CONSTANTS
  Page,       \* MAX_KLINES_PER_REQUEST
  Patience,   \* the chunk from which on an error ends the fetch
  Minimum,    \* the candles an analysis needs
  End         \* end_time; start_time is 1

ConstantsOK == {Page, Patience, Minimum, End} \subseteq Nat /\ Page > 0 /\ End > 0

VARIABLES
  existing,   \* what the exchange has of the period
  mainnet,    \* a plain backtest, which reads the public data
  got,        \* all_klines
  start,      \* current_start
  chunks,     \* chunk_count
  state,      \* fetching, done or refused
  skipped     \* history: the candles of the pages that failed

vars == <<existing, mainnet, got, start, chunks, state, skipped>>

TypeOK ==
  /\ {existing, got, skipped} \subseteq SUBSET (1..End + Page)
  /\ mainnet \in BOOLEAN
  /\ {start, chunks} \subseteq Nat
  /\ state \in {"fetching", "done", "refused"}

Init ==
  /\ existing \in SUBSET (1..End)
  /\ mainnet \in BOOLEAN
  /\ got = {} /\ skipped = {}
  /\ start = 1 /\ chunks = 0
  /\ state = "fetching"

\* What a request for the chunk at start returns: its first Page candles.
Returned ==
  LET asked == {c \in existing : start <= c /\ c <= start + Page}
  IN  {c \in asked : Cardinality({d \in asked : d < c}) < Page}

LastOf(S) == CHOOSE c \in S : \A d \in S : d <= c

More == state = "fetching" /\ start < End

NextStart(page) == LastOf(page) + 1

\* A short page is taken for the last one.
Fetch ==
  /\ More
  /\ got' = got \cup Returned
  /\ IF Cardinality(Returned) < Page
       THEN start' = End
       ELSE start' = NextStart(Returned)
  /\ chunks' = chunks + 1
  /\ UNCHANGED <<existing, mainnet, state, skipped>>

\* Through the account's client, one of the first pages is left out.
Fail ==
  /\ More
  /\ chunks' = chunks + 1
  /\ IF mainnet \/ chunks' >= Patience
       THEN state' = "refused" /\ UNCHANGED <<start, skipped>>
       ELSE start' = start + Page /\ skipped' = skipped \cup start..start + Page - 1 /\ UNCHANGED state
  /\ UNCHANGED <<existing, mainnet, got>>

Finish ==
  /\ state = "fetching" /\ start >= End
  /\ state' = IF Cardinality(got) < Minimum THEN "refused" ELSE "done"
  /\ UNCHANGED <<existing, mainnet, got, start, chunks, skipped>>

Next == Fetch \/ Fail \/ Finish

Spec == Init /\ [][Next]_vars

-----------------------------------------------------------------------------
(* Properties.                                                             *)

\* A backtest runs on every candle before the end that the exchange has, but
\* for pages that failed and what comes after a gap in its data.
NothingSkipped ==
  state = "done" =>
    \A c \in (existing \ got) \ {End} : c \in skipped \/ \E h \in 1..c : h \notin existing
=============================================================================
