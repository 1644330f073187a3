--------------------------- MODULE CompletedTrades ---------------------------
(***************************************************************************)
(* The completed trades of one position: entries of a strategy and the     *)
(* exits that close them, matched first in first out by                    *)
(* create_completed_trades_on_position_close and written, pair by pair, by *)
(* CompletedTradeService.create_completed_trade.                           *)
(*                                                                         *)
(* Three paths call it, each in a thread with a session of its own: the    *)
(* loop after an exit, the user data stream after a close from outside,    *)
(* and the manual close.  A pair is committed on its own; a commit lets go *)
(* of every row lock of its session.  Quantities are whole.                *)
(***************************************************************************)
EXTENDS Naturals, Sequences, FiniteSets, FiniteSetsExt, Functions

CONSTANTS
  EntryQty,   \* executed_qty of the entries, oldest first
  Named,      \* those that have the position_instance_id of the exits; others have none
  Exits,      \* exit orders of the position
  ExitQty,    \* executed_qty of each
  Calls,      \* the calls that are made
  ExitOf,     \* ... for which exit
  External,   \* those made for a close from outside
  Free        \* no call holds the row

Entries == DOMAIN EntryQty

ConstantsOK ==
  /\ EntryQty \in Seq(Nat) /\ Named \subseteq Entries
  /\ ExitQty \in [Exits -> Nat] /\ IsFiniteSet(Exits)
  /\ ExitOf \in [Calls -> Exits]
  /\ External \subseteq Calls
  /\ Free \notin Calls

VARIABLES
  saved,      \* the exit's row in trades: "no", "external" or "strategy"
  matched,    \* committed quantity of each pair of entry and exit
  entryLock,  \* which call holds the row lock of an entry
  exitLock,   \* ... of an exit
  at,         \* where each call is
  todo,       \* the entries it has found and not yet matched
  remaining,  \* what it has read of them as not yet allocated
  left,       \* what of its exit's quantity it has still to match
  cut         \* history: exits of which a call ended early, or found not all entries

locks == <<entryLock, exitLock>>
callVars == <<at, todo, remaining, left>>
vars == <<saved, matched, locks, callVars, cut>>

Total(f) == FoldFunction(+, 0, f)
Allocated(e) == Total([x \in Exits |-> matched[e][x]])
Matched(x) == Total([e \in Entries |-> matched[e][x]])
NamedQty == [e \in Named |-> EntryQty[e]]

Places == {"idle", "asleep", "check", "find", "match", "commit", "done"}

TypeOK ==
  /\ saved \in [Exits -> {"no", "external", "strategy"}]
  /\ matched \in [Entries -> [Exits -> Nat]]
  /\ entryLock \in [Entries -> Calls \cup {Free}]
  /\ exitLock \in [Exits -> Calls \cup {Free}]
  /\ at \in [Calls -> Places]
  /\ todo \in [Calls -> SUBSET Entries]
  /\ remaining \in [Calls -> [Entries -> Nat]]
  /\ left \in [Calls -> Nat]
  /\ cut \subseteq Exits
  /\ \A e \in Entries : entryLock[e] # Free => at[entryLock[e]] \in {"match", "commit"}
  /\ \A x \in Exits : exitLock[x] # Free => at[exitLock[x]] \in {"match", "commit"}

Init ==
  /\ saved = [x \in Exits |-> "no"]
  /\ matched = [e \in Entries |-> [x \in Exits |-> 0]]
  /\ entryLock = [e \in Entries |-> Free]
  /\ exitLock = [x \in Exits |-> Free]
  /\ at = [c \in Calls |-> "idle"]
  /\ todo = [c \in Calls |-> {}]
  /\ remaining = [c \in Calls |-> [e \in Entries |-> 0]]
  /\ left = [c \in Calls |-> 0]
  /\ cut = {}

-----------------------------------------------------------------------------
Goes(c, where) == at' = [at EXCEPT ![c] = where]

Unlocked(lock, c) == [row \in DOMAIN lock |-> IF lock[row] = c THEN Free ELSE lock[row]]

\* Variant: the entries stay locked.
ReleaseExit(c) ==
  /\ exitLock' = Unlocked(exitLock, c)
  /\ UNCHANGED entryLock

\* The session commits, rolls back or is closed: its locks go.
Release(c) ==
  /\ entryLock' = Unlocked(entryLock, c)
  /\ exitLock' = Unlocked(exitLock, c)

Ends(c) ==
  /\ Goes(c, "done")
  /\ Release(c)
  /\ todo' = [todo EXCEPT ![c] = {}]
  /\ remaining' = [remaining EXCEPT ![c] = [e \in Entries |-> 0]]
  /\ left' = [left EXCEPT ![c] = 0]

CutShort(c) == Ends(c) /\ cut' = cut \cup {ExitOf[c]}

\* The loop, or the manual close, saves the exit, or finds its row and corrects
\* the reason, and then calls.
SaveExit(c) ==
  /\ c \notin External
  /\ at[c] = "idle"
  /\ saved' = [saved EXCEPT ![ExitOf[c]] = "strategy"]
  /\ Goes(c, "check")
  /\ UNCHANGED <<matched, locks, todo, remaining, left, cut>>

\* handle_external_position_close: no exit of the position is known ...
NoticeClose(c) ==
  /\ c \in External
  /\ at[c] = "idle"
  /\ \A x \in Exits : saved[x] = "no"
  /\ Goes(c, "asleep")
  /\ UNCHANGED <<saved, matched, locks, todo, remaining, left, cut>>

\* ... and half a second later; save_trade finds a row by its order id, which a
\* unique index keeps single, and leaves a strategy's reason as it is.
SaveExternal(c) ==
  /\ at[c] = "asleep"
  /\ IF \A x \in Exits : saved[x] = "no"
       THEN saved' = [saved EXCEPT ![ExitOf[c]] = "external"] /\ Goes(c, "check")
       ELSE UNCHANGED saved /\ Goes(c, "done")
  /\ UNCHANGED <<matched, locks, todo, remaining, left, cut>>

\* Idempotency: nothing is done for an exit that has completed trades.
Check(c) ==
  /\ at[c] = "check"
  /\ IF Matched(ExitOf[c]) > 0
       THEN Ends(c)
       ELSE Goes(c, "find") /\ UNCHANGED <<locks, todo, remaining, left>>
  /\ UNCHANGED <<saved, matched, cut>>

\* The entries of the position that nobody else has locked, or, if there is none,
\* those without a position, locked (FOR UPDATE SKIP LOCKED); those with something
\* left.
Find(c) ==
  LET free == {e \in Entries : entryLock[e] = Free}
      found == IF free \cap Named # {} THEN free \cap Named ELSE free \ Named
      rest == [e \in Entries |-> IF e \in found THEN EntryQty[e] - Allocated(e) ELSE 0]
      open == {e \in Entries : rest[e] > 0}
  IN
  /\ at[c] = "find"
  /\ IF open = {}
       THEN Ends(c)
       ELSE /\ entryLock' = [e \in Entries |-> IF e \in found THEN c ELSE entryLock[e]]
            /\ todo' = [todo EXCEPT ![c] = open]
            /\ remaining' = [remaining EXCEPT ![c] = rest]
            /\ left' = [left EXCEPT ![c] = ExitQty[ExitOf[c]]]
            /\ Goes(c, "match")
            /\ UNCHANGED exitLock
  /\ cut' = IF Named \subseteq found THEN cut ELSE cut \cup {ExitOf[c]}
  /\ UNCHANGED <<saved, matched>>

\* First in, first out.
Oldest(c) == Min(todo[c])

Finish(c) ==
  /\ at[c] = "match"
  /\ left[c] = 0 \/ todo[c] = {}
  /\ Ends(c)
  /\ UNCHANGED <<saved, matched, cut>>

\* create_completed_trade locks entry and exit, without waiting.  If it cannot,
\* its transaction is aborted, and with it all that the call would still do.
Lock(c) ==
  /\ at[c] = "match"
  /\ left[c] > 0 /\ todo[c] # {}
  /\ LET e == Oldest(c)
         x == ExitOf[c]
     IN IF entryLock[e] \in {c, Free} /\ exitLock[x] \in {c, Free}
          THEN /\ entryLock' = [entryLock EXCEPT ![e] = c]
               /\ exitLock' = [exitLock EXCEPT ![x] = c]
               /\ Goes(c, "commit")
               /\ UNCHANGED <<todo, remaining, left, cut>>
          ELSE CutShort(c)
  /\ UNCHANGED <<saved, matched>>

Quantity(c) == Min({left[c], remaining[c][Oldest(c)]})

NextEntry(c) ==
  /\ todo' = [todo EXCEPT ![c] = @ \ {Oldest(c)}]
  /\ left' = [left EXCEPT ![c] = @ - Quantity(c)]
  /\ Goes(c, "match")
  /\ UNCHANGED remaining

\* Variant: what others have allocated meanwhile is not looked at.
CommitUnchecked(c) ==
  /\ at[c] = "commit"
  /\ matched' = [matched EXCEPT ![Oldest(c)][ExitOf[c]] = @ + Quantity(c)]
  /\ NextEntry(c)
  /\ Release(c)
  /\ UNCHANGED <<saved, cut>>

\* ... looks whether there is this very pair already, and otherwise whether both
\* quantities suffice, with the rows locked; then writes the pair and commits.
Commit(c) ==
  LET e == Oldest(c)
      x == ExitOf[c]
      q == Quantity(c)
  IN
  /\ at[c] = "commit"
  /\ \/ /\ matched[e][x] = q
        /\ NextEntry(c)
        /\ UNCHANGED <<matched, locks, cut>>
     \/ /\ matched[e][x] # q
        /\ Allocated(e) + q <= EntryQty[e]
        /\ Matched(x) + q <= ExitQty[x]
        /\ matched' = [matched EXCEPT ![e][x] = @ + q]
        /\ NextEntry(c)
        /\ Release(c)
        /\ UNCHANGED cut
     \/ /\ matched[e][x] # q
        /\ \/ Allocated(e) + q > EntryQty[e]
           \/ Matched(x) + q > ExitQty[x]
        /\ CutShort(c)
        /\ UNCHANGED matched
  /\ UNCHANGED saved

\* The process ends; nobody makes its calls again.
Crash ==
  LET running == {c \in Calls : at[c] \notin {"idle", "done"}} IN
  /\ running # {}
  /\ at' = [c \in Calls |-> IF c \in running THEN "done" ELSE at[c]]
  /\ entryLock' = [e \in Entries |-> Free]
  /\ exitLock' = [x \in Exits |-> Free]
  /\ todo' = [c \in Calls |-> {}]
  /\ remaining' = [c \in Calls |-> [e \in Entries |-> 0]]
  /\ left' = [c \in Calls |-> 0]
  /\ cut' = cut \cup {ExitOf[c] : c \in running}
  /\ UNCHANGED <<saved, matched>>

Step(c) ==
  \/ SaveExit(c) \/ NoticeClose(c) \/ SaveExternal(c)
  \/ Check(c) \/ Find(c) \/ Finish(c) \/ Lock(c) \/ Commit(c)

Next == Crash \/ \E c \in Calls : Step(c)

Spec == Init /\ [][Next]_vars

-----------------------------------------------------------------------------
(* Properties.                                                             *)

\* Whatever calls for the same exit, or for exits that share entries, run at the
\* same time: no entry and no exit is accounted for twice.
WithinQuantities ==
  /\ \A e \in Entries : Allocated(e) <= EntryQty[e]
  /\ \A x \in Exits : Matched(x) <= ExitQty[x]

\* When the calls for an exit have run and none of them ended early (by a crash,
\* a row that another call had locked, or quantities that another had taken),
\* the exit is matched in full, if the position's entries suffice for all exits.
MatchedInFull ==
  Total(ExitQty) <= Total(NamedQty) =>
  \A x \in Exits :
    /\ x \notin cut
    /\ \E c \in Calls : ExitOf[c] = x /\ c \notin External /\ at[c] = "done"
    /\ \A c \in Calls : ExitOf[c] = x => at[c] \in {"idle", "done"}
    => Matched(x) = ExitQty[x]

=============================================================================
