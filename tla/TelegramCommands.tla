-------------------------- MODULE TelegramCommands --------------------------
(* app/services/telegram_commands.py: the long polling of the commands     *)
(* that a user sends the bot.  Telegram keeps an update until a request    *)
(* with a higher offset confirms it.  The offset is kept in memory only.   *)
EXTENDS Naturals, Sequences

CONSTANTS
  MaxCommands,  \* bound
  MaxRestarts   \* bound

ConstantsOK == MaxCommands \in Nat /\ MaxRestarts \in Nat

VARIABLES
  sent,         \* updates so far: 1..sent
  kept,         \* the first update Telegram still has
  offset,       \* of process_updates; 0 is None
  batch,        \* updates still to be processed of the last answer
  busy,         \* the update that is being processed, or 0
  carried,      \* history: how often each command was carried out
  failed,       \* history: commands that raised
  cleared,      \* history: commands thrown away in a conflict
  starts        \* restarts so far

vars == <<sent, kept, offset, batch, busy, carried, failed, cleared, starts>>

Updates == 1..MaxCommands

TypeOK ==
  /\ sent \in 0..MaxCommands /\ kept \in 1..MaxCommands + 1
  /\ offset \in 0..MaxCommands + 1
  /\ batch \subseteq Updates /\ busy \in 0..MaxCommands
  /\ carried \in [Updates -> Nat] /\ failed \subseteq Updates /\ cleared \subseteq Updates
  /\ starts \in 0..MaxRestarts

Init ==
  /\ sent = 0 /\ kept = 1 /\ offset = 0 /\ batch = {} /\ busy = 0
  /\ carried = [u \in Updates |-> 0] /\ failed = {} /\ cleared = {} /\ starts = 0

Greater(a, b) == IF a > b THEN a ELSE b
Polling == batch = {} /\ busy = 0

\* External: the user sends a command.
Command ==
  /\ sent < MaxCommands /\ sent' = sent + 1
  /\ UNCHANGED <<kept, offset, batch, busy, carried, failed, cleared, starts>>

\* getUpdates: what is below the offset is confirmed; the answer has the rest, or is lost.
Poll ==
  /\ Polling
  /\ kept' = Greater(kept, offset)
  /\ batch' \in {{}, kept'..sent}
  /\ UNCHANGED <<sent, offset, busy, carried, failed, cleared, starts>>

\* 409, another program polls: a request with offset -1 forgets all but the last update.
Conflict ==
  /\ Polling
  /\ kept' = Greater(Greater(kept, sent), 1)
  /\ cleared' = cleared \cup (Greater(kept, offset)..kept' - 1)
  /\ UNCHANGED <<sent, offset, batch, busy, carried, failed, starts>>

First == CHOOSE u \in batch : \A v \in batch : u <= v

\* The offset moves before the command is processed.
Take ==
  /\ busy = 0 /\ batch # {}
  /\ busy' = First /\ batch' = batch \ {First} /\ offset' = First + 1
  /\ UNCHANGED <<sent, kept, carried, failed, cleared, starts>>

\* process_command and the answer.
Done ==
  /\ busy # 0 /\ busy' = 0
  /\ carried' = [carried EXCEPT ![busy] = @ + 1]
  /\ UNCHANGED <<sent, kept, offset, batch, failed, cleared, starts>>

\* It raised: the rest of the answer is asked for again.
Raise ==
  /\ busy # 0 /\ busy' = 0 /\ batch' = {}
  /\ failed' = failed \cup {busy}
  /\ UNCHANGED <<sent, kept, offset, carried, cleared, starts>>

\* The program ends, in the middle of a command or not, and starts again.
Restart ==
  /\ starts < MaxRestarts /\ starts' = starts + 1
  /\ offset' = 0 /\ batch' = {} /\ busy' = 0
  /\ carried' \in {carried} \cup (IF busy = 0 THEN {} ELSE {[carried EXCEPT ![busy] = @ + 1]})
  /\ UNCHANGED <<sent, kept, failed, cleared>>

Next == Command \/ Poll \/ Conflict \/ Take \/ Done \/ Raise \/ Restart

Spec == Init /\ [][Next]_vars

-----------------------------------------------------------------------------
(* A command that Telegram has forgotten was carried out, failed, or was   *)
(* thrown away in a conflict; and it is carried out once, and once more at *)
(* most for each restart.  A start or a stop of a strategy is not lost     *)
(* with the program, nor repeated as long as it runs.                      *)
CommandsCarriedOut ==
  \A u \in Updates :
    /\ u < kept => carried[u] > 0 \/ u \in failed \cup cleared
    /\ carried[u] <= 1 + starts

=============================================================================
