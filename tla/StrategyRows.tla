----------------------------- MODULE StrategyRows -----------------------------
(***************************************************************************)
(* The row of a strategy and the summary of it in Redis: StrategyService   *)
(* in app/services/strategy_service.py and base_cache_service.py, over     *)
(* DatabaseService, whose transactions commit before the cache is touched. *)
(* Threads are requests on the event loop and updates that the order       *)
(* manager sends to a thread.  A row is the number of its version, and the *)
(* fields a summary leaves out (position_instance_id) are no part of it.   *)
(***************************************************************************)
EXTENDS Naturals

CONSTANTS
  Threads,
  MaxVersion    \* bound

ConstantsOK == MaxVersion \in Nat \ {0}

Absent == 0

VARIABLES
  row,          \* the version in the database
  version,      \* the last one so far
  cached,       \* the version in Redis
  at,           \* where each thread is
  has,          \* the version it has read or written
  behind        \* history: what is cached may be another version, and why is known

vars == <<row, version, cached, at, has, behind>>

Versions == 0..MaxVersion

TypeOK ==
  /\ row \in Versions /\ version \in Versions /\ cached \in Versions
  /\ at \in [Threads -> {"idle", "loaded", "created", "updated", "deleted"}]
  /\ has \in [Threads -> Versions] /\ behind \in BOOLEAN

Init ==
  /\ row = Absent /\ version = Absent /\ cached = Absent /\ behind = FALSE
  /\ at = [t \in Threads |-> "idle"] /\ has = [t \in Threads |-> Absent]

Goes(t, place, v) == at' = [at EXCEPT ![t] = place] /\ has' = [has EXCEPT ![t] = v]

\* The next version is committed.
Commits == version < MaxVersion /\ version' = version + 1 /\ row' = version + 1

-----------------------------------------------------------------------------
(* get_strategy: the cache, or the row, which then goes to the cache.      *)

Load(t) ==
  /\ at[t] = "idle" /\ cached = Absent /\ row # Absent /\ Goes(t, "loaded", row)
  /\ UNCHANGED <<row, version, cached, behind>>

\* Also the end of create_strategy.  What another one has written since is overtaken.
Save(t) ==
  /\ at[t] \in {"loaded", "created"} /\ Goes(t, "idle", Absent)
  /\ cached' = has[t] /\ behind' = (has[t] # row)
  /\ UNCHANGED <<row, version>>

\* Redis does not answer, or what it had has expired.
SaveFails(t) ==
  /\ at[t] \in {"loaded", "created"} /\ Goes(t, "idle", Absent)
  /\ UNCHANGED <<row, version, cached, behind>>

Expire ==
  /\ cached # Absent /\ cached' = Absent /\ behind' = FALSE
  /\ UNCHANGED <<row, version, at, has>>

-----------------------------------------------------------------------------
(* create_strategy, update_strategy, delete_strategy                       *)

Create(t) ==
  /\ at[t] = "idle" /\ row = Absent /\ Commits /\ Goes(t, "created", version + 1)
  /\ UNCHANGED <<cached, behind>>

\* Variant: the key is not cleared.
UpdateRowOnly(t) ==
  /\ at[t] = "idle" /\ row # Absent /\ Commits
  /\ UNCHANGED <<cached, at, has, behind>>

Update(t) ==
  /\ at[t] = "idle" /\ row # Absent /\ Commits /\ Goes(t, "updated", version + 1)
  /\ UNCHANGED <<cached, behind>>

Delete(t) ==
  /\ at[t] = "idle" /\ row # Absent /\ row' = Absent /\ Goes(t, "deleted", Absent)
  /\ UNCHANGED <<version, cached, behind>>

\* Whatever is cached by now goes; an error of Redis is logged, and leaves it.
Invalidate(t) ==
  /\ at[t] \in {"updated", "deleted"} /\ Goes(t, "idle", Absent)
  /\ \/ cached' = Absent /\ behind' = FALSE
     \/ UNCHANGED cached /\ behind' = (cached \notin {Absent, row})
  /\ UNCHANGED <<row, version>>

\* The status, when the risk manager stops a strategy and when a user resumes it: the row
\* is written without the service.
Direct ==
  /\ row # Absent /\ Commits /\ behind' = (cached # Absent)
  /\ UNCHANGED <<cached, at, has>>

Next ==
  \/ \E t \in Threads :
       \/ Load(t) \/ Save(t) \/ SaveFails(t)
       \/ Create(t) \/ Update(t) \/ Delete(t) \/ Invalidate(t)
  \/ Expire \/ Direct

Spec == Init /\ [][Next]_vars

-----------------------------------------------------------------------------
(* Property.                                                               *)

\* A summary in Redis is that of the row, unless a thread that has written the row has
\* still to clear it, a slower one has put back what it read before, clearing it failed,
\* or the row was written past the service.
CacheTrue ==
  \/ cached \in {Absent, row} \/ behind
  \/ \E t \in Threads : at[t] \in {"updated", "deleted"}
=============================================================================
