----------------------------- MODULE AnalysisRows -----------------------------
(***************************************************************************)
(* What becomes of the results of walk-forward and sensitivity analyses:   *)
(* the end of run_analysis in app/api/routes/backtesting.py, the           *)
(* save_..., list_... and delete_... methods of DatabaseService, and the   *)
(* routes of the history.  An analysis is saved in two transactions, its   *)
(* row and then its details (windows and equity curve, or the results of   *)
(* the parameters); a client reads the history page by page.  What leads   *)
(* to a result is in Analyses.                                             *)
(***************************************************************************)
EXTENDS Naturals, FiniteSets

CONSTANTS
  Tasks,
  Owner,        \* of each task, one of two users
  Reader,       \* the user that reads the history
  Limit         \* of a page

ConstantsOK == IsFiniteSet(Tasks) /\ Tasks = DOMAIN Owner /\ Limit \in Nat \ {0}

VARIABLES
  job,          \* run_analysis
  rows,         \* the analyses that are saved
  created,      \* the order in which they were, from 1 on; 0 before
  details,      \* those of them whose details are saved
  torn,         \* history: analyses whose details failed, or were cut short by a restart
  page          \* the client: its offset, what it has been shown, and history

vars == <<job, rows, created, details, torn, page>>

(* "due": the reader's rows of when it began, but for those that have been *)
(* deleted since, or have moved forward by a deletion.                     *)
Unread == [offset |-> 0, shown |-> {}, due |-> {}, open |-> FALSE]

TypeOK ==
  /\ job \in [Tasks -> {"none", "saving", "detailing", "done"}]
  /\ rows \subseteq Tasks /\ details \subseteq Tasks /\ torn \subseteq Tasks
  /\ created \in [Tasks -> 0..Cardinality(Tasks)]
  /\ page \in [offset : Nat, shown : SUBSET Tasks, due : SUBSET Tasks, open : BOOLEAN]

Init ==
  /\ job = [t \in Tasks |-> "none"]
  /\ rows = {} /\ created = [t \in Tasks |-> 0] /\ details = {} /\ torn = {} /\ page = Unread

Goes(t, place) == job' = [job EXCEPT ![t] = place]

-----------------------------------------------------------------------------
(* run_analysis and its task                                               *)

\* complete_task, and the result is saved.
Complete(t) ==
  /\ job[t] = "none" /\ Goes(t, "saving")
  /\ UNCHANGED <<rows, created, details, torn, page>>

\* The first transaction.
Insert(t) ==
  /\ job[t] = "saving" /\ Goes(t, "detailing") /\ rows' = rows \cup {t}
  /\ created' = [created EXCEPT ![t] = Cardinality({u \in Tasks : created[u] > 0}) + 1]
  /\ UNCHANGED <<details, torn, page>>

\* Logged, and never tried again.
InsertFails(t) ==
  /\ job[t] = "saving" /\ Goes(t, "done")
  /\ UNCHANGED <<rows, created, details, torn, page>>

\* The second one, which fails if the user has deleted the analysis.
Detail(t) ==
  /\ job[t] = "detailing" /\ Goes(t, "done")
  /\ \/ t \in rows /\ details' = details \cup {t} /\ UNCHANGED torn
     \/ torn' = torn \cup {t} /\ UNCHANGED details
  /\ UNCHANGED <<rows, created, page>>

\* The program ends: tasks live in memory only.
Restart ==
  /\ torn' = torn \cup {t \in Tasks : job[t] = "detailing"}
  /\ job' = [t \in Tasks |-> IF job[t] = "none" THEN "none" ELSE "done"]
  /\ UNCHANGED <<rows, created, details, page>>

-----------------------------------------------------------------------------
(* The history                                                             *)

Own == {t \in rows : Owner[t] = Reader}

\* The place of t in the reader's list, which has the latest first.
Place(t) == Cardinality({u \in Own : created[u] > created[t]})

\* list_..._analyses: by owner and the other filters, offset and limit.
Listed(from) == {t \in Own : Place(t) \in from..from + Limit - 1}

Open ==
  /\ ~page.open /\ page' = [Unread EXCEPT !.open = TRUE, !.due = Own]
  /\ UNCHANGED <<job, rows, created, details, torn>>

\* The next page; one that is not full is the last.
Page ==
  /\ page.open
  /\ LET more == Listed(page.offset)
     IN  page' = [page EXCEPT !.shown = @ \cup more, !.offset = @ + Cardinality(more),
                              !.open = Cardinality(more) = Limit]
  /\ UNCHANGED <<job, rows, created, details, torn>>

\* delete_..._analysis: its details go with it.  What comes after it moves to an earlier
\* page, where the client may have been.
Delete(t) ==
  /\ t \in rows /\ rows' = rows \ {t} /\ details' = details \ {t}
  /\ LET moved == IF Owner[t] = Reader THEN {u \in Own : created[u] <= created[t]} ELSE {}
     IN  page' = [page EXCEPT !.due = @ \ moved]
  /\ UNCHANGED <<job, created, torn>>

Next ==
  \/ \E t \in Tasks :
       \/ Complete(t) \/ Insert(t) \/ InsertFails(t) \/ Detail(t) \/ Delete(t)
  \/ Restart \/ Open \/ Page

Spec == Init /\ [][Next]_vars

-----------------------------------------------------------------------------
(* Properties.                                                             *)

\* A client that has read to the last page has been shown every analysis that was there
\* when it began, whatever has been saved meanwhile, unless one before it was deleted.
NothingMissed == ~page.open => page.due \subseteq page.shown

\* An analysis that is no longer being saved has its details, unless saving them failed or
\* was cut short; there are no details of one that was deleted.
Whole ==
  /\ details \subseteq rows
  /\ \A t \in rows : job[t] # "detailing" => t \in details \cup torn
=============================================================================
