-------------------------- MODULE StrategyLifecycle --------------------------
(***************************************************************************)
(* app/services/strategy_runner.py: how strategies are started, stopped,   *)
(* deleted and paused, and how their trading loops end.                    *)
(*                                                                         *)
(* Every authenticated HTTP request gets a StrategyRunner of its own       *)
(* (app/api/deps.py:189).  The runners share one registry of asyncio tasks *)
(* (_tasks), the database rows, and the StrategySummary objects that the   *)
(* base runner loaded from Redis at boot; a summary a request loads from   *)
(* the database is private to that request and to the loop it starts.      *)
(* Their locks are not shared, so what keeps two requests apart is only    *)
(* that a coroutine runs undisturbed between two awaits: each such stretch *)
(* is one action.                                                          *)
(***************************************************************************)
EXTENDS Integers, FiniteSets

CONSTANTS
    Strategies,     \* the strategies of one user on one Binance account
    Symbol,         \* the symbol each of them trades
    Requests,       \* the HTTP requests that may be under way together
    Ops,            \* what they ask for, a subset of OpNames
    Tasks,          \* identities of trading loops: bounds those not yet ended
    MaxConcurrent,  \* max_concurrent
    MaxRestarts,    \* how often the server may restart
    None

OpNames == {"start", "stop", "delete", "pause"}

ASSUME SetsAssumption == IsFiniteSet(Strategies) /\ None \notin Tasks

ASSUME ParametersAssumption ==
    /\ DOMAIN Symbol = Strategies
    /\ Ops \subseteq OpNames
    /\ MaxConcurrent \in Nat
    /\ MaxRestarts \in Nat

VARIABLES
    db,        \* the status column of each strategy's row, or "deleted"
    mem,       \* the status in the base runner's summary, or "absent"
    tasks,     \* _tasks: the loop registered for each strategy, or None
    task,      \* each loop: where it is, its strategy, whether its summary
               \* is the base runner's object
    req,       \* each request: see ReqType
    first,     \* no request of this user has come since boot
    restarts

vars == <<db, mem, tasks, task, req, first, restarts>>

Status == {"stopped", "running", "error", "stopped_by_risk"}

(* "stopping": inside its own call of stop().  "cancelling": task.cancel() *)
(* was called and CancelledError is on its way.  "done" and "cancelled"    *)
(* are the two ways in which task.done() is true.                          *)
LoopStates == {"free", "running", "stopping", "cancelling", "done", "cancelled"}

LoopType == [st : LoopStates, owner : Strategies \cup {None}, shared : BOOLEAN]

(* What a request is about to do: "subscribing" and "settling" in start,   *)
(* "closing" (the position) and "persisting" in stop.  queue holds what a  *)
(* pause of the account has still to stop.                                 *)
ReqType ==
    [op : OpNames \cup {"none"}, pc : {"idle", "subscribing", "settling", "closing", "persisting"},
     s : Strategies \cup {None}, t : Tasks \cup {None},
     fresh : BOOLEAN, shared : BOOLEAN, queue : SUBSET Strategies]

TypeOK ==
    /\ db \in [Strategies -> Status \cup {"deleted"}]
    /\ mem \in [Strategies -> Status \cup {"absent"}]
    /\ tasks \in [Strategies -> Tasks \cup {None}]
    /\ task \in [Tasks -> LoopType]
    /\ req \in [Requests -> ReqType]
    /\ first \in BOOLEAN
    /\ restarts \in 0 .. MaxRestarts

NoLoop == [st |-> "free", owner |-> None, shared |-> FALSE]

Idle == [op |-> "none", pc |-> "idle", s |-> None, t |-> None,
         fresh |-> FALSE, shared |-> FALSE, queue |-> {}]

(* Strategies registered before this boot are in Redis, those registered   *)
(* since are not.                                                          *)
Init ==
    /\ db = [s \in Strategies |-> "stopped"]
    /\ mem \in [Strategies -> {"absent", "stopped"}]
    /\ tasks = [s \in Strategies |-> None]
    /\ task = [t \in Tasks |-> NoLoop]
    /\ req = [r \in Requests |-> Idle]
    /\ first = TRUE
    /\ restarts = 0

-----------------------------------------------------------------------------
(* What a runner knows.                                                    *)

Known(s) == db[s] # "deleted" \/ mem[s] # "absent"

(* A request's runner holds the base runner's summaries, except that the   *)
(* first request since boot, and a start or stop of a strategy missing     *)
(* from them, load every row: "fresh".  A row that is gone is not loaded.  *)
Fresh(s) == first \/ mem[s] = "absent"

Shared(s, fresh) == mem[s] # "absent" /\ (~fresh \/ db[s] = "deleted")

SummaryStatus(s, fresh) ==
    IF fresh /\ db[s] # "deleted" THEN db[s] ELSE mem[s]

(* update_strategy on a missing row does nothing. *)
RowSetTo(s, status) ==
    [db EXCEPT ![s] = IF @ = "deleted" THEN "deleted" ELSE status]

SummarySetTo(s, shared, status) ==
    IF shared THEN [mem EXCEPT ![s] = status] ELSE mem

Finished(t) == task[t].st \in {"done", "cancelled"}

Registered == {s \in Strategies : tasks[s] # None}

Dead == {s \in Registered : Finished(tasks[s])}

(* What is left of the loops after a step: one that has ended and that     *)
(* neither the registry nor a request refers to is garbage.                *)
Collected(loops) ==
    [t \in Tasks |->
        IF /\ loops[t].st \in {"done", "cancelled"}
           /\ \A s \in Strategies : tasks'[s] # t
           /\ \A r \in Requests : req'[r].t # t
        THEN NoLoop ELSE loops[t]]

(* Variant: the check of the rows is left out. *)
NoSymbolConflict(s) == FALSE

(* _check_symbol_conflict: it reads the rows, not the loops. *)
SymbolConflict(s) ==
    \E x \in Strategies \ {s} : Symbol[x] = Symbol[s] /\ db[x] = "running"

(* task.cancel() on the loop registered for s, which is also unregistered. *)
Cancelled(s) ==
    [t \in Tasks |-> IF t = tasks[s] /\ ~Finished(t)
                     THEN [task[t] EXCEPT !.st = "cancelling"] ELSE task[t]]

(* _cleanup_dead_tasks, in a runner that knows of rows ("fresh") or only   *)
(* of the base runner's summaries.  It ends in the database only in a      *)
(* request's runner: the base runner has no database service.              *)
DeadSeenRunning(fresh) == {s \in Dead : SummaryStatus(s, fresh) = "running"}

TasksWithoutDead == [s \in Strategies |-> IF s \in Dead THEN None ELSE tasks[s]]

SummariesOfDeadInError(fresh) ==
    [s \in Strategies |-> IF s \in DeadSeenRunning(fresh) /\ Shared(s, fresh)
                          THEN "error" ELSE mem[s]]

RowsOfDeadInError(fresh) ==
    [s \in Strategies |-> IF s \in DeadSeenRunning(fresh) /\ db[s] # "deleted"
                          THEN "error" ELSE db[s]]

-----------------------------------------------------------------------------
(* Variants of the actions below, each with one plausible bug; Next uses   *)
(* none of them.                                                           *)

RegisterLoop(r, t) ==
    LET s == req[r].s IN
    /\ task[t] = NoLoop
    /\ tasks' = [tasks EXCEPT ![s] = t]
    /\ mem' = SummarySetTo(s, req[r].shared, "running")
    /\ db' = RowSetTo(s, "running")
    /\ req' = [req EXCEPT ![r].pc = "settling", ![r].t = t]
    /\ task' = Collected([task EXCEPT ![t] =
                 [st |-> "running", owner |-> s, shared |-> req[r].shared]])

RefuseStart(r) ==
    /\ req' = [req EXCEPT ![r] = Idle]
    /\ UNCHANGED <<db, mem, tasks, task>>

(* The limit is not checked again after the subscription. *)
StartRegisterOverLimit(r) ==
    LET s == req[r].s IN
    /\ req[r].pc = "subscribing"
    /\ IF tasks[s] # None /\ ~Finished(tasks[s])
       THEN RefuseStart(r) ELSE \E t \in Tasks : RegisterLoop(r, t)
    /\ UNCHANGED <<first, restarts>>

(* stop() unregisters the loop and forgets to cancel it. *)
StopCancelForgotten(r) ==
    LET s == req[r].s IN
    /\ req[r].pc = "closing"
    /\ tasks' = [tasks EXCEPT ![s] = None]
    /\ mem' = SummarySetTo(s, req[r].shared, "stopped")
    /\ req' = [req EXCEPT ![r].pc = "persisting"]
    /\ UNCHANGED <<db, task, first, restarts>>

(* The loop copies the status of a row that is gone. *)
LoopRefreshUnchecked(t) ==
    /\ task[t].st = "running"
    /\ mem' = SummarySetTo(task[t].owner, task[t].shared, db[task[t].owner])
    /\ UNCHANGED <<db, tasks, task, req, first, restarts>>

(* Only cancelled tasks are taken out of the registry. *)
PeriodicCleanupCancelled ==
    /\ \E s \in Dead : task[tasks[s]].st = "cancelled"
    /\ tasks' = [s \in Strategies |-> IF s \in Dead /\ task[tasks[s]].st = "cancelled"
                                     THEN None ELSE tasks[s]]
    /\ UNCHANGED <<db, mem, req, first, restarts>>
    /\ task' = Collected(task)

-----------------------------------------------------------------------------
(* start                                                                   *)

(* Up to the subscription to the candle stream: the conflict check, the    *)
(* cleanup of dead tasks, the limit, and the strategy itself.  A request   *)
(* that is refused ends here.                                              *)
BeginStart(r, s) ==
    LET fresh == Fresh(s)
        admitted == Cardinality(Registered \ Dead) < MaxConcurrent /\ s \notin Registered \ Dead
    IN
    /\ "start" \in Ops /\ req[r].pc = "idle" /\ Known(s)
    /\ \/ /\ SymbolConflict(s)
          /\ UNCHANGED <<db, mem, tasks, task, req>>
       \/ /\ ~SymbolConflict(s)
          /\ tasks' = TasksWithoutDead
          /\ mem' = SummariesOfDeadInError(fresh)
          /\ db' = RowsOfDeadInError(fresh)
          /\ req' = IF admitted
                    THEN [req EXCEPT ![r] =
                            [Idle EXCEPT !.op = "start", !.pc = "subscribing", !.s = s,
                                         !.shared = Shared(s, fresh)]]
                    ELSE req
          /\ task' = Collected(task)
    /\ first' = FALSE
    /\ UNCHANGED restarts

(* Subscribed: the limit and the strategy are checked again (the rows are  *)
(* not), then the loop is created, registered and its row set to running.  *)
(* A loop that is refused was never started.                               *)
StartRegister(r) ==
    LET s == req[r].s IN
    /\ req[r].pc = "subscribing"
    /\ IF \/ Cardinality(Registered) >= MaxConcurrent
          \/ tasks[s] # None /\ ~Finished(tasks[s])
       THEN RefuseStart(r)
       ELSE \E t \in Tasks : RegisterLoop(r, t)
    /\ UNCHANGED <<first, restarts>>

(* 100 ms later.  task.exception() raises CancelledError, out of start, if *)
(* the loop has been cancelled; otherwise the row is written once more.    *)
StartSettle(r) ==
    /\ req[r].pc = "settling"
    /\ db' = IF task[req[r].t].st = "cancelled" THEN db ELSE RowSetTo(req[r].s, "running")
    /\ req' = [req EXCEPT ![r] = Idle]
    /\ UNCHANGED <<mem, tasks, first, restarts>>
    /\ task' = Collected(task)

-----------------------------------------------------------------------------
(* stop, delete and pause_all_strategies_for_account                       *)

Closing(op, s, fresh, rest) ==
    [Idle EXCEPT !.op = op, !.pc = "closing", !.s = s, !.shared = Shared(s, fresh),
                 !.fresh = fresh /\ rest # {}, !.queue = rest]

BeginStop(r, s) ==
    /\ "stop" \in Ops /\ req[r].pc = "idle" /\ Known(s)
    /\ req' = [req EXCEPT ![r] = Closing("stop", s, Fresh(s), {})]
    /\ first' = FALSE
    /\ UNCHANGED <<db, mem, tasks, task, restarts>>

(* The row goes, and the registry entry with it: nothing is cancelled, as  *)
(* stop() should have done that.  The base runner keeps its summary.       *)
RemoveStrategy(s) ==
    /\ db' = [db EXCEPT ![s] = "deleted"]
    /\ tasks' = [tasks EXCEPT ![s] = None]

(* Only a strategy whose summary says running is stopped first.            *)
BeginDelete(r, s) ==
    /\ "delete" \in Ops /\ req[r].pc = "idle" /\ Known(s)
    /\ IF SummaryStatus(s, Fresh(s)) = "running"
       THEN /\ req' = [req EXCEPT ![r] = Closing("delete", s, Fresh(s), {})]
            /\ UNCHANGED <<db, tasks>>
       ELSE RemoveStrategy(s) /\ UNCHANGED req
    /\ task' = Collected(task)
    /\ first' = FALSE
    /\ UNCHANGED <<mem, restarts>>

(* Every row that says running is stopped, one after the other.            *)
BeginPause(r, s) ==
    /\ "pause" \in Ops /\ req[r].pc = "idle"
    /\ db[s] = "running"
    /\ req' = [req EXCEPT ![r] =
                 Closing("pause", s, Fresh(s), {x \in Strategies \ {s} : db[x] = "running"})]
    /\ first' = FALSE
    /\ UNCHANGED <<db, mem, tasks, task, restarts>>

(* The position is closed, or closing it failed: the loop is unregistered  *)
(* and cancelled.  Then stop() awaits the end of the subscription.         *)
StopCancel(r) ==
    LET s == req[r].s IN
    /\ req[r].pc = "closing"
    /\ tasks' = [tasks EXCEPT ![s] = None]
    /\ mem' = SummarySetTo(s, req[r].shared, "stopped")
    /\ req' = [req EXCEPT ![r].pc = "persisting"]
    /\ task' = Collected(Cancelled(s))
    /\ UNCHANGED <<db, first, restarts>>

(* The next strategy of a pause; a row deleted meanwhile cannot be read    *)
(* and ends the pause.                                                     *)
NextToPause(r) ==
    {Closing("pause", x, req[r].fresh \/ mem[x] = "absent", req[r].queue \ {x}) :
        x \in {y \in req[r].queue : db[y] # "deleted"}}
    \cup (IF \A y \in req[r].queue : db[y] # "deleted" THEN {} ELSE {Idle})

(* The row is set to stopped.  A delete goes on to remove it; a pause      *)
(* marks it stopped_by_risk, unless it is gone, which ends the pause.      *)
StopPersist(r) ==
    LET s == req[r].s IN
    /\ req[r].pc = "persisting"
    /\ \/ /\ req[r].op = "stop"
          /\ db' = RowSetTo(s, "stopped")
          /\ req' = [req EXCEPT ![r] = Idle]
          /\ UNCHANGED <<mem, tasks>>
       \/ /\ req[r].op = "delete"
          /\ RemoveStrategy(s)
          /\ req' = [req EXCEPT ![r] = Idle]
          /\ UNCHANGED mem
       \/ /\ req[r].op = "pause"
          /\ IF db[s] = "deleted"
             THEN req' = [req EXCEPT ![r] = Idle] /\ UNCHANGED <<db, mem>>
             ELSE /\ db' = RowSetTo(s, "stopped_by_risk")
                  /\ mem' = SummarySetTo(s, req[r].shared, "stopped_by_risk")
                  /\ IF req[r].queue = {}
                     THEN req' = [req EXCEPT ![r] = Idle]
                     ELSE \E q \in NextToPause(r) : req' = [req EXCEPT ![r] = q]
          /\ UNCHANGED tasks
    /\ task' = Collected(task)
    /\ UNCHANGED <<first, restarts>>

(* Any other request of the user, which only loads the rows.               *)
OtherRequest ==
    /\ first
    /\ first' = FALSE
    /\ UNCHANGED <<db, mem, tasks, task, req, restarts>>

-----------------------------------------------------------------------------
(* The loops                                                               *)

(* The top of run_loop: the summary takes the status of the row, if there  *)
(* is one, and the loop ends if it is stopped_by_risk.                     *)
LoopRefresh(t) ==
    LET s == task[t].owner
        status == IF db[s] # "deleted" THEN db[s]
                  ELSE IF task[t].shared THEN mem[s] ELSE "running"
    IN
    /\ task[t].st = "running"
    /\ mem' = SummarySetTo(s, task[t].shared, status)
    /\ UNCHANGED <<db, tasks, req, first, restarts>>
    /\ task' = IF status = "stopped_by_risk"
               THEN Collected([task EXCEPT ![t].st = "done"]) ELSE task

(* An exception that is not a passing network failure ends the loop.  The  *)
(* summary says error; the row is not written.                             *)
LoopFail(t) ==
    /\ task[t].st = "running"
    /\ mem' = SummarySetTo(task[t].owner, task[t].shared, "error")
    /\ UNCHANGED <<db, tasks, req, first, restarts>>
    /\ task' = Collected([task EXCEPT ![t].st = "done"])

LoopCancelled(t) ==
    /\ task[t].st = "cancelling"
    /\ UNCHANGED <<db, mem, tasks, req, first, restarts>>
    /\ task' = Collected([task EXCEPT ![t].st = "cancelled"])

(* The order manager found a position of another strategy on the symbol    *)
(* and calls stop() from within the loop.                                  *)
SelfStopBegin(t) ==
    /\ task[t].st = "running"
    /\ \E x \in Strategies \ {task[t].owner} : Symbol[x] = Symbol[task[t].owner]
    /\ task' = [task EXCEPT ![t].st = "stopping"]
    /\ UNCHANGED <<db, mem, tasks, req, first, restarts>>

(* It cancels the loop registered for its strategy: itself, and then the   *)
(* CancelledError arrives while it waits for the end of the subscription,  *)
(* before the row is written; or that wait did not suspend, or the loop    *)
(* was not registered any more, and it writes the row and fails.           *)
SelfStop(t) ==
    LET s == task[t].owner IN
    /\ task[t].st = "stopping"
    /\ tasks' = [tasks EXCEPT ![s] = None]
    /\ UNCHANGED <<req, first, restarts>>
    /\ \/ /\ tasks[s] = t
          /\ task' = Collected(Cancelled(s))
          /\ mem' = SummarySetTo(s, task[t].shared, "stopped")
          /\ UNCHANGED db
       \/ /\ task' = Collected([Cancelled(s) EXCEPT ![t].st = "done"])
          /\ mem' = SummarySetTo(s, task[t].shared, "error")
          /\ db' = RowSetTo(s, "stopped")

-----------------------------------------------------------------------------
(* The server                                                              *)

(* _periodic_cleanup_loop of the base runner.                              *)
PeriodicCleanup ==
    /\ Dead # {}
    /\ tasks' = TasksWithoutDead
    /\ mem' = SummariesOfDeadInError(FALSE)
    /\ UNCHANGED <<db, req, first, restarts>>
    /\ task' = Collected(task)

(* The server stops, or is killed, and boots again.  Redis gives the base  *)
(* runner its summaries back: with the status of the row, or the error of  *)
(* a loop that failed, or not at all.  The base runner's own restore finds *)
(* no database service and starts nothing.                                 *)
Restart ==
    /\ restarts < MaxRestarts
    /\ restarts' = restarts + 1
    /\ tasks' = [s \in Strategies |-> None]
    /\ task' = [t \in Tasks |-> NoLoop]
    /\ req' = [r \in Requests |-> Idle]
    /\ first' = TRUE
    /\ mem' \in {m \in [Strategies -> Status \cup {"absent"}] :
                  \A s \in Strategies :
                     m[s] \in {"absent"} \cup (IF db[s] = "deleted" THEN {} ELSE {db[s]})
                                       \cup (IF db[s] = "running" THEN {"error"} ELSE {})}
    /\ UNCHANGED db

-----------------------------------------------------------------------------
Request(r) ==
    \/ \E s \in Strategies :
          BeginStart(r, s) \/ BeginStop(r, s) \/ BeginDelete(r, s) \/ BeginPause(r, s)

Resume(r) == StartRegister(r) \/ StartSettle(r) \/ StopCancel(r) \/ StopPersist(r)

Loop(t) ==
    LoopRefresh(t) \/ LoopFail(t) \/ LoopCancelled(t) \/ SelfStopBegin(t) \/ SelfStop(t)

Next ==
    \/ \E r \in Requests : Request(r) \/ Resume(r)
    \/ \E t \in Tasks : Loop(t)
    \/ OtherRequest \/ PeriodicCleanup \/ Restart

(* What a request awaits has a timeout, a cancelled loop ends, a loop goes *)
(* round again, and the cleanup runs for ever.  Nobody has to make a       *)
(* request.                                                                *)
Fairness ==
    /\ \A r \in Requests : WF_vars(Resume(r))
    /\ \A t \in Tasks : WF_vars(LoopRefresh(t)) /\ WF_vars(LoopCancelled(t)) /\ WF_vars(SelfStop(t))
    /\ WF_vars(PeriodicCleanup)

Spec == Init /\ [][Next]_vars /\ Fairness

-----------------------------------------------------------------------------
Trading(t) == task[t].st = "running"

Exists(s) == db[s] # "deleted"

(* The registry never holds more strategies than max_concurrent, whatever  *)
(* starts wait for their subscription at the same time.                    *)
TaskLimit == Cardinality(Registered) =< MaxConcurrent

(* A loop that trades for an existing strategy is the registered one: it   *)
(* can be found and stopped, and a strategy never has two.                 *)
NoOrphan ==
    \A t \in Tasks :
        Trading(t) /\ Exists(task[t].owner) => tasks[task[t].owner] = t

(* What Traders promises: the loops that trade for existing strategies     *)
(* begin one at a time, for a strategy that has none and within the limit, *)
(* and none resumes or changes hands.                                      *)
Abstract == INSTANCE Traders WITH
    trading <- {<<task[t].owner, t>> : t \in {u \in Tasks : Trading(u) /\ Exists(task[u].owner)}}

ImplementsTraders == Abstract!Spec

(* As long as requests come one at a time, no loop trades for a strategy   *)
(* whose row says anything but running: the conflict check, which reads    *)
(* the rows, sees every loop.                                              *)
LiveHasRunningRow ==
    \A t \in Tasks :
        Trading(t) /\ Exists(task[t].owner) => db[task[t].owner] = "running"

(* "Only one strategy can trade a symbol per account."                     *)
SymbolExclusive ==
    \A t, u \in Tasks :
        /\ Trading(t) /\ Exists(task[t].owner)
        /\ Trading(u) /\ Exists(task[u].owner)
        /\ Symbol[task[t].owner] = Symbol[task[u].owner]
        => t = u

(* "Check if strategy is running and stop it if necessary": the step that  *)
(* removes a strategy leaves none of its loops trading.                    *)
DeleteStops ==
    [][\A t \in Tasks :
          Trading(t) /\ Exists(task[t].owner) /\ task'[t] = task[t]
          => Exists(task[t].owner)']_vars

(* A loop whose row is marked stopped_by_risk ends, even one that was      *)
(* started while the account was being paused, unless the mark is undone.  *)
PausedLoopsExit ==
    \A s \in Strategies :
        db[s] = "stopped_by_risk" /\ (\E t \in Tasks : Trading(t) /\ task[t].owner = s)
        ~> \/ db[s] # "stopped_by_risk"
           \/ ~\E t \in Tasks : Trading(t) /\ task[t].owner = s

(* A loop that has ended does not hold its place in the registry.          *)
DeadTasksReaped == \A s \in Strategies : s \in Dead ~> s \notin Dead

=============================================================================
