----------------------- MODULE StrategyLifecycleProofs -----------------------
(***************************************************************************)
(* Proofs about StrategyLifecycle, for any finite set of strategies, any   *)
(* requests, loops, limit and number of restarts.                          *)
(***************************************************************************)
EXTENDS StrategyLifecycle, FiniteSetTheorems, TLAPS

-----------------------------------------------------------------------------
(* What the operators of the model return.                                 *)

LEMMA NoneIsNoTask == None \notin Tasks
BY SetsAssumption

(* Garbage collection keeps a loop or replaces it by NoLoop, and then the  *)
(* loop had ended and the registry does not hold it.                       *)
LEMMA CollectedCases ==
    ASSUME NEW loops, NEW t \in Tasks
    PROVE  \/ Collected(loops)[t] = loops[t]
           \/ /\ Collected(loops)[t] = NoLoop
              /\ loops[t].st \in {"done", "cancelled"}
              /\ \A s \in Strategies : tasks'[s] # t
BY DEF Collected

LEMMA CollectedType ==
    ASSUME NEW loops \in [Tasks -> LoopType]
    PROVE  Collected(loops) \in [Tasks -> LoopType]
<1>1. NoLoop \in LoopType
    BY DEF NoLoop, LoopType, LoopStates
<1> QED BY <1>1 DEF Collected

LEMMA RowSetToType ==
    ASSUME TypeOK, NEW s \in Strategies, NEW v \in Status
    PROVE  /\ RowSetTo(s, v) \in [Strategies -> Status \cup {"deleted"}]
           /\ \A x \in Strategies : RowSetTo(s, v)[x] = "deleted" <=> db[x] = "deleted"
BY DEF TypeOK, RowSetTo, Status

LEMMA SummarySetToType ==
    ASSUME TypeOK, NEW s \in Strategies, NEW b \in BOOLEAN, NEW v \in Status
    PROVE  SummarySetTo(s, b, v) \in [Strategies -> Status \cup {"absent"}]
BY DEF TypeOK, SummarySetTo

LEMMA DeadInErrorType ==
    ASSUME TypeOK, NEW b \in BOOLEAN
    PROVE  /\ SummariesOfDeadInError(b) \in [Strategies -> Status \cup {"absent"}]
           /\ RowsOfDeadInError(b) \in [Strategies -> Status \cup {"deleted"}]
           /\ \A x \in Strategies : RowsOfDeadInError(b)[x] = "deleted" <=> db[x] = "deleted"
           /\ TasksWithoutDead \in [Strategies -> Tasks \cup {None}]
BY DEF TypeOK, SummariesOfDeadInError, RowsOfDeadInError, TasksWithoutDead, Status

LEMMA CancelledType ==
    ASSUME TypeOK, NEW s \in Strategies
    PROVE  Cancelled(s) \in [Tasks -> LoopType]
BY DEF TypeOK, Cancelled, LoopType, LoopStates

LEMMA SharedType ==
    ASSUME NEW s, NEW b \in BOOLEAN, TypeOK
    PROVE  Shared(s, b) \in BOOLEAN /\ Fresh(s) \in BOOLEAN
BY DEF Shared, Fresh, TypeOK

LEMMA IdleType == Idle \in ReqType
BY DEF Idle, ReqType, OpNames

LEMMA ClosingType ==
    ASSUME TypeOK, NEW op \in OpNames, NEW s \in Strategies, NEW b \in BOOLEAN,
           NEW rest \in SUBSET Strategies
    PROVE  Closing(op, s, b, rest) \in ReqType
<1>1. Shared(s, b) \in BOOLEAN /\ (b /\ rest # {}) \in BOOLEAN
    BY SharedType
<1> QED BY <1>1 DEF Closing, Idle, ReqType, OpNames

LEMMA EndedType ==
    ASSUME TypeOK, NEW loops \in [Tasks -> LoopType], NEW t \in Tasks, NEW v \in LoopStates
    PROVE  [loops EXCEPT ![t].st = v] \in [Tasks -> LoopType]
BY DEF LoopType

-----------------------------------------------------------------------------
(* Type correctness, one lemma per action.                                 *)

LEMMA RefuseStartType ==
    ASSUME TypeOK, NEW r \in Requests, RefuseStart(r)
    PROVE  /\ db' = db /\ mem' = mem /\ tasks' = tasks /\ task' = task
           /\ req' \in [Requests -> ReqType]
BY IdleType DEF TypeOK, RefuseStart

LEMMA RegisterLoopType ==
    ASSUME TypeOK, NEW r \in Requests, NEW t \in Tasks, req[r].s \in Strategies,
           RegisterLoop(r, t)
    PROVE  /\ db' \in [Strategies -> Status \cup {"deleted"}]
           /\ mem' \in [Strategies -> Status \cup {"absent"}]
           /\ tasks' \in [Strategies -> Tasks \cup {None}]
           /\ task' \in [Tasks -> LoopType]
           /\ req' \in [Requests -> ReqType]
<1> DEFINE s == req[r].s
           new == [st |-> "running", owner |-> s, shared |-> req[r].shared]
<1>1. "running" \in Status /\ req[r] \in ReqType /\ req[r].shared \in BOOLEAN
    BY DEF Status, TypeOK, ReqType
<1>2. db' \in [Strategies -> Status \cup {"deleted"}]
    BY <1>1, RowSetToType DEF RegisterLoop
<1>3. mem' \in [Strategies -> Status \cup {"absent"}]
    BY <1>1, SummarySetToType DEF RegisterLoop
<1>4. tasks' \in [Strategies -> Tasks \cup {None}]
    BY DEF RegisterLoop, TypeOK
<1>5. task' \in [Tasks -> LoopType]
  <2>1. new \in LoopType
    BY <1>1 DEF LoopType, LoopStates
  <2>2. [task EXCEPT ![t] = new] \in [Tasks -> LoopType]
    BY <2>1 DEF TypeOK
  <2> QED BY <2>2, CollectedType DEF RegisterLoop
<1>6. req' \in [Requests -> ReqType]
    BY <1>1 DEF RegisterLoop, TypeOK, ReqType
<1> QED BY <1>2, <1>3, <1>4, <1>5, <1>6

LEMMA BeginStartType ==
    ASSUME TypeOK, NEW r \in Requests, NEW s \in Strategies, BeginStart(r, s)
    PROVE  TypeOK'
<1> DEFINE fresh == Fresh(s)
<1>1. fresh \in BOOLEAN /\ Shared(s, fresh) \in BOOLEAN
    BY SharedType
<1>2. [Idle EXCEPT !.op = "start", !.pc = "subscribing", !.s = s,
                   !.shared = Shared(s, fresh)] \in ReqType
    BY <1>1 DEF Idle, ReqType, OpNames
<1>3. req' \in [Requests -> ReqType]
    BY <1>2 DEF BeginStart, TypeOK
<1>4. /\ db' \in [Strategies -> Status \cup {"deleted"}]
      /\ mem' \in [Strategies -> Status \cup {"absent"}]
      /\ tasks' \in [Strategies -> Tasks \cup {None}]
    BY <1>1, DeadInErrorType DEF BeginStart, TypeOK
<1>5. task' \in [Tasks -> LoopType]
    BY CollectedType DEF BeginStart, TypeOK
<1>6. first' \in BOOLEAN /\ restarts' \in 0 .. MaxRestarts
    BY DEF BeginStart, TypeOK
<1> QED BY <1>3, <1>4, <1>5, <1>6 DEF TypeOK

(* A request that is under way is about a strategy, and one that settles   *)
(* has a loop.                                                             *)
Targeted(q) ==
    /\ q.pc # "idle" => q.s \in Strategies
    /\ q.pc = "settling" => q.t \in Tasks

RequestsTargeted == \A r \in Requests : Targeted(req[r])

(* A loop that is not free has an owner.                                   *)
LoopsOwned == \A t \in Tasks : task[t].st # "free" => task[t].owner \in Strategies

LEMMA StartRegisterType ==
    ASSUME TypeOK, RequestsTargeted, NEW r \in Requests, StartRegister(r)
    PROVE  TypeOK'
<1>1. req[r].s \in Strategies
    BY DEF RequestsTargeted, Targeted, StartRegister
<1>2. first' \in BOOLEAN /\ restarts' \in 0 .. MaxRestarts
    BY DEF StartRegister, TypeOK
<1>3. CASE RefuseStart(r)
    BY <1>2, <1>3, RefuseStartType DEF TypeOK
<1>4. ASSUME NEW t \in Tasks, RegisterLoop(r, t) PROVE TypeOK'
    BY <1>1, <1>2, <1>4, RegisterLoopType DEF TypeOK
<1> QED BY <1>3, <1>4 DEF StartRegister

LEMMA StartSettleType ==
    ASSUME TypeOK, RequestsTargeted, NEW r \in Requests, StartSettle(r)
    PROVE  TypeOK'
<1>1. req[r].s \in Strategies /\ "running" \in Status
    BY DEF RequestsTargeted, Targeted, StartSettle, Status
<1>2. db' \in [Strategies -> Status \cup {"deleted"}]
    BY <1>1, RowSetToType DEF StartSettle, TypeOK
<1>3. task' \in [Tasks -> LoopType]
    BY CollectedType DEF StartSettle, TypeOK
<1>4. req' \in [Requests -> ReqType]
    BY IdleType DEF StartSettle, TypeOK
<1> QED BY <1>2, <1>3, <1>4 DEF StartSettle, TypeOK

LEMMA BeginStopType ==
    ASSUME TypeOK, NEW r \in Requests, NEW s \in Strategies, BeginStop(r, s)
    PROVE  TypeOK'
<1>1. Closing("stop", s, Fresh(s), {}) \in ReqType
    BY ClosingType, SharedType DEF OpNames
<1> QED BY <1>1 DEF BeginStop, TypeOK

LEMMA BeginDeleteType ==
    ASSUME TypeOK, NEW r \in Requests, NEW s \in Strategies, BeginDelete(r, s)
    PROVE  TypeOK'
<1>1. Closing("delete", s, Fresh(s), {}) \in ReqType
    BY ClosingType, SharedType DEF OpNames
<1>2. req' \in [Requests -> ReqType]
    BY <1>1 DEF BeginDelete, TypeOK
<1>3. /\ db' \in [Strategies -> Status \cup {"deleted"}]
      /\ tasks' \in [Strategies -> Tasks \cup {None}]
    BY DEF BeginDelete, RemoveStrategy, TypeOK
<1>4. task' \in [Tasks -> LoopType]
    BY CollectedType DEF BeginDelete, TypeOK
<1> QED BY <1>2, <1>3, <1>4 DEF BeginDelete, TypeOK

LEMMA BeginPauseType ==
    ASSUME TypeOK, NEW r \in Requests, NEW s \in Strategies, BeginPause(r, s)
    PROVE  TypeOK'
<1>1. Closing("pause", s, Fresh(s), {x \in Strategies \ {s} : db[x] = "running"}) \in ReqType
    BY ClosingType, SharedType DEF OpNames
<1> QED BY <1>1 DEF BeginPause, TypeOK

LEMMA StopCancelType ==
    ASSUME TypeOK, RequestsTargeted, NEW r \in Requests, StopCancel(r)
    PROVE  TypeOK'
<1>1. req[r].s \in Strategies /\ req[r].shared \in BOOLEAN /\ "stopped" \in Status
    BY DEF RequestsTargeted, Targeted, StopCancel, Status, TypeOK, ReqType
<1>2. mem' \in [Strategies -> Status \cup {"absent"}]
    BY <1>1, SummarySetToType DEF StopCancel
<1>3. task' \in [Tasks -> LoopType]
    BY <1>1, CancelledType, CollectedType DEF StopCancel
<1>4. req' \in [Requests -> ReqType]
    BY DEF StopCancel, TypeOK, ReqType
<1>5. tasks' \in [Strategies -> Tasks \cup {None}]
    BY DEF StopCancel, TypeOK
<1> QED BY <1>2, <1>3, <1>4, <1>5 DEF StopCancel, TypeOK

LEMMA NextToPauseType ==
    ASSUME TypeOK, NEW r \in Requests, NEW q \in NextToPause(r)
    PROVE  q \in ReqType
<1>1. req[r].queue \in SUBSET Strategies /\ req[r].fresh \in BOOLEAN
    BY DEF TypeOK, ReqType
<1>2. CASE q = Idle
    BY <1>2, IdleType
<1>3. ASSUME NEW x \in req[r].queue,
             q = Closing("pause", x, req[r].fresh \/ mem[x] = "absent", req[r].queue \ {x})
      PROVE  q \in ReqType
  <2>1. /\ x \in Strategies /\ req[r].queue \ {x} \in SUBSET Strategies
        /\ (req[r].fresh \/ mem[x] = "absent") \in BOOLEAN
    BY <1>1
  <2> QED BY <2>1, <1>3, ClosingType DEF OpNames
<1> QED BY <1>2, <1>3 DEF NextToPause

LEMMA StopPersistType ==
    ASSUME TypeOK, RequestsTargeted, NEW r \in Requests, StopPersist(r)
    PROVE  TypeOK'
<1>1. req[r].s \in Strategies /\ req[r].shared \in BOOLEAN
    BY DEF RequestsTargeted, Targeted, StopPersist, TypeOK, ReqType
<1>2. "stopped" \in Status /\ "stopped_by_risk" \in Status
    BY DEF Status
<1>3. db' \in [Strategies -> Status \cup {"deleted"}]
  <2>1. RowSetTo(req[r].s, "stopped") \in [Strategies -> Status \cup {"deleted"}]
    BY <1>1, <1>2, RowSetToType
  <2>2. RowSetTo(req[r].s, "stopped_by_risk") \in [Strategies -> Status \cup {"deleted"}]
    BY <1>1, <1>2, RowSetToType
  <2>3. [db EXCEPT ![req[r].s] = "deleted"] \in [Strategies -> Status \cup {"deleted"}]
    BY DEF TypeOK
  <2>4. db \in [Strategies -> Status \cup {"deleted"}]
    BY DEF TypeOK
  <2> QED BY <2>1, <2>2, <2>3, <2>4 DEF StopPersist, RemoveStrategy
<1>4. mem' \in [Strategies -> Status \cup {"absent"}]
    BY <1>1, <1>2, SummarySetToType DEF StopPersist, TypeOK
<1>5. tasks' \in [Strategies -> Tasks \cup {None}]
    BY DEF StopPersist, RemoveStrategy, TypeOK
<1>6. task' \in [Tasks -> LoopType]
    BY CollectedType DEF StopPersist, TypeOK
<1>7. req' \in [Requests -> ReqType]
    BY IdleType, NextToPauseType DEF StopPersist, TypeOK
<1> QED BY <1>3, <1>4, <1>5, <1>6, <1>7 DEF StopPersist, TypeOK

LEMMA LoopRefreshType ==
    ASSUME TypeOK, LoopsOwned, NEW t \in Tasks, LoopRefresh(t)
    PROVE  TypeOK'
<1> DEFINE s == task[t].owner
           status == IF db[s] # "deleted" THEN db[s]
                     ELSE IF task[t].shared THEN mem[s] ELSE "running"
<1>1. s \in Strategies /\ task[t].shared \in BOOLEAN
    BY DEF LoopsOwned, LoopRefresh, TypeOK, LoopType
<1>2. status \in Status \cup {"absent"}
    BY <1>1 DEF TypeOK, Status
<1>3. mem' \in [Strategies -> Status \cup {"absent"}]
    BY <1>1, <1>2 DEF LoopRefresh, SummarySetTo, TypeOK
<1>4. task' \in [Tasks -> LoopType]
  <2>1. [task EXCEPT ![t].st = "done"] \in [Tasks -> LoopType]
    BY EndedType DEF TypeOK, LoopStates
  <2> QED BY <2>1, CollectedType DEF LoopRefresh, TypeOK
<1> QED BY <1>3, <1>4 DEF LoopRefresh, TypeOK

LEMMA LoopFailType ==
    ASSUME TypeOK, LoopsOwned, NEW t \in Tasks, LoopFail(t)
    PROVE  TypeOK'
<1>1. task[t].owner \in Strategies /\ task[t].shared \in BOOLEAN /\ "error" \in Status
    BY DEF LoopsOwned, LoopFail, TypeOK, LoopType, Status
<1>2. mem' \in [Strategies -> Status \cup {"absent"}]
    BY <1>1, SummarySetToType DEF LoopFail
<1>3. [task EXCEPT ![t].st = "done"] \in [Tasks -> LoopType]
    BY EndedType DEF TypeOK, LoopStates
<1>4. task' \in [Tasks -> LoopType]
    BY <1>3, CollectedType DEF LoopFail
<1> QED BY <1>2, <1>4 DEF LoopFail, TypeOK

LEMMA LoopCancelledType ==
    ASSUME TypeOK, NEW t \in Tasks, LoopCancelled(t)
    PROVE  TypeOK'
<1>1. [task EXCEPT ![t].st = "cancelled"] \in [Tasks -> LoopType]
    BY EndedType DEF TypeOK, LoopStates
<1>2. task' \in [Tasks -> LoopType]
    BY <1>1, CollectedType DEF LoopCancelled
<1> QED BY <1>2 DEF LoopCancelled, TypeOK

LEMMA SelfStopBeginType ==
    ASSUME TypeOK, NEW t \in Tasks, SelfStopBegin(t)
    PROVE  TypeOK'
<1>1. [task EXCEPT ![t].st = "stopping"] \in [Tasks -> LoopType]
    BY EndedType DEF TypeOK, LoopStates
<1> QED BY <1>1 DEF SelfStopBegin, TypeOK

LEMMA SelfStopType ==
    ASSUME TypeOK, LoopsOwned, NEW t \in Tasks, SelfStop(t)
    PROVE  TypeOK'
<1> DEFINE s == task[t].owner
<1>1. s \in Strategies /\ task[t].shared \in BOOLEAN
    BY DEF LoopsOwned, SelfStop, TypeOK, LoopType
<1>2. "stopped" \in Status /\ "error" \in Status /\ "done" \in LoopStates
    BY DEF Status, LoopStates
<1>3. Cancelled(s) \in [Tasks -> LoopType]
    BY <1>1, CancelledType
<1>4. [Cancelled(s) EXCEPT ![t].st = "done"] \in [Tasks -> LoopType]
    BY <1>2, <1>3, EndedType
<1>5. task' \in [Tasks -> LoopType]
    BY <1>3, <1>4, CollectedType DEF SelfStop
<1>6. mem' \in [Strategies -> Status \cup {"absent"}]
    BY <1>1, <1>2, SummarySetToType DEF SelfStop
<1>7. db' \in [Strategies -> Status \cup {"deleted"}]
    BY <1>1, <1>2, RowSetToType DEF SelfStop, TypeOK
<1>8. tasks' \in [Strategies -> Tasks \cup {None}]
    BY DEF SelfStop, TypeOK
<1> QED BY <1>5, <1>6, <1>7, <1>8 DEF SelfStop, TypeOK

LEMMA PeriodicCleanupType ==
    ASSUME TypeOK, PeriodicCleanup
    PROVE  TypeOK'
<1>1. task' \in [Tasks -> LoopType]
    BY CollectedType DEF PeriodicCleanup, TypeOK
<1> QED BY <1>1, DeadInErrorType DEF PeriodicCleanup, TypeOK

LEMMA RestartType ==
    ASSUME TypeOK, Restart
    PROVE  TypeOK'
<1>1. NoLoop \in LoopType
    BY DEF NoLoop, LoopType, LoopStates
<1>2. restarts' \in 0 .. MaxRestarts
    BY ParametersAssumption DEF Restart, TypeOK
<1>3. mem' \in [Strategies -> Status \cup {"absent"}]
    BY DEF Restart
<1> QED BY <1>1, <1>2, <1>3, IdleType DEF Restart, TypeOK

-----------------------------------------------------------------------------
(* The registry.                                                           *)

(* What the registry holds for a strategy is a loop of that strategy.      *)
RegistryOwned ==
    \A s \in Strategies :
        tasks[s] # None => task[tasks[s]].st # "free" /\ task[tasks[s]].owner = s

(* A loop of an existing strategy that has not been cancelled, be it       *)
(* trading or in the middle of stopping itself, is registered.             *)
Uncancelled(t) == task[t].st \in {"running", "stopping"}

LoopsRegistered ==
    \A t \in Tasks :
        Uncancelled(t) /\ Exists(task[t].owner) => tasks[task[t].owner] = t

(* The inductive invariant.  NoOrphan is not inductive: a step that        *)
(* unregisters a loop must know that it cancels the loop it finds there,   *)
(* one that registers a loop that the place it takes is not that of a loop *)
(* still under way, and a loop that stops itself is still registered.      *)
IInv ==
    /\ TypeOK
    /\ RequestsTargeted
    /\ LoopsOwned
    /\ RegistryOwned
    /\ LoopsRegistered

Registry == LoopsOwned /\ RegistryOwned /\ LoopsRegistered

(* A step keeps the registry sound if it starts no loop, moves none back   *)
(* from cancelled, keeps the rows that are gone gone, and unregisters a    *)
(* strategy only with its row or with a loop that is cancelled or ended.   *)
LEMMA StepKeepsRegistry ==
    ASSUME TypeOK, Registry,
           \A t \in Tasks :
              \/ task'[t] = task[t]
              \/ task'[t] = NoLoop /\ \A s \in Strategies : tasks'[s] # t
              \/ /\ task'[t].owner = task[t].owner
                 /\ task[t].st # "free" /\ task'[t].st # "free"
                 /\ task'[t].st \in {"running", "stopping"} => Uncancelled(t),
           \A s \in Strategies :
              \/ tasks'[s] = tasks[s]
              \/ /\ tasks'[s] = None
                 /\ \/ db'[s] = "deleted"
                    \/ tasks[s] \in Tasks /\ task'[tasks[s]].st \notin {"running", "stopping"},
           \A s \in Strategies : db[s] = "deleted" => db'[s] = "deleted"
    PROVE  Registry'
<1>1. LoopsOwned'
    BY DEF Registry, LoopsOwned, NoLoop
<1>2. RegistryOwned'
  <2> SUFFICES ASSUME NEW s \in Strategies, tasks'[s] # None
               PROVE  task'[tasks'[s]].st # "free" /\ task'[tasks'[s]].owner = s
    BY DEF RegistryOwned
  <2>1. tasks'[s] = tasks[s] /\ tasks[s] \in Tasks
    BY DEF TypeOK
  <2>2. task[tasks[s]].st # "free" /\ task[tasks[s]].owner = s
    BY <2>1 DEF Registry, RegistryOwned
  <2> QED BY <2>1, <2>2
<1>3. LoopsRegistered'
  <2> SUFFICES ASSUME NEW t \in Tasks, task'[t].st \in {"running", "stopping"},
                      db'[task'[t].owner] # "deleted"
               PROVE  tasks'[task'[t].owner] = t
    BY DEF LoopsRegistered, Uncancelled, Exists
  <2>1. task'[t].owner = task[t].owner /\ Uncancelled(t)
    BY DEF NoLoop, Uncancelled
  <2>2. task[t].owner \in Strategies
    BY <2>1 DEF Registry, LoopsOwned, Uncancelled
  <2>3. tasks[task[t].owner] = t
    BY <2>1, <2>2 DEF Registry, LoopsRegistered, Exists
  <2> QED BY <2>1, <2>2, <2>3
<1> QED BY <1>1, <1>2, <1>3 DEF Registry

(* The same for the steps that only unregister and collect.                *)
LEMMA CollectingKeepsRegistry ==
    ASSUME TypeOK, Registry,
           task' = Collected(task) \/ task' = task,
           \A s \in Strategies :
              \/ tasks'[s] = tasks[s]
              \/ tasks'[s] = None /\ (db'[s] = "deleted" \/ s \in Dead),
           \A s \in Strategies : db[s] = "deleted" => db'[s] = "deleted"
    PROVE  Registry'
<1>1. \A t \in Tasks :
         \/ task'[t] = task[t]
         \/ task'[t] = NoLoop /\ \A s \in Strategies : tasks'[s] # t
    BY CollectedCases
<1>2. ASSUME NEW s \in Dead
      PROVE  tasks[s] \in Tasks /\ task'[tasks[s]].st \notin {"running", "stopping"}
  <2>1. tasks[s] \in Tasks /\ task[tasks[s]].st \in {"done", "cancelled"}
    BY DEF Dead, Registered, Finished, TypeOK
  <2> QED BY <2>1, <1>1 DEF NoLoop
<1> QED BY <1>1, <1>2, StepKeepsRegistry

(* A loop registered at a free place is the registered loop of its         *)
(* strategy, and takes the place of none that is under way.                *)
LEMMA RegisterKeepsRegistry ==
    ASSUME TypeOK, Registry, NEW r \in Requests, NEW t \in Tasks,
           req[r].s \in Strategies,
           tasks[req[r].s] = None \/ Finished(tasks[req[r].s]),
           RegisterLoop(r, t)
    PROVE  Registry'
<1> DEFINE s == req[r].s
           new == [st |-> "running", owner |-> s, shared |-> req[r].shared]
           loops == [task EXCEPT ![t] = new]
<1>1. task[t] = NoLoop /\ tasks' = [tasks EXCEPT ![s] = t] /\ task' = Collected(loops)
    BY DEF RegisterLoop
<1>2. loops[t] = new /\ \A x \in Tasks \ {t} : loops[x] = task[x]
    BY DEF TypeOK
<1>3. task'[t] = new
  <2>1. new.st \notin {"done", "cancelled"}
    OBVIOUS
  <2> HIDE DEF new, loops
  <2> QED BY <1>1, <1>2, <2>1 DEF Collected
<1>4. ASSUME NEW x \in Tasks \ {t}
      PROVE  \/ task'[x] = task[x]
             \/ task'[x] = NoLoop /\ \A y \in Strategies : tasks'[y] # x
  <2> HIDE DEF new, loops
  <2> QED BY <1>1, <1>2 DEF Collected
<1>5. \A y \in Strategies \ {s} : tasks'[y] = tasks[y]
    BY <1>1 DEF TypeOK
<1>6. tasks'[s] = t
    BY <1>1 DEF TypeOK
<1>7. \A y \in Strategies : db[y] = "deleted" => db'[y] = "deleted"
  <2>1. "running" \in Status
    BY DEF Status
  <2> QED BY <2>1, RowSetToType DEF RegisterLoop
<1>8. LoopsOwned'
    BY <1>3, <1>4 DEF Registry, LoopsOwned, NoLoop
<1>9. RegistryOwned'
  <2> SUFFICES ASSUME NEW y \in Strategies, tasks'[y] # None
               PROVE  task'[tasks'[y]].st # "free" /\ task'[tasks'[y]].owner = y
    BY DEF RegistryOwned
  <2>1. CASE y = s
    BY <2>1, <1>3, <1>6
  <2>2. CASE y # s
    <3>1. tasks'[y] = tasks[y] /\ tasks[y] \in Tasks
      BY <2>2, <1>5 DEF TypeOK
    <3>2. task[tasks[y]].st # "free" /\ task[tasks[y]].owner = y
      BY <3>1 DEF Registry, RegistryOwned
    <3>3. tasks[y] # t
      BY <3>2, <1>1 DEF NoLoop
    <3> QED BY <3>1, <3>2, <3>3, <1>4
  <2> QED BY <2>1, <2>2
<1>10. LoopsRegistered'
  <2> SUFFICES ASSUME NEW x \in Tasks, task'[x].st \in {"running", "stopping"},
                      db'[task'[x].owner] # "deleted"
               PROVE  tasks'[task'[x].owner] = x
    BY DEF LoopsRegistered, Uncancelled, Exists
  <2>1. CASE x = t
    BY <2>1, <1>3, <1>6
  <2>2. CASE x # t
    <3>1. task'[x] = task[x] /\ Uncancelled(x)
      BY <2>2, <1>4 DEF NoLoop, Uncancelled
    <3>2. task[x].owner \in Strategies
      BY <3>1 DEF Registry, LoopsOwned, Uncancelled
    <3>3. tasks[task[x].owner] = x
      BY <3>1, <3>2, <1>7 DEF Registry, LoopsRegistered, Exists
    <3>4. task[x].owner # s
      BY <3>1, <3>3, NoneIsNoTask DEF Finished, Uncancelled
    <3> QED BY <3>1, <3>2, <3>3, <3>4, <1>5
  <2> QED BY <2>1, <2>2
<1> QED BY <1>8, <1>9, <1>10 DEF Registry

-----------------------------------------------------------------------------
(* One lemma per action: what it does to the requests and the registry.    *)

(* The step leaves every place of the registry alone or empties it. *)
Shrinks == \A s \in Strategies : tasks'[s] = tasks[s] \/ tasks'[s] = None

LEMMA RequestReplaced ==
    ASSUME TypeOK, RequestsTargeted, NEW r \in Requests, NEW q, Targeted(q),
           req' = [req EXCEPT ![r] = q]
    PROVE  RequestsTargeted'
BY DEF TypeOK, RequestsTargeted, Targeted

LEMMA IdleTargeted == Targeted(Idle)
BY DEF Targeted, Idle

LEMMA ClosingTargeted ==
    ASSUME NEW op, NEW s \in Strategies, NEW b, NEW rest
    PROVE  Targeted(Closing(op, s, b, rest))
BY DEF Targeted, Closing, Idle

LEMMA BeginStartSound ==
    ASSUME TypeOK, RequestsTargeted, Registry,
           NEW r \in Requests, NEW s \in Strategies, BeginStart(r, s)
    PROVE  RequestsTargeted' /\ Registry' /\ Shrinks
<1> DEFINE q == [Idle EXCEPT !.op = "start", !.pc = "subscribing", !.s = s,
                             !.shared = Shared(s, Fresh(s))]
<1>1. RequestsTargeted'
  <2>1. Targeted(q)
    BY DEF Targeted, Idle
  <2>2. req' = req \/ req' = [req EXCEPT ![r] = q]
    BY DEF BeginStart
  <2>3. CASE req' = req
    BY <2>3 DEF RequestsTargeted, Targeted
  <2> QED BY <2>1, <2>2, <2>3, RequestReplaced
<1>2. task' = Collected(task) \/ task' = task
    BY DEF BeginStart
<1>3. \A x \in Strategies : tasks'[x] = tasks[x] \/ (tasks'[x] = None /\ x \in Dead)
    BY DEF BeginStart, TasksWithoutDead
<1>4. \A x \in Strategies : db[x] = "deleted" => db'[x] = "deleted"
  <2>1. db' = db \/ db' = RowsOfDeadInError(Fresh(s))
    BY DEF BeginStart
  <2> QED BY <2>1, DeadInErrorType, SharedType
<1> QED BY <1>1, <1>2, <1>3, <1>4, CollectingKeepsRegistry DEF Shrinks

LEMMA StartSettleSound ==
    ASSUME TypeOK, RequestsTargeted, Registry, NEW r \in Requests, StartSettle(r)
    PROVE  RequestsTargeted' /\ Registry' /\ Shrinks
<1>1. RequestsTargeted'
    BY IdleTargeted, RequestReplaced DEF StartSettle
<1>2. req[r].s \in Strategies /\ "running" \in Status
    BY DEF RequestsTargeted, Targeted, StartSettle, Status
<1>3. \A x \in Strategies : db[x] = "deleted" => db'[x] = "deleted"
    BY <1>2, RowSetToType DEF StartSettle
<1> QED BY <1>1, <1>3, CollectingKeepsRegistry DEF Shrinks, StartSettle

LEMMA BeginStopSound ==
    ASSUME TypeOK, RequestsTargeted, Registry,
           NEW r \in Requests, NEW s \in Strategies, BeginStop(r, s)
    PROVE  RequestsTargeted' /\ Registry' /\ Shrinks
<1>1. RequestsTargeted'
    BY ClosingTargeted, RequestReplaced DEF BeginStop
<1> QED BY <1>1, CollectingKeepsRegistry DEF Shrinks, BeginStop

LEMMA RemoveShrinks ==
    ASSUME TypeOK, NEW s \in Strategies, RemoveStrategy(s)
    PROVE  /\ \A x \in Strategies :
                 tasks'[x] = tasks[x] \/ (tasks'[x] = None /\ db'[x] = "deleted")
           /\ \A x \in Strategies : db[x] = "deleted" => db'[x] = "deleted"
BY DEF TypeOK, RemoveStrategy

LEMMA BeginDeleteSound ==
    ASSUME TypeOK, RequestsTargeted, Registry,
           NEW r \in Requests, NEW s \in Strategies, BeginDelete(r, s)
    PROVE  RequestsTargeted' /\ Registry' /\ Shrinks
<1>1. RequestsTargeted'
  <2>1. req' = req \/ req' = [req EXCEPT ![r] = Closing("delete", s, Fresh(s), {})]
    BY DEF BeginDelete
  <2>2. CASE req' = req
    BY <2>2 DEF RequestsTargeted, Targeted
  <2> QED BY <2>1, <2>2, ClosingTargeted, RequestReplaced
<1>2. /\ \A x \in Strategies :
            tasks'[x] = tasks[x] \/ (tasks'[x] = None /\ db'[x] = "deleted")
      /\ \A x \in Strategies : db[x] = "deleted" => db'[x] = "deleted"
    BY RemoveShrinks DEF BeginDelete
<1>3. task' = Collected(task)
    BY DEF BeginDelete
<1> QED BY <1>1, <1>2, <1>3, CollectingKeepsRegistry DEF Shrinks

LEMMA BeginPauseSound ==
    ASSUME TypeOK, RequestsTargeted, Registry,
           NEW r \in Requests, NEW s \in Strategies, BeginPause(r, s)
    PROVE  RequestsTargeted' /\ Registry' /\ Shrinks
<1>1. RequestsTargeted'
    BY ClosingTargeted, RequestReplaced DEF BeginPause
<1> QED BY <1>1, CollectingKeepsRegistry DEF Shrinks, BeginPause

(* What cancelling the registered loop of s leaves of each loop. *)
LEMMA CancelledCases ==
    ASSUME TypeOK, NEW s \in Strategies, NEW t \in Tasks
    PROVE  /\ Cancelled(s)[t].owner = task[t].owner
           /\ t # tasks[s] => Cancelled(s)[t] = task[t]
           /\ t = tasks[s] => Cancelled(s)[t].st \in {"cancelling", "done", "cancelled"}
BY DEF Cancelled, Finished, TypeOK, LoopType

LEMMA StopCancelSound ==
    ASSUME TypeOK, RequestsTargeted, Registry, NEW r \in Requests, StopCancel(r)
    PROVE  RequestsTargeted' /\ Registry' /\ Shrinks
<1> DEFINE s == req[r].s
           loops == Cancelled(s)
<1>1. s \in Strategies /\ req[r].pc = "closing"
    BY DEF RequestsTargeted, Targeted, StopCancel
<1>2. RequestsTargeted'
    BY <1>1 DEF RequestsTargeted, Targeted, StopCancel, TypeOK, ReqType
<1>3. tasks' = [tasks EXCEPT ![s] = None] /\ task' = Collected(loops) /\ db' = db
    BY DEF StopCancel
<1>4. ASSUME NEW t \in Tasks
      PROVE  \/ task'[t] = task[t]
             \/ task'[t] = NoLoop /\ \A x \in Strategies : tasks'[x] # t
             \/ /\ task'[t].owner = task[t].owner
                /\ task[t].st # "free" /\ task'[t].st # "free"
                /\ task'[t].st \notin {"running", "stopping"}
  <2>1. CASE task'[t] = loops[t]
    <3>1. CASE t # tasks[s]
      BY <2>1, <3>1, <1>1, CancelledCases
    <3>2. CASE t = tasks[s]
      <4>1. task[t].st # "free"
        BY <3>2, <1>1, NoneIsNoTask DEF Registry, RegistryOwned
      <4> QED BY <4>1, <2>1, <3>2, <1>1, CancelledCases
    <3> QED BY <3>1, <3>2
  <2>2. CASE task'[t] = NoLoop /\ \A x \in Strategies : tasks'[x] # t
    BY <2>2
  <2> HIDE DEF loops
  <2> QED BY <2>1, <2>2, <1>3 DEF Collected
<1>5. tasks[s] \in Tasks => task'[tasks[s]].st \notin {"running", "stopping"}
  <2> SUFFICES ASSUME tasks[s] \in Tasks
               PROVE  task'[tasks[s]].st \notin {"running", "stopping"}
    OBVIOUS
  <2>1. loops[tasks[s]].st \notin {"running", "stopping"}
    BY <1>1, CancelledCases
  <2> HIDE DEF loops
  <2>2. task'[tasks[s]] = loops[tasks[s]] \/ task'[tasks[s]] = NoLoop
    BY <1>3 DEF Collected
  <2> QED BY <2>1, <2>2 DEF NoLoop
<1>6. \A x \in Strategies :
        \/ tasks'[x] = tasks[x]
        \/ /\ tasks'[x] = None
           /\ tasks[x] \in Tasks /\ task'[tasks[x]].st \notin {"running", "stopping"}
    BY <1>3, <1>5 DEF TypeOK
<1>7. Registry'
    BY <1>3, <1>4, <1>6, StepKeepsRegistry
<1> QED BY <1>2, <1>6, <1>7 DEF Shrinks

LEMMA StopPersistSound ==
    ASSUME TypeOK, RequestsTargeted, Registry, NEW r \in Requests, StopPersist(r)
    PROVE  RequestsTargeted' /\ Registry' /\ Shrinks
<1>1. req[r].s \in Strategies /\ "stopped" \in Status /\ "stopped_by_risk" \in Status
    BY DEF RequestsTargeted, Targeted, StopPersist, Status
<1>2. RequestsTargeted'
  <2>1. CASE req' = [req EXCEPT ![r] = Idle]
    BY <2>1, IdleTargeted, RequestReplaced
  <2>2. ASSUME NEW q \in NextToPause(r), req' = [req EXCEPT ![r] = q]
        PROVE  RequestsTargeted'
    <3>1. q = Idle \/ \E x \in req[r].queue :
             q = Closing("pause", x, req[r].fresh \/ mem[x] = "absent", req[r].queue \ {x})
      BY DEF NextToPause
    <3>2. req[r].queue \subseteq Strategies
      BY DEF TypeOK, ReqType
    <3>3. Targeted(q)
      BY <3>1, <3>2, IdleTargeted, ClosingTargeted
    <3> QED BY <3>3, <2>2, RequestReplaced
  <2> QED BY <2>1, <2>2 DEF StopPersist
<1>3. /\ \A x \in Strategies :
            tasks'[x] = tasks[x] \/ (tasks'[x] = None /\ db'[x] = "deleted")
      /\ \A x \in Strategies : db[x] = "deleted" => db'[x] = "deleted"
  <2>1. CASE RemoveStrategy(req[r].s)
    BY <2>1, <1>1, RemoveShrinks
  <2>2. CASE tasks' = tasks /\ (\/ db' = db
                               \/ db' = RowSetTo(req[r].s, "stopped")
                               \/ db' = RowSetTo(req[r].s, "stopped_by_risk"))
    <3>1. \A x \in Strategies :
            /\ RowSetTo(req[r].s, "stopped")[x] = "deleted" <=> db[x] = "deleted"
            /\ RowSetTo(req[r].s, "stopped_by_risk")[x] = "deleted" <=> db[x] = "deleted"
      BY <1>1, RowSetToType
    <3>2. \A x \in Strategies : db[x] = "deleted" => db'[x] = "deleted"
      BY <3>1, <2>2
    <3> QED BY <3>2, <2>2
  <2>3. CASE req[r].op = "stop"
    BY <2>2, <2>3 DEF StopPersist
  <2>4. CASE req[r].op = "delete"
    BY <2>1, <2>4 DEF StopPersist
  <2>5. CASE req[r].op = "pause"
    <3>1. tasks' = tasks
      BY <2>5 DEF StopPersist
    <3>2. db' = db \/ db' = RowSetTo(req[r].s, "stopped_by_risk")
      BY <2>5 DEF StopPersist
    <3> QED BY <2>2, <3>1, <3>2
  <2>6. req[r].op \in {"stop", "delete", "pause"}
    BY DEF StopPersist
  <2> QED BY <2>3, <2>4, <2>5, <2>6
<1>4. task' = Collected(task)
    BY DEF StopPersist
<1> QED BY <1>2, <1>3, <1>4, CollectingKeepsRegistry DEF Shrinks

LEMMA StartRegisterSound ==
    ASSUME TypeOK, RequestsTargeted, Registry, NEW r \in Requests, StartRegister(r)
    PROVE  RequestsTargeted' /\ Registry'
<1>1. req[r].s \in Strategies
    BY DEF RequestsTargeted, Targeted, StartRegister
<1>2. CASE RefuseStart(r)
  <2>1. RequestsTargeted'
    BY <1>2, IdleTargeted, RequestReplaced DEF RefuseStart
  <2> QED BY <2>1, <1>2, CollectingKeepsRegistry DEF RefuseStart
<1>3. ASSUME NEW t \in Tasks, RegisterLoop(r, t),
             tasks[req[r].s] = None \/ Finished(tasks[req[r].s])
      PROVE  RequestsTargeted' /\ Registry'
  <2>1. RequestsTargeted'
    BY <1>1, <1>3 DEF RequestsTargeted, Targeted, RegisterLoop, TypeOK, ReqType
  <2> QED BY <2>1, <1>1, <1>3, RegisterKeepsRegistry
<1> QED BY <1>2, <1>3 DEF StartRegister

(* The steps of a loop that leave the registry alone. *)
LEMMA LoopStepSound ==
    ASSUME TypeOK, RequestsTargeted, Registry, NEW t \in Tasks, NEW v \in LoopStates,
           task[t].st # "free", v # "free",
           v \in {"running", "stopping"} => Uncancelled(t),
           \/ task' = task
           \/ task' = [task EXCEPT ![t].st = v]
           \/ task' = Collected([task EXCEPT ![t].st = v]),
           UNCHANGED <<db, tasks, req>>
    PROVE  RequestsTargeted' /\ Registry' /\ Shrinks
<1> DEFINE loops == [task EXCEPT ![t].st = v]
<1>1. RequestsTargeted' /\ Shrinks
    BY DEF RequestsTargeted, Targeted, Shrinks
<1>2. /\ loops[t].st = v /\ loops[t].owner = task[t].owner
      /\ \A u \in Tasks \ {t} : loops[u] = task[u]
    BY DEF TypeOK, LoopType
<1>3. ASSUME NEW u \in Tasks
      PROVE  \/ task'[u] = task[u]
             \/ task'[u] = NoLoop /\ \A s \in Strategies : tasks'[s] # u
             \/ /\ task'[u].owner = task[u].owner
                /\ task[u].st # "free" /\ task'[u].st # "free"
                /\ task'[u].st \in {"running", "stopping"} => Uncancelled(u)
  <2>1. \/ task'[u] = task[u]
        \/ task'[u] = loops[u]
        \/ task'[u] = NoLoop /\ \A s \in Strategies : tasks'[s] # u
    <3> HIDE DEF loops
    <3>1. task' = task \/ task' = loops \/ task' = Collected(loops)
      BY DEF loops
    <3> QED BY <3>1, CollectedCases
  <2> HIDE DEF loops
  <2> QED BY <2>1, <1>2
<1>4. Registry'
    BY <1>3, StepKeepsRegistry
<1> QED BY <1>1, <1>4

LEMMA LoopRefreshSound ==
    ASSUME TypeOK, RequestsTargeted, Registry, NEW t \in Tasks, LoopRefresh(t)
    PROVE  RequestsTargeted' /\ Registry' /\ Shrinks
<1>1. task[t].st # "free" /\ UNCHANGED <<db, tasks, req>>
    BY DEF LoopRefresh
<1>2. task' = task \/ task' = Collected([task EXCEPT ![t].st = "done"])
    BY DEF LoopRefresh
<1>3. "done" \in LoopStates
    BY DEF LoopStates
<1> QED BY <1>1, <1>2, <1>3, LoopStepSound

LEMMA LoopFailSound ==
    ASSUME TypeOK, RequestsTargeted, Registry, NEW t \in Tasks, LoopFail(t)
    PROVE  RequestsTargeted' /\ Registry' /\ Shrinks
<1>1. /\ task[t].st # "free" /\ UNCHANGED <<db, tasks, req>>
      /\ task' = Collected([task EXCEPT ![t].st = "done"])
    BY DEF LoopFail
<1>2. "done" \in LoopStates
    BY DEF LoopStates
<1> QED BY <1>1, <1>2, LoopStepSound

LEMMA LoopCancelledSound ==
    ASSUME TypeOK, RequestsTargeted, Registry, NEW t \in Tasks, LoopCancelled(t)
    PROVE  RequestsTargeted' /\ Registry' /\ Shrinks
<1>1. /\ task[t].st # "free" /\ UNCHANGED <<db, tasks, req>>
      /\ task' = Collected([task EXCEPT ![t].st = "cancelled"])
    BY DEF LoopCancelled
<1>2. "cancelled" \in LoopStates
    BY DEF LoopStates
<1> QED BY <1>1, <1>2, LoopStepSound

LEMMA SelfStopBeginSound ==
    ASSUME TypeOK, RequestsTargeted, Registry, NEW t \in Tasks, SelfStopBegin(t)
    PROVE  RequestsTargeted' /\ Registry' /\ Shrinks
<1>1. /\ task[t].st # "free" /\ Uncancelled(t) /\ UNCHANGED <<db, tasks, req>>
      /\ task' = [task EXCEPT ![t].st = "stopping"]
    BY DEF SelfStopBegin, Uncancelled
<1>2. "stopping" \in LoopStates
    BY DEF LoopStates
<1> QED BY <1>1, <1>2, LoopStepSound

LEMMA SelfStopSound ==
    ASSUME TypeOK, RequestsTargeted, Registry, NEW t \in Tasks, SelfStop(t)
    PROVE  RequestsTargeted' /\ Registry' /\ Shrinks
<1> DEFINE s == task[t].owner
           ended == [Cancelled(s) EXCEPT ![t].st = "done"]
<1>1. task[t].st = "stopping" /\ s \in Strategies /\ "stopped" \in Status
    BY DEF Registry, LoopsOwned, SelfStop, Status
<1>2. RequestsTargeted'
    BY DEF SelfStop, RequestsTargeted, Targeted
<1>3. tasks' = [tasks EXCEPT ![s] = None]
    BY DEF SelfStop
<1>4. \A x \in Strategies : db[x] = "deleted" => db'[x] = "deleted"
  <2>1. db' = db \/ db' = RowSetTo(s, "stopped")
    BY DEF SelfStop
  <2> QED BY <2>1, <1>1, RowSetToType
<1>5. PICK loops \in {Cancelled(s), ended} :
         task' = Collected(loops) /\ (loops = Cancelled(s) => tasks[s] = t \/ loops = ended)
    BY DEF SelfStop
<1>6. ASSUME NEW u \in Tasks
      PROVE  /\ loops[u].owner = task[u].owner
             /\ loops[u] = task[u] \/ loops[u].st \in {"cancelling", "done", "cancelled"}
             /\ u = tasks[s] => loops[u].st \in {"cancelling", "done", "cancelled"}
  <2>1. Cancelled(s) \in [Tasks -> LoopType]
    BY <1>1, CancelledType
  <2>2. /\ Cancelled(s)[u].owner = task[u].owner
        /\ u # tasks[s] => Cancelled(s)[u] = task[u]
        /\ u = tasks[s] => Cancelled(s)[u].st \in {"cancelling", "done", "cancelled"}
    BY <1>1, CancelledCases
  <2>3. CASE loops = Cancelled(s)
    BY <2>2, <2>3
  <2>4. CASE loops = ended
    <3>1. /\ ended[u].owner = Cancelled(s)[u].owner
          /\ u = t => ended[u].st = "done"
          /\ u # t => ended[u] = Cancelled(s)[u]
      BY <2>1 DEF LoopType
    <3> HIDE DEF ended
    <3> QED BY <2>2, <2>4, <3>1
  <2> QED BY <2>3, <2>4
<1>7. ASSUME NEW u \in Tasks, task[u].st = "free" PROVE loops[u] = task[u]
  <2>1. u # t /\ u # tasks[s]
    BY <1>1, <1>7, NoneIsNoTask DEF Registry, RegistryOwned
  <2>2. Cancelled(s)[u] = task[u]
    BY <2>1, <1>1, CancelledCases
  <2>3. ended[u] = Cancelled(s)[u]
    BY <2>1, <1>1, CancelledType
  <2> QED BY <2>2, <2>3
<1>8. ASSUME NEW u \in Tasks
      PROVE  \/ task'[u] = task[u]
             \/ task'[u] = NoLoop /\ \A x \in Strategies : tasks'[x] # u
             \/ /\ task'[u].owner = task[u].owner
                /\ task[u].st # "free" /\ task'[u].st # "free"
                /\ task'[u].st \notin {"running", "stopping"}
  <2> HIDE DEF ended
  <2>1. \/ task'[u] = loops[u]
        \/ task'[u] = NoLoop /\ \A x \in Strategies : tasks'[x] # u
    BY <1>5, CollectedCases
  <2> QED BY <2>1, <1>6, <1>7
<1>9. tasks[s] \in Tasks => task'[tasks[s]].st \notin {"running", "stopping"}
  <2> SUFFICES ASSUME tasks[s] \in Tasks
               PROVE  task'[tasks[s]].st \notin {"running", "stopping"}
    OBVIOUS
  <2> HIDE DEF ended
  <2>1. loops[tasks[s]].st \notin {"running", "stopping"}
    BY <1>6
  <2>2. task'[tasks[s]] = loops[tasks[s]] \/ task'[tasks[s]] = NoLoop
    BY <1>5, CollectedCases
  <2> QED BY <2>1, <2>2 DEF NoLoop
<1>10. \A x \in Strategies :
         \/ tasks'[x] = tasks[x]
         \/ /\ tasks'[x] = None
            /\ tasks[x] \in Tasks /\ task'[tasks[x]].st \notin {"running", "stopping"}
    BY <1>3, <1>9 DEF TypeOK
<1>11. Registry'
    BY <1>4, <1>8, <1>10, StepKeepsRegistry
<1> QED BY <1>2, <1>10, <1>11 DEF Shrinks

LEMMA PeriodicCleanupSound ==
    ASSUME TypeOK, RequestsTargeted, Registry, PeriodicCleanup
    PROVE  RequestsTargeted' /\ Registry' /\ Shrinks
<1>1. RequestsTargeted'
    BY DEF PeriodicCleanup, RequestsTargeted, Targeted
<1>2. \A x \in Strategies : tasks'[x] = tasks[x] \/ (tasks'[x] = None /\ x \in Dead)
    BY DEF PeriodicCleanup, TasksWithoutDead
<1>3. task' = Collected(task) /\ db' = db
    BY DEF PeriodicCleanup
<1> QED BY <1>1, <1>2, <1>3, CollectingKeepsRegistry DEF Shrinks

LEMMA RestartSound ==
    ASSUME TypeOK, Restart
    PROVE  RequestsTargeted' /\ Registry' /\ Shrinks
<1>1. RequestsTargeted'
    BY IdleTargeted DEF Restart, RequestsTargeted
<1>2. \A t \in Tasks : task'[t].st = "free"
    BY DEF Restart, NoLoop
<1>3. \A s \in Strategies : tasks'[s] = None
    BY DEF Restart
<1> QED BY <1>1, <1>2, <1>3
        DEF Registry, LoopsOwned, RegistryOwned, LoopsRegistered, Uncancelled, Shrinks
-----------------------------------------------------------------------------
(* The invariant.                                                          *)

(* It holds initially. *)
LEMMA InitIInv ==
    ASSUME Init
    PROVE  IInv
<1>1. TypeOK
  <2>1. NoLoop \in LoopType
    BY DEF NoLoop, LoopType, LoopStates
  <2> QED BY <2>1, IdleType, ParametersAssumption DEF Init, TypeOK, Status
<1>2. RequestsTargeted
    BY IdleTargeted DEF Init, RequestsTargeted
<1>3. LoopsOwned /\ RegistryOwned /\ LoopsRegistered
    BY DEF Init, NoLoop, LoopsOwned, RegistryOwned, LoopsRegistered, Uncancelled
<1> QED BY <1>1, <1>2, <1>3 DEF IInv

(* Every step keeps it, and only StartRegister adds to the registry. *)
LEMMA NextIInv ==
    ASSUME IInv, [Next]_vars
    PROVE  IInv' /\ (Shrinks \/ \E r \in Requests : StartRegister(r))
<1> USE DEF IInv
<1>0. Registry
    BY DEF Registry
<1>1. ASSUME NEW r \in Requests, NEW s \in Strategies, BeginStart(r, s) PROVE IInv' /\ Shrinks
    BY <1>0, <1>1, BeginStartType, BeginStartSound DEF Registry
<1>2. ASSUME NEW r \in Requests, NEW s \in Strategies, BeginStop(r, s) PROVE IInv' /\ Shrinks
    BY <1>0, <1>2, BeginStopType, BeginStopSound DEF Registry
<1>3. ASSUME NEW r \in Requests, NEW s \in Strategies, BeginDelete(r, s) PROVE IInv' /\ Shrinks
    BY <1>0, <1>3, BeginDeleteType, BeginDeleteSound DEF Registry
<1>4. ASSUME NEW r \in Requests, NEW s \in Strategies, BeginPause(r, s) PROVE IInv' /\ Shrinks
    BY <1>0, <1>4, BeginPauseType, BeginPauseSound DEF Registry
<1>5. ASSUME NEW r \in Requests, StartRegister(r) PROVE IInv'
    BY <1>0, <1>5, StartRegisterType, StartRegisterSound DEF Registry
<1>6. ASSUME NEW r \in Requests, StartSettle(r) PROVE IInv' /\ Shrinks
    BY <1>0, <1>6, StartSettleType, StartSettleSound DEF Registry
<1>7. ASSUME NEW r \in Requests, StopCancel(r) PROVE IInv' /\ Shrinks
    BY <1>0, <1>7, StopCancelType, StopCancelSound DEF Registry
<1>8. ASSUME NEW r \in Requests, StopPersist(r) PROVE IInv' /\ Shrinks
    BY <1>0, <1>8, StopPersistType, StopPersistSound DEF Registry
<1>9. ASSUME NEW t \in Tasks, LoopRefresh(t) PROVE IInv' /\ Shrinks
    BY <1>0, <1>9, LoopRefreshType, LoopRefreshSound DEF Registry
<1>10. ASSUME NEW t \in Tasks, LoopFail(t) PROVE IInv' /\ Shrinks
    BY <1>0, <1>10, LoopFailType, LoopFailSound DEF Registry
<1>11. ASSUME NEW t \in Tasks, LoopCancelled(t) PROVE IInv' /\ Shrinks
    BY <1>0, <1>11, LoopCancelledType, LoopCancelledSound DEF Registry
<1>12. ASSUME NEW t \in Tasks, SelfStopBegin(t) PROVE IInv' /\ Shrinks
    BY <1>0, <1>12, SelfStopBeginType, SelfStopBeginSound DEF Registry
<1>13. ASSUME NEW t \in Tasks, SelfStop(t) PROVE IInv' /\ Shrinks
    BY <1>0, <1>13, SelfStopType, SelfStopSound DEF Registry
<1>14. CASE PeriodicCleanup
    BY <1>0, <1>14, PeriodicCleanupType, PeriodicCleanupSound DEF Registry
<1>15. CASE Restart
    BY <1>15, RestartType, RestartSound DEF Registry
<1>16. CASE OtherRequest
  <2>1. TypeOK'
    BY <1>16 DEF OtherRequest, TypeOK
  <2>2. RequestsTargeted'
    BY <1>16 DEF OtherRequest, RequestsTargeted, Targeted
  <2>3. Registry' /\ Shrinks
    BY <1>0, <1>16, CollectingKeepsRegistry DEF OtherRequest, Shrinks
  <2> QED BY <2>1, <2>2, <2>3 DEF Registry
<1>17. CASE UNCHANGED vars
    BY <1>17 DEF vars, TypeOK, RequestsTargeted, Targeted, LoopsOwned, RegistryOwned,
                 LoopsRegistered, Uncancelled, Exists, Shrinks
<1> QED
  <2> HIDE DEF IInv
  <2> QED BY <1>1, <1>2, <1>3, <1>4, <1>5, <1>6, <1>7, <1>8, <1>9, <1>10, <1>11, <1>12,
             <1>13, <1>14, <1>15, <1>16, <1>17
          DEF Next, Request, Resume, Loop

LEMMA Invariance == Spec => []IInv
<1>1. Init => IInv
    BY InitIInv
<1>2. IInv /\ [Next]_vars => IInv'
    BY NextIInv
<1> QED BY <1>1, <1>2, PTL DEF Spec

-----------------------------------------------------------------------------
(* Every variable keeps its type, whatever requests, loop failures and     *)
(* restarts interleave: no loop ever copies the status of a row that is    *)
(* gone, and no start, stop or pause loses track of its strategy.          *)
THEOREM TypeCorrect == Spec => []TypeOK
<1>1. IInv => TypeOK
    BY DEF IInv
<1> QED BY <1>1, Invariance, PTL

(* A loop that trades for an existing strategy is the one _tasks holds for *)
(* it, although start, stop, delete and the cleanup change _tasks under    *)
(* locks they do not share.                                                *)
THEOREM NoLoopOrphaned == Spec => []NoOrphan
<1>1. IInv => NoOrphan
    BY DEF IInv, LoopsRegistered, Uncancelled, NoOrphan, Trading
<1> QED BY <1>1, Invariance, PTL

LEMMA RegisteredFinite ==
    IsFiniteSet(Registered) /\ Cardinality(Registered) \in Nat
<1>1. Registered \subseteq Strategies
    BY DEF Registered
<1> QED BY <1>1, SetsAssumption, FS_Subset, FS_CardinalityType

(* Starting a loop adds one strategy to the registry, and only while it is *)
(* below the limit.                                                        *)
LEMMA RegisterWithinLimit ==
    ASSUME TypeOK, TaskLimit, NEW r \in Requests, StartRegister(r)
    PROVE  TaskLimit'
<1> DEFINE s == req[r].s
           n == Cardinality(Registered)
           larger == Cardinality(Registered \cup {s})
<1>1. n \in Nat /\ MaxConcurrent \in Nat /\ IsFiniteSet(Registered)
    BY RegisteredFinite, ParametersAssumption
<1>2. CASE tasks' = tasks
  <2>1. Registered' = Registered
    BY <1>2 DEF Registered
  <2> QED BY <2>1 DEF TaskLimit
<1>3. CASE ~(n >= MaxConcurrent) /\ \E t \in Tasks : tasks' = [tasks EXCEPT ![s] = t]
  <2>1. Registered' \subseteq Registered \cup {s}
    BY <1>3 DEF Registered, TypeOK
  <2>2. IsFiniteSet(Registered \cup {s}) /\ larger \in Nat /\ (larger = n \/ larger = n + 1)
    BY <1>1, FS_AddElement, FS_CardinalityType
  <2>3. Cardinality(Registered') \in Nat /\ Cardinality(Registered') =< larger
    BY <2>1, <2>2, FS_Subset, FS_CardinalityType
  <2>4. Cardinality(Registered') =< MaxConcurrent
    <3> HIDE DEF n, larger
    <3> QED BY <1>1, <1>3, <2>2, <2>3
  <2> QED BY <2>4 DEF TaskLimit
<1> QED BY <1>2, <1>3 DEF StartRegister, RefuseStart, RegisterLoop

(* _tasks never holds more loops than max_concurrent, however many starts  *)
(* wait for their subscriptions together: the limit is checked again in    *)
(* the same uninterrupted stretch that registers the loop.                 *)
THEOREM LimitKept == Spec => []TaskLimit
<1>1. Init => TaskLimit
  <2>1. ASSUME Init PROVE Registered = {}
    BY <2>1 DEF Init, Registered
  <2> QED BY <2>1, FS_EmptySet, ParametersAssumption DEF TaskLimit
<1>2. IInv /\ TaskLimit /\ [Next]_vars => TaskLimit'
  <2> SUFFICES ASSUME IInv, TaskLimit, [Next]_vars PROVE TaskLimit'
    OBVIOUS
  <2>1. CASE Shrinks
    <3>1. Registered' \subseteq Registered
      BY <2>1 DEF Shrinks, Registered
    <3>2. Cardinality(Registered') =< Cardinality(Registered) /\ Cardinality(Registered') \in Nat
      BY <3>1, RegisteredFinite, FS_Subset, FS_CardinalityType
    <3> QED BY <3>2, RegisteredFinite, ParametersAssumption DEF TaskLimit
  <2>2. ASSUME NEW r \in Requests, StartRegister(r) PROVE TaskLimit'
    BY <2>2, RegisterWithinLimit DEF IInv
  <2> QED BY <2>1, <2>2, NextIInv
<1> QED BY <1>1, <1>2, Invariance, PTL DEF Spec
-----------------------------------------------------------------------------
(* The refinement.  What the registry promises of the loops that trade is  *)
(* Traders: StartRegister begins a loop there, and whatever else happens   *)
(* lets some of them end, or none.                                         *)

Traded == {<<task[t].owner, t>> : t \in {u \in Tasks : Trading(u) /\ Exists(task[u].owner)}}

(* The step lets no loop trade that did not, and brings no row back.       *)
Quiet(loops) ==
    \A t \in Tasks : loops[t].st = "running" =>
        task[t].st = "running" /\ loops[t].owner = task[t].owner

RowsStayGone == \A s \in Strategies : db[s] = "deleted" => db'[s] = "deleted"

Calms == Quiet(task') /\ RowsStayGone

LEMMA CollectedQuiet ==
    ASSUME NEW loops, Quiet(loops)
    PROVE  Quiet(Collected(loops))
BY CollectedCases DEF Quiet, NoLoop

LEMMA CancelledQuiet ==
    ASSUME TypeOK, NEW s \in Strategies
    PROVE  Quiet(Cancelled(s)) /\ Quiet(task)
BY DEF Quiet, Cancelled, TypeOK, LoopType

LEMMA ChangedQuiet ==
    ASSUME TypeOK, NEW loops \in [Tasks -> LoopType], Quiet(loops),
           NEW t \in Tasks, NEW v \in LoopStates \ {"running"}
    PROVE  Quiet([loops EXCEPT ![t].st = v])
BY DEF Quiet, LoopType

(* Requests, but for the registration of a new loop.                       *)
LEMMA RequestCalms ==
    ASSUME IInv, NEW r \in Requests, Request(r)
    PROVE  Calms
<1>1. TypeOK /\ Quiet(task)
    BY DEF IInv, Quiet
<1>2. Quiet(Collected(task))
    BY <1>1, CollectedQuiet
<1>3. task' = task \/ task' = Collected(task)
  <2>1. ASSUME NEW s \in Strategies, BeginStart(r, s) \/ BeginDelete(r, s)
        PROVE  task' = task \/ task' = Collected(task)
    BY <2>1 DEF BeginStart, BeginDelete
  <2>2. ASSUME NEW s \in Strategies, BeginStop(r, s) \/ BeginPause(r, s)
        PROVE  task' = task
    BY <2>2 DEF BeginStop, BeginPause
  <2> QED BY <2>1, <2>2 DEF Request
<1>4. RowsStayGone
  <2>1. ASSUME NEW s \in Strategies, BeginStart(r, s)
        PROVE  RowsStayGone
    <3>1. db' = db \/ db' = RowsOfDeadInError(Fresh(s))
      BY <2>1 DEF BeginStart
    <3> QED BY <1>1, <3>1, DeadInErrorType, SharedType DEF RowsStayGone
  <2>2. ASSUME NEW s \in Strategies, BeginDelete(r, s)
        PROVE  RowsStayGone
    BY <1>1, <2>2, RemoveShrinks DEF BeginDelete, RowsStayGone
  <2>3. ASSUME NEW s \in Strategies, BeginStop(r, s) \/ BeginPause(r, s)
        PROVE  RowsStayGone
    BY <2>3 DEF BeginStop, BeginPause, RowsStayGone
  <2> QED BY <2>1, <2>2, <2>3 DEF Request
<1> QED BY <1>1, <1>2, <1>3, <1>4 DEF Calms

LEMMA ResumeCalms ==
    ASSUME IInv, NEW r \in Requests, StartSettle(r) \/ StopCancel(r) \/ StopPersist(r)
    PROVE  Calms
<1> DEFINE s == req[r].s
<1>1. TypeOK /\ Quiet(task)
    BY DEF IInv, Quiet
<1>2. s \in Strategies
    BY DEF IInv, RequestsTargeted, Targeted, StartSettle, StopCancel, StopPersist
<1>3. Quiet(Collected(task)) /\ Quiet(Collected(Cancelled(s)))
    BY <1>1, <1>2, CollectedQuiet, CancelledQuiet
<1>4. task' = Collected(task) \/ task' = Collected(Cancelled(s))
    BY DEF StartSettle, StopCancel, StopPersist
<1>5. /\ db' = db \/ RemoveStrategy(s) \/ \E v \in Status : db' = RowSetTo(s, v)
    BY DEF StartSettle, StopCancel, StopPersist, Status
<1>6. RowsStayGone
    BY <1>1, <1>2, <1>5, RowSetToType, RemoveShrinks DEF RowsStayGone
<1> QED BY <1>3, <1>4, <1>6 DEF Calms

LEMMA LoopCalms ==
    ASSUME IInv, NEW t \in Tasks, Loop(t)
    PROVE  Calms
<1> DEFINE s == task[t].owner
<1>1. TypeOK /\ Quiet(task) /\ task \in [Tasks -> LoopType]
    BY DEF IInv, Quiet, TypeOK
<1>2. s \in Strategies
    BY DEF IInv, LoopsOwned, Loop, LoopRefresh, LoopFail, LoopCancelled, SelfStopBegin, SelfStop
<1>3. "done" \in LoopStates /\ "cancelled" \in LoopStates /\ "stopping" \in LoopStates
    BY DEF LoopStates
<1>4. ASSUME NEW v \in {"done", "cancelled", "stopping"}
      PROVE  Quiet([task EXCEPT ![t].st = v]) /\ Quiet(Collected([task EXCEPT ![t].st = v]))
  <2>1. Quiet([task EXCEPT ![t].st = v])
    BY <1>1, <1>3, ChangedQuiet
  <2> QED BY <2>1, CollectedQuiet
<1>5. Quiet(Cancelled(s)) /\ Cancelled(s) \in [Tasks -> LoopType]
    BY <1>1, <1>2, CancelledQuiet, CancelledType
<1>6. Quiet(Collected(Cancelled(s))) /\ Quiet(Collected([Cancelled(s) EXCEPT ![t].st = "done"]))
  <2>1. Quiet([Cancelled(s) EXCEPT ![t].st = "done"])
    BY <1>1, <1>3, <1>5, ChangedQuiet
  <2> QED BY <1>5, <2>1, CollectedQuiet
<1>7. \/ task' = task
      \/ \E v \in {"done", "cancelled", "stopping"} :
            task' = [task EXCEPT ![t].st = v] \/ task' = Collected([task EXCEPT ![t].st = v])
      \/ task' = Collected(Cancelled(s))
      \/ task' = Collected([Cancelled(s) EXCEPT ![t].st = "done"])
    BY DEF Loop, LoopRefresh, LoopFail, LoopCancelled, SelfStopBegin, SelfStop
<1>8. Quiet(task')
    BY <1>1, <1>4, <1>6, <1>7
<1>9. RowsStayGone
  <2>1. db' = db \/ db' = RowSetTo(s, "stopped")
    BY DEF Loop, LoopRefresh, LoopFail, LoopCancelled, SelfStopBegin, SelfStop
  <2> QED BY <1>1, <1>2, <2>1, RowSetToType DEF RowsStayGone, Status
<1> QED BY <1>8, <1>9 DEF Calms

LEMMA ServerCalms ==
    ASSUME IInv, OtherRequest \/ PeriodicCleanup \/ Restart \/ UNCHANGED vars
    PROVE  Calms
<1>1. Quiet(task)
    BY DEF Quiet
<1>2. Quiet(Collected(task))
    BY <1>1, CollectedQuiet
<1>3. CASE Restart
    BY <1>3 DEF Restart, Calms, Quiet, NoLoop, RowsStayGone
<1>4. CASE OtherRequest \/ PeriodicCleanup \/ UNCHANGED vars
    BY <1>1, <1>2, <1>4 DEF OtherRequest, PeriodicCleanup, vars, Calms, RowsStayGone
<1> QED BY <1>3, <1>4

(* Then the loops that trade are among those that did.                     *)
LEMMA CalmsEnds ==
    ASSUME IInv, IInv', Calms
    PROVE  Abstract!Next \/ Traded' = Traded
<1>1. Traded' \subseteq Traded
  <2> SUFFICES ASSUME NEW t \in Tasks, task'[t].st = "running", db'[task'[t].owner] # "deleted"
               PROVE  <<task'[t].owner, t>> \in Traded
    BY DEF Traded, Trading, Exists
  <2>1. task[t].st = "running" /\ task'[t].owner = task[t].owner
    BY DEF Calms, Quiet
  <2>2. task[t].owner \in Strategies
    BY <2>1 DEF IInv, LoopsOwned
  <2>3. db[task[t].owner] # "deleted"
    BY <2>1, <2>2 DEF Calms, RowsStayGone
  <2> QED BY <2>1, <2>3 DEF Traded, Trading, Exists
<1>2. CASE Traded' # Traded
  <2>1. Traded # {} /\ Traded' \in SUBSET Traded
    BY <1>1, <1>2
  <2>2. Abstract!End
    BY <1>2, <2>1 DEF Abstract!End, Traded
  <2> QED BY <2>2 DEF Abstract!Next
<1> QED BY <1>2

(* The loops that trade for existing strategies are no more than the       *)
(* registry holds: each of them is the one that it holds.                  *)
LEMMA TradedWithinRegistry ==
    ASSUME IInv
    PROVE  /\ \A pair \in Traded :
                 pair[1] \in Strategies /\ pair[2] \in Tasks
                 /\ tasks[pair[1]] = pair[2] /\ task[pair[2]].st = "running"
           /\ IsFiniteSet(Traded) /\ Cardinality(Traded) \in Nat
           /\ Cardinality(Traded) =< Cardinality(Registered)
<1> DEFINE entry == [s \in Registered |-> <<s, tasks[s]>>]
           entries == {entry[s] : s \in Registered}
<1>1. ASSUME NEW t \in Tasks, Trading(t), Exists(task[t].owner)
      PROVE  task[t].owner \in Strategies /\ tasks[task[t].owner] = t
    BY <1>1 DEF IInv, LoopsOwned, LoopsRegistered, Uncancelled, Trading
<1>2. \A pair \in Traded :
         pair[1] \in Strategies /\ pair[2] \in Tasks
         /\ tasks[pair[1]] = pair[2] /\ task[pair[2]].st = "running"
    BY <1>1 DEF Traded, Trading
<1>3. Traded \subseteq entries
  <2> SUFFICES ASSUME NEW t \in Tasks, Trading(t), Exists(task[t].owner)
               PROVE  <<task[t].owner, t>> \in entries
    BY DEF Traded
  <2>1. task[t].owner \in Registered /\ tasks[task[t].owner] = t
    BY <1>1, NoneIsNoTask DEF Registered
  <2>2. entry[task[t].owner] = <<task[t].owner, t>>
    BY <2>1
  <2> QED BY <2>1, <2>2
<1>4. IsFiniteSet(entries) /\ Cardinality(entries) =< Cardinality(Registered)
  <2>1. entry \in Surjection(Registered, entries)
    BY DEF Surjection
  <2> HIDE DEF entry, entries
  <2> QED BY <2>1, RegisteredFinite, FS_Surjection
<1>5. IsFiniteSet(Traded) /\ Cardinality(Traded) =< Cardinality(entries)
      /\ Cardinality(Traded) \in Nat /\ Cardinality(entries) \in Nat
  <2> HIDE DEF entries
  <2> QED BY <1>3, <1>4, FS_Subset, FS_CardinalityType
<1>6. Cardinality(Traded) =< Cardinality(Registered)
  <2> HIDE DEF entry, entries
  <2> QED BY <1>4, <1>5, RegisteredFinite
<1> QED BY <1>2, <1>5, <1>6

(* A loop is registered for a strategy whose place is free, within the     *)
(* limit; if its row is gone by now, the promise is not about it.          *)
LEMMA RegistrationBegins ==
    ASSUME IInv, NEW r \in Requests, StartRegister(r)
    PROVE  Abstract!Next \/ Traded' = Traded
<1> DEFINE s == req[r].s
<1>1. TypeOK /\ s \in Strategies
    BY DEF IInv, RequestsTargeted, Targeted, StartRegister
<1>2. CASE RefuseStart(r)
  <2>1. task' = task /\ db' = db
    BY <1>2 DEF RefuseStart
  <2> QED BY <2>1 DEF Traded, Trading, Exists
<1>3. ASSUME NEW t \in Tasks, RegisterLoop(r, t),
             ~(Cardinality(Registered) >= MaxConcurrent),
             tasks[s] = None \/ Finished(tasks[s])
      PROVE  Abstract!Next \/ Traded' = Traded
  <2> DEFINE new == [st |-> "running", owner |-> s, shared |-> req[r].shared]
             loops == [task EXCEPT ![t] = new]
  <2>1. task[t] = NoLoop /\ task' = Collected(loops) /\ db' = RowSetTo(s, "running")
    BY <1>3 DEF RegisterLoop
  <2>2. loops[t] = new /\ \A x \in Tasks \ {t} : loops[x] = task[x]
    BY <1>1 DEF TypeOK
  <2>3. task'[t].st = "running" /\ task'[t].owner = s
    <3>1. new.st = "running" /\ new.owner = s
      OBVIOUS
    <3> HIDE DEF new, loops
    <3> QED BY <2>1, <2>2, <3>1, CollectedCases
  <2>4. \A x \in Tasks \ {t} :
           task'[x] = task[x] \/ (task[x].st # "running" /\ task'[x].st # "running")
    <3> HIDE DEF new, loops
    <3> QED BY <2>1, <2>2, CollectedCases DEF NoLoop
  <2>5. \A x \in Strategies : db'[x] = "deleted" <=> db[x] = "deleted"
    BY <1>1, <2>1, RowSetToType DEF Status
  <2>6. ASSUME NEW x \in Tasks \ {t}
        PROVE  (task'[x].st = "running" /\ db'[task'[x].owner] # "deleted")
               <=> (task[x].st = "running" /\ db[task[x].owner] # "deleted")
    <3>1. task[x].st = "running" => task[x].owner \in Strategies
      BY DEF IInv, LoopsOwned
    <3> QED BY <2>4, <2>5, <3>1
  <2>7. task[t].st # "running"
    BY <2>1 DEF NoLoop
  <2>8. CASE db[s] = "deleted"
    <3>1. db'[s] = "deleted"
      BY <1>1, <2>5, <2>8
    <3>2. ASSUME NEW x \in Tasks
          PROVE  /\ (task'[x].st = "running" /\ db'[task'[x].owner] # "deleted")
                    <=> (task[x].st = "running" /\ db[task[x].owner] # "deleted")
                 /\ task[x].st = "running" => task'[x].owner = task[x].owner
      BY <2>3, <2>4, <2>6, <2>7, <3>1
    <3>3. Traded' = Traded
      BY <3>2 DEF Traded, Trading, Exists
    <3> QED BY <3>3
  <2>9. CASE db[s] # "deleted"
    <3>1. db'[s] # "deleted"
      BY <1>1, <2>5, <2>9
    <3>2. Traded' = Traded \cup {<<s, t>>}
      <4>1. ASSUME NEW pair \in Traded' PROVE pair \in Traded \cup {<<s, t>>}
        <5>1. PICK x \in Tasks : /\ pair = <<task'[x].owner, x>>
                                 /\ task'[x].st = "running" /\ db'[task'[x].owner] # "deleted"
          BY DEF Traded, Trading, Exists
        <5>2. CASE x = t
          BY <5>1, <5>2, <2>3
        <5>3. CASE x # t
          BY <5>1, <5>3, <2>4, <2>6 DEF Traded, Trading, Exists
        <5> QED BY <5>2, <5>3
      <4>2. ASSUME NEW x \in Tasks, Trading(x), Exists(task[x].owner)
            PROVE  <<task[x].owner, x>> \in Traded'
        BY <4>2, <2>4, <2>6, <2>7 DEF Traded, Trading, Exists
      <4>3. <<s, t>> \in Traded'
        BY <2>3, <3>1 DEF Traded, Trading, Exists
      <4>4. Traded \subseteq Traded'
        BY <4>2 DEF Traded
      <4> QED BY <4>1, <4>3, <4>4
    <3>3. \A pair \in Traded : pair[1] # s /\ pair[2] # t
      <4> SUFFICES ASSUME NEW pair \in Traded PROVE pair[1] # s /\ pair[2] # t
        OBVIOUS
      <4>1. pair[2] \in Tasks /\ tasks[pair[1]] = pair[2] /\ task[pair[2]].st = "running"
        BY TradedWithinRegistry
      <4>2. pair[1] # s
        BY <1>3, <4>1, NoneIsNoTask DEF Finished
      <4> QED BY <2>7, <4>1, <4>2
    <3>4. Cardinality(Traded) < MaxConcurrent
      BY <1>3, TradedWithinRegistry, RegisteredFinite, ParametersAssumption
    <3>5. Abstract!Cardinality(Traded) = Cardinality(Traded)
      BY DEF Abstract!Cardinality, Cardinality
    <3>6. Abstract!Begin(s, t)
      BY <3>2, <3>3, <3>4, <3>5 DEF Abstract!Begin, Traded
    <3> QED BY <1>1, <3>6 DEF Abstract!Next
  <2> QED BY <2>8, <2>9
<1> QED BY <1>2, <1>3 DEF StartRegister

(* Whatever requests, loops and server do: no strategy ever has two loops  *)
(* that trade, they never exceed max_concurrent, and none resumes.         *)
THEOREM TradersImplemented == Spec => ImplementsTraders
<1>1. Init => Abstract!Init
    BY DEF Init, NoLoop, Trading, Abstract!Init
<1>2. IInv /\ IInv' /\ [Next]_vars => Abstract!Next \/ Traded' = Traded
  <2> SUFFICES ASSUME IInv, IInv', [Next]_vars
               PROVE  Abstract!Next \/ Traded' = Traded
    OBVIOUS
  <2>1. CASE \E r \in Requests : StartRegister(r)
    BY <2>1, RegistrationBegins
  <2>2. CASE ~\E r \in Requests : StartRegister(r)
    BY <2>2, RequestCalms, ResumeCalms, LoopCalms, ServerCalms, CalmsEnds DEF Next, Resume
  <2> QED BY <2>1, <2>2
<1>3. IInv /\ IInv' /\ [Next]_vars => [Abstract!Next]_Traded
    BY <1>2
<1> QED BY <1>1, <1>3, Invariance, PTL DEF Spec, ImplementsTraders, Abstract!Spec, Traded

-----------------------------------------------------------------------------
(* Requests that come one at a time.  _check_symbol_conflict reads the     *)
(* rows, once, before the subscription: what it promises of the loops      *)
(* holds if every loop has its row, and if no row changes to running       *)
(* between the check and the registration.                                 *)

OneAtATime == \A p, q \in Requests : p = q

(* No row conflicts with a start that has passed the check.                *)
AdmittedAlone ==
    \A r \in Requests : req[r].pc = "subscribing" => ~SymbolConflict(req[r].s)

(* A strategy about to be written off has lost its loop before.            *)
StoppedUnregistered ==
    \A r \in Requests : req[r].pc = "persisting" => tasks[req[r].s] = None

SerialInv == LiveHasRunningRow /\ SymbolExclusive /\ AdmittedAlone /\ StoppedUnregistered

(* A step that starts no loop may write another status than running only   *)
(* to the row of a strategy that is no longer registered.                  *)
LEMMA RowsOfLoopsKept ==
    ASSUME IInv, IInv', Calms, LiveHasRunningRow, SymbolExclusive,
           \A s \in Strategies :
              db'[s] = db[s] \/ db'[s] = "running" \/ db'[s] = "deleted" \/ tasks'[s] = None
    PROVE  LiveHasRunningRow' /\ SymbolExclusive'
<1>1. ASSUME NEW t \in Tasks, task'[t].st = "running", db'[task'[t].owner] # "deleted"
      PROVE  /\ task[t].st = "running" /\ task'[t].owner = task[t].owner
             /\ task[t].owner \in Strategies /\ db[task[t].owner] # "deleted"
             /\ tasks'[task[t].owner] = t
  <2>1. task[t].st = "running" /\ task'[t].owner = task[t].owner
    BY <1>1 DEF Calms, Quiet
  <2>2. task[t].owner \in Strategies
    BY <2>1 DEF IInv, LoopsOwned
  <2>3. db[task[t].owner] # "deleted"
    BY <1>1, <2>1, <2>2 DEF Calms, RowsStayGone
  <2>4. tasks'[task'[t].owner] = t
    BY <1>1 DEF IInv, LoopsRegistered, Uncancelled, Exists
  <2> QED BY <2>1, <2>2, <2>3, <2>4
<1>2. LiveHasRunningRow'
  <2> SUFFICES ASSUME NEW t \in Tasks, task'[t].st = "running", db'[task'[t].owner] # "deleted"
               PROVE  db'[task'[t].owner] = "running"
    BY DEF LiveHasRunningRow, Trading, Exists
  <2>1. db[task[t].owner] = "running"
    BY <1>1 DEF LiveHasRunningRow, Trading, Exists
  <2>2. tasks'[task[t].owner] # None
    BY <1>1, NoneIsNoTask
  <2> QED BY <1>1, <2>1, <2>2
<1>3. SymbolExclusive'
  <2> SUFFICES ASSUME NEW t \in Tasks, NEW u \in Tasks,
                      task'[t].st = "running", db'[task'[t].owner] # "deleted",
                      task'[u].st = "running", db'[task'[u].owner] # "deleted",
                      Symbol[task'[t].owner] = Symbol[task'[u].owner]
               PROVE  t = u
    BY DEF SymbolExclusive, Trading, Exists
  <2> QED BY <1>1 DEF SymbolExclusive, Trading, Exists
<1> QED BY <1>2, <1>3

(* The other two parts, for a step that no request takes.                  *)
LEMMA RequestsUndisturbed ==
    ASSUME IInv, Shrinks, AdmittedAlone, StoppedUnregistered,
           \A r \in Requests : req'[r] = req[r] \/ req'[r] = Idle,
           \A s \in Strategies : db'[s] = "running" => db[s] = "running"
    PROVE  AdmittedAlone' /\ StoppedUnregistered'
<1>1. AdmittedAlone'
    BY DEF AdmittedAlone, SymbolConflict, Idle
<1>2. ASSUME NEW r \in Requests, req'[r].pc = "persisting"
      PROVE  tasks'[req'[r].s] = None
  <2>1. req'[r] = req[r]
    BY <1>2 DEF Idle
  <2>2. req[r].s \in Strategies /\ tasks[req[r].s] = None
    BY <1>2, <2>1 DEF IInv, RequestsTargeted, Targeted, StoppedUnregistered
  <2> QED BY <2>1, <2>2 DEF Shrinks
<1> QED BY <1>1, <1>2 DEF StoppedUnregistered

(* ... and for a step of the only request.                                 *)
LEMMA RequestAlone ==
    ASSUME OneAtATime, IInv, NEW r \in Requests, NEW q, req' = [req EXCEPT ![r] = q],
           q.pc = "subscribing" => ~\E x \in Strategies \ {q.s} :
                                       Symbol[x] = Symbol[q.s] /\ db'[x] = "running",
           q.pc = "persisting" => tasks'[q.s] = None
    PROVE  AdmittedAlone' /\ StoppedUnregistered'
<1>1. \A p \in Requests : req'[p] = q
    BY DEF OneAtATime, IInv, TypeOK
<1> QED BY <1>1 DEF AdmittedAlone, StoppedUnregistered, SymbolConflict

LEMMA BeginStartSerial ==
    ASSUME OneAtATime, IInv, IInv', Calms, Shrinks, SerialInv,
           NEW r \in Requests, NEW s \in Strategies, BeginStart(r, s)
    PROVE  SerialInv'
<1> DEFINE q == [Idle EXCEPT !.op = "start", !.pc = "subscribing", !.s = s,
                             !.shared = Shared(s, Fresh(s))]
<1>1. \A x \in Strategies : db'[x] = db[x] \/ (db'[x] = "error" /\ tasks'[x] = None)
    BY DEF BeginStart, RowsOfDeadInError, DeadSeenRunning, TasksWithoutDead, IInv, TypeOK
<1>2. LiveHasRunningRow' /\ SymbolExclusive'
    BY <1>1, RowsOfLoopsKept DEF SerialInv
<1>3. CASE req' = req
  <2>1. \A x \in Strategies : db'[x] = "running" => db[x] = "running"
    BY <1>1
  <2>2. AdmittedAlone' /\ StoppedUnregistered'
    BY <1>3, <2>1, RequestsUndisturbed DEF SerialInv
  <2> QED BY <1>2, <2>2 DEF SerialInv
<1>4. CASE req' = [req EXCEPT ![r] = q] /\ ~SymbolConflict(s)
  <2>1. q.pc = "subscribing" /\ q.s = s
    BY DEF Idle
  <2>2. ~\E x \in Strategies \ {s} : Symbol[x] = Symbol[s] /\ db'[x] = "running"
    BY <1>1, <1>4 DEF SymbolConflict
  <2>3. AdmittedAlone' /\ StoppedUnregistered'
    <3> HIDE DEF q
    <3> QED BY <1>4, <2>1, <2>2, RequestAlone
  <2> QED BY <1>2, <2>3 DEF SerialInv
<1>5. req' = req \/ (req' = [req EXCEPT ![r] = q] /\ ~SymbolConflict(s))
    BY DEF BeginStart
<1> QED BY <1>3, <1>4, <1>5

(* A stop, a delete or a pause begins by looking for what to close.        *)
LEMMA BeginClosingSerial ==
    ASSUME OneAtATime, IInv, IInv', Calms, Shrinks, SerialInv,
           NEW r \in Requests, NEW s \in Strategies,
           BeginStop(r, s) \/ BeginDelete(r, s) \/ BeginPause(r, s)
    PROVE  SerialInv'
<1>1. \A x \in Strategies : db'[x] = db[x] \/ db'[x] = "deleted"
    BY DEF BeginStop, BeginDelete, BeginPause, RemoveStrategy, IInv, TypeOK
<1>2. LiveHasRunningRow' /\ SymbolExclusive'
    BY <1>1, RowsOfLoopsKept DEF SerialInv
<1>3. \/ req' = req
      \/ \E op, b, rest : req' = [req EXCEPT ![r] = Closing(op, s, b, rest)]
    BY DEF BeginStop, BeginDelete, BeginPause
<1>4. CASE req' = req
    BY <1>1, <1>2, <1>4, RequestsUndisturbed DEF SerialInv
<1>5. ASSUME NEW op, NEW b, NEW rest, req' = [req EXCEPT ![r] = Closing(op, s, b, rest)]
      PROVE  SerialInv'
  <2>1. Closing(op, s, b, rest).pc = "closing"
    BY DEF Closing, Idle
  <2>2. AdmittedAlone' /\ StoppedUnregistered'
    BY <1>5, <2>1, RequestAlone
  <2> QED BY <1>2, <2>2 DEF SerialInv
<1> QED BY <1>3, <1>4, <1>5

LEMMA StartSettleSerial ==
    ASSUME OneAtATime, IInv, IInv', Calms, SerialInv, NEW r \in Requests, StartSettle(r)
    PROVE  SerialInv'
<1>1. \A x \in Strategies : db'[x] = db[x] \/ db'[x] = "running"
    BY DEF StartSettle, RowSetTo, IInv, TypeOK
<1>2. LiveHasRunningRow' /\ SymbolExclusive'
    BY <1>1, RowsOfLoopsKept DEF SerialInv
<1>3. req' = [req EXCEPT ![r] = Idle] /\ Idle.pc = "idle"
    BY DEF StartSettle, Idle
<1>4. AdmittedAlone' /\ StoppedUnregistered'
    BY <1>3, RequestAlone
<1> QED BY <1>2, <1>4 DEF SerialInv

LEMMA StopCancelSerial ==
    ASSUME OneAtATime, IInv, IInv', Calms, SerialInv, NEW r \in Requests, StopCancel(r)
    PROVE  SerialInv'
<1> DEFINE q == [req[r] EXCEPT !.pc = "persisting"]
<1>1. db' = db
    BY DEF StopCancel
<1>2. LiveHasRunningRow' /\ SymbolExclusive'
    BY <1>1, RowsOfLoopsKept DEF SerialInv
<1>3. req[r] \in ReqType /\ req[r].s \in Strategies
    BY DEF IInv, TypeOK, RequestsTargeted, Targeted, StopCancel
<1>4. req' = [req EXCEPT ![r] = q]
    BY DEF StopCancel
<1>5. q.pc = "persisting" /\ q.s = req[r].s
    BY <1>3 DEF ReqType
<1>6. tasks'[req[r].s] = None
    BY <1>3 DEF StopCancel, IInv, TypeOK
<1>7. AdmittedAlone' /\ StoppedUnregistered'
  <2> HIDE DEF q
  <2> QED BY <1>4, <1>5, <1>6, RequestAlone
<1> QED BY <1>2, <1>7 DEF SerialInv

(* The row that is written is of a strategy without a loop.                *)
LEMMA StopPersistSerial ==
    ASSUME OneAtATime, IInv, IInv', Calms, Shrinks, SerialInv,
           NEW r \in Requests, StopPersist(r)
    PROVE  SerialInv'
<1> DEFINE s == req[r].s
<1>1. s \in Strategies /\ tasks[s] = None
    BY DEF SerialInv, StoppedUnregistered, StopPersist, IInv, RequestsTargeted, Targeted
<1>2. \A x \in Strategies \ {s} : db'[x] = db[x]
    BY DEF StopPersist, RowSetTo, RemoveStrategy, IInv, TypeOK
<1>3. LiveHasRunningRow' /\ SymbolExclusive'
    BY <1>1, <1>2, RowsOfLoopsKept DEF SerialInv, Shrinks
<1>4. PICK q : req' = [req EXCEPT ![r] = q] /\ q.pc \in {"idle", "closing"}
  <2>1. Idle.pc = "idle"
    BY DEF Idle
  <2>2. \A q \in NextToPause(r) : q.pc \in {"idle", "closing"}
    BY <2>1 DEF NextToPause, Closing, Idle
  <2>3. \/ req' = [req EXCEPT ![r] = Idle]
        \/ \E q \in NextToPause(r) : req' = [req EXCEPT ![r] = q]
    BY DEF StopPersist
  <2> QED BY <2>1, <2>2, <2>3
<1>5. AdmittedAlone' /\ StoppedUnregistered'
    BY <1>4, RequestAlone
<1> QED BY <1>3, <1>5 DEF SerialInv

LEMMA LoopSerial ==
    ASSUME IInv, IInv', Calms, Shrinks, SerialInv, NEW t \in Tasks, Loop(t)
    PROVE  SerialInv'
<1> DEFINE s == task[t].owner
<1>1. req' = req
    BY DEF Loop, LoopRefresh, LoopFail, LoopCancelled, SelfStopBegin, SelfStop
<1>2. s \in Strategies
    BY DEF IInv, LoopsOwned, Loop, LoopRefresh, LoopFail, LoopCancelled, SelfStopBegin, SelfStop
<1>3. db' = db \/ (db' = RowSetTo(s, "stopped") /\ tasks' = [tasks EXCEPT ![s] = None])
    BY DEF Loop, LoopRefresh, LoopFail, LoopCancelled, SelfStopBegin, SelfStop
<1>4. \A x \in Strategies :
         \/ db'[x] = db[x]
         \/ (db'[x] = "stopped" \/ db'[x] = "deleted") /\ tasks'[x] = None
    BY <1>2, <1>3 DEF RowSetTo, IInv, TypeOK
<1>5. LiveHasRunningRow' /\ SymbolExclusive'
    BY <1>4, RowsOfLoopsKept DEF SerialInv
<1>6. AdmittedAlone' /\ StoppedUnregistered'
    BY <1>1, <1>4, RequestsUndisturbed DEF SerialInv
<1> QED BY <1>5, <1>6 DEF SerialInv

LEMMA ServerSerial ==
    ASSUME IInv, IInv', Calms, Shrinks, SerialInv,
           OtherRequest \/ PeriodicCleanup \/ Restart \/ UNCHANGED vars
    PROVE  SerialInv'
<1>1. db' = db /\ \A r \in Requests : req'[r] = req[r] \/ req'[r] = Idle
    BY DEF OtherRequest, PeriodicCleanup, Restart, vars
<1>2. LiveHasRunningRow' /\ SymbolExclusive'
    BY <1>1, RowsOfLoopsKept DEF SerialInv
<1>3. AdmittedAlone' /\ StoppedUnregistered'
    BY <1>1, RequestsUndisturbed DEF SerialInv
<1> QED BY <1>2, <1>3 DEF SerialInv

(* The loop that is registered has its row, and its symbol for itself: a   *)
(* loop of another strategy would have shown in a row, and one of the same *)
(* strategy in the registry.                                               *)
LEMMA StartRegisterSerial ==
    ASSUME OneAtATime, IInv, IInv', SerialInv, NEW r \in Requests, StartRegister(r)
    PROVE  SerialInv'
<1> DEFINE s == req[r].s
<1>1. TypeOK /\ s \in Strategies /\ ~SymbolConflict(s)
    BY DEF IInv, RequestsTargeted, Targeted, StartRegister, SerialInv, AdmittedAlone
<1>2. CASE RefuseStart(r)
  <2>1. db' = db /\ task' = task /\ tasks' = tasks /\ req' = [req EXCEPT ![r] = Idle]
    BY <1>2 DEF RefuseStart
  <2>2. \A p \in Requests : req'[p] = req[p] \/ req'[p] = Idle
    BY <1>1, <2>1 DEF TypeOK
  <2>3. Shrinks
    BY <2>1 DEF Shrinks
  <2>4. LiveHasRunningRow' /\ SymbolExclusive'
    BY <2>1 DEF SerialInv, LiveHasRunningRow, SymbolExclusive, Trading, Exists
  <2>5. AdmittedAlone' /\ StoppedUnregistered'
    BY <2>1, <2>2, <2>3, RequestsUndisturbed DEF SerialInv
  <2> QED BY <2>4, <2>5 DEF SerialInv
<1>3. ASSUME NEW t \in Tasks, RegisterLoop(r, t),
             tasks[s] = None \/ Finished(tasks[s])
      PROVE  SerialInv'
  <2> DEFINE new == [st |-> "running", owner |-> s, shared |-> req[r].shared]
             loops == [task EXCEPT ![t] = new]
             q == [[req[r] EXCEPT !.pc = "settling"] EXCEPT !.t = t]
  <2>1. task' = Collected(loops) /\ db' = RowSetTo(s, "running") /\ tasks' = [tasks EXCEPT ![s] = t]
    BY <1>3 DEF RegisterLoop
  <2>2. loops[t] = new /\ \A x \in Tasks \ {t} : loops[x] = task[x]
    BY <1>1 DEF TypeOK
  <2>3. task'[t].st = "running" /\ task'[t].owner = s
    <3>1. new.st = "running" /\ new.owner = s
      OBVIOUS
    <3> HIDE DEF new, loops
    <3> QED BY <2>1, <2>2, <3>1, CollectedCases
  <2>4. \A x \in Tasks \ {t} :
           task'[x] = task[x] \/ (task[x].st # "running" /\ task'[x].st # "running")
    <3> HIDE DEF new, loops
    <3> QED BY <2>1, <2>2, CollectedCases DEF NoLoop
  <2>5. /\ \A x \in Strategies \ {s} : db'[x] = db[x]
        /\ db'[s] = "running" \/ db'[s] = "deleted"
        /\ db'[s] = "deleted" <=> db[s] = "deleted"
    BY <1>1, <2>1 DEF RowSetTo, TypeOK
  <2>6. ASSUME NEW x \in Tasks \ {t}, task'[x].st = "running", db'[task'[x].owner] # "deleted"
        PROVE  /\ task[x].st = "running" /\ task'[x] = task[x]
               /\ task[x].owner \in Strategies /\ db[task[x].owner] = "running"
               /\ task[x].owner # s
    <3>1. task'[x] = task[x] /\ task[x].st = "running"
      BY <2>4, <2>6
    <3>2. task[x].owner \in Strategies
      BY <3>1 DEF IInv, LoopsOwned
    <3>3. db[task[x].owner] # "deleted"
      BY <2>5, <2>6, <3>1, <3>2
    <3>4. db[task[x].owner] = "running" /\ tasks[task[x].owner] = x
      BY <3>1, <3>3 DEF SerialInv, LiveHasRunningRow, IInv, LoopsRegistered, Uncancelled,
                        Trading, Exists
    <3>5. task[x].owner # s
      BY <1>3, <3>1, <3>4, NoneIsNoTask DEF Finished
    <3> QED BY <3>1, <3>2, <3>4, <3>5
  <2>7. LiveHasRunningRow'
    <3> SUFFICES ASSUME NEW x \in Tasks, task'[x].st = "running", db'[task'[x].owner] # "deleted"
                 PROVE  db'[task'[x].owner] = "running"
      BY DEF LiveHasRunningRow, Trading, Exists
    <3>1. CASE x = t
      BY <2>3, <2>5, <3>1
    <3>2. CASE x # t
      BY <2>5, <2>6, <3>2
    <3> QED BY <3>1, <3>2
  <2>8. ASSUME NEW x \in Tasks \ {t}, task'[x].st = "running", db'[task'[x].owner] # "deleted"
        PROVE  Symbol[task'[x].owner] # Symbol[s]
    BY <1>1, <2>6, <2>8 DEF SymbolConflict
  <2>9. SymbolExclusive'
    <3> SUFFICES ASSUME NEW x \in Tasks, NEW y \in Tasks,
                        task'[x].st = "running", db'[task'[x].owner] # "deleted",
                        task'[y].st = "running", db'[task'[y].owner] # "deleted",
                        Symbol[task'[x].owner] = Symbol[task'[y].owner]
                 PROVE  x = y
      BY DEF SymbolExclusive, Trading, Exists
    <3>1. CASE x = t \/ y = t
      BY <2>3, <2>8, <3>1
    <3>2. CASE x # t /\ y # t
      <4>1. task'[x] = task[x] /\ task[x].st = "running" /\ db[task[x].owner] # "deleted"
        BY <2>6, <3>2
      <4>2. task'[y] = task[y] /\ task[y].st = "running" /\ db[task[y].owner] # "deleted"
        BY <2>6, <3>2
      <4> QED BY <4>1, <4>2 DEF SerialInv, SymbolExclusive, Trading, Exists
    <3> QED BY <3>1, <3>2
  <2>10. AdmittedAlone' /\ StoppedUnregistered'
    <3>1. req[r] \in ReqType
      BY <1>1 DEF TypeOK
    <3>2. q.pc = "settling"
      BY <3>1 DEF ReqType
    <3>3. req' = [req EXCEPT ![r] = q]
      BY <1>1, <1>3 DEF RegisterLoop, TypeOK
    <3> HIDE DEF q
    <3> QED BY <3>2, <3>3, RequestAlone
  <2> QED BY <2>7, <2>9, <2>10 DEF SerialInv
<1> QED BY <1>2, <1>3 DEF StartRegister

LEMMA InitSerial == Init => SerialInv
<1> SUFFICES ASSUME Init PROVE SerialInv
    OBVIOUS
<1>1. \A t \in Tasks : task[t].st = "free"
    BY DEF Init, NoLoop
<1>2. \A r \in Requests : req[r].pc = "idle"
    BY DEF Init, Idle
<1> QED BY <1>1, <1>2 DEF SerialInv, LiveHasRunningRow, SymbolExclusive, AdmittedAlone,
                          StoppedUnregistered, Trading

LEMMA NextSerial ==
    ASSUME OneAtATime, IInv, IInv', SerialInv, [Next]_vars
    PROVE  SerialInv'
<1>1. ASSUME NEW r \in Requests, StartRegister(r) PROVE SerialInv'
    BY <1>1, StartRegisterSerial
<1>2. CASE ~\E r \in Requests : StartRegister(r)
  <2>1. Shrinks
    BY <1>2, NextIInv
  <2>2. ASSUME NEW r \in Requests, Request(r) PROVE SerialInv'
    BY <2>1, <2>2, RequestCalms, BeginStartSerial, BeginClosingSerial DEF Request
  <2>3. ASSUME NEW r \in Requests, Resume(r) PROVE SerialInv'
    BY <1>2, <2>1, <2>3, ResumeCalms, StartSettleSerial, StopCancelSerial, StopPersistSerial
       DEF Resume
  <2>4. ASSUME NEW t \in Tasks, Loop(t) PROVE SerialInv'
    BY <2>1, <2>4, LoopCalms, LoopSerial
  <2>5. CASE OtherRequest \/ PeriodicCleanup \/ Restart \/ UNCHANGED vars
    BY <2>1, <2>5, ServerCalms, ServerSerial
  <2> QED BY <2>2, <2>3, <2>4, <2>5 DEF Next
<1> QED BY <1>1, <1>2

LEMMA Serial == OneAtATime => (Spec => []SerialInv)
<1> SUFFICES ASSUME OneAtATime PROVE Spec => []SerialInv
    OBVIOUS
<1> QED BY InitSerial, NextSerial, Invariance, PTL DEF Spec

(* As long as requests come one at a time: a loop that trades has a row    *)
(* that says running, whatever stops, deletes, pauses, failures, cleanups  *)
(* and restarts come between, so that the conflict check sees it.          *)
THEOREM RowsTellLoops == OneAtATime => (Spec => []LiveHasRunningRow)
<1> SUFFICES ASSUME OneAtATime PROVE Spec => []LiveHasRunningRow
    OBVIOUS
<1>1. SerialInv => LiveHasRunningRow
    BY DEF SerialInv
<1>2. Spec => []SerialInv
    BY Serial
<1> QED BY <1>1, <1>2, PTL

(* ... and no two loops of an account trade the same symbol.  Two requests *)
(* at a time break it: the check and the registration of one are apart.    *)
THEOREM SymbolTradedOnce == OneAtATime => (Spec => []SymbolExclusive)
<1> SUFFICES ASSUME OneAtATime PROVE Spec => []SymbolExclusive
    OBVIOUS
<1>1. SerialInv => SymbolExclusive
    BY DEF SerialInv
<1>2. Spec => []SerialInv
    BY Serial
<1> QED BY <1>1, <1>2, PTL
=============================================================================
