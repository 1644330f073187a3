------------------------------- MODULE Analyses -------------------------------
(***************************************************************************)
(* Walk-forward and sensitivity analyses: their routes in                  *)
(* app/api/routes/backtesting.py, the task manager they share              *)
(* (walk_forward_task_manager.py), run_walk_forward_analysis and its grid  *)
(* search (walk_forward.py) and run_sensitivity_analysis.                  *)
(*                                                                         *)
(* An analysis is suspended while a backtest of it runs, and only then: a  *)
(* step takes it from one backtest to the next, with the looks at the      *)
(* cancellation flag in between.  Time is counted in days, and a candle is *)
(* the day it opens on; a score is a number, 0 for a combination that      *)
(* fails the guardrails or raises.                                         *)
(***************************************************************************)
EXTENDS Integers, Sequences, FiniteSets

CONSTANTS
  Tasks,
  Owner,      \* the user that may start a task
  MaxAll,     \* max_concurrent_walk_forward_analyses
  MaxOwn,     \* max_walk_forward_analyses_per_user
  End,        \* end_time, with start_time 0
  Configs,    \* what may be asked for
  Combos,     \* the number of combinations of optimize_params
  Scores,     \* what a combination may score
  Stored      \* MAX_STORED_RESULTS

ConfigSet ==
  [type : {"rolling", "expanding"}, training : 1..End, test : 1..End, step : 1..End,
   optimize : BOOLEAN]

ConstantsOK ==
  /\ DOMAIN Owner = Tasks
  /\ Configs \subseteq ConfigSet
  /\ {MaxAll, MaxOwn, End, Combos, Stored} \subseteq Nat \ {0}
  /\ Scores \subseteq Nat /\ 0 \in Scores

VARIABLES
  status,   \* _tasks
  flag,     \* _cancellation_flags
  kind,     \* walk or sensitivity
  config,
  phase,    \* the backtest that runs
  number,   \* its window, or its test
  combo,    \* its combination
  best,     \* best_score, and its combination
  top       \* top_results

vars == <<status, flag, kind, config, phase, number, combo, best, top>>

Phases == {"out", "queued", "optimizing", "training", "testing", "ended"}
Results == [score : Scores, combo : 0..Combos]
Unscored == [score |-> 0, combo |-> 0]

TypeOK ==
  /\ status \in [Tasks -> {"none", "running", "completed", "cancelled", "error"}]
  /\ flag \in [Tasks -> BOOLEAN]
  /\ kind \in [Tasks -> {"walk", "sensitivity"}]
  /\ config \in [Tasks -> Configs]
  /\ phase \in [Tasks -> Phases]
  /\ number \in [Tasks -> Nat]
  /\ combo \in [Tasks -> 0..Combos]
  /\ best \in [Tasks -> Results]
  /\ top \in [Tasks -> SUBSET Results]

Init ==
  /\ status = [t \in Tasks |-> "none"]
  /\ flag = [t \in Tasks |-> FALSE]
  /\ kind = [t \in Tasks |-> "walk"]
  /\ config \in {[t \in Tasks |-> c] : c \in Configs}
  /\ phase = [t \in Tasks |-> "out"]
  /\ number = [t \in Tasks |-> 0]
  /\ combo = [t \in Tasks |-> 0]
  /\ best = [t \in Tasks |-> Unscored]
  /\ top = [t \in Tasks |-> {}]

-----------------------------------------------------------------------------
(* Windows and slices.                                                     *)

\* generate_walk_forward_windows: as many windows as have a complete test.
WindowCount(c) ==
  Cardinality({n \in 1..End : c.training + (n - 1) * c.step + c.test <= End})

Anchor(c, n) == c.training + (n - 1) * c.step

\* _slice_klines_by_time_range: opened in the period and closed in it.
Slice(from, to) == {d \in 0..End - 1 : from <= d /\ d + 1 <= to}

Training(c, n) ==
  Slice(IF c.type = "rolling" THEN Anchor(c, n) - c.training ELSE 0, Anchor(c, n))
Test(c, n) == Slice(Anchor(c, n), Anchor(c, n) + c.test)

-----------------------------------------------------------------------------
(* The grid search.                                                        *)

\* The heap's order: by score, then by combination.
Worst(S) ==
  CHOOSE r \in S : \A q \in S \ {r} :
    r.score < q.score \/ (r.score = q.score /\ r.combo < q.combo)

\* top_results: the best few; failed ones only while there is room.
Kept(S, r) ==
  IF Cardinality(S) < Stored THEN S \cup {r}
  ELSE IF r.score > Worst(S).score THEN (S \ {Worst(S)}) \cup {r}
  ELSE S

\* A combination has been tested, or is skipped because it is invalid.
Score(t) ==
  \/ \E s \in Scores :
       LET r == [score |-> s, combo |-> combo[t]]
       IN  /\ best' = [best EXCEPT ![t] = IF s > @.score THEN r ELSE @]
           /\ top' = [top EXCEPT ![t] = Kept(@, r)]
  \/ UNCHANGED <<best, top>>

-----------------------------------------------------------------------------
(* From one backtest to the next.                                          *)

Working(t) == phase[t] \notin {"out", "ended"}
Running(T) == {t \in T : status[t] = "running"}

Own(t) == Running({x \in Tasks : Owner[x] = Owner[t]})

\* create_task, and the analysis is on its way.
Begin(t, k) ==
  /\ phase[t] = "out"
  /\ status' = [status EXCEPT ![t] = "running"]
  /\ kind' = [kind EXCEPT ![t] = k]
  /\ phase' = [phase EXCEPT ![t] = "queued"]
  /\ UNCHANGED <<flag, config, number, combo, best, top>>

StartWalk(t) ==
  /\ Cardinality(Running(Tasks)) < MaxAll
  /\ Cardinality(Own(t)) < MaxOwn
  /\ Begin(t, "walk")

\* Only the user's own tasks are looked at, against the limit of all.
StartSensitivity(t) == Cardinality(Own(t)) < MaxAll /\ Begin(t, "sensitivity")

At(t, p, n, m) ==
  /\ phase' = [phase EXCEPT ![t] = p]
  /\ number' = [number EXCEPT ![t] = n]
  /\ combo' = [combo EXCEPT ![t] = m]

Finish(t, s) ==
  /\ status' = [status EXCEPT ![t] = s]
  /\ phase' = [phase EXCEPT ![t] = "ended"]
  /\ UNCHANGED <<flag, kind, config, number, combo>>

Ends(t, s) == Finish(t, s) /\ UNCHANGED <<best, top>>

\* A walk-forward analysis sees its flag before each window, combination and
\* training, and before the test; 499, and run_analysis cancels once more.  A
\* cancelled grid search raises, which counts as a failed optimisation, and the
\* flag is looked at again before the training.
Cancelled(t) ==
  /\ kind[t] = "walk" /\ Working(t)
  /\ flag[t]
  /\ phase[t] \in {"queued", "testing"} => number[t] < WindowCount(config[t])
  /\ Ends(t, "cancelled")

Window(t, n) ==
  /\ ~flag[t]
  /\ n <= WindowCount(config[t])
  /\ IF config[t].optimize THEN At(t, "optimizing", n, 1) ELSE At(t, "training", n, 0)
  /\ best' = [best EXCEPT ![t] = Unscored]
  /\ top' = [top EXCEPT ![t] = {}]
  /\ UNCHANGED <<status, flag, kind, config>>

\* The candles are fetched, which suspends nothing.
Fetched(t) == kind[t] = "walk" /\ phase[t] = "queued" /\ Window(t, 1)

\* Variant: the flag is not looked at between two combinations.
TestedUnchecked(t) ==
  /\ kind[t] = "walk" /\ phase[t] = "optimizing" /\ combo[t] < Combos
  /\ Score(t)
  /\ At(t, "optimizing", number[t], combo[t] + 1)
  /\ UNCHANGED <<status, flag, kind, config>>

Tested(t) ==
  /\ kind[t] = "walk" /\ phase[t] = "optimizing" /\ combo[t] < Combos
  /\ ~flag[t]
  /\ Score(t)
  /\ At(t, "optimizing", number[t], combo[t] + 1)
  /\ UNCHANGED <<status, flag, kind, config>>

\* The last combination has been tested, and the best one is trained with.
Optimized(t) ==
  /\ kind[t] = "walk" /\ phase[t] = "optimizing" /\ combo[t] = Combos
  /\ ~flag[t]
  /\ Score(t)
  /\ At(t, "training", number[t], 0)
  /\ UNCHANGED <<status, flag, kind, config>>

Trained(t) ==
  /\ kind[t] = "walk" /\ phase[t] = "training"
  /\ ~flag[t]
  /\ At(t, "testing", number[t], 0)
  /\ UNCHANGED <<status, flag, kind, config, best, top>>

Validated(t) == kind[t] = "walk" /\ phase[t] = "testing" /\ Window(t, number[t] + 1)

\* After the last window nobody looks at the flag.
Aggregated(t) ==
  /\ kind[t] = "walk" /\ phase[t] = "testing"
  /\ number[t] = WindowCount(config[t])
  /\ Ends(t, "completed")

\* Candles or windows are missing, or a backtest of the training or the test
\* raises.
Fails(t) ==
  /\ kind[t] = "walk" /\ phase[t] \in {"queued", "training", "testing"}
  /\ Ends(t, "error")

\* A sensitivity analysis goes through its tests, the base one first, and never
\* looks at the flag.  A test that raises is passed over, the base one is not.
Vary(t) ==
  /\ kind[t] = "sensitivity" /\ Working(t)
  /\ \/ /\ number[t] <= Combos
        /\ At(t, "testing", number[t] + 1, 0)
        /\ UNCHANGED <<status, flag, kind, config, best, top>>
     \/ number[t] <= 1 /\ Ends(t, "error")

\* All are tested: some are left over, or none is.
Ranked(t) ==
  /\ kind[t] = "sensitivity" /\ Working(t) /\ number[t] = Combos + 1
  /\ Ends(t, "completed") \/ Ends(t, "error")

\* cancel_task
Cancel(t) ==
  /\ flag' = [flag EXCEPT ![t] = TRUE]
  /\ status' = [status EXCEPT ![t] = "cancelled"]
  /\ UNCHANGED <<kind, config, phase, number, combo, best, top>>

\* The user cancels: a walk-forward task in whatever state.
CancelWalk(t) == kind[t] = "walk" /\ status[t] # "none" /\ Cancel(t)

CancelSensitivity(t) == kind[t] = "sensitivity" /\ status[t] = "running" /\ Cancel(t)

Next ==
  \E t \in Tasks :
    \/ StartWalk(t) \/ StartSensitivity(t)
    \/ Fetched(t) \/ Tested(t) \/ Optimized(t) \/ Trained(t) \/ Validated(t) \/ Aggregated(t)
    \/ Fails(t) \/ Cancelled(t)
    \/ Vary(t) \/ Ranked(t)
    \/ CancelWalk(t) \/ CancelSensitivity(t)

Spec == Init /\ [][Next]_vars

-----------------------------------------------------------------------------
(* Properties.                                                             *)

\* A walk-forward analysis that was cancelled begins no further backtest.
CancelStops ==
  [][\A t \in Tasks : kind[t] = "walk" /\ flag[t] /\ phase'[t] # "ended" =>
       phase'[t] = phase[t] /\ number'[t] = number[t] /\ combo'[t] = combo[t]]_vars

\* What a window is tested on comes after all that its parameters were chosen
\* by, and is complete; no candle is tested twice if the step allows it.
OutOfSample ==
  \A t \in Tasks : kind[t] = "walk" /\ phase[t] = "testing" =>
    LET c == config[t] IN
      /\ Cardinality(Test(c, number[t])) = c.test
      /\ \A d \in Training(c, number[t]), e \in Test(c, number[t]) : d < e
      /\ c.step >= c.test =>
           \A n \in 1..number[t] - 1 : Test(c, n) \cap Test(c, number[t]) = {}

\* The parameters that are trained and tested with are the best of the results
\* that are kept, if any combination passed.
BestIsKept ==
  \A t \in Tasks : phase[t] \in {"training", "testing"} /\ kind[t] = "walk" /\ config[t].optimize =>
    /\ \A r \in top[t] : r.score <= best[t].score
    /\ best[t].combo # 0 => best[t] \in top[t]
=============================================================================
