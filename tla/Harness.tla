------------------------------- MODULE Harness -------------------------------
(***************************************************************************)
(* harness_t of bench_box/harness/harness.h: the harness picks the         *)
(* variable to sweep over, has it generate the runs, calls every run's     *)
(* benchmark num_sub_runs times with a pause after each call, and prints a *)
(* table of the scores.  run() may be called again, with other options.    *)
(*                                                                         *)
(* External: what a variable's gen and a run's run_bench do.  They are     *)
(* given by the user of the harness and may return any runs, any score or  *)
(* nothing.  A score is an integer, in a unit of which Tiny make 1e-10 and *)
(* Huge make 1e20; the rounding of doubles is left out.                    *)
(***************************************************************************)
EXTENDS Integers, Sequences, FiniteSetsExt, Functions, Format

CONSTANTS
  HarnessVariables,  \* the variables in template order: [name, gen]
  VarNames, OptStrings, SubRuns, WaitTimes,  \* what the options may be
  Scores,            \* what a benchmark may return
  Null,              \* std::nullopt
  Modulus,           \* the values of a uint32_t
  Tiny,              \* 1e-10, which a mean or a ratio needs
  Huge,              \* 1e20
  MaxCalls           \* bound on the calls of run()

RunType == [name : STRING, est_runtime_s : Nat]

ASSUME HarnessAssumption ==
  /\ HarnessVariables \in
       Seq([name : VarNames, gen : [OptStrings -> Seq(RunType) \cup {Null}]])
  /\ SubRuns \subseteq Nat /\ WaitTimes \subseteq Nat
  /\ Scores \subseteq Int /\ Null \notin Scores /\ Null \notin Int \X Int
  /\ Null \notin Seq(RunType)
  /\ Modulus \in Nat \ {0} /\ MaxCalls \in Nat
  /\ Tiny \in Nat \ {0} /\ Huge \in Nat

VARIABLES
  wait_time_ms, num_sub_runs, var, opt_str,  \* members set from the options
  runs,                                      \* member: the runs of a sweep
  pc, calls,                                 \* where run() is; calls of it
  announced, total_runs,                     \* the estimate printed
  run, i, sub_run,                           \* cursors of the loops
  table,                                     \* the rows printed
  log, waited_ms                             \* history: scores, pauses

options  == <<wait_time_ms, num_sub_runs, var, opt_str>>
estimate == <<announced, total_runs>>
history  == <<log, waited_ms>>
vars == <<options, runs, pc, calls, estimate, run, i, sub_run, table, history>>

-----------------------------------------------------------------------------
Wrap(n) == n % Modulus

\* The variable run() takes: the first of that name.
Matching == {v \in DOMAIN HarnessVariables : HarnessVariables[v].name = var}
Chosen == HarnessVariables[CHOOSE v \in Matching : \A w \in Matching : v <= w]
Generated == Chosen.gen[opt_str]

\* The scores that are there, of a run's results.
Found(results) == {v \in DOMAIN results : results[v] # Null}
ScoreSet(results) == {results[v] : v \in Found(results)}

\* Fault: the least score starts from 0 as the greatest does.
LeastFromZero(results) == Min({0} \cup ScoreSet(results))
Least(results) == Min({Huge} \cup ScoreSet(results))

\* A table row: the scores, their mean as a fraction and the ratio of the
\* greatest to the least.  The mean is printed where the total is at least
\* Tiny, the ratio where the greatest is: one may be there without the other.
Row(r) ==
  LET max       == Max({0} \cup ScoreSet(r.results))
      min       == Least(r.results)
      total     == SumFunctionOnSet(r.results, Found(r.results))
      completed == Cardinality(Found(r.results))
  IN  [name   |-> r.name,
       scores |-> [v \in 1..num_sub_runs |-> r.results[v]],
       mean   |-> IF total >= Tiny THEN <<total, completed>> ELSE Null,
       ratio  |-> IF max >= Tiny THEN <<max, min>> ELSE Null]

\* sub_run_results.resize(n)
\* Fault: one element too many.
ResizedLong(results, n) ==
  [v \in 1..(n + 1) |-> IF v <= Len(results) THEN results[v] ELSE Null]
Resized(results, n) ==
  [v \in 1..n |-> IF v <= Len(results) THEN results[v] ELSE Null]

-----------------------------------------------------------------------------
OptionsSet ==
  /\ wait_time_ms \in WaitTimes /\ num_sub_runs \in SubRuns
  /\ var \in VarNames /\ opt_str \in OptStrings

Init ==
  /\ OptionsSet
  /\ runs = <<>> /\ pc = "idle" /\ calls = 0
  /\ announced = <<0>> /\ total_runs = 0
  /\ run = 1 /\ i = 1 /\ sub_run = 0
  /\ table = <<>> /\ log = <<>> /\ waited_ms = 0

\* The user calls run(), the options as they were or set anew (add_to_lyra).
Call ==
  /\ pc = "idle" /\ calls < MaxCalls
  /\ wait_time_ms' \in WaitTimes /\ num_sub_runs' \in SubRuns
  /\ var' \in VarNames /\ opt_str' \in OptStrings
  /\ calls' = calls + 1 /\ pc' = "select"
  /\ UNCHANGED <<runs, estimate, run, i, sub_run, table, history>>

UnknownVar ==
  /\ pc = "select" /\ Matching = {}
  /\ pc' = "idle"
  /\ UNCHANGED <<options, runs, calls, estimate, run, i, sub_run, table,
                 history>>

GenFails ==
  /\ pc = "select" /\ Matching # {} /\ Generated = Null
  /\ pc' = "idle"
  /\ UNCHANGED <<options, runs, calls, estimate, run, i, sub_run, table,
                 history>>

\* The seconds announced for the runs rs.
Estimated(rs) ==
  (Len(rs) * wait_time_ms) \div 1000
  + SumFunctionOnSet([v \in DOMAIN rs |->
                        Wrap(rs[v].est_runtime_s * num_sub_runs)], DOMAIN rs)

\* The number of sub runs announced.  Fault: the runs, not their sub runs.
TotalOfRuns(rs) == Wrap(Len(rs))
TotalRuns(rs) == Wrap(Len(rs) * num_sub_runs)

Generate ==
  /\ pc = "select" /\ Matching # {} /\ Generated # Null
  /\ runs' = [v \in DOMAIN Generated |->
                [name |-> Generated[v].name,
                 est_runtime_s |-> Generated[v].est_runtime_s,
                 results |-> <<>>]]
  /\ announced' = FormatHms(Estimated(Generated))
  /\ total_runs' = TotalRuns(Generated)
  /\ run' = 1 /\ sub_run' = 0 /\ table' = <<>>
  /\ log' = <<>> /\ waited_ms' = 0
  /\ pc' = "run"
  /\ UNCHANGED <<options, calls, i>>

-----------------------------------------------------------------------------
(* The runs and sub runs.                                                  *)

\* Fault: the last sub run is left out.
SubRunsLeftButOne == i < num_sub_runs
SubRunsLeft == i <= num_sub_runs

\* Fault: every score goes to the first sub run.
RecordedFirst(score) == [runs EXCEPT ![run].results[1] = score]
Recorded(score) == [runs EXCEPT ![run].results[i] = score]

SleepTime == wait_time_ms

\* Fault: the same run again.
SameRun == run
NextRun == run + 1

BeginRun ==
  /\ pc = "run" /\ run <= Len(runs)
  /\ runs' = [runs EXCEPT ![run].results = Resized(@, num_sub_runs)]
  /\ i' = 1 /\ pc' = "bench"
  /\ UNCHANGED <<options, calls, estimate, run, sub_run, table, history>>

\* run_bench returns a score or nothing, which is recorded.
Bench ==
  /\ pc = "bench" /\ SubRunsLeft
  /\ \E score \in Scores \cup {Null} :
       /\ runs' = Recorded(score)
       /\ log' = Append(log, [run |-> run, sub |-> i, score |-> score])
  /\ pc' = "pause"
  /\ UNCHANGED <<options, calls, estimate, run, i, sub_run, table, waited_ms>>

\* sleep_for, after the last sub run too.
Pause ==
  /\ pc = "pause"
  /\ waited_ms' = waited_ms + SleepTime
  /\ sub_run' = Wrap(sub_run + 1)
  /\ i' = i + 1 /\ pc' = "bench"
  /\ UNCHANGED <<options, runs, calls, estimate, run, table, log>>

EndRun ==
  /\ pc = "bench" /\ ~SubRunsLeft
  /\ run' = NextRun /\ pc' = "run"
  /\ UNCHANGED <<options, runs, calls, estimate, i, sub_run, table, history>>

RunsDone ==
  /\ pc = "run" /\ run > Len(runs)
  /\ pc' = "table"
  /\ UNCHANGED <<options, runs, calls, estimate, run, i, sub_run, table,
                 history>>

PrintRow ==
  /\ pc = "table" /\ Len(table) < Len(runs)
  /\ table' = Append(table, Row(runs[Len(table) + 1]))
  /\ UNCHANGED <<options, runs, pc, calls, estimate, run, i, sub_run,
                 history>>

Return ==
  /\ pc = "table" /\ Len(table) = Len(runs)
  /\ pc' = "idle"
  /\ UNCHANGED <<options, runs, calls, estimate, run, i, sub_run, table,
                 history>>

\* The user is done with the harness.
Stopped == pc = "idle" /\ calls = MaxCalls /\ UNCHANGED vars

Step == \/ UnknownVar \/ GenFails \/ Generate \/ BeginRun \/ Bench \/ Pause
        \/ EndRun \/ RunsDone \/ PrintRow \/ Return

Next == Call \/ Step \/ Stopped

Spec == Init /\ [][Next]_vars

\* Inside run() the harness goes on; benchmarks return and sleeps end.
FairSpec == Spec /\ WF_vars(Step)

-----------------------------------------------------------------------------
(* Properties.                                                             *)

Results == Seq(Scores \cup {Null})
RunRecord == [name : STRING, est_runtime_s : Nat, results : Results]
RowType == [name : STRING, scores : Results, mean : (Int \X Nat) \cup {Null},
            ratio : (Int \X Int) \cup {Null}]

\* The members and locals have their types; a run never has more results
\* than num_sub_runs, and the cursors stay in the ranges the loops give them.
TypeOK ==
  /\ OptionsSet
  /\ runs \in Seq(RunRecord)
  /\ pc \in {"idle", "select", "run", "bench", "pause", "table"}
  /\ calls \in 0..MaxCalls
  /\ announced \in Seq(Nat) /\ total_runs \in Nat /\ sub_run \in Nat
  /\ run \in Nat \ {0} /\ i \in Nat \ {0}
  /\ pc \in {"bench", "pause"} =>
       /\ run \in DOMAIN runs /\ Len(runs[run].results) = num_sub_runs
       /\ i \in 1..(num_sub_runs + 1) /\ (pc = "pause" => i <= num_sub_runs)
  /\ log \in Seq([run : Nat \ {0}, sub : Nat \ {0},
                  score : Scores \cup {Null}])
  /\ table \in Seq(RowType) /\ waited_ms \in Nat

\* A sweep is in progress or its table is being printed.
Sweeping == pc \in {"run", "bench", "pause", "table"}

\* The calls of n runs with m sub runs each, run by run.
Calls(n, m) == [c \in 1..(n * m) |-> <<((c - 1) \div m) + 1, ((c - 1) % m) + 1>>]

\* Every score stands where the call that gave it belongs, and every call is
\* made once: no later sub run, resize or run overwrites or moves a result.
\* When the table is printed no call is missing, and each row has its
\* num_sub_runs results to read (no index past the end).
ScoresInPlace ==
  Sweeping =>
    /\ pc = "table" =>
         /\ Len(log) = Len(runs) * num_sub_runs
         /\ \A r \in DOMAIN runs : Len(runs[r].results) = num_sub_runs
    /\ \A c \in DOMAIN log :
         /\ log[c].run \in DOMAIN runs
         /\ log[c].sub \in DOMAIN runs[log[c].run].results
         /\ runs[log[c].run].results[log[c].sub] = log[c].score
    /\ \A c, d \in DOMAIN log :
         log[c].run = log[d].run /\ log[c].sub = log[d].sub => c = d

\* The statistics of a row are those of its scores.  A ratio is of the greatest
\* of them to the least, as long as no score exceeds 1e20: "max >= 1e-10
\* implies max and min found" (harness.h:152).  A mean divides by at least one
\* score and lies between those two; one of 1e-10 or more never comes without
\* a ratio, though a smaller one may, and a ratio without a mean.
RowsSound ==
  \A r \in DOMAIN table :
    LET mean  == table[r].mean
        ratio == table[r].ratio
        there == Range(table[r].scores) \ {Null}
    IN  /\ ratio # Null => /\ ratio[1] \in there
                           /\ \A s \in there : ratio[2] <= s /\ s <= ratio[1]
                           /\ (\A s \in Scores : s <= Huge) => ratio[2] \in there
        /\ mean # Null => /\ mean[2] > 0
                          /\ mean[1] >= Tiny * mean[2] => ratio # Null
        /\ mean # Null /\ ratio # Null => /\ ratio[2] * mean[2] <= mean[1]
                                          /\ mean[1] <= ratio[1] * mean[2]

\* A run that fails, for an unknown variable or an option gen rejects, leaves
\* the results of the sweep before it complete: run() has no half-way state
\* in which the runs are replaced but not called.
ResultsComplete ==
  pc \in {"idle", "select"} =>
    \A r \in DOMAIN runs :
      \A s \in DOMAIN runs[r].results :
        \E c \in DOMAIN log :
          log[c] = [run |-> r, sub |-> s, score |-> runs[r].results[s]]

-----------------------------------------------------------------------------
(* The inductive invariant: the cursors tell how many calls have been made,*)
(* the log how many that is, and every entry of it where its score is.     *)

\* The calls that run and i say have been made, and those that have ended.
CallsMade ==
  (run - 1) * num_sub_runs + (CASE pc = "bench" -> i - 1
                                [] pc = "pause" -> i
                                [] OTHER -> 0)
CallsEnded == IF pc = "pause" THEN CallsMade - 1 ELSE CallsMade

Begun(r) == r < run \/ (r = run /\ pc \in {"bench", "pause"})

\* The runs begun have all their results to fill, the others none.
CursorInv ==
  Sweeping =>
    /\ run <= Len(runs) + 1 /\ (pc = "table" => run = Len(runs) + 1)
    /\ Len(log) = CallsMade
    /\ \A r \in DOMAIN runs :
         Len(runs[r].results) = IF Begun(r) THEN num_sub_runs ELSE 0

\* Call c of the log is the c-th of the sweep, and its score is in its place.
LogInv ==
  Sweeping =>
    \A c \in DOMAIN log :
      /\ log[c].run \in DOMAIN runs /\ log[c].sub \in 1..num_sub_runs
      /\ c = (log[c].run - 1) * num_sub_runs + log[c].sub
      /\ log[c].sub \in DOMAIN runs[log[c].run].results
      /\ runs[log[c].run].results[log[c].sub] = log[c].score

\* The progress printed is that of the calls, where a uint32_t holds them.
ProgressInv ==
  Sweeping /\ Len(runs) * num_sub_runs < Modulus =>
    total_runs = Len(runs) * num_sub_runs /\ sub_run = CallsEnded

HarnessInv == CursorInv /\ LogInv /\ ProgressInv /\ ResultsComplete /\ RowsSound

-----------------------------------------------------------------------------
\* The plan of a sweep, and what the sweep has made and counted of it.
PlannedCalls == IF Sweeping THEN Calls(Len(runs), num_sub_runs) ELSE <<>>
CallsLogged == IF Sweeping THEN [c \in DOMAIN log |-> <<log[c].run, log[c].sub>>] ELSE <<>>
CallsCounted == IF Sweeping THEN sub_run ELSE 0
CallsTotal == IF Sweeping THEN total_runs ELSE 0

\* What a sweep promises: the calls of the plan are made once each and in its
\* order, none is left out, and "run k/total" counts every one as it ends, up
\* to a total that is theirs (where a uint32_t holds it).
Plan == INSTANCE SweepPlan WITH
  sweeping <- Sweeping, plan <- PlannedCalls, made <- CallsLogged,
  counted <- CallsCounted, total <- CallsTotal
PlanSpec == Plan!Spec

\* The sub runs of every sweep there can be are few enough for a uint32_t.
SweepsFit ==
  \A v \in DOMAIN HarnessVariables : \A o \in OptStrings, n \in SubRuns :
    LET rs == HarnessVariables[v].gen[o] IN rs # Null => Len(rs) * n < Modulus

\* Every call of run() returns.
CallReturns == pc = "select" ~> pc = "idle"

\* How long the sweep has taken, if every benchmark takes its estimate.
Elapsed_ms ==
  waited_ms + 1000 * SumFunctionOnSet(
    [c \in DOMAIN log |-> runs[log[c].run].est_runtime_s], DOMAIN log)

\* "estimated total time" (harness.h:108): where the benchmarks take just the
\* time estimated for them, the sweep takes no longer than announced, to the
\* second.
AnnouncedSeconds == LET s[k \in 0..Len(announced)] ==
                          IF k = 0 THEN 0 ELSE 60 * s[k - 1] + announced[k]
                    IN  s[Len(announced)]
EstimateCoversSweep == pc = "table" => Elapsed_ms < (AnnouncedSeconds + 1) * 1000

=============================================================================
