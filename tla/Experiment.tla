----------------------------- MODULE Experiment -----------------------------
(***************************************************************************)
(* Experiment::run of src/src/benchmark2.cpp: a target function timed over *)
(* and over, within limits of time that are looked at after every sample.  *)
(* Time passes in the three functions of the user.                         *)
(***************************************************************************)
EXTENDS Clock

CONSTANTS
  PerSec,     \* ticks of the clock in a second
  MaxDelay,   \* the longest that a function of the user takes
  NumSetups, NumRepetitions, LimitTimes   \* what users put into an Experiment

ASSUME ExperimentAssumption ==
  /\ PerSec \in Nat \ {0} /\ MaxDelay \in Nat /\ Delays \subseteq 0 .. MaxDelay
  /\ LimitTimes \subseteq Nat
  /\ NumSetups \subseteq Nat /\ NumRepetitions \subseteq Nat

VARIABLES
  num_setup, num_repetition, limit_time,
  now,           \* the clock
  start_time, begin_time, end_time, cum_etime,
  size,          \* results.size()
  i, j,
  at,            \* "idle", "setup", "target", "timed", "check", "done" or "aborted"
  stepped        \* history: somebody set the clock

options == <<num_setup, num_repetition, limit_time>>
times   == <<start_time, begin_time, end_time, cum_etime, size>>
experiment == <<options, now, times, i, j, at, stepped>>

ratio == 10
Passes == \E d \in Delays : now' = now + d

ExperimentInit ==
  /\ num_setup \in NumSetups /\ num_repetition \in NumRepetitions
  /\ limit_time \in LimitTimes
  /\ now = 0 /\ start_time = 0 /\ begin_time = 0 /\ end_time = 0 /\ cum_etime = 0 /\ size = 0
  /\ i = 0 /\ j = 0 /\ at = "idle" /\ stepped = FALSE

Run ==
  /\ at = "idle"
  /\ start_time' = now /\ at' = "setup"
  /\ UNCHANGED <<options, now, begin_time, end_time, cum_etime, size, i, j, stepped>>

Setup ==
  /\ at = "setup" /\ i < num_setup
  /\ Passes
  /\ j' = 0 /\ at' = "target"
  /\ UNCHANGED <<options, times, i, stepped>>

SetupsDone ==
  /\ at = "setup" /\ i >= num_setup
  /\ at' = "done"
  /\ UNCHANGED <<options, now, times, i, j, stepped>>

BeginSample ==
  /\ at = "target" /\ j < num_repetition
  /\ begin_time' = now /\ at' = "timed"
  /\ UNCHANGED <<options, now, start_time, end_time, cum_etime, size, i, j, stepped>>

Target ==
  /\ at = "timed"
  /\ Passes
  /\ end_time' = now' /\ at' = "check"
  /\ UNCHANGED <<options, start_time, begin_time, cum_etime, size, i, j, stepped>>

RepetitionsDone ==
  /\ at = "target" /\ j >= num_repetition
  /\ i' = i + 1 /\ at' = "setup"
  /\ UNCHANGED <<options, now, times, j, stepped>>

Seconds(t) == duration_cast(t, PerSec)

(* ratio is unsigned, and so is this comparison: a negative time, of a      *)
(* clock that was set back, is longer than any limit.                       *)
OverTotal(total) == Seconds(total) < 0 \/ ratio * limit_time < Seconds(total)

(* Variants: the limit itself is too long; the whole time is not limited.   *)
AtLimit(measured, total) == limit_time <= Seconds(measured) \/ OverTotal(total)
OverMeasured(measured, total) == limit_time < Seconds(measured)

OverLimit(measured, total) == limit_time < Seconds(measured) \/ OverTotal(total)

(* The time of the run is read after check_func_, which only the debug      *)
(* build calls: in the other one no time passes here.                       *)
Check ==
  /\ at = "check"
  /\ cum_etime' = cum_etime + (end_time - begin_time) /\ size' = size + 1
  /\ Passes
  /\ IF OverLimit(cum_etime', now' - start_time)
       THEN at' = "done" /\ UNCHANGED j
       ELSE at' = "target" /\ j' = j + 1
  /\ UNCHANGED <<options, start_time, begin_time, end_time, i, stepped>>

(* check_func_ answers false and the assertion aborts the process.          *)
CheckFails ==
  /\ at = "check"
  /\ Passes
  /\ at' = "aborted"
  /\ UNCHANGED <<options, times, i, j, stepped>>

(* The clock is set once while run() runs.                                  *)
SetClock ==
  /\ at \in {"setup", "target", "timed", "check"} /\ ~stepped
  /\ \E d \in StepBy : now' = now + d
  /\ stepped' = TRUE
  /\ UNCHANGED <<options, times, i, j, at>>

Done == at \in {"done", "aborted"} /\ UNCHANGED experiment

ExperimentNext ==
  \/ Run \/ Setup \/ SetupsDone \/ BeginSample \/ Target \/ RepetitionsDone
  \/ Check \/ CheckFails \/ SetClock \/ Done

ExperimentSpec == ExperimentInit /\ [][ExperimentNext]_experiment
-----------------------------------------------------------------------------
(* However slow setup_func_ and check_func_ are, a run takes no longer than *)
(* ten times its limit, the second that is rounded off, and one more turn.  *)
(* Only a run without repetitions or one whose clock is set takes longer.   *)
TimeBudget ==
  ~stepped /\ num_repetition > 0 =>
    now - start_time < (ratio * limit_time + 1) * PerSec + 3 * MaxDelay

(* A run that stops short of its executions has run for more than its limit.*)
ShortOnlyWhenSlow ==
  at = "done" /\ ~stepped /\ size < num_setup * num_repetition =>
    now - start_time >= (limit_time + 1) * PerSec
=============================================================================
