---------------------------- MODULE Harness_proof ----------------------------
(***************************************************************************)
(* Proofs about the benchmarks.                                            *)
(*                                                                         *)
(* Experiment: a run is followed through its two loops.  What was measured *)
(* is part of the time that went by, and between two looks at the limits   *)
(* run the functions of one turn.                                          *)
(*                                                                         *)
(* Throughput: a program is followed by the lines it printed.  Those of    *)
(* the size of now stand after the header, or after all lines of half the  *)
(* size, and the flags of call_once__ tell whether the header is there.    *)
(***************************************************************************)
EXTENDS Experiment, Throughput, TLAPS

(* Experiment.                                                              *)
ExperimentNumbers ==
  /\ num_setup \in Nat /\ num_repetition \in Nat /\ limit_time \in Nat
  /\ now \in Int /\ start_time \in Int /\ begin_time \in Int
  /\ end_time \in Int /\ cum_etime \in Int
  /\ size \in Nat /\ i \in Nat /\ j \in Nat

Budget == (ratio * limit_time + 1) * PerSec

(* What is measured is part of the time that went by.                       *)
TimesInv ==
  /\ start_time <= now /\ 0 <= cum_etime
  /\ at = "idle" => cum_etime = 0
  /\ at \in {"idle", "setup", "target"} => cum_etime <= now - start_time
  /\ at \in {"timed", "check"} => begin_time <= now /\ cum_etime <= begin_time - start_time
  /\ at = "check" => begin_time <= end_time /\ end_time <= now

(* How long the functions of the user may have run since the last check.    *)
BudgetInv ==
  num_repetition > 0 =>
    /\ at \in {"idle", "setup"} \/ (at = "target" /\ j > 0) => now - start_time < Budget
    /\ at \in {"target", "timed"} => now - start_time < Budget + MaxDelay
    /\ at = "check" => now - start_time < Budget + 2 * MaxDelay
    /\ now - start_time < Budget + 3 * MaxDelay

ShortInv ==
  at = "done" =>
    size = num_setup * num_repetition \/ now - start_time >= (limit_time + 1) * PerSec

(* The results are counted by the two loops.                                *)
SizeInv ==
  /\ at = "idle" => i = 0 /\ size = 0
  /\ at = "setup" => i <= num_setup /\ size = i * num_repetition
  /\ at \in {"target", "timed", "check"} =>
       i < num_setup /\ j <= num_repetition /\ size = i * num_repetition + j
  /\ at \in {"timed", "check"} => j < num_repetition

(* The clock tells the time until somebody sets it.                         *)
Timely == TimesInv /\ BudgetInv /\ ShortInv

ExperimentInv == ExperimentNumbers /\ SizeInv /\ (~stepped => Timely)

LEMMA Quotient ==
  ASSUME NEW t \in Nat, NEW u \in Nat \ {0}
  PROVE  /\ t \div u \in Nat /\ t % u \in 0 .. u - 1
         /\ t = (t \div u) * u + (t % u)
OBVIOUS

LEMMA TimesMonotone ==
  ASSUME NEW a \in Nat, NEW b \in Nat, NEW u \in Nat, a <= b
  PROVE  a * u \in Nat /\ b * u \in Nat /\ a * u <= b * u
OBVIOUS

LEMMA TimesNext ==
  ASSUME NEW a \in Nat, NEW u \in Nat
  PROVE  (a + 1) * u = a * u + u
OBVIOUS

(* Times that went by, seen later.                                          *)
LEMMA Later ==
  ASSUME NEW s \in Int, NEW t \in Int, NEW u \in Int, NEW c \in Int,
         s <= t, t <= u, c <= t - s
  PROVE  s <= u /\ c <= u - s
OBVIOUS

LEMMA Measured ==
  ASSUME NEW s \in Int, NEW b \in Int, NEW t \in Int, NEW c \in Int,
         b <= t, 0 <= c, c <= b - s
  PROVE  c + (t - b) \in Int /\ 0 <= c + (t - b) /\ c + (t - b) <= t - s
OBVIOUS

LEMMA LaterWithin ==
  ASSUME NEW s \in Int, NEW t \in Int, NEW u \in Int, NEW b \in Nat, NEW d \in Nat,
         u <= t + d
  PROVE  /\ t - s < b => u - s < b + d /\ u - s < b + 3 * d
         /\ t - s < b + d => u - s < b + 2 * d /\ u - s < b + 3 * d
         /\ t - s < b + 2 * d => u - s < b + 3 * d
OBVIOUS

(* What a rounded time says of the time.                                    *)
LEMMA Rounded ==
  ASSUME NEW t \in Int, NEW u \in Nat \ {0}, NEW limit \in Nat
  PROVE  /\ limit < duration_cast(t, u) => t >= (limit + 1) * u
         /\ ~(limit < duration_cast(t, u)) => t < (limit + 1) * u
<1> DEFINE bound == (limit + 1) * u
<1>1. bound \in Nat /\ bound > 0
  <2>1. limit * u \in Nat /\ (limit + 1) * u = limit * u + u
    BY TimesNext, TimesMonotone
  <2> QED BY <2>1
<1>2. CASE t >= 0
  <2> DEFINE q == t \div u
             r == t % u
  <2>1. t \in Nat /\ duration_cast(t, u) = q
    BY <1>2 DEF duration_cast
  <2>2. q \in Nat /\ r \in 0 .. u - 1 /\ t = q * u + r
    BY <2>1, Quotient
  <2> HIDE DEF q, r
  <2>3. CASE limit < q
    <3>1. limit + 1 <= q /\ limit + 1 \in Nat
      BY <2>2, <2>3
    <3>2. bound <= q * u /\ q * u \in Nat
      BY <2>2, <3>1, TimesMonotone
    <3> HIDE DEF bound
    <3>3. t >= bound
      BY <1>1, <2>2, <3>2
    <3> QED BY <2>1, <2>3, <3>3 DEF bound
  <2>4. CASE ~(limit < q)
    <3>1. q <= limit
      BY <2>2, <2>4
    <3>2. q * u <= limit * u /\ q * u \in Nat /\ limit * u \in Nat /\ bound = limit * u + u
      BY <2>2, <3>1, TimesMonotone, TimesNext
    <3> DEFINE a == q * u
               b == limit * u
    <3>3. a <= b /\ a \in Nat /\ b \in Nat /\ bound = b + u /\ t = a + r
      BY <2>2, <3>2
    <3> HIDE DEF a, b, bound
    <3>4. t < bound
      BY <2>2, <3>3
    <3> QED BY <2>1, <2>4, <3>4 DEF bound
  <2> QED BY <2>3, <2>4
<1>3. CASE t < 0
  <2>1. -t \in Nat
    BY <1>3
  <2>2. (-t) \div u \in Nat
    BY <2>1, Quotient
  <2>3. duration_cast(t, u) = -((-t) \div u)
    BY <1>3 DEF duration_cast
  <2> HIDE DEF bound
  <2>4. t < bound
    BY <1>1, <1>3
  <2>5. ~(limit < duration_cast(t, u))
    <3> DEFINE q == (-t) \div u
    <3>1. q \in Nat /\ duration_cast(t, u) = -q
      BY <2>2, <2>3
    <3> HIDE DEF q
    <3> QED BY <3>1
  <2> QED BY <2>4, <2>5 DEF bound
<1> QED BY <1>2, <1>3

LEMMA BudgetType ==
  ASSUME ExperimentNumbers
  PROVE  Budget \in Nat /\ Budget > 0 /\ PerSec \in Nat \ {0} /\ MaxDelay \in Nat
<1> DEFINE b == ratio * limit_time
<1>1. b \in Nat /\ PerSec \in Nat \ {0} /\ MaxDelay \in Nat
  BY ExperimentAssumption DEF ExperimentNumbers, ratio
<1> HIDE DEF b
<1>2. b * PerSec \in Nat /\ (b + 1) * PerSec = b * PerSec + PerSec
  BY <1>1, TimesMonotone, TimesNext
<1> DEFINE c == b * PerSec
<1>3. (b + 1) * PerSec = c + PerSec /\ c \in Nat
  BY <1>2
<1> HIDE DEF c
<1> QED BY <1>1, <1>3 DEF Budget, b

LEMMA ExperimentInits == ASSUME ExperimentInit PROVE ExperimentInv
<1>1. num_setup \in Nat /\ num_repetition \in Nat /\ limit_time \in Nat
  BY ExperimentAssumption DEF ExperimentInit
<1>2. ExperimentNumbers
  BY <1>1 DEF ExperimentInit, ExperimentNumbers
<1>3. Budget \in Nat /\ Budget > 0 /\ MaxDelay \in Nat
  BY <1>2, BudgetType
<1>4. TimesInv /\ SizeInv /\ ShortInv
  BY DEF ExperimentInit, TimesInv, SizeInv, ShortInv
<1>5. BudgetInv
  <2>1. now - start_time = 0
    BY DEF ExperimentInit
  <2> QED BY <1>3, <2>1 DEF BudgetInv
<1> QED BY <1>2, <1>4, <1>5 DEF ExperimentInv, Timely

LEMMA PassesWithin ==
  ASSUME Passes, now \in Int
  PROVE  now' \in Int /\ now <= now' /\ now' <= now + MaxDelay
<1>1. PICK d \in Delays : now' = now + d
  BY DEF Passes
<1>2. d \in 0 .. MaxDelay /\ MaxDelay \in Nat
  BY ExperimentAssumption
<1> QED BY <1>1, <1>2

(* The steps of the two loops other than Check.                             *)
LEMMA LoopSteps ==
  ASSUME ExperimentNumbers, SizeInv,
         Run \/ Setup \/ SetupsDone \/ BeginSample \/ Target \/ RepetitionsDone
  PROVE  ExperimentNumbers' /\ SizeInv' /\ (Timely => Timely') /\ stepped' = stepped
<1>1. UNCHANGED <<num_setup, num_repetition, limit_time, cum_etime, size, stepped>>
  BY DEF Run, Setup, SetupsDone, BeginSample, Target, RepetitionsDone, options, times
<1>2. /\ Budget' = Budget /\ Budget \in Nat /\ Budget > 0 /\ MaxDelay \in Nat
  BY <1>1, BudgetType DEF Budget
<1>3. CASE Run
  <2>1. /\ at = "idle" /\ at' = "setup" /\ start_time' = now
        /\ UNCHANGED <<now, begin_time, end_time, i, j>>
    BY <1>3 DEF Run
  <2>2. ExperimentNumbers'
    BY <1>1, <2>1 DEF ExperimentNumbers
  <2>3. TimesInv => TimesInv'
    <3>1. TimesInv => cum_etime = 0 /\ now - now = 0
      BY <2>1 DEF ExperimentNumbers, TimesInv
    <3>2. now <= now
      BY DEF ExperimentNumbers
    <3> QED BY <1>1, <2>1, <3>1, <3>2 DEF TimesInv
  <2>4. BudgetInv'
    <3>1. now' - start_time' = 0
      BY <2>1 DEF ExperimentNumbers
    <3> QED BY <1>2, <2>1, <3>1 DEF BudgetInv
  <2>5. SizeInv'
    BY <1>1, <2>1 DEF ExperimentNumbers, SizeInv
  <2> QED BY <1>1, <2>1, <2>2, <2>3, <2>4, <2>5 DEF Timely, ShortInv
<1>4. CASE Setup
  <2>1. /\ at = "setup" /\ i < num_setup /\ Passes /\ j' = 0 /\ at' = "target"
        /\ UNCHANGED <<start_time, begin_time, end_time, i>>
    BY <1>4 DEF Setup, times
  <2>2. now' \in Int /\ now <= now' /\ now' <= now + MaxDelay
    BY <2>1, PassesWithin DEF ExperimentNumbers
  <2>3. ExperimentNumbers'
    BY <1>1, <2>1, <2>2 DEF ExperimentNumbers
  <2>4. TimesInv => TimesInv'
    <3>1. TimesInv => start_time <= now /\ 0 <= cum_etime /\ cum_etime <= now - start_time
      BY <2>1 DEF TimesInv
    <3>2. TimesInv => start_time <= now' /\ 0 <= cum_etime /\ cum_etime <= now' - start_time
      BY <2>2, <3>1, Later DEF ExperimentNumbers
    <3> QED BY <1>1, <2>1, <3>2 DEF TimesInv
  <2>5. BudgetInv => BudgetInv'
    <3>1. BudgetInv /\ num_repetition > 0 => now - start_time < Budget
      BY <2>1 DEF BudgetInv
    <3>2. BudgetInv /\ num_repetition > 0 =>
            now' - start_time < Budget + MaxDelay /\ now' - start_time < Budget + 3 * MaxDelay
      BY <1>2, <2>2, <3>1, LaterWithin DEF ExperimentNumbers
    <3>3. ~(j' > 0)
      BY <2>1
    <3> QED BY <1>1, <1>2, <2>1, <3>2, <3>3 DEF BudgetInv
  <2>6. SizeInv'
    BY <1>1, <2>1 DEF ExperimentNumbers, SizeInv
  <2> QED BY <1>1, <2>1, <2>3, <2>4, <2>5, <2>6 DEF Timely, ShortInv
<1>5. CASE SetupsDone
  <2>1. /\ at = "setup" /\ i >= num_setup /\ at' = "done"
        /\ UNCHANGED <<now, start_time, begin_time, end_time, i, j>>
    BY <1>5 DEF SetupsDone, times
  <2>2. ExperimentNumbers'
    BY <1>1, <2>1 DEF ExperimentNumbers
  <2>3. TimesInv => TimesInv'
    BY <1>1, <2>1 DEF ExperimentNumbers, TimesInv
  <2>4. BudgetInv => BudgetInv'
    BY <1>1, <1>2, <2>1 DEF BudgetInv, ExperimentNumbers
  <2>5. i = num_setup /\ size = i * num_repetition
    BY <2>1 DEF ExperimentNumbers, SizeInv
  <2>6. ShortInv' /\ SizeInv'
    BY <1>1, <2>1, <2>5 DEF ShortInv, SizeInv
  <2> QED BY <1>1, <2>2, <2>3, <2>4, <2>6 DEF Timely
<1>6. CASE BeginSample
  <2>1. /\ at = "target" /\ j < num_repetition /\ begin_time' = now /\ at' = "timed"
        /\ UNCHANGED <<now, start_time, end_time, i, j>>
    BY <1>6 DEF BeginSample
  <2>2. ExperimentNumbers'
    BY <1>1, <2>1 DEF ExperimentNumbers
  <2>3. TimesInv => TimesInv'
    BY <1>1, <2>1 DEF ExperimentNumbers, TimesInv
  <2>4. BudgetInv => BudgetInv'
    BY <1>1, <1>2, <2>1 DEF BudgetInv
  <2>5. SizeInv'
    BY <1>1, <2>1 DEF ExperimentNumbers, SizeInv
  <2> QED BY <1>1, <2>1, <2>2, <2>3, <2>4, <2>5 DEF Timely, ShortInv
<1>7. CASE Target
  <2>1. /\ at = "timed" /\ Passes /\ end_time' = now' /\ at' = "check"
        /\ UNCHANGED <<start_time, begin_time, i, j>>
    BY <1>7 DEF Target
  <2>2. now' \in Int /\ now <= now' /\ now' <= now + MaxDelay
    BY <2>1, PassesWithin DEF ExperimentNumbers
  <2>3. ExperimentNumbers'
    BY <1>1, <2>1, <2>2 DEF ExperimentNumbers
  <2>4. TimesInv => TimesInv'
    <3>1. TimesInv => /\ start_time <= now /\ 0 <= cum_etime
                      /\ begin_time <= now /\ cum_etime <= begin_time - start_time
      BY <2>1 DEF TimesInv
    <3>2. TimesInv => start_time <= now' /\ begin_time <= now' /\ now' <= now'
      BY <2>2, <3>1 DEF ExperimentNumbers
    <3> QED BY <1>1, <2>1, <3>1, <3>2 DEF TimesInv
  <2>5. BudgetInv => BudgetInv'
    <3>1. BudgetInv /\ num_repetition > 0 => now - start_time < Budget + MaxDelay
      BY <2>1 DEF BudgetInv
    <3>2. BudgetInv /\ num_repetition > 0 =>
            now' - start_time < Budget + 2 * MaxDelay /\ now' - start_time < Budget + 3 * MaxDelay
      BY <1>2, <2>2, <3>1, LaterWithin DEF ExperimentNumbers
    <3> QED BY <1>1, <1>2, <2>1, <3>2 DEF BudgetInv
  <2>6. SizeInv'
    BY <1>1, <2>1 DEF ExperimentNumbers, SizeInv
  <2> QED BY <1>1, <2>1, <2>3, <2>4, <2>5, <2>6 DEF Timely, ShortInv
<1>8. CASE RepetitionsDone
  <2>1. /\ at = "target" /\ j >= num_repetition /\ i' = i + 1 /\ at' = "setup"
        /\ UNCHANGED <<now, start_time, begin_time, end_time, j>>
    BY <1>8 DEF RepetitionsDone, times
  <2>2. ExperimentNumbers'
    BY <1>1, <2>1 DEF ExperimentNumbers
  <2>3. TimesInv => TimesInv'
    BY <1>1, <2>1 DEF ExperimentNumbers, TimesInv
  <2>4. BudgetInv => BudgetInv'
    <3>1. num_repetition > 0 => j > 0
      BY <2>1 DEF ExperimentNumbers
    <3>2. BudgetInv /\ num_repetition > 0 =>
            now - start_time < Budget /\ now - start_time < Budget + 3 * MaxDelay
      BY <2>1, <3>1 DEF BudgetInv
    <3> QED BY <1>1, <1>2, <2>1, <3>2 DEF BudgetInv
  <2>5. i < num_setup /\ j = num_repetition /\ size = i * num_repetition + j
    BY <2>1 DEF ExperimentNumbers, SizeInv
  <2>6. (i + 1) * num_repetition = i * num_repetition + num_repetition
    BY TimesNext DEF ExperimentNumbers
  <2>7. i + 1 <= num_setup
    BY <2>5 DEF ExperimentNumbers
  <2>8. SizeInv'
    BY <1>1, <2>1, <2>5, <2>6, <2>7 DEF SizeInv
  <2> QED BY <1>1, <2>1, <2>2, <2>3, <2>4, <2>8 DEF Timely, ShortInv
<1> QED BY <1>3, <1>4, <1>5, <1>6, <1>7, <1>8

LEMMA CheckStep ==
  ASSUME ExperimentNumbers, SizeInv, Check
  PROVE  ExperimentNumbers' /\ SizeInv' /\ (Timely => Timely') /\ stepped' = stepped
<1>1. /\ at = "check" /\ cum_etime' = cum_etime + (end_time - begin_time) /\ size' = size + 1 /\ Passes
      /\ UNCHANGED <<num_setup, num_repetition, limit_time, start_time, begin_time, end_time, i, stepped>>
  BY DEF Check, options
<1>2. \/ OverLimit(cum_etime', now' - start_time) /\ at' = "done" /\ j' = j
      \/ ~OverLimit(cum_etime', now' - start_time) /\ at' = "target" /\ j' = j + 1
  BY DEF Check
<1>3. now' \in Int /\ now <= now' /\ now' <= now + MaxDelay
  BY <1>1, PassesWithin DEF ExperimentNumbers
<1>4. /\ Budget' = Budget /\ Budget \in Nat /\ Budget > 0 /\ MaxDelay \in Nat
  BY <1>1, BudgetType DEF Budget
<1>5. /\ PerSec \in Nat \ {0} /\ limit_time \in Nat /\ ratio * limit_time \in Nat
      /\ limit_time <= ratio * limit_time
  BY ExperimentAssumption DEF ExperimentNumbers, ratio
<1>6. cum_etime' \in Int /\ now' - start_time \in Int
  BY <1>1, <1>3 DEF ExperimentNumbers
<1>7. ExperimentNumbers'
  BY <1>1, <1>2, <1>3, <1>6 DEF ExperimentNumbers
<1>8. TimesInv => start_time <= now' /\ 0 <= cum_etime' /\ cum_etime' <= now' - start_time
  <2>1. TimesInv => /\ start_time <= now /\ 0 <= cum_etime
                    /\ begin_time <= end_time /\ end_time <= now
                    /\ cum_etime <= begin_time - start_time
    BY <1>1 DEF TimesInv
  <2>2. ASSUME TimesInv PROVE cum_etime' \in Int /\ 0 <= cum_etime' /\ cum_etime' <= now - start_time
    <3>1. cum_etime' \in Int /\ 0 <= cum_etime' /\ cum_etime' <= end_time - start_time
      BY <1>1, <2>1, <2>2, Measured DEF ExperimentNumbers
    <3> QED BY <2>1, <2>2, <3>1 DEF ExperimentNumbers
  <2>3. ASSUME TimesInv PROVE start_time <= now' /\ cum_etime' <= now' - start_time
    BY <1>3, <2>1, <2>2, <2>3, Later DEF ExperimentNumbers
  <2> QED BY <2>2, <2>3
<1>9. TimesInv => TimesInv'
  BY <1>1, <1>2, <1>8 DEF TimesInv
<1>10. ~OverLimit(cum_etime', now' - start_time) => now' - start_time < Budget
  <2> DEFINE total == now' - start_time
             limit == ratio * limit_time
  <2>1. ~OverLimit(cum_etime', total) => ~(limit < duration_cast(total, PerSec))
    BY DEF OverLimit, OverTotal, Seconds
  <2>2. total \in Int /\ limit \in Nat
    BY <1>5, <1>6
  <2>3. Budget = (limit + 1) * PerSec
    BY DEF Budget
  <2> HIDE DEF total, limit
  <2>4. ~(limit < duration_cast(total, PerSec)) => total < (limit + 1) * PerSec
    BY <1>5, <2>2, Rounded
  <2> QED BY <2>1, <2>3, <2>4 DEF total
<1>11. BudgetInv => BudgetInv'
  <2> SUFFICES ASSUME BudgetInv, num_repetition > 0 PROVE BudgetInv'
    BY <1>1 DEF BudgetInv
  <2>1. now - start_time < Budget + 2 * MaxDelay
    BY <1>1 DEF BudgetInv
  <2>2. now' - start_time < Budget + 3 * MaxDelay
    BY <1>3, <1>4, <2>1, LaterWithin DEF ExperimentNumbers
  <2>3. CASE at' = "done"
    BY <1>1, <1>4, <2>2, <2>3 DEF BudgetInv
  <2>4. CASE at' = "target"
    <3>1. now' - start_time < Budget
      BY <1>2, <1>10, <2>4
    <3> DEFINE total == now' - start_time
    <3>2. total \in Int /\ total < Budget /\ now' - start_time' = total
      BY <1>1, <1>6, <3>1
    <3> HIDE DEF total
    <3> QED BY <1>4, <2>4, <3>2 DEF BudgetInv
  <2> QED BY <1>2, <2>3, <2>4
<1>12. ASSUME Timely, OverLimit(cum_etime', now' - start_time)
       PROVE  now' - start_time >= (limit_time + 1) * PerSec
  <2> DEFINE total == now' - start_time
             bound == (limit_time + 1) * PerSec
             whole == (ratio * limit_time + 1) * PerSec
  <2>1. bound \in Nat /\ whole \in Nat /\ bound <= whole
    <3>1. limit_time + 1 \in Nat /\ ratio * limit_time + 1 \in Nat
          /\ limit_time + 1 <= ratio * limit_time + 1
      BY <1>5
    <3> QED BY <1>5, <3>1, TimesMonotone
  <2>2. \/ limit_time < duration_cast(cum_etime', PerSec)
        \/ duration_cast(total, PerSec) < 0
        \/ ratio * limit_time < duration_cast(total, PerSec)
    BY <1>12 DEF OverLimit, OverTotal, Seconds
  <2>3. limit_time < duration_cast(cum_etime', PerSec) => cum_etime' >= bound
    BY <1>5, <1>6, Rounded
  <2>4. ratio * limit_time < duration_cast(total, PerSec) => total >= whole
    <3> DEFINE limit == ratio * limit_time
    <3>1. limit \in Nat /\ total \in Int /\ whole = (limit + 1) * PerSec
      BY <1>5, <1>6
    <3> HIDE DEF limit, total, whole
    <3>2. limit < duration_cast(total, PerSec) => total >= (limit + 1) * PerSec
      BY <1>5, <3>1, Rounded
    <3> QED BY <3>1, <3>2 DEF limit
  <2>5. cum_etime' <= total /\ total \in Nat
    BY <1>6, <1>8, <1>12 DEF Timely
  <2>7. ~(duration_cast(total, PerSec) < 0)
    <3> HIDE DEF total
    <3>1. total \div PerSec \in Nat
      BY <1>5, <2>5, Quotient
    <3> QED BY <2>5, <3>1 DEF duration_cast
  <2> HIDE DEF total, bound, whole
  <2>6. total >= bound
    BY <1>6, <2>1, <2>2, <2>3, <2>4, <2>5, <2>7
  <2> QED BY <2>6 DEF total, bound
<1>13. Timely => ShortInv'
  BY <1>1, <1>2, <1>12 DEF ShortInv
<1>14. SizeInv'
  <2>1. i < num_setup /\ j < num_repetition /\ size = i * num_repetition + j
    BY <1>1 DEF SizeInv
  <2> DEFINE base == i * num_repetition
  <2>2. base \in Nat /\ size + 1 = base + (j + 1) /\ j + 1 <= num_repetition
    <3>1. base \in Nat
      BY TimesMonotone DEF ExperimentNumbers
    <3> HIDE DEF base
    <3>2. size = base + j
      BY <2>1 DEF base
    <3> QED BY <2>1, <3>1, <3>2 DEF ExperimentNumbers
  <2> HIDE DEF base
  <2>3. i' * num_repetition' = base
    BY <1>1 DEF base
  <2> QED BY <1>1, <1>2, <2>1, <2>2, <2>3 DEF SizeInv
<1> QED BY <1>1, <1>7, <1>9, <1>11, <1>13, <1>14 DEF Timely

LEMMA CheckFailsStep ==
  ASSUME ExperimentNumbers, SizeInv, CheckFails
  PROVE  ExperimentNumbers' /\ SizeInv' /\ (Timely => Timely') /\ stepped' = stepped
<1>1. /\ at = "check" /\ Passes /\ at' = "aborted"
      /\ UNCHANGED <<num_setup, num_repetition, limit_time, start_time, begin_time, end_time,
                     cum_etime, size, i, j, stepped>>
  BY DEF CheckFails, options, times
<1>2. now' \in Int /\ now <= now' /\ now' <= now + MaxDelay
  BY <1>1, PassesWithin DEF ExperimentNumbers
<1>3. /\ Budget' = Budget /\ Budget \in Nat /\ Budget > 0 /\ MaxDelay \in Nat
  BY <1>1, BudgetType DEF Budget
<1>4. ExperimentNumbers' /\ SizeInv'
  BY <1>1, <1>2 DEF ExperimentNumbers, SizeInv
<1>5. TimesInv => TimesInv'
  <2>1. TimesInv => start_time <= now' /\ 0 <= cum_etime
    BY <1>2 DEF TimesInv, ExperimentNumbers
  <2> QED BY <1>1, <2>1 DEF TimesInv
<1>6. BudgetInv => BudgetInv'
  <2>1. BudgetInv /\ num_repetition > 0 => now - start_time < Budget + 2 * MaxDelay
    BY <1>1 DEF BudgetInv
  <2>2. BudgetInv /\ num_repetition > 0 => now' - start_time < Budget + 3 * MaxDelay
    BY <1>2, <1>3, <2>1, LaterWithin DEF ExperimentNumbers
  <2> QED BY <1>1, <1>3, <2>2 DEF BudgetInv
<1> QED BY <1>1, <1>4, <1>5, <1>6 DEF Timely, ShortInv

LEMMA SetClockStep ==
  ASSUME ExperimentNumbers, SizeInv, SetClock
  PROVE  ExperimentNumbers' /\ SizeInv' /\ stepped' = TRUE
<1>1. /\ stepped' = TRUE
      /\ UNCHANGED <<num_setup, num_repetition, limit_time, start_time, begin_time, end_time>>
      /\ UNCHANGED <<cum_etime, size, i, j, at>>
  BY DEF SetClock, options, times
<1>2. now' \in Int
  BY ClockAssumption DEF SetClock, ExperimentNumbers
<1>3. ExperimentNumbers'
  BY <1>1, <1>2 DEF ExperimentNumbers
<1> QED BY <1>1, <1>3 DEF SizeInv

THEOREM ExperimentInductive == ExperimentSpec => []ExperimentInv
<1>1. ExperimentInv /\ [ExperimentNext]_experiment => ExperimentInv'
  <2> SUFFICES ASSUME ExperimentInv, [ExperimentNext]_experiment PROVE ExperimentInv'
    OBVIOUS
  <2>1. ExperimentNumbers /\ SizeInv /\ (~stepped => Timely)
    BY DEF ExperimentInv
  <2>2. CASE Run \/ Setup \/ SetupsDone \/ BeginSample \/ Target \/ RepetitionsDone
    BY <2>1, <2>2, LoopSteps, Zenon DEF ExperimentInv
  <2>3. CASE Check
    BY <2>1, <2>3, CheckStep, Zenon DEF ExperimentInv
  <2>6. CASE CheckFails
    BY <2>1, <2>6, CheckFailsStep, Zenon DEF ExperimentInv
  <2>4. CASE SetClock
    BY <2>1, <2>4, SetClockStep, Zenon DEF ExperimentInv
  <2>5. CASE UNCHANGED experiment
    BY <2>5 DEF experiment, options, times, ExperimentInv, ExperimentNumbers, Timely, TimesInv,
                BudgetInv, ShortInv, SizeInv, Budget
  <2> QED BY <2>2, <2>3, <2>4, <2>5, <2>6 DEF ExperimentNext, Done
<1> QED BY <1>1, ExperimentInits, PTL DEF ExperimentSpec

(* Whatever the limits, the unit of the clock and the functions: a run of   *)
(* an Experiment ends its last turn within ten times its limit, the second  *)
(* rounded off and the three functions of that turn.                        *)
THEOREM RunsWithinBudget == ExperimentSpec => []TimeBudget
<1>1. ExperimentInv => TimeBudget
  BY Zenon DEF ExperimentInv, Timely, BudgetInv, Budget, TimeBudget
<1> QED BY <1>1, ExperimentInductive, PTL

(* And it stops short of its executions only when its limit has passed.     *)
THEOREM StopsOnlyWhenSlow == ExperimentSpec => []ShortOnlyWhenSlow
<1>1. ExperimentInv => ShortOnlyWhenSlow
  <2> SUFFICES ASSUME ExperimentInv, at = "done", ~stepped, size < num_setup * num_repetition
               PROVE  now - start_time >= (limit_time + 1) * PerSec
    BY DEF ShortOnlyWhenSlow
  <2> DEFINE all == num_setup * num_repetition
  <2>1. size \in Nat /\ size < all
    BY DEF ExperimentInv, ExperimentNumbers
  <2>2. size = all \/ now - start_time >= (limit_time + 1) * PerSec
    BY DEF ExperimentInv, Timely, ShortInv
  <2> HIDE DEF all
  <2>3. size # all
    BY <2>1
  <2> QED BY <2>2, <2>3
<1> QED BY <1>1, ExperimentInductive, PTL
-----------------------------------------------------------------------------
(* Throughput: the programs, and what they print.                           *)
Labels ==
  {"bytes", "32bit_elems", "aes128_ctr", "aes128enc", "aes128dec", "aes128mmo", "aes128prf",
   "aes128prf_ctr", "/dev/urandom", "randen", "rdrand", "shuffle_rs_dev-urandom"}
Timed ==
  {"AES128::ctr_stream", "AES128::enc", "AES128::dec", "MMO128", "AESPRF128::ctr_stream",
   "rng_global", "Randen", "rdrand", "shuffle_RS"}
Printed == [label : Labels, num : Nat]
Buffer  == [size : Nat, data : Nat]

(* The size of now, in bytes, and how many of its lines were printed.       *)
bytes == current * program.scale
reported ==
  CASE pc = "verify" -> NumRows
    [] pc \in {"enter", "measure", "report"} -> row - 1
    [] OTHER -> 0

ThroughputNumbers ==
  /\ program \in Programs /\ current \in Nat /\ row \in 1 .. NumRows
  /\ lines \in Seq(Printed) /\ buff \in Buffer /\ enc_buff \in Buffer /\ dec_buff \in Buffer

(* The flags tell whether the header was printed.                           *)
HeaderInv ==
  /\ header \in BOOLEAN
  /\ ~header <=> lines = <<>>
  /\ ~header => called = {}
  /\ pc \in {"measure", "report", "verify"} => header

(* The lines of this size begin after b others: after the header, or after  *)
(* all the lines of half the size.                                          *)
LinesAt(rows, ls, b, s) ==
  /\ \A k \in 1 .. Len(ls) - b : ls[b + k] = [label |-> rows[k].label, num |-> s]
  /\ \/ b = 1 /\ s = start_byte_size
     \/ b >= Len(rows) + 1
        /\ \A k \in 1 .. Len(rows) :
             /\ ls[b - Len(rows) + k].label = rows[k].label
             /\ 2 * ls[b - Len(rows) + k].num = s

LinesInv ==
  /\ pc \in {"enter", "measure", "report", "verify"} => bytes <= stop_byte_size
  /\ pc = "verify" => row = NumRows
  /\ pc = "done" => bytes > stop_byte_size
  /\ lines = <<>> /\ pc \notin {"hung", "terminated"} => bytes = start_byte_size /\ reported = 0
  /\ lines # <<>> /\ pc \notin {"hung", "terminated"} =>
       LinesAt(program.rows, lines, Len(lines) - reported, bytes)

TableInv ==
  \A n \in 1 .. Len(lines) : lines[n] = Line(n) /\ lines[n].num <= stop_byte_size

DecryptInv ==
  program.verifies =>
    /\ current % 16 = 0
    /\ pc \in {"enter", "measure", "report", "verify"} =>
         /\ buff = [size |-> current, data |-> current] /\ enc_buff.size = current
         /\ pc = "report" \/ pc = "verify" \/ row = 2 => enc_buff = buff
         /\ row = 2 /\ pc # "enter" => dec_buff.size = current
         /\ row = 2 /\ pc \in {"report", "verify"} => dec_buff = buff

ThroughputInv == ThroughputNumbers /\ HeaderInv /\ LinesInv /\ TableInv /\ DecryptInv

(* The programs, by what the tables need of them.                           *)
Rows == Seq([label : Labels, runs : Timed])

LEMMA RowFacts ==
  ASSUME NEW l \in Labels, NEW f \in Timed, NEW m \in Labels, NEW g \in Timed
  PROVE  /\ <<Row(l, f)>> \in Rows /\ Len(<<Row(l, f)>>) = 1
         /\ <<Row(l, f), Row(m, g)>> \in Rows /\ Len(<<Row(l, f), Row(m, g)>>) = 2
         /\ <<Row(l, f), Row(m, g)>>[1].runs = f /\ <<Row(l, f), Row(m, g)>>[2].runs = g
<1> DEFINE R == [label : Labels, runs : Timed]
           r == Row(l, f)
           q == Row(m, g)
<1>1. r \in R /\ q \in R /\ r.runs = f /\ q.runs = g
  BY DEF Row
<1> HIDE DEF R, r, q
<1>2. /\ <<r>> \in Seq(R) /\ Len(<<r>>) = 1
      /\ <<r, q>> \in Seq(R) /\ Len(<<r, q>>) = 2 /\ <<r, q>>[1] = r /\ <<r, q>>[2] = q
  BY <1>1
<1> QED BY <1>1, <1>2 DEF Rows, r, q, R

Known(p) ==
  /\ p.rows \in Rows /\ Len(p.rows) \in {1, 2}
  /\ p.scale \in {1, 8} /\ p.unit \in Labels

LEMMA KnownBytes ==
  ASSUME NEW k, NEW f, NEW r \in Rows, Len(r) \in {1, 2}
  PROVE  /\ Known(Bytes(k, f, r)) /\ Known([Bytes(k, f, r) EXCEPT !.scale = 8])
         /\ Known([Bytes(k, f, r) EXCEPT !.unit = "32bit_elems"])
         /\ Known([Bytes(k, f, r) EXCEPT !.verifies = TRUE])
<1> DEFINE p == Bytes(k, f, r)
<1>1. "bytes" \in Labels /\ "32bit_elems" \in Labels
  BY DEF Labels
<1>2. p.rows = r /\ p.scale = 1 /\ p.unit = "bytes"
  BY DEF Bytes
<1>3. Known(p)
  BY <1>1, <1>2 DEF Known
<1>4. LET q == [p EXCEPT !.scale = 8] IN q.rows = r /\ q.scale = 8 /\ q.unit = "bytes"
  BY DEF Bytes
<1>5. LET q == [p EXCEPT !.unit = "32bit_elems"]
      IN q.rows = r /\ q.scale = 1 /\ q.unit = "32bit_elems"
  BY DEF Bytes
<1>6. LET q == [p EXCEPT !.verifies = TRUE] IN q.rows = r /\ q.scale = 1 /\ q.unit = "bytes"
  BY DEF Bytes
<1> HIDE DEF p
<1> QED BY <1>1, <1>3, <1>4, <1>5, <1>6 DEF Known, p

LEMMA ProgramFacts == ASSUME NEW p \in Programs PROVE Known(p)
<1>1. CASE p = bench_aes_ctr
  <2>1. "AES128::ctr_stream" \in Timed /\ "aes128_ctr" \in Labels
    BY DEF Labels, Timed
  <2>2. <<Row("aes128_ctr", "AES128::ctr_stream")>> \in Rows /\ Len(<<Row("aes128_ctr", "AES128::ctr_stream")>>) \in {1, 2}
    BY <2>1, RowFacts
  <2> QED BY <1>1, <2>2, KnownBytes DEF bench_aes_ctr
<1>2. CASE p = bench_aes_encdec
  <2>1. "AES128::enc" \in Timed /\ "aes128enc" \in Labels
    BY DEF Labels, Timed
  <2>2. <<Row("aes128enc", "AES128::enc")>> \in Rows /\ Len(<<Row("aes128enc", "AES128::enc")>>) \in {1, 2}
    BY <2>1, RowFacts
  <2> QED BY <1>2, <2>2, KnownBytes DEF bench_aes_encdec
<1>3. CASE p = bench_aes_encdec_debug
  <2>1. "AES128::dec" \in Timed /\ "AES128::enc" \in Timed /\ "aes128dec" \in Labels /\ "aes128enc" \in Labels
    BY DEF Labels, Timed
  <2>2. <<Row("aes128enc", "AES128::enc"), Row("aes128dec", "AES128::dec")>> \in Rows /\ Len(<<Row("aes128enc", "AES128::enc"), Row("aes128dec", "AES128::dec")>>) \in {1, 2}
    BY <2>1, RowFacts
  <2> QED BY <1>3, <2>2, KnownBytes DEF bench_aes_encdec_debug
<1>4. CASE p = bench_aesmmo
  <2>1. "MMO128" \in Timed /\ "aes128mmo" \in Labels
    BY DEF Labels, Timed
  <2>2. <<Row("aes128mmo", "MMO128")>> \in Rows /\ Len(<<Row("aes128mmo", "MMO128")>>) \in {1, 2}
    BY <2>1, RowFacts
  <2> QED BY <1>4, <2>2, KnownBytes DEF bench_aesmmo
<1>5. CASE p = bench_aesprf
  <2>1. "MMO128" \in Timed /\ "aes128prf" \in Labels
    BY DEF Labels, Timed
  <2>2. <<Row("aes128prf", "MMO128")>> \in Rows /\ Len(<<Row("aes128prf", "MMO128")>>) \in {1, 2}
    BY <2>1, RowFacts
  <2> QED BY <1>5, <2>2, KnownBytes DEF bench_aesprf
<1>6. CASE p = bench_aesprf_ctr
  <2>1. "AESPRF128::ctr_stream" \in Timed /\ "aes128prf_ctr" \in Labels
    BY DEF Labels, Timed
  <2>2. <<Row("aes128prf_ctr", "AESPRF128::ctr_stream")>> \in Rows /\ Len(<<Row("aes128prf_ctr", "AESPRF128::ctr_stream")>>) \in {1, 2}
    BY <2>1, RowFacts
  <2> QED BY <1>6, <2>2, KnownBytes DEF bench_aesprf_ctr
<1>7. CASE p = bench_dev_urandom
  <2>1. "/dev/urandom" \in Labels /\ "rng_global" \in Timed
    BY DEF Labels, Timed
  <2>2. <<Row("/dev/urandom", "rng_global")>> \in Rows /\ Len(<<Row("/dev/urandom", "rng_global")>>) \in {1, 2}
    BY <2>1, RowFacts
  <2> QED BY <1>7, <2>2, KnownBytes DEF bench_dev_urandom
<1>8. CASE p = bench_randen
  <2>1. "Randen" \in Timed /\ "randen" \in Labels
    BY DEF Labels, Timed
  <2>2. <<Row("randen", "Randen")>> \in Rows /\ Len(<<Row("randen", "Randen")>>) \in {1, 2}
    BY <2>1, RowFacts
  <2> QED BY <1>8, <2>2, KnownBytes DEF bench_randen
<1>9. CASE p = bench_rdrand
  <2>1. "rdrand" \in Labels /\ "rdrand" \in Timed
    BY DEF Labels, Timed
  <2>2. <<Row("rdrand", "rdrand")>> \in Rows /\ Len(<<Row("rdrand", "rdrand")>>) \in {1, 2}
    BY <2>1, RowFacts
  <2> QED BY <1>9, <2>2, KnownBytes DEF bench_rdrand
<1>10. CASE p = bench_shuffle_rs
  <2>1. "shuffle_RS" \in Timed /\ "shuffle_rs_dev-urandom" \in Labels
    BY DEF Labels, Timed
  <2>2. <<Row("shuffle_rs_dev-urandom", "shuffle_RS")>> \in Rows /\ Len(<<Row("shuffle_rs_dev-urandom", "shuffle_RS")>>) \in {1, 2}
    BY <2>1, RowFacts
  <2> QED BY <1>10, <2>2, KnownBytes DEF bench_shuffle_rs
<1> QED
  BY <1>1, <1>2, <1>3, <1>4, <1>5, <1>6, <1>7, <1>8, <1>9, <1>10 DEF Programs

LEMMA DebugFacts ==
  ASSUME NEW p \in Programs, p.verifies
  PROVE  /\ p.scale = 1 /\ p.fresh /\ Len(p.rows) = 2
         /\ p.rows[1].runs = "AES128::enc" /\ p.rows[2].runs = "AES128::dec"
<1>1. CASE p = bench_aes_encdec_debug
  <2> DEFINE r == <<Row("aes128enc", "AES128::enc"), Row("aes128dec", "AES128::dec")>>
  <2>1. Len(r) = 2 /\ r[1].runs = "AES128::enc" /\ r[2].runs = "AES128::dec"
    BY DEF Row
  <2>2. p = [Bytes(TRUE, TRUE, r) EXCEPT !.verifies = TRUE]
    BY <1>1 DEF bench_aes_encdec_debug
  <2> HIDE DEF r
  <2>3. p.rows = r /\ p.scale = 1 /\ p.fresh = TRUE
    BY <2>2 DEF Bytes
  <2> QED BY <2>1, <2>3
<1>2. CASE p # bench_aes_encdec_debug
  <2>1. p.verifies = FALSE
    BY <1>2 DEF Programs, Bytes, bench_aes_ctr, bench_aes_encdec, bench_aesmmo, bench_aesprf,
                bench_aesprf_ctr, bench_dev_urandom, bench_randen, bench_rdrand, bench_shuffle_rs
  <2> QED BY <2>1
<1> QED BY <1>1, <1>2

LEMMA LabelFacts ==
  ASSUME NEW p \in Programs, NEW k \in 1 .. Len(p.rows)
  PROVE  p.rows[k].label \in Labels
<1> DEFINE rows == p.rows
           T == [label : Labels, runs : Timed]
<1>1. rows \in Seq(T)
  BY ProgramFacts DEF Known, Rows
<1> HIDE DEF rows, T
<1>2. ASSUME NEW m \in 1 .. Len(rows) PROVE rows[m].label \in Labels
  <2>1. rows[m] \in T
    BY <1>1
  <2> QED BY <2>1 DEF T
<1> QED BY <1>2 DEF rows

LEMMA BytesFacts ==
  ASSUME ThroughputNumbers
  PROVE  /\ bytes \in Nat /\ (2 * current) * program.scale = 2 * bytes
         /\ More <=> bytes <= stop_byte_size
         /\ start \in Nat /\ start * program.scale = start_byte_size
<1>1. program.scale \in {1, 8} /\ current \in Nat
  BY ProgramFacts DEF ThroughputNumbers, Known
<1>2. start_byte_size \in Nat /\ (start_byte_size % 16) = 0 /\ stop_byte_size \in Nat
  BY ThroughputAssumption
<1>3. CASE program.scale = 1
  BY <1>1, <1>2, <1>3 DEF bytes, More, stop, start
<1>4. CASE program.scale = 8
  BY <1>1, <1>2, <1>4 DEF bytes, More, stop, start
<1> QED BY <1>1, <1>3, <1>4

LEMMA TableKept ==
  ASSUME TableInv, UNCHANGED <<program, lines>>
  PROVE  TableInv'
<1>1. \A n : Line(n)' = Line(n)
  BY DEF Line, NumRows
<1> QED BY <1>1 DEF TableInv

LEMMA ThroughputInits == ASSUME Init PROVE ThroughputInv
<1>1. /\ program \in Programs /\ current = start /\ row = 1 /\ called = {} /\ header = FALSE
      /\ lines = <<>> /\ pc = "start"
      /\ buff = [size |-> 0, data |-> 0] /\ enc_buff = buff /\ dec_buff = buff
  BY DEF Init
<1>2. program.scale \in {1, 8} /\ Len(program.rows) \in {1, 2}
  BY <1>1, ProgramFacts DEF Known
<1>3. start_byte_size \in Nat /\ (start_byte_size % 16) = 0
  BY ThroughputAssumption
<1>4. start \in Nat /\ start * program.scale = start_byte_size
  <2>1. CASE program.scale = 1
    BY <1>3, <2>1 DEF start
  <2>2. CASE program.scale = 8
    BY <1>3, <2>2 DEF start
  <2> QED BY <1>2, <2>1, <2>2
<1>5. ThroughputNumbers
  <2>1. lines \in Seq(Printed) /\ row \in 1 .. NumRows
    BY <1>1, <1>2 DEF NumRows
  <2> QED BY <1>1, <1>4, <2>1 DEF ThroughputNumbers, Buffer
<1>6. HeaderInv
  BY <1>1 DEF HeaderInv
<1>7. LinesInv
  BY <1>1, <1>4 DEF LinesInv, bytes, reported
<1>8. TableInv
  BY <1>1 DEF TableInv
<1>9. DecryptInv
  <2>1. ASSUME program.verifies PROVE (current % 16) = 0
    <3>1. program.scale = 1
      BY <1>1, <2>1, DebugFacts
    <3> QED BY <1>1, <1>3, <3>1 DEF start
  <2> QED BY <1>1, <2>1 DEF DecryptInv
<1> QED BY <1>5, <1>6, <1>7, <1>8, <1>9 DEF ThroughputInv

(* The steps that only move on or stop.                                     *)
LEMMA QuietSteps ==
  ASSUME ThroughputInv,
         DeviceFails \/ GenKey \/ Throws \/ MeasureForEver \/ TryAgain \/ Exit
  PROVE  ThroughputInv'
<1>1. UNCHANGED <<program, current, row, called, header, lines, buff, enc_buff, dec_buff>>
  BY DEF DeviceFails, GenKey, Throws, MeasureForEver, TryAgain, Exit, flags, buffers
<1>2. \/ pc' = pc
      \/ pc = "start" /\ pc' = "resize"
      \/ pc' = "terminated" \/ pc' = "hung"
      \/ pc = "report" /\ pc' = "measure"
      \/ pc = "resize" /\ pc' = "done" /\ ~More
  BY DEF DeviceFails, GenKey, Throws, MeasureForEver, TryAgain, Exit
<1>3. ThroughputNumbers /\ HeaderInv /\ LinesInv /\ TableInv /\ DecryptInv
  BY DEF ThroughputInv
<1>4. bytes' = bytes /\ NumRows' = NumRows /\ bytes \in Nat
      /\ (~More => bytes > stop_byte_size) /\ stop_byte_size \in Nat
  BY <1>1, <1>3, BytesFacts, ThroughputAssumption DEF bytes, NumRows
<1>5. ThroughputNumbers'
  BY <1>1, <1>3, <1>4 DEF ThroughputNumbers
<1>6. HeaderInv'
  BY <1>1, <1>2, <1>3 DEF HeaderInv
<1>7. reported' = reported \/ pc' \in {"terminated", "hung"}
  BY <1>1, <1>2, <1>4 DEF reported
<1>8. LinesInv'
  BY <1>1, <1>2, <1>3, <1>4, <1>7 DEF LinesInv
<1>9. TableInv'
  BY <1>1, <1>3, TableKept
<1>10. DecryptInv'
  BY <1>1, <1>2, <1>3 DEF DecryptInv
<1> QED BY <1>5, <1>6, <1>8, <1>9, <1>10 DEF ThroughputInv

LEMMA ResizeStep == ASSUME ThroughputInv, Resize PROVE ThroughputInv'
<1>1. /\ pc = "resize" /\ More /\ row' = 1 /\ pc' = "enter"
      /\ buff' = [size |-> current, data |-> IF program.fresh THEN current ELSE 0]
      /\ enc_buff' = [enc_buff EXCEPT !.size = current]
      /\ UNCHANGED <<program, current, called, header, lines, dec_buff>>
  BY DEF Resize, flags, Resized
<1>2. ThroughputNumbers /\ HeaderInv /\ LinesInv /\ TableInv /\ DecryptInv
  BY DEF ThroughputInv
<1>3. bytes' = bytes /\ NumRows' = NumRows /\ bytes <= stop_byte_size
  BY <1>1, <1>2, BytesFacts DEF bytes, NumRows
<1>4. NumRows \in {1, 2}
  BY <1>2, ProgramFacts DEF ThroughputNumbers, NumRows, Known
<1>5. ThroughputNumbers'
  BY <1>1, <1>2, <1>3, <1>4 DEF ThroughputNumbers, Buffer
<1>6. HeaderInv'
  BY <1>1, <1>2 DEF HeaderInv
<1>7. reported = 0 /\ reported' = 0
  BY <1>1 DEF reported
<1>8. LinesInv'
  BY <1>1, <1>2, <1>3, <1>7 DEF LinesInv
<1>9. TableInv'
  BY <1>1, <1>2, TableKept
<1>10. DecryptInv'
  <2> SUFFICES ASSUME program.verifies PROVE DecryptInv'
    BY <1>1 DEF DecryptInv
  <2>1. program.fresh = TRUE \/ program.fresh
    BY <1>2, DebugFacts DEF ThroughputNumbers
  <2>2. buff' = [size |-> current, data |-> current] /\ enc_buff'.size = current
    BY <1>1, <1>2, <2>1 DEF ThroughputNumbers, Buffer
  <2> QED BY <1>1, <1>2, <2>2 DEF DecryptInv
<1> QED BY <1>5, <1>6, <1>8, <1>9, <1>10 DEF ThroughputInv

(* A header is printed before the first line, and only there.               *)
LEMMA EnterStep == ASSUME ThroughputInv, Enter PROVE ThroughputInv'
<1>1. /\ pc = "enter" /\ pc' = "measure" /\ header' = TRUE
      /\ dec_buff' = IF runs = "AES128::dec" THEN Resized(dec_buff) ELSE dec_buff
      /\ UNCHANGED <<program, current, row, buff, enc_buff>>
  BY DEF Enter
<1>2. ThroughputNumbers /\ HeaderInv /\ LinesInv /\ TableInv /\ DecryptInv
  BY DEF ThroughputInv
<1>3. bytes' = bytes /\ NumRows' = NumRows
  BY <1>1 DEF bytes, NumRows
<1>4. reported' = reported /\ reported = row - 1 /\ row \in Nat /\ row >= 1
  BY <1>1, <1>2, ProgramFacts DEF reported, ThroughputNumbers, NumRows, Known
<1>5. dec_buff' \in Buffer
  BY <1>1, <1>2 DEF ThroughputNumbers, Buffer, Resized
<1>6. DecryptInv'
  <2> SUFFICES ASSUME program.verifies PROVE DecryptInv'
    BY <1>1 DEF DecryptInv
  <2>1. row = 2 => runs = "AES128::dec"
    BY <1>2, DebugFacts DEF ThroughputNumbers, runs
  <2>2. row = 2 => dec_buff'.size = current
    BY <1>1, <1>2, <2>1 DEF ThroughputNumbers, Buffer, Resized
  <2> QED BY <1>1, <1>2, <2>2 DEF DecryptInv
<1>7. CASE header
  <2>1. lines' = lines /\ lines # <<>>
    BY <1>2, <1>7 DEF Enter, NeedsHeader, HeaderInv
  <2>2. ThroughputNumbers'
    BY <1>1, <1>2, <1>3, <1>5, <2>1 DEF ThroughputNumbers
  <2>3. HeaderInv'
    BY <1>1, <2>1 DEF HeaderInv
  <2>4. LinesInv'
    BY <1>1, <1>2, <1>3, <1>4, <2>1 DEF LinesInv
  <2>5. TableInv'
    BY <1>1, <1>2, <2>1, TableKept
  <2> QED BY <1>6, <2>2, <2>3, <2>4, <2>5 DEF ThroughputInv
<1>8. CASE ~header
  <2> DEFINE first == [label |-> program.unit, num |-> 0]
  <2>1. lines = <<>> /\ NeedsHeader
    BY <1>2, <1>8 DEF HeaderInv, NeedsHeader
  <2>2. lines' = Append(lines, first)
    BY <2>1 DEF Enter
  <2>3. first \in Printed
    BY <1>2, ProgramFacts DEF ThroughputNumbers, Printed, Known
  <2>4. bytes = start_byte_size /\ reported = 0 /\ bytes <= stop_byte_size
    BY <1>1, <2>1, <1>2 DEF LinesInv
  <2>5. Line(1)' = first /\ first.num <= stop_byte_size
    BY <1>1, ThroughputAssumption DEF Line
  <2> HIDE DEF first
  <2>6. lines' \in Seq(Printed) /\ Len(lines') = 1 /\ lines'[1] = first /\ lines' # <<>>
    BY <2>1, <2>2, <2>3
  <2>7. ThroughputNumbers'
    BY <1>1, <1>2, <1>3, <1>5, <2>6 DEF ThroughputNumbers
  <2>8. HeaderInv'
    BY <1>1, <2>6 DEF HeaderInv
  <2>9. LinesAt(program.rows, lines', 1, bytes)
    BY <2>4, <2>6 DEF LinesAt
  <2>10. LinesInv'
    <3>1. Len(lines') - reported' = 1
      BY <1>4, <2>4, <2>6
    <3> QED BY <1>1, <1>3, <1>4, <2>4, <2>6, <2>9, <3>1 DEF LinesInv
  <2>11. TableInv'
    BY <2>5, <2>6 DEF TableInv
  <2> QED BY <1>6, <2>7, <2>8, <2>10, <2>11 DEF ThroughputInv
<1> QED BY <1>2, <1>7, <1>8 DEF HeaderInv

LEMMA MeasureStep == ASSUME ThroughputInv, Measure PROVE ThroughputInv'
<1>1. /\ pc = "measure" /\ pc' = "report"
      /\ enc_buff' = IF runs = "AES128::enc" THEN Filled(enc_buff, buff.data) ELSE enc_buff
      /\ dec_buff' = IF runs = "AES128::dec" THEN Filled(dec_buff, enc_buff.data) ELSE dec_buff
      /\ UNCHANGED <<program, current, row, called, header, lines, buff>>
  BY DEF Measure, Decrypted, flags
<1>2. ThroughputNumbers /\ HeaderInv /\ LinesInv /\ TableInv /\ DecryptInv
  BY DEF ThroughputInv
<1>3. bytes' = bytes /\ NumRows' = NumRows
  BY <1>1 DEF bytes, NumRows
<1>4. ThroughputNumbers'
  <2>1. enc_buff' \in Buffer
    BY <1>1, <1>2 DEF ThroughputNumbers, Buffer, Filled
  <2>2. dec_buff' \in Buffer
    BY <1>1, <1>2 DEF ThroughputNumbers, Buffer, Filled
  <2> QED BY <1>1, <1>2, <1>3, <2>1, <2>2 DEF ThroughputNumbers
<1>5. HeaderInv'
  BY <1>1, <1>2 DEF HeaderInv
<1>6. reported' = reported
  BY <1>1 DEF reported
<1>7. LinesInv'
  BY <1>1, <1>2, <1>3, <1>6 DEF LinesInv
<1>8. TableInv'
  BY <1>1, <1>2, TableKept
<1>9. DecryptInv'
  <2> SUFFICES ASSUME program.verifies PROVE DecryptInv'
    BY <1>1 DEF DecryptInv
  <2>1. /\ (current % 16) = 0 /\ buff = [size |-> current, data |-> current]
        /\ enc_buff.size = current
        /\ row = 2 => enc_buff = buff /\ dec_buff.size = current
    BY <1>1, <1>2 DEF DecryptInv
  <2>2. /\ row = 1 => runs = "AES128::enc"
        /\ row = 2 => runs = "AES128::dec"
        /\ row \in {1, 2}
    <3>1. Len(program.rows) = 2 /\ row \in 1 .. 2
      BY <1>2, DebugFacts DEF ThroughputNumbers, NumRows
    <3>2. row = 1 \/ row = 2
      BY <3>1
    <3>3. program.rows[1].runs = "AES128::enc" /\ program.rows[2].runs = "AES128::dec"
      BY <1>2, DebugFacts DEF ThroughputNumbers
    <3> QED BY <3>2, <3>3 DEF runs
  <2>3. enc_buff \in Buffer /\ dec_buff \in Buffer
    BY <1>2 DEF ThroughputNumbers
  <2>4. CASE row = 1
    <3>1. enc_buff' = Filled(enc_buff, current) /\ dec_buff' = dec_buff
      BY <1>1, <2>1, <2>2, <2>4
    <3>2. enc_buff' = buff
      BY <2>1, <2>3, <3>1 DEF Filled, Buffer
    <3> QED BY <1>1, <2>1, <2>4, <3>2 DEF DecryptInv
  <2>5. CASE row = 2
    <3>1. dec_buff' = Filled(dec_buff, current) /\ enc_buff' = enc_buff /\ enc_buff = buff
      BY <1>1, <2>1, <2>2, <2>5
    <3>2. dec_buff' = buff
      BY <2>1, <2>3, <2>5, <3>1 DEF Filled, Buffer
    <3> QED BY <1>1, <2>1, <3>1, <3>2 DEF DecryptInv
  <2> QED BY <2>2, <2>4, <2>5
<1> QED BY <1>4, <1>5, <1>7, <1>8, <1>9 DEF ThroughputInv

(* All lines of a size are printed: they are those of half the next size.   *)
LEMMA DoubleStep == ASSUME ThroughputInv, Double PROVE ThroughputInv'
<1>1. /\ pc = "verify" /\ pc' = "resize" /\ current' = 2 * current
      /\ UNCHANGED <<program, row, called, header, lines, buff, enc_buff, dec_buff>>
  BY DEF Double, flags, buffers
<1>2. ThroughputNumbers /\ HeaderInv /\ LinesInv /\ TableInv /\ DecryptInv
  BY DEF ThroughputInv
<1>3. NumRows' = NumRows /\ NumRows \in {1, 2} /\ NumRows = Len(program.rows)
  BY <1>1, <1>2, ProgramFacts DEF NumRows, Known, ThroughputNumbers
<1>4. bytes' = 2 * bytes /\ bytes \in Nat
  BY <1>1, <1>2, BytesFacts DEF bytes
<1>5. ThroughputNumbers'
  BY <1>1, <1>2, <1>3 DEF ThroughputNumbers
<1>6. HeaderInv'
  BY <1>1, <1>2 DEF HeaderInv
<1>7. reported = NumRows /\ reported' = 0
  BY <1>1, <1>3 DEF reported
<1>8. lines # <<>> /\ LinesAt(program.rows, lines, Len(lines) - NumRows, bytes)
  BY <1>1, <1>2, <1>7 DEF HeaderInv, LinesInv
<1>9. LinesAt(program.rows, lines, Len(lines), 2 * bytes)
  <2> DEFINE n == Len(lines)
             b == n - NumRows
  <2>1. n \in Nat /\ b \in Int /\ n - b = NumRows /\ n - NumRows = b /\ b + NumRows = n
    BY <1>2, <1>3 DEF ThroughputNumbers
  <2>2. /\ \A k \in 1 .. n - b : lines[b + k] = [label |-> program.rows[k].label, num |-> bytes]
        /\ b = 1 \/ b >= NumRows + 1
    BY <1>3, <1>8 DEF LinesAt
  <2> HIDE DEF n, b
  <2>3. n >= NumRows + 1
    BY <1>3, <2>1, <2>2
  <2>4. ASSUME NEW k \in 1 .. NumRows
        PROVE  lines[n - NumRows + k].label = program.rows[k].label
               /\ 2 * lines[n - NumRows + k].num = 2 * bytes
    <3>1. k \in 1 .. n - b /\ n - NumRows + k = b + k
      BY <2>1, Zenon
    <3>2. lines[b + k] = [label |-> program.rows[k].label, num |-> bytes]
      BY <2>2, <3>1
    <3> QED BY <3>1, <3>2
  <2>5. \A k \in 1 .. n - n : FALSE
    BY <2>1
  <2> QED BY <1>3, <2>3, <2>4, <2>5 DEF LinesAt, n
<1>10. LinesInv'
  <2>1. Len(lines) - 0 = Len(lines)
    BY <1>2 DEF ThroughputNumbers
  <2> QED BY <1>1, <1>4, <1>7, <1>8, <1>9, <2>1 DEF LinesInv
<1>11. TableInv'
  BY <1>1, <1>2, TableKept
<1>12. DecryptInv'
  <2>1. (current % 16) = 0 => ((2 * current) % 16) = 0
    BY <1>2 DEF ThroughputNumbers
  <2> QED BY <1>1, <1>2, <2>1 DEF DecryptInv
<1> QED BY <1>5, <1>6, <1>10, <1>11, <1>12 DEF ThroughputInv

(* The line that is printed is the next of the table.                       *)
LEMMA ReportStep == ASSUME ThroughputInv, Report PROVE ThroughputInv'
<1> DEFINE n == Len(lines)
           R == Len(program.rows)
           b == n - reported
           new == [label |-> program.rows[row].label, num |-> bytes]
<1>1. /\ pc = "report" /\ lines' = Append(lines, new)
      /\ \/ row < NumRows /\ row' = row + 1 /\ pc' = "enter"
         \/ ~(row < NumRows) /\ row' = row /\ pc' = "verify"
      /\ UNCHANGED <<program, current, called, header, buff, enc_buff, dec_buff>>
  BY DEF Report, flags, buffers, NumRows, bytes, label
<1>2. ThroughputNumbers /\ HeaderInv /\ LinesInv /\ TableInv /\ DecryptInv
  BY DEF ThroughputInv
<1>3. bytes' = bytes /\ NumRows' = NumRows /\ NumRows = R /\ bytes \in Nat
      /\ R \in {1, 2} /\ row \in 1 .. R /\ program.rows \in Rows
  BY <1>1, <1>2, BytesFacts, ProgramFacts DEF bytes, NumRows, Known, ThroughputNumbers
<1>4. reported = row - 1 /\ reported' = row
  BY <1>1, <1>3 DEF reported
<1>5. lines \in Seq(Printed) /\ lines # <<>> /\ bytes <= stop_byte_size
      /\ LinesAt(program.rows, lines, b, bytes)
  BY <1>1, <1>2 DEF HeaderInv, LinesInv, ThroughputNumbers
<1>6. new \in Printed
  <2>1. program.rows[row].label \in Labels
    BY <1>2, <1>3, LabelFacts DEF ThroughputNumbers
  <2> QED BY <1>3, <2>1 DEF Printed
<1> HIDE DEF new
<1>7. /\ lines' \in Seq(Printed) /\ Len(lines') = n + 1 /\ n \in Nat /\ lines' # <<>>
      /\ lines'[n + 1] = new /\ \A m \in 1 .. n : lines'[m] = lines[m]
  BY <1>1, <1>5, <1>6
<1> HIDE DEF n, R
<1>8. b \in Int /\ (n + 1) - reported' = b /\ n + 1 = b + row /\ (n + 1) - b = row
  BY <1>3, <1>4, <1>7
<1>9. /\ \A k \in 1 .. n - b : lines[b + k] = [label |-> program.rows[k].label, num |-> bytes]
      /\ \/ b = 1 /\ bytes = start_byte_size
         \/ b >= R + 1
            /\ \A k \in 1 .. R :
                 /\ lines[b - R + k].label = program.rows[k].label
                 /\ 2 * lines[b - R + k].num = bytes
  BY <1>5 DEF LinesAt, n, R
<1> HIDE DEF b
<1>10. ThroughputNumbers'
  <2>1. row' \in 1 .. NumRows
    BY <1>1, <1>3
  <2> QED BY <1>1, <1>2, <1>3, <1>7, <2>1 DEF ThroughputNumbers
<1>11. HeaderInv'
  BY <1>1, <1>2, <1>7 DEF HeaderInv
<1>12. LinesAt(program.rows, lines', b, bytes)
  <2>1. ASSUME NEW k \in 1 .. (n + 1) - b
        PROVE  lines'[b + k] = [label |-> program.rows[k].label, num |-> bytes]
    <3>1. CASE k = row
      BY <1>7, <1>8, <3>1 DEF new
    <3>2. CASE k # row
      <4>1. k \in 1 .. n - b /\ b + k \in 1 .. n
        BY <1>3, <1>7, <1>8, <1>9, <2>1, <3>2
      <4> QED BY <1>7, <1>9, <4>1
    <3> QED BY <3>1, <3>2
  <2>2. ASSUME b >= R + 1, NEW k \in 1 .. R
        PROVE  lines'[b - R + k] = lines[b - R + k]
    <3>1. b - R + k \in 1 .. n
      BY <1>3, <1>7, <1>8, <2>2
    <3> QED BY <1>7, <3>1
  <2>3. \A k \in 1 .. Len(lines') - b :
          lines'[b + k] = [label |-> program.rows[k].label, num |-> bytes]
    <3>1. Len(lines') = n + 1
      BY <1>7
    <3> QED BY <2>1, <3>1
  <2> QED BY <1>9, <2>2, <2>3 DEF LinesAt, R
<1>13. LinesInv'
  <2>1. Len(lines') - reported' = b
    <3>1. Len(lines') = n + 1
      BY <1>7
    <3> QED BY <1>8, <3>1
  <2>2. pc' = "verify" => row' = NumRows
    BY <1>1, <1>3
  <2> QED BY <1>1, <1>3, <1>5, <1>7, <1>12, <2>1, <2>2 DEF LinesInv
<1>14. ASSUME NEW m, m = n + 1 PROVE Line(m)' = new
  <2>1. CASE b = 1 /\ bytes = start_byte_size
    <3>1. m # 1 /\ m \in 2 .. R + 1 /\ m - 1 = row
      BY <1>3, <1>7, <1>8, <1>14, <2>1
    <3> QED BY <1>1, <1>3, <2>1, <3>1 DEF Line, new
  <2>2. CASE b >= R + 1
    <3> DEFINE h == m - R
    <3>1. m # 1 /\ m \notin 2 .. R + 1 /\ h = b - R + row /\ h \in 1 .. n
      BY <1>3, <1>7, <1>8, <1>14, <2>2
    <3>2. Line(m)' = [lines'[h] EXCEPT !.num = 2 * @]
      BY <1>1, <1>3, <3>1 DEF Line
    <3>3. lines'[h] = lines[h] /\ lines[h] \in Printed
      <4>1. h \in 1 .. n /\ n = Len(lines)
        BY <3>1 DEF n
      <4> HIDE DEF h
      <4> QED BY <1>5, <1>7, <4>1
    <3>4. lines[h].label = program.rows[row].label /\ 2 * lines[h].num = bytes
      <4>1. row \in 1 .. R /\ ~(b = 1)
        BY <1>3, <1>8, <2>2
      <4>2. lines[b - R + row].label = program.rows[row].label /\ 2 * lines[b - R + row].num = bytes
        BY <1>9, <2>2, <4>1
      <4> QED BY <3>1, <4>2
    <3> HIDE DEF h
    <3> QED BY <3>2, <3>3, <3>4 DEF Printed, new
  <2> QED BY <1>9, <2>1, <2>2
<1>15. TableInv'
  <2>1. ASSUME NEW m \in 1 .. n PROVE Line(m)' = Line(m)
    <3>1. CASE m = 1 \/ m \in 2 .. R + 1
      BY <1>1, <1>3, <3>1 DEF Line
    <3>2. CASE m # 1 /\ m \notin 2 .. R + 1
      <4>1. m - R \in 1 .. n
        BY <1>3, <1>7, <3>2
      <4> QED BY <1>1, <1>3, <1>7, <3>2, <4>1 DEF Line
    <3> QED BY <3>1, <3>2
  <2>2. ASSUME NEW m \in 1 .. n + 1
        PROVE  lines'[m] = Line(m)' /\ lines'[m].num <= stop_byte_size
    <3>1. CASE m = n + 1
      <4>1. lines'[m] = new /\ Line(m)' = new
        BY <1>7, <1>14, <3>1
      <4> QED BY <1>5, <4>1 DEF new
    <3>2. CASE m # n + 1
      <4>1. m \in 1 .. n
        BY <1>7, <3>2
      <4> QED BY <1>2, <1>7, <2>1, <4>1 DEF TableInv, n
    <3> QED BY <3>1, <3>2
  <2> QED BY <1>7, <2>2 DEF TableInv
<1>16. DecryptInv'
  <2> SUFFICES ASSUME program.verifies PROVE DecryptInv'
    BY <1>1 DEF DecryptInv
  <2>1. NumRows = 2 /\ row \in 1 .. 2
    BY <1>2, DebugFacts DEF ThroughputNumbers, NumRows
  <2>2. CASE row = 1
    <3>1. row' = 2 /\ pc' = "enter"
      BY <1>1, <2>1, <2>2
    <3> QED BY <1>1, <1>2, <3>1 DEF DecryptInv
  <2>3. CASE row = 2
    <3>1. row' = 2 /\ pc' = "verify"
      BY <1>1, <2>1, <2>3
    <3> QED BY <1>1, <1>2, <2>3, <3>1 DEF DecryptInv
  <2> QED BY <2>1, <2>2, <2>3
<1> QED BY <1>10, <1>11, <1>13, <1>15, <1>16 DEF ThroughputInv

THEOREM ThroughputInductive == Spec => []ThroughputInv
<1>1. ThroughputInv /\ [Next]_vars => ThroughputInv'
  <2> SUFFICES ASSUME ThroughputInv, [Next]_vars PROVE ThroughputInv'
    OBVIOUS
  <2>1. CASE UNCHANGED vars
    BY <2>1 DEF vars, flags, buffers, ThroughputInv, ThroughputNumbers, HeaderInv, LinesInv,
                TableInv, DecryptInv, Line, NumRows, bytes, reported
  <2> QED BY <2>1, QuietSteps, ResizeStep, EnterStep, MeasureStep, DoubleStep, ReportStep
          DEF Next, Step
<1> QED BY <1>1, ThroughputInits, PTL DEF Spec

(* Whatever the sizes, the unit of the clock and the speed of the function: *)
(* each program prints the beginning of its table, and all of it if it runs *)
(* to its end.                                                              *)
THEOREM PrintsTable == Spec => []TableInOrder
<1>1. ASSUME ThroughputInv PROVE TableInOrder
  <2>1. ThroughputNumbers /\ LinesInv /\ TableInv
    BY <1>1 DEF ThroughputInv
  <2> SUFFICES ASSUME pc = "done", lines # <<>>
               PROVE  Line(Len(lines) + 1).num > stop_byte_size
    <3>1. pc = "done" /\ lines = <<>> => bytes = start_byte_size /\ bytes > stop_byte_size
      BY <2>1 DEF LinesInv
    <3> QED BY <2>1, <3>1 DEF TableInOrder, TableInv
  <2> DEFINE n == Len(lines)
             R == Len(program.rows)
  <2>2. bytes > stop_byte_size /\ reported = 0
    BY <2>1 DEF LinesInv, reported
  <2>3. n \in Nat /\ R \in {1, 2} /\ NumRows = R
    BY <2>1, ProgramFacts DEF ThroughputNumbers, NumRows, Known
  <2>4. LinesAt(program.rows, lines, n - 0, bytes)
    BY <2>1, <2>2 DEF LinesInv
  <2>5. \/ n - 0 = 1 /\ bytes = start_byte_size
        \/ n - 0 >= R + 1 /\ 2 * lines[n - 0 - R + 1].num = bytes
    <3> HIDE DEF n, R
    <3>1. 1 \in 1 .. R
      BY <2>3
    <3>2. IF n - 0 = 1 THEN bytes = start_byte_size
          ELSE n - 0 >= R + 1 /\ 2 * lines[n - 0 - R + 1].num = bytes
      BY <2>4, <3>1 DEF LinesAt, R
    <3> QED BY <3>2
  <2>6. lines \in Seq(Printed)
    BY <2>1 DEF ThroughputNumbers
  <2> HIDE DEF n, R
  <2>7. CASE n = 1 /\ bytes = start_byte_size
    <3>1. n + 1 # 1 /\ n + 1 \in 2 .. R + 1
      BY <2>3, <2>7
    <3> QED BY <2>2, <2>3, <2>7, <3>1 DEF Line, n
  <2>8. CASE n >= R + 1 /\ 2 * lines[n - R + 1].num = bytes
    <3> DEFINE h == n + 1 - R
    <3>1. n + 1 # 1 /\ n + 1 \notin 2 .. R + 1 /\ h = n - R + 1 /\ h \in 1 .. n /\ n \in 1 .. n
      BY <2>3, <2>8
    <3>2. Line(n + 1) = [lines[h] EXCEPT !.num = 2 * @]
      BY <2>3, <3>1 DEF Line
    <3> HIDE DEF h
    <3>3. lines[h] \in Printed /\ 2 * lines[h].num = bytes
      <4>1. h \in 1 .. Len(lines)
        BY <3>1 DEF n
      <4> QED BY <2>6, <2>8, <3>1, <4>1
    <3>4. Line(n + 1).num = bytes
      BY <3>2, <3>3 DEF Printed
    <3> QED BY <2>2, <3>4 DEF n
  <2>9. n - 0 = n /\ n - 0 - R + 1 = n - R + 1
    BY <2>3
  <2> QED BY <2>5, <2>7, <2>8, <2>9
<1> QED BY <1>1, ThroughputInductive, PTL

(* The assertion of the debug build holds at every size.                    *)
THEOREM BuffersAgree == Spec => []AssertDecrypted
<1>1. ASSUME ThroughputInv PROVE AssertDecrypted
  <2> SUFFICES ASSUME pc = "verify", program.verifies PROVE buff = dec_buff
    BY DEF AssertDecrypted, eq_check
  <2>1. ThroughputNumbers /\ LinesInv /\ DecryptInv
    BY <1>1 DEF ThroughputInv
  <2>2. row = 2
    BY <2>1, DebugFacts DEF LinesInv, ThroughputNumbers, NumRows
  <2> QED BY <2>1, <2>2 DEF DecryptInv
<1> QED BY <1>1, ThroughputInductive, PTL
=============================================================================
