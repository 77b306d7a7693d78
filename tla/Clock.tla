------------------------------- MODULE Clock --------------------------------
(***************************************************************************)
(* system_clock, by which the harness measures, and under the name of      *)
(* high_resolution_clock, an alias in the standard library the program is  *)
(* built with: it can be set while something is timed.                     *)
(***************************************************************************)
EXTENDS Integers

CONSTANTS
  Delays,   \* how many ticks a function that is timed may take
  StepBy    \* by how much somebody may set the clock

ASSUME ClockAssumption == Delays \subseteq Nat /\ StepBy \subseteq Int

(* duration_cast to a unit of so many ticks rounds towards zero.            *)
duration_cast(t, unit) == IF t >= 0 THEN t \div unit ELSE -((-t) \div unit)
=============================================================================
