--------------------------- MODULE MC_Experiment ---------------------------
(***************************************************************************)
(* A second of two ticks and functions of up to two seconds: six samples   *)
(* reach both limits, and a clock that is set passes them by itself.       *)
(***************************************************************************)
EXTENDS Experiment

MCStepBy == {-9, 9}
=============================================================================
