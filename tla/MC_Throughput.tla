--------------------------- MODULE MC_Throughput ---------------------------
(***************************************************************************)
(* All programs, with five sizes, functions that take up to two            *)
(* microseconds, and a clock that is set back.                             *)
(***************************************************************************)
EXTENDS Throughput

MCStepBy == {-7}
=============================================================================
