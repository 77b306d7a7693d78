-------------------------- MODULE MC_RandomDevice --------------------------
(***************************************************************************)
(* Two threads and a buffer of three bytes: a key of two bytes may         *)
(* straddle a refill, a request of four bypasses the buffer.               *)
(***************************************************************************)
EXTENDS RandomDevice

MCSizes == {0, 1, 4}
=============================================================================
