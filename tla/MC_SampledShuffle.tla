------------------------- MODULE MC_SampledShuffle -------------------------
(***************************************************************************)
(* Arrays of up to four elements, one with distinct elements and one where *)
(* neighbours are equal.  Four words give every index of every turn.       *)
(* Samples are of four bits, with moduli on, below and above powers of two *)
(* and above half of the range, where least2pow wraps.                     *)
(***************************************************************************)
EXTENDS SampledShuffle

MCArrays(s) == {[k \in 0 .. s - 1 |-> k + 5], [k \in 0 .. s - 1 |-> k \div 2]}
MCRndWords == 0 .. 3
=============================================================================
