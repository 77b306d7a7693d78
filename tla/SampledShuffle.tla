--------------------------- MODULE SampledShuffle ---------------------------
(***************************************************************************)
(* The shuffles of shuffle.hpp composed with what they call on a device    *)
(* that may fail: each turn of shuffle_rejection runs                      *)
(* rejection_sample_modulo_n (RejectionSample) draw by draw, and           *)
(* shuffle_rounding draws its words in one request.  FisherYates takes a   *)
(* turn to be one step with any index; this module shows that it may.      *)
(***************************************************************************)
EXTENDS FisherYates

CONSTANTS
  Bits,   \* the width of the integers that are sampled
  Mods    \* the values of mod of callers that do not shuffle

VARIABLES promotes, mod, n, shift, mask, out, good, spc

RS == INSTANCE RejectionSample WITH i <- shift, pc <- spc

ASSUME WidthAssumption ==
  /\ Bits \in {2, 4, 8, 16, 32, 64}
  /\ Mods \subseteq RS!Words \ {0, 1} /\ Sizes \subseteq RS!Words

sample == <<promotes, mod, n, shift, mask, out, good, spc>>
all    == <<vars, sample>>
-----------------------------------------------------------------------------
(* The index type of a shuffle is size_t, which does not promote.           *)
SampledInit ==
  /\ Init /\ RS!Init
  /\ promotes \in BOOLEAN /\ (promotes => size = 0)

CallShuffle == spc = "idle" /\ CallRejection /\ UNCHANGED sample

(* A device that fails leaves zeros in the vector, from some byte on.       *)
CallRounded ==
  /\ spc = "idle" /\ CallRounding
  /\ IF good THEN good' \in BOOLEAN ELSE random_indices' = NoWords /\ UNCHANGED good
  /\ UNCHANGED <<promotes, mod, n, shift, mask, out, spc>>

(* Other users sample integers of any type; there is no array then.         *)
CallSampler ==
  /\ size = 0 /\ pc = "idle"
  /\ \E k \in Mods : RS!Call(k)
  /\ UNCHANGED vars

(* Variant: the index is drawn from the settled part as well.               *)
ModulusAll(k) == size

Modulus(k) == Candidates(k)

CallSample ==
  /\ pc = "loop" /\ method = "rejection" /\ i < size
  /\ RS!Call(Modulus(i))
  /\ UNCHANGED vars

InSample == RS!Inside /\ UNCHANGED vars

(* The sample returns, to a turn of the loop or to its other callers.       *)
SampledTurn   == pc = "loop" /\ RS!Accept /\ Turn(out)
SampleReturns == pc = "idle" /\ RS!Accept /\ UNCHANGED vars

RoundedTurn    == RoundingTurn /\ UNCHANGED sample
ShuffleReturns == Return /\ UNCHANGED sample

Inside == CallSample \/ InSample \/ SampledTurn \/ SampleReturns \/ RoundedTurn \/ ShuffleReturns

SampledNext == CallShuffle \/ CallRounded \/ CallSampler \/ Inside

(* The caller's thread runs on once it is in a function, and a device that  *)
(* works does not answer with rejected words alone: each word is accepted   *)
(* with a probability above one half (AcceptHalf).                          *)
Fairness ==
  /\ WF_all(Inside)
  /\ SF_all(RS!DrawAccepted /\ UNCHANGED vars)

SampledSpec == SampledInit /\ [][SampledNext]_all /\ Fairness
-----------------------------------------------------------------------------
(* The loop over draws is a Fisher-Yates shuffle whose turns are one step   *)
(* each, with an index below the number of candidates, also when the device *)
(* fails within a sample or is tried again after it failed.                 *)
Implements == Spec

(* A shuffle or a sample returns, unless the device failed and a sample was *)
(* rejected: its caller then sits in this one sample for ever, the array    *)
(* half shuffled.  Between two samples nothing can stop a shuffle.          *)
ReturnsOrStuck ==
  <>[](pc = "loop" \/ spc # "idle") => <>[](spc # "idle" /\ ~good)

(* The mask is tight for every modulus, above half of the range too.        *)
AcceptHalf == RS!AcceptHalf

(* The accepted words are uniform below the modulus.                        *)
Unbiased == RS!Unbiased

(* A sample that was rejected after the device failed never ends.           *)
StuckOnceRejected == RS!StuckOnceRejected
=============================================================================
