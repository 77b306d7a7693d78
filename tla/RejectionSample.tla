-------------------------- MODULE RejectionSample ---------------------------
(***************************************************************************)
(* rejection_sample_modulo_n of src/include/clt/rng.hpp, with the loop of  *)
(* least2pow that computes its mask and the device the words come from.    *)
(* The answer of the rng is not looked at, so a device that failed leaves  *)
(* out as it was, and a failed stream stays failed.  SampledShuffle makes  *)
(* the calls.                                                              *)
(***************************************************************************)
EXTENDS Integers, FiniteSets

CONSTANT Bits   \* the width of IntType, a power of two

(* 1 << b *)
power[b \in 0 .. Bits] == IF b = 0 THEN 1 ELSE 2 * power[b - 1]

Words == 0 .. power[Bits] - 1

(* The places of the ones of a word *)
Ones(x) == {b \in 0 .. Bits - 1 : (x \div power[b]) % 2 = 1}

(* What the places of a set below each place are worth *)
Sums(B) ==
  LET sum[b \in 0 .. Bits] ==
        IF b = 0 THEN 0 ELSE sum[b - 1] + (IF b - 1 \in B THEN power[b - 1] ELSE 0)
  IN  sum

(* The word with ones at these places *)
WordOf(B) == Sums(B)[Bits]

VARIABLES
  promotes,   \* IntType is narrower than int: n + 1 has more than Bits bits
  mod,
  n, i,    \* the local n of least2pow and the shift of its loop
  mask,
  out,     \* indeterminate until the first draw
  good,    \* the state of the device
  pc       \* "idle", "smear", "draw" or "test"
-----------------------------------------------------------------------------
(* n + 1 in the type of the result, decltype(n + 1) *)
Incremented(x) == IF promotes THEN x + 1 ELSE (x + 1) % power[Bits]

(* Decrement in that type; all mod values leave the promoted one positive.  *)
Decremented(x) == IF x = 0 THEN power[Bits] - 1 ELSE x - 1

(* Variant: the shifted bits replace n, they are not or-ed into it.         *)
ShiftedOnly(x, s) == x \div power[s]

(* One turn of the loop: n |= n >> i *)
Smeared(x, s) == WordOf(Ones(x) \cup Ones(x \div power[s]))

(* Variants: the word is reduced, not masked; the mask is added, not taken. *)
Reduced(x, k)  == x % mod
OrMasked(x, k) == WordOf(Ones(x) \cup Ones(k))

(* out &= mask *)
Masked(x, k) == WordOf(Ones(x) \cap Ones(k))

(* The device may be one that could not be opened. *)
Init ==
  /\ mod = 0 /\ n = 0 /\ i = 1 /\ mask = 0
  /\ out = 0 /\ good \in BOOLEAN /\ pc = "idle"

(* assert(mod > 1) *)
Call(k) ==
  /\ pc = "idle" /\ k > 1
  /\ mod' = k
  /\ n' = k - 1 /\ i' = 1
  /\ out' \in Words
  /\ pc' = "smear"
  /\ UNCHANGED <<promotes, mask, good>>

Smear ==
  /\ pc = "smear" /\ i < Bits
  /\ n' = Smeared(n, i)
  /\ i' = 2 * i
  /\ UNCHANGED <<promotes, mod, mask, out, good, pc>>

SmearDone ==
  /\ pc = "smear" /\ i >= Bits
  /\ mask' = Decremented(Incremented(n))
  /\ n' = 0 /\ i' = 1
  /\ pc' = "draw"
  /\ UNCHANGED <<promotes, mod, out, good>>

(* rng(&out, byte_size), then out &= mask *)
Draw(w) ==
  /\ pc = "draw"
  /\ out' = Masked(w, mask)
  /\ pc' = "test"
  /\ UNCHANGED <<promotes, mod, n, i, mask>>

DrawWord == good /\ (\E w \in Words : Draw(w)) /\ UNCHANGED good

(* The read that fails may have written a part of the word. *)
DrawPart == good /\ (\E w \in Words : Draw(w)) /\ good' = FALSE

(* Variant: a failed read clears the word. *)
DrawZero == ~good /\ Draw(0) /\ UNCHANGED good

DrawNothing == ~good /\ Draw(out) /\ UNCHANGED good

Reject ==
  /\ pc = "test" /\ out >= mod
  /\ pc' = "draw"
  /\ UNCHANGED <<promotes, mod, n, i, mask, out, good>>

(* out is returned, and the locals are gone. *)
Accept ==
  /\ pc = "test" /\ out < mod
  /\ mod' = 0 /\ mask' = 0 /\ out' = 0
  /\ pc' = "idle"
  /\ UNCHANGED <<promotes, n, i, good>>

(* The steps inside of a call. *)
Inside == Smear \/ SmearDone \/ DrawWord \/ DrawPart \/ DrawNothing \/ Reject

DrawAccepted == DrawWord /\ out' < mod
-----------------------------------------------------------------------------
Drawing == pc \in {"draw", "test"}

(* The mask lets every index below mod through and rejects less than half   *)
(* of the words, for the largest mod of the type too, where least2pow wraps *)
(* to zero.                                                                 *)
AcceptHalf == Drawing => mod - 1 <= mask /\ mask + 1 < 2 * mod

(* Every index below mod is the masked value of equally many words: the     *)
(* accepted words are uniform.                                              *)
Unbiased ==
  Drawing =>
    \A v \in 0 .. mod - 1 :
      Cardinality({w \in Words : Masked(w, mask) = v}) * (mask + 1) = power[Bits]

(* Without a device there is no way out of the loop: a sample that is       *)
(* rejected after the device failed is rejected for ever.                   *)
StuckOnceRejected ==
  [](pc = "test" /\ ~good /\ out >= mod => []Drawing)
=============================================================================
