--------------------------- MODULE AtomicShuffle ----------------------------
(***************************************************************************)
(* What a shuffle promises whoever owns the array: each change they can    *)
(* see is one step that leaves the same elements, as often as before.      *)
(***************************************************************************)
EXTENDS SequencesExt

CONSTANT Arrays   \* what the array may hold at first

VARIABLE array

Init == array \in Arrays

Next == ToBag(array') = ToBag(array)

Spec == Init /\ [][Next]_array
=============================================================================
