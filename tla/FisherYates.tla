---------------------------- MODULE FisherYates -----------------------------
(***************************************************************************)
(* shuffle_rejection and shuffle_rounding of src/include/clt/shuffle.hpp:  *)
(* one loop that settles the array from its end, with two ways to draw the *)
(* index to swap in.  A caller shuffles the same array again and again, as *)
(* test_shuffle.cpp does.                                                  *)
(***************************************************************************)
EXTENDS Permutations

CONSTANTS
  Sizes,       \* the lengths of the arrays
  Arrays(_),   \* the contents an array of a length may have at first
  RndWords     \* the values of a random 64-bit word

ASSUME ArrayAssumption ==
  /\ Sizes \subseteq Nat
  /\ RndWords \subseteq Nat
  /\ \A s \in Sizes : \A f \in Arrays(s) : DOMAIN f = 0 .. s - 1

VARIABLES
  size,            \* n
  inplace,         \* the array
  method,          \* "rejection" or "rounding"
  i,               \* the loop variable
  random_indices,  \* drawn in advance by shuffle_rounding
  pc,              \* "idle" or "loop"
  inplace0,        \* history: the array when the call began
  choices          \* history: j of each turn, by the number of candidates

vars == <<size, inplace, method, i, random_indices, pc, inplace0, choices>>

Methods == {"rejection", "rounding"}

NoWords   == [k \in 0 .. size - 1 |-> 0]
NoChoices == [c \in 2 .. size |-> 0]
-----------------------------------------------------------------------------
(* The candidates left at turn k: mod of rejection_sample_modulo_n.         *)
Candidates(k) == size - k + 1

(* Variant: the index is drawn from the whole array, settled part included. *)
WholeRounding(k) == {random_indices[size - k] % size}

(* The values j may take: rejection_sample_modulo_n returns any index below *)
(* its argument (RejectionSample.tla), the other loop reduces its word.     *)
RejectionIndex(k) == 0 .. Candidates(k) - 1
RoundingIndex(k)  == {random_indices[size - k] % Candidates(k)}

Init ==
  /\ size \in Sizes
  /\ inplace \in Arrays(size) /\ inplace0 = inplace
  /\ method = "rejection" /\ i = 1 /\ pc = "idle"
  /\ random_indices = NoWords /\ choices = NoChoices

Begin(f) ==
  /\ pc = "idle"
  /\ method' = f
  /\ i' = 1 /\ pc' = "loop"
  /\ inplace0' = inplace /\ choices' = NoChoices
  /\ UNCHANGED <<size, inplace>>

CallRejection == Begin("rejection") /\ UNCHANGED random_indices

(* The vector starts as zeros and one request fills it.  Nobody looks at    *)
(* the rng's answer, so the words may also be, or end in, those zeros.      *)
CallRounding ==
  /\ Begin("rounding")
  /\ size < IndexMod
  /\ random_indices' \in [0 .. size - 1 -> RndWords \cup {0}]

Turn(j) ==
  /\ inplace' = Swap(inplace, j, size - i)
  /\ choices' = [choices EXCEPT ![Candidates(i)] = j]
  /\ i' = i + 1
  /\ UNCHANGED <<size, method, random_indices, pc, inplace0>>

RejectionTurn ==
  /\ pc = "loop" /\ method = "rejection" /\ i < size
  /\ \E j \in RejectionIndex(i) : Turn(j)

RoundingTurn ==
  /\ pc = "loop" /\ method = "rounding" /\ i < size
  /\ \E j \in RoundingIndex(i) : Turn(j)

Return ==
  /\ pc = "loop" /\ i >= size
  /\ pc' = "idle" /\ i' = 1
  /\ random_indices' = NoWords
  /\ UNCHANGED <<size, inplace, method, inplace0, choices>>

Next == CallRejection \/ CallRounding \/ RejectionTurn \/ RoundingTurn \/ Return

Spec == Init /\ [][Next]_vars
-----------------------------------------------------------------------------
TypeOK ==
  /\ size \in Sizes
  /\ DOMAIN inplace = 0 .. size - 1 /\ DOMAIN inplace0 = 0 .. size - 1
  /\ method \in Methods /\ pc \in {"idle", "loop"}
  /\ i \in Nat /\ 1 <= i /\ (i <= size \/ i = 1)
  /\ random_indices \in [0 .. size - 1 -> Nat]
  /\ choices \in [2 .. size -> Nat]
  /\ \A c \in 2 .. size : choices[c] < c

(* p tells where each element of the array came from.                       *)
Origin(p) == \A k \in 0 .. size - 1 : inplace[k] = inplace0[p[k]]

(* At every moment the array is a rearrangement of what the caller gave:    *)
(* nothing is lost or copied, equal elements included.                      *)
Rearranged == \E p \in Perms(size) : Origin(p)

(* A position the loop has passed is settled: no later turn of the call     *)
(* touches it, whatever index is drawn.                                     *)
SettledStay ==
  [][pc = "loop" => \A k \in 0 .. size - 1 : k > size - i => inplace'[k] = inplace[k]]_vars

(* What rank_impl reads off a permutation: s at each of its levels.         *)
RankDigits(p) ==
  LET level[c \in 1 .. size] ==
        IF c = size THEN [pi |-> p, inv |-> inverse_permutation(p, size)]
        ELSE LET up == level[c + 1]
             IN  [pi  |-> PiStep(up.pi, up.inv, c + 1),
                  inv |-> InvStep(up.pi, up.inv, c + 1)]
  IN  [c \in 2 .. size |-> level[c].pi[c - 1]]

(* A finished shuffle has applied the permutation whose ranking digits are  *)
(* the indices it drew: different draws give different permutations, and    *)
(* every permutation has its draw, so uniform draws shuffle uniformly.      *)
RankReadsChoices ==
  pc = "loop" /\ i >= size =>
    \A p \in Perms(size) :
      Origin(p) /\ (\A a, b \in 0 .. size - 1 : inplace0[a] = inplace0[b] => a = b)
        => RankDigits(p) = choices
=============================================================================
