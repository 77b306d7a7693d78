------------------------------ MODULE Ranking -------------------------------
(***************************************************************************)
(* rank and unrank of src/src/shuffle.cpp (Myrvold and Ruskey): a caller   *)
(* holds a permutation and a rank and asks for one from the other, in any  *)
(* order.  rank_impl recurses from degree down to 1, swapping in pi and in *)
(* its inverse, and adds the digits up as the calls return; unrank_impl    *)
(* divides the digits off again in a loop.                                 *)
(***************************************************************************)
EXTENDS Permutations

CONSTANT Degrees   \* the degrees of the permutations callers hold

ASSUME DegreeAssumption ==
  /\ Degrees \subseteq Nat \ {0}
  /\ \A d \in Degrees : d <= IndexMod

VARIABLES
  degree,
  perm, rk,    \* the permutation and the rank the caller holds
  known,       \* history: each of the two was computed from the other
  pc,          \* "idle", "down" and "up" in rank_impl, "divide" in unrank_impl
  n,           \* the level of rank_impl, the loop variable of unrank_impl
  pi, inv_pi,  \* pi_ and inv_pi of rank, pi of unrank
  digits,      \* s of each suspended call of rank_impl
  acc          \* what rank_impl has returned so far, r_ of unrank

vars == <<degree, perm, rk, known, pc, n, pi, inv_pi, digits, acc>>
-----------------------------------------------------------------------------
(* Variants: the radix of the level below; the number is not mirrored. *)
AccumulateBelow(k, s, val) == s + (k - 1) * val
NotMirrored(d, x) == x

(* Adding the digit of level k to what the level below returned. *)
Accumulate(k, s, val) == s + k * val

(* The ranks count from the identity, so both calls mirror the number. *)
Mirror(d, x) == Factorial[d] - x - 1

(* r_mod_n of unrank_impl *)
Digit(r, k) == r % k

Init ==
  /\ degree \in Degrees
  /\ \/ perm \in Perms(degree) /\ rk = 0
     \/ perm = Identity(degree) /\ rk \in 0 .. Factorial[degree] - 1
  /\ known = FALSE /\ pc = "idle" /\ n = 0 /\ acc = 0
  /\ pi = Identity(degree) /\ inv_pi = Identity(degree)
  /\ digits = [k \in 2 .. degree |-> 0]

CallRank ==
  /\ pc = "idle"
  /\ pi' = perm /\ inv_pi' = inverse_permutation(perm, degree)
  /\ n' = degree /\ pc' = "down"
  /\ UNCHANGED <<degree, perm, rk, known, digits, acc>>

(* rank_impl up to its own recursive call *)
Down ==
  /\ pc = "down" /\ n # 1
  /\ digits' = [digits EXCEPT ![n] = pi[n - 1]]
  /\ pi' = PiStep(pi, inv_pi, n)
  /\ inv_pi' = InvStep(pi, inv_pi, n)
  /\ n' = n - 1
  /\ UNCHANGED <<degree, perm, rk, known, pc, acc>>

Bottom ==
  /\ pc = "down" /\ n = 1
  /\ acc' = 0 /\ pc' = "up"
  /\ UNCHANGED <<degree, perm, rk, known, n, pi, inv_pi, digits>>

Up ==
  /\ pc = "up" /\ n < degree
  /\ n' = n + 1
  /\ acc' = Accumulate(n + 1, digits[n + 1], acc)
  /\ UNCHANGED <<degree, perm, rk, known, pc, pi, inv_pi, digits>>

RankReturn ==
  /\ pc = "up" /\ n = degree
  /\ rk' = Mirror(degree, acc)
  /\ known' = TRUE /\ pc' = "idle"
  /\ UNCHANGED <<degree, perm, n, pi, inv_pi, digits, acc>>

(* The caller passes a rank of the degree: unrank has no check of its own. *)
CallUnrank ==
  /\ pc = "idle"
  /\ Mirror(degree, rk) \in Nat
  /\ acc' = Mirror(degree, rk)
  /\ pi' = Identity(degree)
  /\ n' = degree /\ pc' = "divide"
  /\ UNCHANGED <<degree, perm, rk, known, inv_pi, digits>>

Divide ==
  /\ pc = "divide" /\ n > 0
  /\ pi' = Swap(pi, n - 1, Digit(acc, n))
  /\ acc' = acc \div n
  /\ n' = n - 1
  /\ UNCHANGED <<degree, perm, rk, known, pc, inv_pi, digits>>

UnrankReturn ==
  /\ pc = "divide" /\ n = 0
  /\ perm' = pi
  /\ known' = TRUE /\ pc' = "idle"
  /\ UNCHANGED <<degree, rk, n, pi, inv_pi, digits, acc>>

Next == CallRank \/ Down \/ Bottom \/ Up \/ RankReturn \/ CallUnrank \/ Divide \/ UnrankReturn

Spec == Init /\ [][Next]_vars
-----------------------------------------------------------------------------
TypeOK ==
  /\ degree \in Degrees
  /\ IsPerm(perm, degree)
  /\ pc \in {"idle", "down", "up", "divide"}
  /\ n \in 0 .. degree
  /\ pc \in {"down", "up"} => n >= 1
  /\ pi \in [0 .. degree - 1 -> 0 .. degree - 1]
  /\ inv_pi \in [0 .. degree - 1 -> 0 .. degree - 1]
  /\ digits \in [2 .. degree -> 0 .. degree - 1]

(* rank maps the permutations of a degree into 0 .. degree! - 1, so unrank  *)
(* of a rank is always in range, and only the identity has rank 0, as the   *)
(* first test of test_shuffle.cpp expects of it for every degree.           *)
RankInRange ==
  known => rk \in 0 .. Factorial[degree] - 1 /\ (rk = 0 <=> perm = Identity(degree))

(* rank and unrank are inverse to each other: once one was computed from    *)
(* the other, no sequence of further calls changes either of them.          *)
RoundTrips == [][known => perm' = perm /\ rk' = rk]_vars

(* At every level of rank_impl the two swaps leave pi and inv_pi inverse to *)
(* each other on what is still to be ranked, and the digits already taken   *)
(* are below their radix.                                                   *)
SwapsAgree ==
  pc = "down" =>
    /\ \A k \in 0 .. n - 1 :
         /\ pi[k] \in 0 .. n - 1 /\ inv_pi[k] \in 0 .. n - 1
         /\ pi[inv_pi[k]] = k /\ inv_pi[pi[k]] = k
    /\ \A k \in n + 1 .. degree : digits[k] < k

(* unrank_impl only ever permutes.                                          *)
DivideKeepsPerm == pc = "divide" => IsPerm(pi, degree)
=============================================================================
