---------------------------- MODULE Permutations ----------------------------
(***************************************************************************)
(* What src/include/clt/shuffle.hpp and src/src/shuffle.cpp do to arrays   *)
(* of indices, as operators on functions with domain 0 .. n - 1.           *)
(***************************************************************************)
EXTENDS Integers, FiniteSets

CONSTANT IndexMod   \* 2^32: inverse_permutation keeps indices in a uint32_t

ASSUME IndexAssumption == IndexMod \in Nat \ {0}

(* p is a bijection of 0 .. n - 1. *)
IsPerm(p, n) ==
  /\ p \in [0 .. n - 1 -> 0 .. n - 1]
  /\ \A i, j \in 0 .. n - 1 : p[i] = p[j] => i = j
  /\ \A v \in 0 .. n - 1 : \E i \in 0 .. n - 1 : p[i] = v

Perms(n) == {p \in [0 .. n - 1 -> 0 .. n - 1] : IsPerm(p, n)}

(* std::iota from 0 *)
Identity(n) == [k \in 0 .. n - 1 |-> k]

(* Variant: a swap that loses an element. *)
HalfSwap(f, i, j) == [f EXCEPT ![i] = f[j]]

(* std::swap of two elements of one array *)
Swap(f, i, j) == [f EXCEPT ![i] = f[j], ![j] = f[i]]

(* The conversion of a size_t index to uint32_t. *)
Narrow(i) == IF i < IndexMod THEN i ELSE i % IndexMod

(* How many entries of p std::sort puts before entry i. *)
Below(p, n, i) == Cardinality({j \in 0 .. n - 1 : p[j] < p[i]})

(* Sort the pairs (p[i], i) by value, keep the indices: for a permutation,  *)
(* whose values are distinct, the order is the number of smaller values.    *)
inverse_permutation(p, n) ==
  [k \in 0 .. n - 1 |-> Narrow(CHOOSE i \in 0 .. n - 1 : Below(p, n, i) = k)]

(* factorial *)
Factorial[n \in Nat] == IF n = 0 THEN 1 ELSE n * Factorial[n - 1]

(* The two swaps of rank_impl at level n, for s = pi[n - 1]. *)
PiStep(pi, inv, n)  == Swap(pi, n - 1, inv[n - 1])

(* Variant: the second swap reads the pi the first one left. *)
LateInvStep(pi, inv, n) == Swap(inv, PiStep(pi, inv, n)[n - 1], n - 1)

InvStep(pi, inv, n) == Swap(inv, pi[n - 1], n - 1)
=============================================================================
