------------------------- MODULE PermutationAlgebra -------------------------
(***************************************************************************)
(* struct Permutation and the free functions on index arrays of            *)
(* src/include/clt/shuffle.hpp: two objects of one degree are shuffled,    *)
(* swapped in, multiplied and inverted in any order, and applied to a      *)
(* vector, as test_shuffle.cpp does in a few fixed orders.                 *)
(***************************************************************************)
EXTENDS Permutations

CONSTANT Degrees   \* the degrees of the permutations

ASSUME DegreeAssumption ==
  Degrees \subseteq Nat /\ \A d \in Degrees : d <= IndexMod

VARIABLES
  degree,
  perm, other,   \* indices_ of two objects
  buff           \* a vector they are applied to

objects == <<degree, perm, other, buff>>

Places == 0 .. degree - 1

(* apply of a vector, and the free apply_permutation *)
apply(p, in) == [k \in Places |-> in[p[k]]]

(* Variant: the factors of a product change places. *)
Backwards(lhs, rhs) == [k \in Places |-> lhs[rhs[k]]]

(* operator*, which is apply of a Permutation *)
product(lhs, rhs) == [k \in Places |-> rhs[lhs[k]]]

(* Variant: the place of each entry in the order, not the entry's index. *)
Ranks(p) == [k \in Places |-> Below(p, degree, k)]

(* Sort the pairs (indices_[i], i) by value; these keep 64-bit indices. *)
inverse(p) == [k \in Places |-> CHOOSE i \in Places : Below(p, degree, i) = k]

(* operator== and operator!= of two objects of one size *)
equal(lhs, rhs)     == \A k \in Places : lhs[k] = rhs[k]
not_equal(lhs, rhs) == DOMAIN lhs # DOMAIN rhs /\ ~equal(lhs, rhs)
-----------------------------------------------------------------------------
ObjectsInit ==
  /\ degree \in Degrees
  /\ perm = Identity(degree) /\ other = Identity(degree)
  /\ buff = [k \in Places |-> k + 100]

Change(p) == perm' = p /\ UNCHANGED <<degree, other, buff>>

(* FisherYates: whatever is drawn, the indices are rearranged. *)
Shuffle == \E p \in Perms(degree) : Change(p)

pivot(i, j) == Change(Swap(perm, i, j))
Multiply    == Change(product(perm, other))
Invert      == Change(inverse(perm))

Assign == other' = perm /\ UNCHANGED <<degree, perm, buff>>

Move(p) == buff' = apply(p, buff) /\ UNCHANGED <<degree, perm, other>>

Apply == Move(perm)

(* apply_permutation with what inverse_permutation returns *)
ApplyInverse == Move(inverse_permutation(perm, degree))

ObjectsNext ==
  \/ Shuffle
  \/ \E i, j \in Places : pivot(i, j)
  \/ Multiply \/ Invert \/ Assign
  \/ Apply \/ ApplyInverse

ObjectsSpec == ObjectsInit /\ [][ObjectsNext]_objects
-----------------------------------------------------------------------------
ObjectsOK ==
  /\ degree \in Degrees
  /\ IsPerm(perm, degree) /\ IsPerm(other, degree)
  /\ buff \in [Places -> Nat]

(* Applying a product is applying the right factor, then the left one.      *)
ProductActs ==
  apply(product(perm, other), buff) = apply(perm, apply(other, buff))

(* inverse() undoes a permutation from either side, whatever sequence of    *)
(* calls it came from, and the inverse_permutation of shuffle_RS's test,    *)
(* which keeps its indices in 32 bits, brings a vector back.                *)
InverseUndoes ==
  /\ product(perm, inverse(perm)) = Identity(degree)
  /\ product(inverse(perm), perm) = Identity(degree)
  /\ apply(inverse_permutation(perm, degree), apply(perm, buff)) = buff

(* Two objects of one size differ if and only if they are not equal.        *)
NotEqualIsNegation == not_equal(perm, other) <=> ~equal(perm, other)
=============================================================================
