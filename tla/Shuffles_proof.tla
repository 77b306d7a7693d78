--------------------------- MODULE Shuffles_proof ---------------------------
(***************************************************************************)
(* For arrays of every length and every choice of indices, both loops of   *)
(* FisherYates only rearrange the array, and settle it from its end.  For  *)
(* integers of every width, rejection sampling draws uniformly, and the    *)
(* loops composed with it implement those of FisherYates.  For every       *)
(* degree, the objects of PermutationAlgebra stay permutations.            *)
(***************************************************************************)
EXTENDS SampledShuffle, PermutationAlgebra, Permutations_proof

IInv == TypeOK /\ Rearranged

(* Either loop swaps two positions of the array, the settled one last.      *)
LEMMA TurnInRange ==
  ASSUME TypeOK, RejectionTurn \/ RoundingTurn
  PROVE  /\ pc = "loop" /\ i < size
         /\ \E j \in 0 .. size - i : Turn(j)
<1>1. size \in Nat /\ i \in Nat /\ 1 <= i
  BY ArrayAssumption DEF TypeOK
<1>2. pc = "loop" /\ i < size
  BY DEF RejectionTurn, RoundingTurn
<1>3. CASE RejectionTurn
  BY <1>1, <1>2, <1>3 DEF RejectionTurn, RejectionIndex, Candidates
<1>4. CASE RoundingTurn
  <2>1. PICK j \in RoundingIndex(i) : Turn(j)
    BY <1>4 DEF RoundingTurn
  <2>2. size - i \in 0 .. size - 1 /\ Candidates(i) \in Nat \ {0}
    BY <1>1, <1>2 DEF Candidates
  <2>3. random_indices[size - i] \in Nat
    BY <2>2 DEF TypeOK
  <2>4. random_indices[size - i] % Candidates(i) \in 0 .. Candidates(i) - 1
    BY <2>2, <2>3
  <2>5. j \in 0 .. size - i
    BY <1>1, <2>1, <2>2, <2>4 DEF RoundingIndex, Candidates
  <2> QED BY <1>2, <2>1, <2>5
<1> QED BY <1>3, <1>4

LEMMA TurnType ==
  ASSUME TypeOK, i < size, NEW j \in 0 .. size - i, Turn(j)
  PROVE  TypeOK'
<1>1. size \in Nat /\ i \in Nat /\ 1 <= i
  BY ArrayAssumption DEF TypeOK
<1>2. DOMAIN inplace' = 0 .. size - 1
  BY DEF TypeOK, Turn, Swap
<1>3. i' = i + 1 /\ i' <= size
  BY <1>1 DEF Turn
<1>4. Candidates(i) \in 2 .. size /\ j < Candidates(i) /\ j \in Nat
  BY <1>1 DEF Candidates
<1>5. /\ choices \in [2 .. size -> Nat] /\ \A c \in 2 .. size : choices[c] < c
      /\ choices' = [choices EXCEPT ![Candidates(i)] = j]
  BY DEF TypeOK, Turn
<1>6. choices' \in [2 .. size -> Nat]
  BY <1>4, <1>5
<1>7. ASSUME NEW c \in 2 .. size PROVE choices'[c] < c
  <2>1. CASE c = Candidates(i)
    <3>1. choices'[c] = j
      BY <1>5, <2>1
    <3> QED BY <1>4, <2>1, <3>1
  <2>2. CASE c # Candidates(i)
    <3>1. choices'[c] = choices[c]
      BY <1>5, <2>2
    <3> QED BY <1>5, <3>1
  <2> QED BY <2>1, <2>2
<1>8. /\ size' = size /\ method' = method /\ pc' = pc
      /\ random_indices' = random_indices /\ inplace0' = inplace0
  BY DEF Turn
<1> QED BY <1>1, <1>2, <1>3, <1>6, <1>7, <1>8 DEF TypeOK

LEMMA TurnRearranges ==
  ASSUME TypeOK, Rearranged, i < size, NEW j \in 0 .. size - i, Turn(j)
  PROVE  Rearranged'
<1>1. size \in Nat /\ i \in Nat /\ 1 <= i
  BY ArrayAssumption DEF TypeOK
<1>2. size - i \in 0 .. size - 1 /\ j \in 0 .. size - 1
  BY <1>1
<1>3. PICK p \in Perms(size) : Origin(p)
  BY DEF Rearranged
<1> DEFINE k == size - i
           s == Swap(p, j, k)
<1>4. IsPerm(p, size) /\ DOMAIN p = 0 .. size - 1
  BY DEF Perms
<1>5. IsPerm(s, size)
  BY <1>1, <1>2, <1>4, SwapPerm
<1>6. s \in Perms(size)
  BY <1>5 DEF Perms, IsPerm
<1>7. inplace' = Swap(inplace, j, k) /\ inplace0' = inplace0 /\ size' = size
  BY DEF Turn
<1>8. \A x \in 0 .. size - 1 : inplace'[x] = inplace0[s[x]]
  <2>1. LooksUp(inplace, inplace0, p, size)
    BY <1>3 DEF Origin, LooksUp
  <2>2. k \in 0 .. size - 1 /\ DOMAIN inplace = 0 .. size - 1
    BY <1>2 DEF TypeOK
  <2> HIDE DEF k
  <2>3. LooksUp(Swap(inplace, j, k), inplace0, Swap(p, j, k), size)
    BY <1>1, <1>2, <1>4, <2>1, <2>2, SwapComposes
  <2> QED BY <1>7, <2>3 DEF LooksUp
<1>9. \E t \in Perms(size) : \A x \in 0 .. size - 1 : inplace'[x] = inplace0[t[x]]
  BY <1>6, <1>8
<1> QED BY <1>7, <1>9 DEF Rearranged, Origin

LEMMA BeginRearranged ==
  ASSUME size \in Nat, inplace0' = inplace, inplace' = inplace, size' = size
  PROVE  Rearranged'
<1>1. Identity(size) \in Perms(size)
  BY IdentityPerm DEF Perms, IsPerm
<1>2. Origin(Identity(size))'
  BY DEF Origin, Identity
<1> QED BY <1>1, <1>2 DEF Rearranged

LEMMA InitInductive == ASSUME Init PROVE IInv
<1>1. size \in Nat
  BY ArrayAssumption DEF Init
<1>2. DOMAIN inplace = 0 .. size - 1
  BY ArrayAssumption DEF Init
<1>3. TypeOK
  BY <1>1, <1>2 DEF Init, TypeOK, Methods, NoWords, NoChoices
<1>4. Identity(size) \in Perms(size) /\ Origin(Identity(size))
  BY <1>1, IdentityPerm DEF Perms, IsPerm, Origin, Identity, Init
<1> QED BY <1>3, <1>4 DEF IInv, Rearranged

(* The array is a rearrangement of the caller's at every moment: the        *)
(* invariant is the property itself with the types of the loop.             *)
LEMMA NextInductive == ASSUME IInv, [Next]_vars PROVE IInv'
<1>0. TypeOK /\ Rearranged /\ size \in Nat
  BY ArrayAssumption DEF IInv, TypeOK
<1>1. CASE CallRejection
  <2>1. TypeOK'
    BY <1>0, <1>1 DEF TypeOK, CallRejection, Begin, Methods, NoChoices
  <2>2. Rearranged'
    BY <1>0, <1>1, BeginRearranged DEF CallRejection, Begin
  <2> QED BY <2>1, <2>2 DEF IInv
<1>2. CASE CallRounding
  <2>1. random_indices' \in [0 .. size - 1 -> Nat]
    <3>1. RndWords \cup {0} \subseteq Nat
      BY ArrayAssumption
    <3>2. random_indices' \in [0 .. size - 1 -> RndWords \cup {0}]
      BY <1>2 DEF CallRounding
    <3> QED BY <3>1, <3>2
  <2>2. TypeOK'
    BY <1>0, <1>2, <2>1 DEF TypeOK, CallRounding, Begin, Methods, NoChoices
  <2>3. Rearranged'
    BY <1>0, <1>2, BeginRearranged DEF CallRounding, Begin
  <2> QED BY <2>2, <2>3 DEF IInv
<1>3. CASE RejectionTurn \/ RoundingTurn
  <2>1. PICK j \in 0 .. size - i : i < size /\ Turn(j)
    BY <1>0, <1>3, TurnInRange
  <2> QED BY <1>0, <2>1, TurnType, TurnRearranges DEF IInv
<1>4. CASE Return
  <2>1. TypeOK'
    BY <1>0, <1>4 DEF TypeOK, Return, NoWords
  <2>2. Rearranged'
    BY <1>0, <1>4 DEF Return, Rearranged, Origin
  <2> QED BY <2>1, <2>2 DEF IInv
<1>5. CASE UNCHANGED vars
  <2>1. TypeOK'
    BY <1>0, <1>5 DEF TypeOK, vars
  <2>2. Rearranged'
    BY <1>0, <1>5 DEF vars, Rearranged, Origin
  <2> QED BY <2>1, <2>2 DEF IInv
<1> QED BY <1>1, <1>2, <1>3, <1>4, <1>5 DEF Next

LEMMA Inductive == Spec => []IInv
<1>1. Init => IInv
  BY InitInductive
<1>2. IInv /\ [Next]_vars => IInv'
  BY NextInductive
<1> QED BY <1>1, <1>2, PTL DEF Spec

(* The index of the loop stays inside the array, and what is drawn for c    *)
(* elements is below c.                                                     *)
THEOREM TypeCorrect == Spec => []TypeOK
<1>1. IInv => TypeOK
  BY DEF IInv
<1> QED BY <1>1, Inductive, PTL

(* shuffle only rearranges, whatever the rng returns, failures included.    *)
THEOREM ShuffleRearranges == Spec => []Rearranged
<1>1. IInv => Rearranged
  BY DEF IInv
<1> QED BY <1>1, Inductive, PTL

(* The suffix behind the loop variable never changes again.                 *)
THEOREM SettledStays == Spec => SettledStay
<1> DEFINE Settled == pc = "loop" =>
      \A k \in 0 .. size - 1 : k > size - i => inplace'[k] = inplace[k]
<1>1. IInv /\ [Next]_vars => [Settled]_vars
  <2> SUFFICES ASSUME IInv, Next, pc = "loop", NEW k \in 0 .. size - 1, k > size - i
               PROVE  inplace'[k] = inplace[k]
    OBVIOUS
  <2>0. TypeOK /\ size \in Nat /\ i \in Nat /\ 1 <= i
    BY ArrayAssumption DEF IInv, TypeOK
  <2>1. CASE RejectionTurn \/ RoundingTurn
    <3>1. PICK j \in 0 .. size - i : i < size /\ Turn(j)
      BY <2>0, <2>1, TurnInRange
    <3>2. size - i \in 0 .. size - 1 /\ j \in 0 .. size - 1 /\ k # j /\ k # size - i
      BY <2>0
    <3>3. inplace' = Swap(inplace, j, size - i) /\ DOMAIN inplace = 0 .. size - 1
      BY <2>0, <3>1 DEF Turn, TypeOK
    <3> QED BY <3>2, <3>3 DEF Swap
  <2>2. CASE Return
    BY <2>2 DEF Return
  <2>3. ~(CallRejection \/ CallRounding)
    BY DEF CallRejection, CallRounding, Begin
  <2> QED BY <2>1, <2>2, <2>3 DEF Next
<1>2. IInv /\ [Next]_vars => [pc = "loop" =>
        \A k \in 0 .. size - 1 : k > size - i => inplace'[k] = inplace[k]]_vars
  BY <1>1
<1> QED BY <1>2, Inductive, PTL DEF Spec, SettledStay
-----------------------------------------------------------------------------
(* What ranking reads off a shuffled array                                  *)

(* The levels of RankDigits, from the whole permutation down.               *)
LevelsOf(p) ==
  LET level[c \in 1 .. size] ==
        IF c = size THEN [pi |-> p, inv |-> inverse_permutation(p, size)]
        ELSE LET up == level[c + 1]
             IN  [pi  |-> PiStep(up.pi, up.inv, c + 1),
                  inv |-> InvStep(up.pi, up.inv, c + 1)]
  IN  level

LEMMA LevelsTurns ==
  ASSUME size \in Nat \ {0}, size <= IndexMod, NEW p, IsPerm(p, size)
  PROVE  /\ LevelsOf(p)[size] = [pi |-> p, inv |-> inverse_permutation(p, size)]
         /\ \A c \in 2 .. size :
              LevelsOf(p)[c - 1] = [pi  |-> PiStep(LevelsOf(p)[c].pi, LevelsOf(p)[c].inv, c),
                                    inv |-> InvStep(LevelsOf(p)[c].pi, LevelsOf(p)[c].inv, c)]
<1> DEFINE V == [pi : IndexArrays(size), inv : IndexArrays(size)]
           base == [pi |-> p, inv |-> inverse_permutation(p, size)]
           Next1(c, up) == [pi |-> PiStep(up.pi, up.inv, c), inv |-> InvStep(up.pi, up.inv, c)]
           m == size - 1
           turn == [kp \in (1 .. m) \X V |-> Next1(size - kp[1] + 1, kp[2])]
<1>1. base \in V
  <2>1. p \in IndexArrays(size) /\ inverse_permutation(p, size) \in IndexArrays(size)
    BY InverseIsInverse DEF IsPerm, IndexArrays
  <2> QED BY <2>1
<1>2. ASSUME NEW k \in 1 .. m, NEW up \in V PROVE Next1(size - k + 1, up) \in V
  <2> DEFINE c == size - k + 1
             f == up.pi
             g == up.inv
  <2>1. c - 1 \in 0 .. size - 1 /\ f \in IndexArrays(size) /\ g \in IndexArrays(size)
    OBVIOUS
  <2> HIDE DEF c, f, g
  <2>2. f[c - 1] \in 0 .. size - 1 /\ g[c - 1] \in 0 .. size - 1
    BY <2>1 DEF IndexArrays
  <2>3. PiStep(f, g, c) \in IndexArrays(size) /\ InvStep(f, g, c) \in IndexArrays(size)
    BY <2>1, <2>2 DEF PiStep, InvStep, Swap, IndexArrays
  <2> QED BY <2>3 DEF f, g, c
<1>3. turn \in [(1 .. m) \X V -> V] /\ m \in Nat
  <2> HIDE DEF Next1, V
  <2> QED BY <1>2
<1>4. \A k \in 1 .. m, up \in V : turn[<<k, up>>] = Next1(size - k + 1, up)
  OBVIOUS
<1> HIDE DEF V, base, Next1, turn, m
<1>5. PICK f \in [0 .. m -> V] : Loop(f, m, base, turn)
  BY <1>1, <1>3, LoopExists
<1>6. f[0] = base /\ \A k \in 1 .. m : f[k] = Next1(size - k + 1, f[k - 1])
  <2>1. \A k \in 1 .. m : k - 1 \in 0 .. m
    BY <1>3
  <2> QED BY <1>4, <1>5, <2>1 DEF Loop
<1> DEFINE L == LevelsOf(p)
           g == [c \in 1 .. size |-> f[size - c]]
<1>7. g = [c \in 1 .. size |-> IF c = size THEN base ELSE Next1(c + 1, g[c + 1])]
  <2>1. ASSUME NEW c \in 1 .. size, c # size PROVE g[c] = Next1(c + 1, g[c + 1])
    <3>1. /\ size - c \in 1 .. m /\ size - (size - c) + 1 = c + 1 /\ (size - c) - 1 = size - (c + 1)
          /\ c + 1 \in 1 .. size
      BY <2>1 DEF m
    <3>2. f[size - c] = Next1(c + 1, f[size - (c + 1)])
      BY <1>6, <3>1
    <3> QED BY <3>1, <3>2
  <2>2. g[size] = base
    <3>1. size - size = 0 /\ size \in 1 .. size
      OBVIOUS
    <3> QED BY <1>6, <3>1
  <2>3. g = [c \in 1 .. size |-> g[c]]
    OBVIOUS
  <2> HIDE DEF g
  <2>4. \A c \in 1 .. size : g[c] = IF c = size THEN base ELSE Next1(c + 1, g[c + 1])
    BY <2>1, <2>2
  <2> QED BY <2>3, <2>4
<1> HIDE DEF g
<1>8. L = [c \in 1 .. size |-> IF c = size THEN base ELSE Next1(c + 1, L[c + 1])]
  BY <1>7 DEF LevelsOf, Next1, base
<1> HIDE DEF L
<1>9. L[size] = base
  BY <1>8
<1>10. ASSUME NEW c \in 2 .. size PROVE L[c - 1] = Next1(c, L[c])
  <2>1. c - 1 \in 1 .. size /\ c - 1 # size /\ c - 1 + 1 = c
    OBVIOUS
  <2> QED BY <1>8, <2>1
<1> QED BY <1>9, <1>10 DEF L, base, Next1

(* A permutation built with the indices c has c for its digits.             *)
LEMMA DigitsOfBuilt ==
  ASSUME size \in Nat, size <= IndexMod,
         NEW c \in [2 .. size -> Nat], NEW e, NEW w, Built(w, size, 0, e),
         \A k \in 2 .. size : e[k] = c[k]
  PROVE  RankDigits(w[0]) = c
<1>a. \A k \in 1 .. size : w[0][k - 1] = w[k][e[k]]
  BY BuiltSettled
<1> DEFINE p == w[0]
           L == LevelsOf(p)
           At(k) == /\ L[k].pi \in IndexArrays(size) /\ L[k].inv \in IndexArrays(size)
                    /\ Mutual(L[k].pi, L[k].inv, k)
                    /\ \A x \in k .. size - 1 : L[k].pi[x] = x
                    /\ \A x \in 0 .. size - 1 : w[k][L[k].pi[x]] = p[x]
<1>0. CASE size = 0
  <2>1. RankDigits(p) = [k \in 2 .. size |-> L[k].pi[k - 1]]
    BY DEF RankDigits, LevelsOf
  <2>2. \A k \in 2 .. size : FALSE
    BY <1>0
  <2> QED BY <2>1, <2>2
<1>1. CASE size # 0
  <2>0. size \in Nat \ {0}
    BY <1>1
  <2>1. \A k \in 0 .. size : IsPerm(w[k], size)
    BY BuiltPerm
  <2>2. IsPerm(p, size) /\ p \in IndexArrays(size)
    <3>1. 0 \in 0 .. size
      OBVIOUS
    <3>2. IsPerm(w[0], size)
      BY <2>1, <3>1
    <3> QED BY <3>2 DEF IsPerm, IndexArrays
  <2>3. /\ L[size] = [pi |-> p, inv |-> inverse_permutation(p, size)]
        /\ \A k \in 2 .. size : L[k - 1] = [pi |-> PiStep(L[k].pi, L[k].inv, k),
                                            inv |-> InvStep(L[k].pi, L[k].inv, k)]
    BY <2>0, <2>2, LevelsTurns
  <2>4. RankDigits(p) = [k \in 2 .. size |-> L[k].pi[k - 1]]
    BY DEF RankDigits, LevelsOf
  <2> HIDE DEF p, L
  <2>5. At(size)
    <3>1. /\ inverse_permutation(p, size) \in IndexArrays(size)
          /\ \A k \in 0 .. size - 1 : /\ p[inverse_permutation(p, size)[k]] = k
                                      /\ inverse_permutation(p, size)[p[k]] = k
      BY <2>2, InverseIsInverse DEF IndexArrays
    <3>2. w[size] = Identity(size)
      BY DEF Built
    <3>3. \A x \in size .. size - 1 : FALSE
      BY <2>0
    <3>4. \A x \in 0 .. size - 1 : w[size][p[x]] = p[x]
      BY <2>2, <3>2 DEF Identity, IndexArrays
    <3>5. L[size].pi = p /\ L[size].inv = inverse_permutation(p, size)
      BY <2>3
    <3>6. Mutual(p, inverse_permutation(p, size), size)
      BY <2>2, <3>1 DEF Mutual, IndexArrays
    <3> QED BY <2>2, <3>1, <3>3, <3>4, <3>5, <3>6
  <2>6. ASSUME NEW k \in 2 .. size, At(k) PROVE At(k - 1) /\ L[k].pi[k - 1] = c[k]
    <3> DEFINE q == L[k].pi
               v == L[k].inv
    <3>1. q \in IndexArrays(size) /\ v \in IndexArrays(size) /\ Mutual(q, v, k)
          /\ (\A x \in k .. size - 1 : q[x] = x) /\ (\A x \in 0 .. size - 1 : w[k][q[x]] = p[x])
      BY <2>6
    <3>2. L[k - 1].pi = PiStep(q, v, k) /\ L[k - 1].inv = InvStep(q, v, k)
      <4>1. L[k - 1] = [pi |-> PiStep(q, v, k), inv |-> InvStep(q, v, k)]
        BY <2>3
      <4> HIDE DEF q, v
      <4> QED BY <4>1
    <3> HIDE DEF q, v
    <3>3. k \in 1 .. size /\ k \in 0 .. size /\ k - 1 \in 0 .. size - 1 /\ k \in 0 + 1 .. size
      OBVIOUS
    <3>4. p[k - 1] = w[k][e[k]]
      BY <3>3, <1>a DEF p
    <3>5. w[k - 1] = Swap(w[k], k - 1, e[k]) /\ e[k] \in 0 .. size - 1 /\ w[k] \in IndexArrays(size)
      <4>1. e[k] \in 0 .. k - 1
        BY <3>3 DEF Built
      <4> QED BY <3>3, <4>1 DEF Built
    <3>6. q[k - 1] = e[k]
      <4>1. \A a, b \in 0 .. size - 1 : w[k][a] = w[k][b] => a = b
        BY <2>1, <3>3 DEF IsPerm
      <4>2. q[k - 1] \in 0 .. size - 1 /\ w[k][q[k - 1]] = p[k - 1]
        BY <3>1, <3>3 DEF IndexArrays
      <4> QED BY <3>4, <3>5, <4>1, <4>2
    <3>7. /\ PiStep(q, v, k) \in IndexArrays(size) /\ InvStep(q, v, k) \in IndexArrays(size)
          /\ Mutual(PiStep(q, v, k), InvStep(q, v, k), k - 1)
      BY <3>1, LevelStep DEF IndexArrays
    <3>8. /\ \A x \in 0 .. size - 1 : Swap(w[k], k - 1, q[k - 1])[PiStep(q, v, k)[x]] = w[k][q[x]]
          /\ \A x \in k - 1 .. size - 1 : PiStep(q, v, k)[x] = x
      BY <3>1, <3>5, LevelProduct
    <3>9. \A x \in 0 .. size - 1 : w[k - 1][PiStep(q, v, k)[x]] = p[x]
      BY <3>1, <3>5, <3>6, <3>8
    <3>10. At(k - 1)
      BY <3>2, <3>7, <3>8, <3>9
    <3> QED BY <3>6, <3>10 DEF q
  <2> DEFINE S == {k \in 0 .. size : k >= 1 => At(k)}
  <2>7. size \in S
    BY <2>5
  <2>8. ASSUME NEW k \in 1 .. size, k \in S PROVE k - 1 \in S
    <3>1. k - 1 \in 0 .. size
      OBVIOUS
    <3>2. CASE k = 1
      BY <3>1, <3>2
    <3>3. CASE k # 1
      <4>1. k \in 2 .. size /\ k >= 1
        BY <3>3
      <4>2. At(k)
        BY <2>8, <4>1
      <4> HIDE DEF At
      <4>3. At(k - 1)
        BY <2>6, <4>1, <4>2
      <4> QED BY <3>1, <4>3
    <3> QED BY <3>2, <3>3
  <2> HIDE DEF S, At
  <2>9. \A k \in 0 .. size : k \in S
    BY <2>7, <2>8, AllDownTo
  <2>10. \A k \in 2 .. size : L[k].pi[k - 1] = c[k]
    <3>1. ASSUME NEW k \in 2 .. size PROVE L[k].pi[k - 1] = c[k]
      <4>1. k \in 0 .. size /\ k >= 1
        OBVIOUS
      <4>2. At(k)
        BY <2>9, <4>1 DEF S
      <4> QED BY <2>6, <4>2
    <3> QED BY <3>1
  <2> QED BY <2>4, <2>10 DEF p
<1> QED BY <1>0, <1>1

(* The turns so far have multiplied the swaps of their choices together.    *)
BuiltInv ==
  pc = "loop" =>
    \E u : /\ Built(u, size, Candidates(i), choices)
           /\ \A k \in 0 .. size - 1 : inplace[k] = inplace0[u[Candidates(i)][k]]

LEMMA TurnBuilds ==
  ASSUME TypeOK, BuiltInv, pc = "loop", i < size, NEW j \in 0 .. size - i, Turn(j)
  PROVE  BuiltInv'
<1> DEFINE m == Candidates(i)
<1>0. /\ size \in Nat /\ i \in Nat /\ 1 <= i /\ m \in 2 .. size /\ m - 1 = size - i
      /\ DOMAIN inplace = 0 .. size - 1 /\ choices \in [2 .. size -> Nat]
  BY ArrayAssumption DEF TypeOK, Candidates
<1>1. /\ inplace' = Swap(inplace, j, m - 1) /\ choices' = [choices EXCEPT ![m] = j]
      /\ UNCHANGED <<size, inplace0, pc>> /\ Candidates(i)' = m - 1
  BY <1>0 DEF Turn, Candidates
<1>2. PICK u : /\ Built(u, size, m, choices)
               /\ \A k \in 0 .. size - 1 : inplace[k] = inplace0[u[m][k]]
  BY DEF BuiltInv
<1> HIDE DEF m
<1>3. choices'[m] = j /\ \A k \in m + 1 .. size : choices'[k] = choices[k]
  BY <1>0, <1>1
<1>4. j \in 0 .. m - 1 /\ j \in 0 .. size - 1 /\ m - 1 \in 0 .. size - 1 /\ m \in 1 .. size
  BY <1>0
<1>5. PICK w : Built(w, size, m - 1, choices') /\ w[m - 1] = Swap(u[m], m - 1, j)
  <2>1. \E w : Built(w, size, m - 1, choices') /\ w[m - 1] = Swap(u[m], m - 1, choices'[m])
    <3>1. AgreeAbove(m, size, choices, choices') /\ choices'[m] \in 0 .. m - 1
      BY <1>3, <1>4 DEF AgreeAbove
    <3> QED BY <1>0, <1>2, <1>4, <3>1, BuiltMore
  <2> QED BY <1>3, <2>1
<1>6. DOMAIN u[m] = 0 .. size - 1
  <2>1. u[m] \in IndexArrays(size)
    BY <1>0, <1>2 DEF Built
  <2> QED BY <2>1 DEF IndexArrays
<1>7. \A k \in 0 .. size - 1 : inplace'[k] = inplace0[w[m - 1][k]]
  <2>1. LooksUp(Swap(inplace, m - 1, j), inplace0, Swap(u[m], m - 1, j), size)
    <3>1. LooksUp(inplace, inplace0, u[m], size)
      BY <1>2 DEF LooksUp
    <3> QED BY <1>0, <1>4, <1>6, <3>1, SwapComposes
  <2>2. Swap(inplace, j, m - 1) = Swap(inplace, m - 1, j)
    BY <1>0, <1>4, SwapCommutes
  <2> QED BY <1>1, <1>5, <2>1, <2>2 DEF LooksUp
<1> QED BY <1>1, <1>5, <1>7 DEF BuiltInv

LEMMA BeginBuilds ==
  ASSUME TypeOK, \E f \in Methods : Begin(f)
  PROVE  BuiltInv'
<1>1. /\ UNCHANGED <<size, inplace>> /\ inplace0' = inplace /\ i' = 1 /\ size \in Nat
      /\ Candidates(i)' = size
  BY ArrayAssumption DEF TypeOK, Begin, Candidates
<1> DEFINE u == [k \in 0 .. size |-> Identity(size)]
<1>2. Identity(size) \in IndexArrays(size) /\ \A k \in 0 .. size - 1 : Identity(size)[k] = k
  BY DEF Identity, IndexArrays
<1>3. u \in [0 .. size -> IndexArrays(size)] /\ u[size] = Identity(size)
  BY <1>1, <1>2
<1> HIDE DEF u
<1>4. Built(u, size, size, choices')
  <2>1. \A k \in size + 1 .. size : FALSE
    BY <1>1
  <2> QED BY <1>3, <2>1 DEF Built
<1>5. \A k \in 0 .. size - 1 : inplace'[k] = inplace0'[u[size][k]]
  BY <1>1, <1>2, <1>3
<1> QED BY <1>1, <1>4, <1>5 DEF BuiltInv

LEMMA BuiltInductive == Spec => []BuiltInv
<1>1. Init => BuiltInv
  BY DEF Init, BuiltInv
<1>2. TypeOK /\ BuiltInv /\ [Next]_vars => BuiltInv'
  <2> SUFFICES ASSUME TypeOK, BuiltInv, [Next]_vars PROVE BuiltInv'
    OBVIOUS
  <2>1. CASE CallRejection \/ CallRounding
    BY <2>1, BeginBuilds DEF CallRejection, CallRounding, Methods
  <2>2. CASE RejectionTurn \/ RoundingTurn
    <3>1. pc = "loop" /\ i < size /\ \E j \in 0 .. size - i : Turn(j)
      BY <2>2, TurnInRange
    <3> QED BY <3>1, TurnBuilds
  <2>3. CASE Return
    BY <2>3 DEF Return, BuiltInv
  <2>4. CASE UNCHANGED vars
    BY <2>4 DEF vars, BuiltInv, Candidates
  <2> QED BY <2>1, <2>2, <2>3, <2>4 DEF Next
<1> QED BY <1>1, <1>2, TypeCorrect, PTL DEF Spec

(* Where permutations of the array can be ranked, a finished shuffle has    *)
(* applied the one whose digits are its choices.                            *)
THEOREM DigitsAreChoices ==
  (\A s \in Sizes : s <= IndexMod) => (Spec => []RankReadsChoices)
<1> SUFFICES ASSUME \A s \in Sizes : s <= IndexMod PROVE Spec => []RankReadsChoices
  OBVIOUS
<1>1. TypeOK /\ BuiltInv => RankReadsChoices
  <2> SUFFICES ASSUME TypeOK, BuiltInv, pc = "loop", i >= size, NEW p \in Perms(size), Origin(p),
                      \A a, b \in 0 .. size - 1 : inplace0[a] = inplace0[b] => a = b
               PROVE  RankDigits(p) = choices
    BY DEF RankReadsChoices
  <2> DEFINE m == Candidates(i)
  <2>0. /\ size \in Nat /\ size <= IndexMod /\ m \in 0 .. 1 /\ m \in 0 .. size
        /\ (m = 0 => size = 0) /\ choices \in [2 .. size -> Nat]
    BY ArrayAssumption DEF TypeOK, Candidates
  <2>1. PICK u : /\ Built(u, size, m, choices)
                 /\ \A k \in 0 .. size - 1 : inplace[k] = inplace0[u[m][k]]
    BY DEF BuiltInv
  <2> HIDE DEF m
  <2>2. p = u[m]
    <3> DEFINE f == u[m]
               dom == 0 .. size - 1
    <3>1. f \in [dom -> dom] /\ p \in [dom -> dom]
      BY <2>0, <2>1 DEF Built, IndexArrays, Perms
    <3>2. \A k \in dom : inplace0[p[k]] = inplace0[f[k]]
      BY <2>1 DEF Origin
    <3>3. \A a, b \in dom : inplace0[a] = inplace0[b] => a = b
      OBVIOUS
    <3> HIDE DEF f, dom
    <3>4. \A k \in dom : p[k] = f[k]
      BY <3>1, <3>2, <3>3
    <3>5. p = f
      BY <3>1, <3>4
    <3> QED BY <3>5 DEF f
  <2>3. \E e, w : Built(w, size, 0, e) /\ w[0] = p /\ \A k \in 2 .. size : e[k] = choices[k]
    <3>1. CASE m = 0
      BY <2>1, <2>2, <3>1
    <3>2. CASE m = 1
      <4>1. size \in Nat \ {0} /\ Built(u, size, 1, choices) /\ u[1] = p
        BY <2>0, <2>1, <2>2, <3>2
      <4> QED BY <4>1, BuiltToEnd
    <3> QED BY <2>0, <3>1, <3>2
  <2> QED BY <2>0, <2>3, DigitsOfBuilt
<1> QED BY <1>1, TypeCorrect, BuiltInductive, PTL
-----------------------------------------------------------------------------
(* Arithmetic on words                                                      *)
LEMMA EvenApart ==
  ASSUME NEW q \in Nat, NEW h \in Nat
  PROVE  (q + 2 * h) % 2 = q % 2
OBVIOUS

LEMMA PowerTurns ==
  /\ RS!power \in [0 .. Bits -> Nat \ {0}]
  /\ RS!power[0] = 1
  /\ \A b \in 1 .. Bits : RS!power[b] = 2 * RS!power[b - 1]
<1> DEFINE V == Nat \ {0}
           turn == [kp \in (1 .. Bits) \X V |-> 2 * kp[2]]
           P == RS!power
<1>1. Bits \in Nat
  BY WidthAssumption
<1>2. turn \in [(1 .. Bits) \X V -> V] /\ 1 \in V
  OBVIOUS
<1>3. \A k \in 1 .. Bits, x \in V : turn[<<k, x>>] = 2 * x
  OBVIOUS
<1> HIDE DEF V, turn
<1>4. PICK f \in [0 .. Bits -> V] : Loop(f, Bits, 1, turn)
  BY <1>1, <1>2, LoopExists
<1>5. f[0] = 1 /\ \A k \in 1 .. Bits : f[k] = 2 * f[k - 1]
  <2>1. \A k \in 1 .. Bits : k - 1 \in 0 .. Bits
    BY <1>1
  <2> QED BY <1>3, <1>4, <2>1 DEF Loop
<1>6. f = [b \in 0 .. Bits |-> IF b = 0 THEN 1 ELSE 2 * f[b - 1]]
  BY <1>5
<1>7. P = [b \in 0 .. Bits |-> IF b = 0 THEN 1 ELSE 2 * P[b - 1]]
  BY <1>6 DEF RS!power
<1> HIDE DEF P
<1>8. P[0] = 1 /\ \A b \in 1 .. Bits : P[b] = 2 * P[b - 1]
  BY <1>1, <1>7
<1>9. DOMAIN P = 0 .. Bits
  BY <1>7
<1> DEFINE S == {b \in 0 .. Bits : P[b] \in V}
<1>10. 0 \in S
  BY <1>1, <1>2, <1>8
<1>11. ASSUME NEW b \in 0 .. Bits, b # Bits, b \in S PROVE b + 1 \in S
  <2>1. b + 1 \in 1 .. Bits /\ b + 1 \in 0 .. Bits /\ b + 1 - 1 = b
    BY <1>1, <1>11
  <2>2. P[b + 1] = 2 * P[b] /\ P[b] \in V
    BY <1>8, <1>11, <2>1
  <2> QED BY <2>1, <2>2 DEF V
<1> HIDE DEF S
<1>12. \A b \in 0 .. Bits : b \in S
  BY <1>1, <1>10, <1>11, AllUpTo
<1>13. P \in [0 .. Bits -> V]
  BY <1>7, <1>12 DEF S
<1> QED BY <1>8, <1>13 DEF P, V

LEMMA PowerSplit ==
  ASSUME NEW b \in Nat, NEW k \in Nat, b + k <= Bits
  PROVE  RS!power[b + k] = RS!power[b] * RS!power[k]
<1> DEFINE P == RS!power
           S == {c \in 0 .. b : P[c + k] = P[c] * P[k]}
<1>0. Bits \in Nat
  BY WidthAssumption
<1>1. /\ P \in [0 .. Bits -> Nat \ {0}] /\ P[0] = 1
      /\ \A c \in 1 .. Bits : P[c] = 2 * P[c - 1]
  BY PowerTurns
<1> HIDE DEF P
<1>2. k \in 0 .. Bits /\ P[k] \in Nat \ {0}
  BY <1>0, <1>1
<1>3. 0 \in S
  BY <1>1, <1>2
<1>4. ASSUME NEW c \in 0 .. b, c # b, c \in S PROVE c + 1 \in S
  <2>1. c + 1 \in 0 .. b /\ c + 1 \in 1 .. Bits /\ c + 1 + k \in 1 .. Bits
        /\ c + 1 + k - 1 = c + k /\ c + 1 - 1 = c /\ c \in 0 .. Bits
    BY <1>0, <1>4
  <2>2. P[c + 1 + k] = 2 * P[c + k] /\ P[c + 1] = 2 * P[c] /\ P[c + k] = P[c] * P[k]
    BY <1>1, <1>4, <2>1
  <2>3. P[c] \in Int /\ P[k] \in Int
    BY <1>1, <1>2, <2>1
  <2>4. (2 * P[c]) * P[k] = 2 * (P[c] * P[k])
    BY <2>3, TimesRegroups
  <2> QED BY <2>1, <2>2, <2>4
<1> HIDE DEF S
<1>5. \A c \in 0 .. b : c \in S
  BY <1>3, <1>4, AllUpTo
<1>6. b \in S
  BY <1>5
<1> QED BY <1>6 DEF S, P

LEMMA PowerGrows ==
  ASSUME NEW b \in 0 .. Bits, NEW k \in 0 .. b
  PROVE  /\ RS!power[k] \in Nat \ {0} /\ RS!power[b] \in Nat \ {0}
         /\ RS!power[b - k] \in Nat \ {0}
         /\ RS!power[b] = RS!power[b - k] * RS!power[k]
         /\ RS!power[k] <= RS!power[b]
<1>0. Bits \in Nat
  BY WidthAssumption
<1>1. b - k \in Nat /\ k \in Nat /\ b - k + k = b /\ b <= Bits
  BY <1>0
<1>2. RS!power[b] = RS!power[b - k] * RS!power[k]
  BY <1>1, PowerSplit
<1>3. b \in 0 .. Bits /\ k \in 0 .. Bits /\ b - k \in 0 .. Bits
  BY <1>0
<1>4. RS!power[k] \in Nat \ {0} /\ RS!power[b] \in Nat \ {0} /\ RS!power[b - k] \in Nat \ {0}
  BY <1>3, PowerTurns
<1> QED BY <1>2, <1>4, TimesNatural

(* Whether b is the place of a one does not depend on multiples of a higher *)
(* power, and a word below a power has no one at its place or above.        *)
LEMMA OnesBelow ==
  ASSUME NEW t \in 0 .. Bits, NEW u \in Nat, NEW r \in 0 .. RS!power[t] - 1,
         NEW b \in 0 .. Bits - 1
  PROVE  /\ b < t => ((u * RS!power[t] + r) \div RS!power[b]) % 2 = (r \div RS!power[b]) % 2
         /\ b >= t => r \div RS!power[b] = 0
<1> DEFINE P == RS!power
<1>0. Bits \in Nat
  BY WidthAssumption
<1>1. b \in 0 .. Bits
  BY <1>0
<1>2. CASE b < t
  <2>1. t - 1 \in 0 .. Bits /\ b \in 0 .. t /\ b \in 0 .. t - 1 /\ t \in 1 .. Bits
        /\ t - 1 - b = t - b - 1 /\ t - b \in 1 .. Bits
    BY <1>0, <1>2
  <2>2. /\ P[b] \in Nat \ {0} /\ P[t] = P[t - b] * P[b]
        /\ P[t - b - 1] \in Nat \ {0} /\ P[t - b] = 2 * P[t - b - 1] /\ P[t] \in Nat \ {0}
    BY <2>1, PowerGrows, PowerTurns
  <2> DEFINE d == P[b]
             h == P[t - b - 1]
             q == r \div d
             s == r % d
  <2>3. r \in Nat /\ d \in Nat \ {0} /\ h \in Nat \ {0} /\ P[t] = (2 * h) * d
    BY <2>2
  <2>4. q \in Nat /\ s \in 0 .. d - 1 /\ r = q * d + s
    <3> HIDE DEF d
    <3> QED BY <2>3, DivMod
  <2> DEFINE pt == P[t]
  <2>5. pt = (2 * h) * d
    BY <2>3
  <2> HIDE DEF d, h, q, s, P, pt
  <2>6. u * h \in Nat
    BY <2>3, TimesNatural
  <2>7. u * pt + r = (q + 2 * (u * h)) * d + s
    <3>1. u * pt = (u * (2 * h)) * d
      BY <2>3, <2>5, TimesRegroups
    <3>2. u * (2 * h) = 2 * (u * h)
      BY <2>3
    <3>3. (q + 2 * (u * h)) * d = q * d + (2 * (u * h)) * d
      BY <2>3, <2>4, <2>6, TimesRegroups
    <3>4. q * d \in Nat /\ (2 * (u * h)) * d \in Nat
      BY <2>3, <2>4, <2>6, TimesNatural
    <3> QED BY <2>4, <3>1, <3>2, <3>3, <3>4
  <2>8. q + 2 * (u * h) \in Nat
    BY <2>4, <2>6
  <2>9. (u * pt + r) \div d = q + 2 * (u * h)
    <3> DEFINE v == q + 2 * (u * h)
    <3>1. v \in Nat /\ u * pt + r = v * d + s
      BY <2>7, <2>8
    <3> HIDE DEF v
    <3>2. (v * d + s) \div d = v
      BY <2>3, <2>4, <3>1, DivUnique
    <3> QED BY <3>1, <3>2 DEF v
  <2>10. (q + 2 * (u * h)) % 2 = q % 2
    BY <2>4, <2>6, EvenApart
  <2>11. ((u * pt + r) \div d) % 2 = q % 2
    BY <2>9, <2>10
  <2> QED BY <1>2, <2>11 DEF q, d, pt, P
<1>3. CASE b >= t
  <2>1. t \in 0 .. b
    BY <1>3
  <2>2. P[b] \in Nat \ {0} /\ P[t] <= P[b] /\ P[t] \in Nat
    BY <1>1, <2>1, PowerGrows
  <2> DEFINE d == P[b]
  <2>3. r \in 0 .. d - 1 /\ d \in Nat \ {0} /\ r = 0 * d + r
    BY <2>2
  <2> HIDE DEF d
  <2>4. r \div d = 0
    BY <2>3, DivUnique
  <2> QED BY <1>3, <2>4 DEF d
<1> QED BY <1>2, <1>3

LEMMA SumsTurns ==
  ASSUME NEW B
  PROVE  /\ RS!Sums(B) \in [0 .. Bits -> Nat]
         /\ RS!Sums(B)[0] = 0
         /\ \A b \in 1 .. Bits : RS!Sums(B)[b] = RS!Sums(B)[b - 1]
                                   + (IF b - 1 \in B THEN RS!power[b - 1] ELSE 0)
<1> DEFINE worth == [b \in 1 .. Bits |-> IF b - 1 \in B THEN RS!power[b - 1] ELSE 0]
           turn == [kp \in (1 .. Bits) \X Nat |-> kp[2] + worth[kp[1]]]
           D == RS!Sums(B)
<1>1. Bits \in Nat
  BY WidthAssumption
<1>2. worth \in [1 .. Bits -> Nat]
  <2>1. \A b \in 1 .. Bits : b - 1 \in 0 .. Bits
    BY <1>1
  <2> QED BY <2>1, PowerTurns
<1>3. \A b \in 1 .. Bits : worth[b] = IF b - 1 \in B THEN RS!power[b - 1] ELSE 0
  OBVIOUS
<1> HIDE DEF worth
<1>4. turn \in [(1 .. Bits) \X Nat -> Nat]
  BY <1>2
<1>5. \A b \in 1 .. Bits, x \in Nat : turn[<<b, x>>] = x + worth[b]
  OBVIOUS
<1> HIDE DEF turn
<1>6. PICK f \in [0 .. Bits -> Nat] : Loop(f, Bits, 0, turn)
  BY <1>1, <1>4, LoopExists
<1>7. f[0] = 0 /\ \A b \in 1 .. Bits : f[b] = f[b - 1] + worth[b]
  <2>1. \A b \in 1 .. Bits : b - 1 \in 0 .. Bits
    BY <1>1
  <2> QED BY <1>5, <1>6, <2>1 DEF Loop
<1>8. f = [b \in 0 .. Bits |-> IF b = 0 THEN 0 ELSE f[b - 1]
                 + (IF b - 1 \in B THEN RS!power[b - 1] ELSE 0)]
  BY <1>1, <1>3, <1>7
<1>9. D = [b \in 0 .. Bits |-> IF b = 0 THEN 0 ELSE D[b - 1]
                 + (IF b - 1 \in B THEN RS!power[b - 1] ELSE 0)]
  BY <1>8 DEF RS!Sums
<1> HIDE DEF D
<1>10. D[0] = 0 /\ DOMAIN D = 0 .. Bits /\ \A b \in 1 .. Bits : D[b] = D[b - 1] + worth[b]
  BY <1>1, <1>3, <1>9
<1> DEFINE S == {b \in 0 .. Bits : D[b] \in Nat}
<1>11. 0 \in S
  BY <1>1, <1>10
<1>12. ASSUME NEW b \in 0 .. Bits, b # Bits, b \in S PROVE b + 1 \in S
  <2>1. b + 1 \in 1 .. Bits /\ b + 1 \in 0 .. Bits /\ b + 1 - 1 = b
    BY <1>1, <1>12
  <2>2. D[b + 1] = D[b] + worth[b + 1] /\ D[b] \in Nat /\ worth[b + 1] \in Nat
    BY <1>2, <1>10, <1>12, <2>1
  <2> QED BY <2>1, <2>2
<1> HIDE DEF S
<1>13. \A b \in 0 .. Bits : b \in S
  BY <1>1, <1>11, <1>12, AllUpTo
<1>14. D \in [0 .. Bits -> Nat]
  BY <1>9, <1>13 DEF S
<1> QED BY <1>3, <1>10, <1>14 DEF D

(* The word with ones at places B has its ones there and nowhere else.      *)
LEMMA OnesOfWord ==
  ASSUME NEW B, B \subseteq 0 .. Bits - 1
  PROVE  RS!WordOf(B) \in RS!Words /\ RS!Ones(RS!WordOf(B)) = B
<1> DEFINE P == RS!power
           D == RS!Sums(B)
           Right(x, k) == /\ x \in 0 .. P[k] - 1
                          /\ \A b \in 0 .. Bits - 1 : b < k => ((x \div P[b]) % 2 = 1 <=> b \in B)
           S == {k \in 0 .. Bits : Right(D[k], k)}
<1>0. Bits \in Nat
  BY WidthAssumption
<1>1. /\ D \in [0 .. Bits -> Nat] /\ D[0] = 0
      /\ \A b \in 1 .. Bits : D[b] = D[b - 1] + (IF b - 1 \in B THEN P[b - 1] ELSE 0)
  BY SumsTurns
<1>2. /\ P \in [0 .. Bits -> Nat \ {0}] /\ P[0] = 1
      /\ \A b \in 1 .. Bits : P[b] = 2 * P[b - 1]
  BY PowerTurns
<1> HIDE DEF D
<1>3. 0 \in S
  BY <1>0, <1>1, <1>2
<1>4. ASSUME NEW k \in 0 .. Bits, k # Bits, k \in S PROVE k + 1 \in S
  <2> DEFINE x == D[k]
             p == P[k]
             e == IF k \in B THEN 1 ELSE 0
  <2>1. k + 1 \in 1 .. Bits /\ k + 1 \in 0 .. Bits /\ k + 1 - 1 = k /\ k \in 0 .. Bits - 1
    BY <1>0, <1>4
  <2>2. Right(x, k) /\ x \in 0 .. p - 1 /\ p \in Nat \ {0} /\ P[k + 1] = 2 * p
    BY <1>2, <1>4, <2>1
  <2>3. e \in Nat /\ e <= 1
    OBVIOUS
  <2>4. D[k + 1] = e * p + x
    <3>1. D[k + 1] = x + (IF k \in B THEN p ELSE 0)
      BY <1>1, <2>1
    <3> QED BY <2>2, <3>1
  <2>5. e * p + x \in 0 .. 2 * p - 1
    <3> HIDE DEF x, p
    <3> QED BY <2>2
  <2>6. ASSUME NEW b \in 0 .. Bits - 1, b < k + 1
        PROVE  ((e * p + x) \div P[b]) % 2 = 1 <=> b \in B
    <3>1. CASE b < k
      <4>1. ((e * p + x) \div P[b]) % 2 = (x \div P[b]) % 2
        <5> HIDE DEF x, e
        <5> QED BY <2>2, <2>3, <3>1, OnesBelow
      <4> QED BY <2>2, <3>1, <4>1
    <3>2. CASE b = k
      <4>1. (e * p + x) \div p = e
        <5> HIDE DEF x, e, p
        <5> QED BY <2>2, <2>3, DivUnique
      <4>2. e % 2 = e
        OBVIOUS
      <4> QED BY <3>2, <4>1, <4>2
    <3>3. b < k \/ b = k
      BY <2>6, <1>0
    <3> QED BY <3>1, <3>2, <3>3
  <2>7. Right(D[k + 1], k + 1)
    <3> HIDE DEF e, x, p
    <3>1. D[k + 1] \in 0 .. P[k + 1] - 1
      BY <2>2, <2>4, <2>5
    <3>2. \A b \in 0 .. Bits - 1 : b < k + 1 => ((D[k + 1] \div P[b]) % 2 = 1 <=> b \in B)
      BY <2>4, <2>6
    <3> QED BY <3>1, <3>2
  <2> QED BY <2>1, <2>7
<1> HIDE DEF S
<1>5. \A k \in 0 .. Bits : k \in S
  BY <1>0, <1>3, <1>4, AllUpTo
<1>6. Right(D[Bits], Bits)
  <2>1. Bits \in 0 .. Bits
    BY <1>0
  <2> QED BY <1>5, <2>1 DEF S
<1>7. RS!Ones(D[Bits]) = B
  <2>1. \A b \in 0 .. Bits - 1 : b < Bits
    BY <1>0
  <2> QED BY <1>6, <2>1 DEF RS!Ones
<1> QED BY <1>6, <1>7 DEF RS!WordOf, RS!Words, D

(* A word is what its ones are worth.                                       *)
LEMMA WordOfOnes ==
  ASSUME NEW x \in RS!Words
  PROVE  RS!WordOf(RS!Ones(x)) = x
<1> DEFINE P == RS!power
           B == RS!Ones(x)
           D == RS!Sums(B)
           S == {k \in 0 .. Bits : D[k] = x % P[k]}
<1>0. Bits \in Nat
  BY WidthAssumption
<1>1. /\ D \in [0 .. Bits -> Nat] /\ D[0] = 0
      /\ \A b \in 1 .. Bits : D[b] = D[b - 1] + (IF b - 1 \in B THEN P[b - 1] ELSE 0)
  BY SumsTurns
<1>2. /\ P \in [0 .. Bits -> Nat \ {0}] /\ P[0] = 1
      /\ \A b \in 1 .. Bits : P[b] = 2 * P[b - 1]
  BY PowerTurns
<1>3. x \in Nat
  <2>1. P[Bits] \in Nat
    BY <1>0, <1>2
  <2> QED BY <2>1 DEF RS!Words
<1> HIDE DEF D
<1>4. 0 \in S
  <2>1. x % 1 = 0
    BY <1>3
  <2> QED BY <1>0, <1>1, <1>2, <2>1
<1>5. ASSUME NEW k \in 0 .. Bits, k # Bits, k \in S PROVE k + 1 \in S
  <2> DEFINE p == P[k]
             q == x \div p
             r == x % p
             u == q \div 2
             v == q % 2
  <2>1. k + 1 \in 1 .. Bits /\ k + 1 \in 0 .. Bits /\ k + 1 - 1 = k /\ k \in 0 .. Bits - 1
    BY <1>0, <1>5
  <2>2. p \in Nat \ {0} /\ P[k + 1] = 2 * p /\ D[k] = r
    BY <1>2, <1>5, <2>1
  <2>3. k \in B <=> v = 1
    BY <2>1 DEF RS!Ones
  <2>4. D[k + 1] = r + (IF k \in B THEN p ELSE 0)
    BY <1>1, <2>1, <2>2
  <2>5. q \in Nat /\ r \in 0 .. p - 1 /\ x = q * p + r
    <3> HIDE DEF p
    <3> QED BY <1>3, <2>2, DivMod
  <2> HIDE DEF q, r, p, B
  <2>6. u \in Nat /\ v \in 0 .. 1 /\ q = u * 2 + v
    <3>1. u \in Nat /\ v \in 0 .. 2 - 1 /\ q = u * 2 + v
      BY <2>5, DivMod
    <3> QED BY <3>1
  <2> HIDE DEF u, v
  <2>7. D[k + 1] = v * p + r
    BY <2>2, <2>3, <2>4, <2>5, <2>6
  <2>8. v * p + r \in 0 .. 2 * p - 1
    <3>1. v = 0 \/ v = 1
      BY <2>6
    <3> QED BY <2>2, <2>5, <3>1
  <2>9. x = u * (2 * p) + (v * p + r)
    <3>1. q * p = (u * 2) * p + v * p /\ (u * 2) * p = u * (2 * p)
      BY <2>2, <2>6, TimesRegroups
    <3>2. u * (2 * p) \in Nat /\ v * p \in Nat
      BY <2>2, <2>6, TimesNatural
    <3> QED BY <2>5, <3>1, <3>2
  <2>10. x % (2 * p) = v * p + r
    <3> DEFINE d == 2 * p
               s == v * p + r
    <3>1. d \in Nat \ {0} /\ s \in 0 .. d - 1 /\ x = u * d + s
      BY <2>2, <2>8, <2>9
    <3> HIDE DEF d, s
    <3>2. x % d = s
      BY <2>6, <3>1, DivUnique
    <3> QED BY <3>2 DEF d, s
  <2> QED BY <2>1, <2>2, <2>7, <2>10
<1> HIDE DEF S
<1>6. \A k \in 0 .. Bits : k \in S
  BY <1>0, <1>4, <1>5, AllUpTo
<1>7. D[Bits] = x % P[Bits] /\ P[Bits] \in Nat \ {0}
  <2>1. Bits \in 0 .. Bits
    BY <1>0
  <2> QED BY <1>2, <1>6, <2>1 DEF S
<1>8. x % P[Bits] = x
  <2> DEFINE d == P[Bits]
  <2>1. x \in 0 .. d - 1 /\ x = 0 * d + x /\ d \in Nat \ {0}
    BY <1>3, <1>7 DEF RS!Words
  <2> HIDE DEF d
  <2>2. x % d = x
    BY <2>1, DivUnique
  <2> QED BY <2>2 DEF d
<1> QED BY <1>7, <1>8 DEF RS!WordOf, D

LEMMA WordType ==
  /\ \A x \in RS!Words : x \in Nat
  /\ \A x \in Nat, b \in 0 .. Bits : x \div RS!power[b] \in Nat
<1>1. \A b \in 0 .. Bits : RS!power[b] \in Nat \ {0}
  BY PowerTurns
<1>2. Bits \in 0 .. Bits
  BY WidthAssumption
<1>3. RS!power[Bits] \in Nat
  BY <1>1, <1>2
<1>4. \A x \in RS!Words : x \in Nat
  BY <1>3 DEF RS!Words
<1>5. ASSUME NEW x \in Nat, NEW b \in 0 .. Bits PROVE x \div RS!power[b] \in Nat
  <2> DEFINE d == RS!power[b]
  <2>1. d \in Nat \ {0}
    BY <1>1
  <2> HIDE DEF d
  <2>2. x \div d \in Nat
    BY <2>1, DivMod
  <2> QED BY <2>2 DEF d
<1> QED BY <1>4, <1>5

(* All ones below place t                                                   *)
LEMMA OnesOfMask ==
  ASSUME NEW t \in 0 .. Bits
  PROVE  /\ RS!power[t] - 1 \in RS!Words
         /\ RS!Ones(RS!power[t] - 1) = 0 .. t - 1
<1> DEFINE P == RS!power
           m == P[t] - 1
<1>0. Bits \in Nat /\ Bits \in 0 .. Bits /\ t \in 0 .. Bits
  BY WidthAssumption
<1>1. P[t] \in Nat \ {0} /\ P[t] <= P[Bits] /\ P[Bits] \in Nat
  <2>1. t \in 0 .. Bits
    OBVIOUS
  <2> QED BY <1>0, <2>1, PowerGrows
<1>2. m \in RS!Words
  BY <1>1 DEF RS!Words
<1>3. ASSUME NEW b \in 0 .. Bits - 1 PROVE (m \div P[b]) % 2 = 1 <=> b < t
  <2>1. CASE b < t
    <3>1. t \in 1 .. Bits /\ b \in 0 .. t - 1 /\ b \in 0 .. t /\ t - b \in 1 .. Bits
          /\ t - b - 1 = t - 1 - b /\ t - 1 \in 0 .. Bits
      BY <1>0, <2>1
    <3>2. /\ P[b] \in Nat \ {0} /\ P[t] = P[t - b] * P[b]
          /\ P[t - b - 1] \in Nat \ {0} /\ P[t - b] = 2 * P[t - b - 1]
      BY <3>1, PowerGrows, PowerTurns
    <3> DEFINE d == P[b]
               h == P[t - b - 1]
    <3>3. d \in Nat \ {0} /\ h \in Nat \ {0} /\ m = (2 * h) * d - 1
      BY <3>2
    <3> HIDE DEF d, h, m, P
    <3>4. m = (2 * h - 1) * d + (d - 1)
      <4>1. (2 * h - 1) * d = (2 * h) * d - 1 * d
        BY <3>3, TimesRegroups
      <4>2. (2 * h) * d \in Nat
        BY <3>3, TimesNatural
      <4> QED BY <3>3, <4>1, <4>2
    <3>5. m \div d = 2 * h - 1
      <4> DEFINE q == 2 * h - 1
                 r == d - 1
      <4>1. q \in Nat /\ r \in 0 .. d - 1 /\ m = q * d + r
        BY <3>3, <3>4
      <4> HIDE DEF q, r
      <4>2. m \div d = q
        BY <3>3, <4>1, DivUnique
      <4> QED BY <4>2 DEF q
    <3>6. (2 * h - 1) % 2 = 1
      BY <3>3
    <3> QED BY <2>1, <3>5, <3>6 DEF d, P
  <2>2. CASE b >= t
    <3>1. m \in 0 .. P[t] - 1
      BY <1>1
    <3>2. m \div P[b] = 0
      BY <2>2, <3>1, OnesBelow
    <3>3. ~(b < t)
      BY <1>0, <2>2
    <3> QED BY <3>2, <3>3
  <2> QED BY <1>0, <2>1, <2>2
<1> QED BY <1>0, <1>2, <1>3 DEF RS!Ones

(* x & ((1 << t) - 1) is x % (1 << t).                                      *)
LEMMA MaskedIsModulo ==
  ASSUME NEW t \in 0 .. Bits, NEW x \in RS!Words
  PROVE  RS!Masked(x, RS!power[t] - 1) = x % RS!power[t]
<1> DEFINE p == RS!power[t]
           u == x \div p
           r == x % p
<1>0. Bits \in Nat /\ Bits \in 0 .. Bits
  BY WidthAssumption
<1>1. p \in Nat \ {0} /\ p <= RS!power[Bits] /\ RS!power[Bits] \in Nat
  <2>1. t \in 0 .. Bits
    OBVIOUS
  <2> QED BY <1>0, <2>1, PowerGrows
<1>2. u \in Nat /\ r \in 0 .. p - 1 /\ x = u * p + r
  <2>1. x \in Nat
    BY WordType
  <2> HIDE DEF p
  <2> QED BY <1>1, <2>1, DivMod
<1> HIDE DEF u, r
<1>3. ASSUME NEW b \in 0 .. Bits - 1
      PROVE  b \in RS!Ones(r) <=> b \in RS!Ones(x) /\ b \in 0 .. t - 1
  <2>1. CASE b < t
    <3>1. (x \div RS!power[b]) % 2 = (r \div RS!power[b]) % 2
      BY <1>2, <2>1, OnesBelow
    <3>2. b \in 0 .. t - 1
      BY <2>1
    <3> QED BY <3>1, <3>2 DEF RS!Ones
  <2>2. CASE b >= t
    <3>1. r \div RS!power[b] = 0 /\ b \notin 0 .. t - 1
      BY <1>2, <2>2, OnesBelow
    <3> QED BY <3>1 DEF RS!Ones
  <2> QED BY <1>0, <2>1, <2>2
<1>4. RS!Ones(x) \subseteq 0 .. Bits - 1 /\ RS!Ones(r) \subseteq 0 .. Bits - 1
  BY DEF RS!Ones
<1>5. RS!Ones(r) = RS!Ones(x) \cap (0 .. t - 1)
  BY <1>3, <1>4
<1>6. r \in RS!Words
  BY <1>1, <1>2 DEF RS!Words
<1>7. RS!Masked(x, p - 1) = RS!WordOf(RS!Ones(r))
  BY <1>5, OnesOfMask DEF RS!Masked
<1>8. RS!WordOf(RS!Ones(r)) = r
  BY <1>6, WordOfOnes
<1> QED BY <1>7, <1>8 DEF r

LEMMA MaskedType == \A x, k : RS!Masked(x, k) \in RS!Words
<1>1. \A x, k : RS!Ones(x) \cap RS!Ones(k) \subseteq 0 .. Bits - 1
  BY DEF RS!Ones
<1> QED BY <1>1, OnesOfWord DEF RS!Masked

(* The ones of x >> s are those of x from place s on.                       *)
LEMMA OnesShifted ==
  ASSUME NEW x \in RS!Words, NEW s \in 0 .. Bits, NEW b \in 0 .. Bits - 1
  PROVE  b \in RS!Ones(x \div RS!power[s]) <=> b + s \in RS!Ones(x)
<1> DEFINE P == RS!power
           y == x \div P[s]
           z == x % P[s]
<1>0. Bits \in Nat /\ Bits \in 0 .. Bits /\ b \in 0 .. Bits
  BY WidthAssumption
<1>1. P[s] \in Nat \ {0} /\ P[b] \in Nat \ {0} /\ P[Bits] \in Nat \ {0} /\ x \in Nat
      /\ x <= P[Bits] - 1
  <2>1. P[s] \in Nat \ {0} /\ P[b] \in Nat \ {0} /\ P[Bits] \in Nat \ {0}
    BY <1>0, PowerTurns
  <2>2. x \in Nat /\ x <= P[Bits] - 1
    BY <2>1, WordType DEF RS!Words
  <2> QED BY <2>1, <2>2
<1>2. y \in Nat /\ z \in 0 .. P[s] - 1 /\ x = y * P[s] + z
  <2> HIDE DEF P
  <2> QED BY <1>1, DivMod
<1> HIDE DEF y, z
<1>3. CASE b + s <= Bits
  <2>1. P[b + s] = P[b] * P[s]
    <3>1. b \in Nat /\ s \in Nat
      OBVIOUS
    <3> QED BY <1>3, <3>1, PowerSplit
  <2> DEFINE d == P[b]
             e == P[s]
             q == y \div d
             r == y % d
  <2>2. q \in Nat /\ r \in 0 .. d - 1 /\ y = q * d + r
    <3> HIDE DEF d
    <3> QED BY <1>1, <1>2, DivMod DEF d
  <2> HIDE DEF q, r
  <2>3. d \in Nat \ {0} /\ e \in Nat \ {0} /\ P[b + s] = d * e /\ z \in 0 .. e - 1
        /\ x = y * e + z
    BY <1>1, <1>2, <2>1
  <2> HIDE DEF d, e, P
  <2>4. x = q * (d * e) + (r * e + z)
    <3>1. y * e = (q * d) * e + r * e /\ (q * d) * e = q * (d * e)
      <4>1. q * d \in Int
        BY <2>2, <2>3, TimesNatural
      <4> QED BY <2>2, <2>3, <4>1, TimesRegroups
    <3>2. q * (d * e) \in Nat /\ r * e \in Nat
      BY <2>2, <2>3, TimesNatural
    <3> QED BY <2>3, <3>1, <3>2
  <2>5. r * e + z \in 0 .. d * e - 1
    <3>1. r * e \in Nat /\ d * e \in Nat
      BY <2>2, <2>3, TimesNatural
    <3>2. (d - 1 - r) * e \in Nat /\ (d - 1 - r) * e = (d - 1) * e - r * e
          /\ (d - 1) * e = d * e - 1 * e
      <4>1. d - 1 - r \in Nat
        BY <2>2, <2>3
      <4> QED BY <2>2, <2>3, <4>1, TimesNatural, TimesRegroups
    <3> QED BY <2>3, <3>1, <3>2
  <2>6. x \div (d * e) = q
    <3> DEFINE g == d * e
               w == r * e + z
    <3>1. g \in Nat \ {0} /\ w \in 0 .. g - 1 /\ x = q * g + w
      BY <2>3, <2>4, <2>5, TimesNatural
    <3> HIDE DEF g, w
    <3>2. x \div g = q
      BY <2>2, <3>1, DivUnique
    <3> QED BY <3>2 DEF g
  <2>7. x \div P[b + s] = y \div P[b]
    BY <2>3, <2>6 DEF q, d
  <2>8. CASE b + s < Bits
    <3>1. b + s \in 0 .. Bits - 1
      BY <1>0, <2>8
    <3> QED BY <2>7, <3>1 DEF RS!Ones, P, y
  <2>9. CASE b + s = Bits
    <3>1. x \div P[Bits] = 0
      <4> DEFINE g == P[Bits]
      <4>1. g \in Nat \ {0} /\ x \in 0 .. g - 1 /\ x = 0 * g + x
        BY <1>1
      <4> HIDE DEF g
      <4>2. x \div g = 0
        BY <4>1, DivUnique
      <4> QED BY <4>2 DEF g
    <3>2. y \div P[b] = 0
      BY <2>7, <2>9, <3>1
    <3>3. b \notin RS!Ones(y)
      BY <3>2 DEF RS!Ones, P
    <3>4. b + s \notin 0 .. Bits - 1
      BY <1>0, <2>9
    <3> QED BY <3>3, <3>4 DEF RS!Ones, P, y
  <2> QED BY <1>0, <1>3, <2>8, <2>9
<1>4. CASE b + s > Bits
  <2>1. s \in 0 .. Bits /\ Bits - s \in 0 .. b /\ Bits - s \in 0 .. Bits
    BY <1>0, <1>4
  <2>2. P[Bits] = P[Bits - s] * P[s] /\ P[Bits - s] <= P[b] /\ P[Bits - s] \in Nat
    BY <1>0, <2>1, PowerGrows
  <2> DEFINE d == P[b]
             e == P[s]
             c == P[Bits - s]
  <2>3. d \in Nat /\ e \in Nat \ {0} /\ c \in Nat /\ c <= d /\ x < c * e /\ x = y * e + z
        /\ z \in Nat
    <3>1. x < P[Bits]
      BY <1>1
    <3> QED BY <1>1, <1>2, <2>2, <3>1
  <2> HIDE DEF d, e, c
  <2>4. y * e \in Nat /\ c * e \in Nat
    BY <1>2, <2>3, TimesNatural
  <2>5. y * e < c * e
    BY <2>3, <2>4
  <2>6. y < c
    BY <1>2, <2>3, <2>5, TimesLess
  <2>7. y \in 0 .. d - 1 /\ d \in Nat \ {0} /\ y = 0 * d + y
    BY <1>2, <2>3, <2>6
  <2>8. y \div d = 0
    BY <2>7, DivUnique
  <2>9. b \notin RS!Ones(y)
    BY <2>8 DEF RS!Ones, d, P
  <2>10. b + s \notin 0 .. Bits - 1
    BY <1>0, <1>4
  <2> QED BY <2>9, <2>10 DEF RS!Ones, P, y
<1> QED BY <1>0, <1>3, <1>4

(* The number of bits of x                                                  *)
Length(x, t) ==
  t \in 1 .. Bits /\ RS!power[t - 1] <= x /\ x < RS!power[t]

LEMMA LengthExists ==
  ASSUME NEW x \in RS!Words, x > 0
  PROVE  \E t \in 1 .. Bits : Length(x, t)
<1> DEFINE T == {t \in 0 .. Bits : x < RS!power[t]}
<1>0. Bits \in Nat /\ Bits \in 0 .. Bits /\ x \in Nat
  BY WidthAssumption, WordType
<1>1. \A t \in 0 .. Bits : RS!power[t] \in Nat
  BY PowerTurns
<1>2. Bits \in T
  BY <1>0, <1>1 DEF RS!Words
<1>3. T \subseteq Nat
  OBVIOUS
<1>4. PICK t \in T : \A k \in T : t <= k
  <2> HIDE DEF T
  <2> QED BY <1>2, <1>3, LeastNumber
<1>5. t # 0
  BY <1>0, <1>4, PowerTurns
<1>6. t \in 1 .. Bits /\ t - 1 \in 0 .. Bits /\ ~(t <= t - 1)
  BY <1>0, <1>4, <1>5
<1>7. t - 1 \notin T
  BY <1>4, <1>6
<1>8. RS!power[t - 1] <= x
  BY <1>0, <1>1, <1>6, <1>7
<1> QED BY <1>4, <1>6, <1>8 DEF Length

(* The highest one of x is at place t - 1.                                  *)
LEMMA LengthOnes ==
  ASSUME NEW x \in RS!Words, NEW t, Length(x, t)
  PROVE  t - 1 \in RS!Ones(x) /\ \A b \in RS!Ones(x) : b <= t - 1
<1> DEFINE P == RS!power
<1>0. Bits \in Nat /\ x \in Nat /\ t \in 1 .. Bits /\ P[t - 1] <= x /\ x < P[t]
  BY WidthAssumption, WordType DEF Length
<1>1. t \in 0 .. Bits /\ t - 1 \in 0 .. Bits /\ t - 1 \in 0 .. Bits - 1
  BY <1>0
<1>2. P[t - 1] \in Nat \ {0} /\ P[t] = 2 * P[t - 1]
  BY <1>0, <1>1, PowerTurns
<1>3. (x \div P[t - 1]) % 2 = 1
  <2> DEFINE d == P[t - 1]
             r == x - d
  <2>1. d \in Nat \ {0} /\ r \in 0 .. d - 1 /\ x = 1 * d + r
    BY <1>0, <1>2
  <2> HIDE DEF d, r
  <2>2. x \div d = 1
    BY <2>1, DivUnique
  <2>3. 1 % 2 = 1
    OBVIOUS
  <2> QED BY <2>2, <2>3 DEF d
<1>4. ASSUME NEW b \in RS!Ones(x), ~(b <= t - 1) PROVE FALSE
  <2>1. b \in 0 .. Bits - 1 /\ (x \div P[b]) % 2 = 1
    BY DEF RS!Ones
  <2>2. b >= t
    BY <1>0, <1>4, <2>1
  <2>3. x \in 0 .. P[t] - 1
    BY <1>0, <1>1, <1>2
  <2>4. x \div P[b] = 0
    BY <1>1, <2>1, <2>2, <2>3, OnesBelow
  <2> QED BY <2>1, <2>4
<1> QED BY <1>1, <1>3, <1>4 DEF RS!Ones
-----------------------------------------------------------------------------
(* A sample serves a turn of the loop, if it has a loop to serve.           *)
Serving ==
  spc # "idle" /\ pc = "loop" =>
    method = "rejection" /\ i < size /\ mod = Candidates(i)

(* n |= n >> i has spread the ones of mod - 1 by the shifts so far.         *)
Spread(x, y, s) ==
  \A b \in 0 .. Bits - 1 :
    b \in RS!Ones(y) <=> \E u \in 0 .. s - 1 : b + u \in RS!Ones(x)

Smearing ==
  spc = "smear" => n \in RS!Words /\ shift \in Nat \ {0} /\ Spread(mod - 1, n, shift)

(* The mask is all ones, as many as mod - 1 has bits.                       *)
Tight ==
  RS!Drawing =>
    \E t \in 1 .. Bits : mask = RS!power[t] - 1 /\ Length(mod - 1, t)

SampleOK ==
  /\ spc \in {"idle", "smear", "draw", "test"}
  /\ mod \in RS!Words /\ out \in RS!Words
  /\ spc # "idle" => mod > 1

SInv == IInv /\ SampleOK /\ Serving /\ Smearing /\ Tight

LEMMA LessOne ==
  ASSUME NEW x \in RS!Words, x > 1
  PROVE  x - 1 \in RS!Words /\ x - 1 > 0
<1>1. Bits \in 0 .. Bits
  BY WidthAssumption
<1>2. RS!power[Bits] \in Nat
  BY <1>1, PowerTurns
<1> QED BY <1>2 DEF RS!Words

LEMMA ZeroWord == 0 \in RS!Words
<1>1. Bits \in 0 .. Bits
  BY WidthAssumption
<1>2. RS!power[Bits] \in Nat \ {0}
  BY <1>1, PowerTurns
<1> QED BY <1>2 DEF RS!Words

(* One turn doubles how far the ones are spread.                            *)
LEMMA SmearSpreads ==
  ASSUME NEW x, NEW y \in RS!Words, NEW s \in 1 .. Bits, Spread(x, y, s)
  PROVE  RS!Smeared(y, s) \in RS!Words /\ Spread(x, RS!Smeared(y, s), 2 * s)
<1> DEFINE z == y \div RS!power[s]
           B == RS!Ones(y) \cup RS!Ones(z)
<1>0. Bits \in Nat /\ s \in 0 .. Bits
  BY WidthAssumption
<1>1. B \subseteq 0 .. Bits - 1
  BY DEF RS!Ones
<1>2. RS!Smeared(y, s) \in RS!Words /\ RS!Ones(RS!Smeared(y, s)) = B
  BY <1>1, OnesOfWord DEF RS!Smeared
<1>3. ASSUME NEW b \in 0 .. Bits - 1
      PROVE  b \in B <=> \E u \in 0 .. 2 * s - 1 : b + u \in RS!Ones(x)
  <2>1. b \in RS!Ones(z) <=> b + s \in RS!Ones(y)
    BY <1>0, OnesShifted
  <2>2. b \in RS!Ones(y) <=> \E u \in 0 .. s - 1 : b + u \in RS!Ones(x)
    BY DEF Spread
  <2>3. b + s \in RS!Ones(y) <=> \E u \in 0 .. s - 1 : b + s + u \in RS!Ones(x)
    <3>1. CASE b + s \in 0 .. Bits - 1
      BY <3>1 DEF Spread
    <3>2. CASE b + s \notin 0 .. Bits - 1
      <4>1. \A u \in 0 .. s - 1 : b + s + u \notin 0 .. Bits - 1
        BY <1>0, <3>2
      <4> QED BY <3>2, <4>1 DEF RS!Ones
    <3> QED BY <3>1, <3>2
  <2>4. ASSUME NEW u \in 0 .. s - 1, b + u \in RS!Ones(x) \/ b + s + u \in RS!Ones(x)
        PROVE  \E v \in 0 .. 2 * s - 1 : b + v \in RS!Ones(x)
    <3>1. u \in 0 .. 2 * s - 1 /\ s + u \in 0 .. 2 * s - 1 /\ b + (s + u) = b + s + u
      BY <1>0
    <3> QED BY <2>4, <3>1
  <2>5. ASSUME NEW v \in 0 .. 2 * s - 1, b + v \in RS!Ones(x)
        PROVE  \/ \E u \in 0 .. s - 1 : b + u \in RS!Ones(x)
               \/ \E u \in 0 .. s - 1 : b + s + u \in RS!Ones(x)
    <3>1. CASE v < s
      <4>1. v \in 0 .. s - 1
        BY <3>1
      <4> QED BY <2>5, <4>1
    <3>2. CASE v >= s
      <4>1. v - s \in 0 .. s - 1 /\ b + s + (v - s) = b + v
        BY <1>0, <3>2
      <4> QED BY <2>5, <4>1
    <3> QED BY <1>0, <3>1, <3>2
  <2> QED BY <2>1, <2>2, <2>3, <2>4, <2>5
<1> QED BY <1>2, <1>3 DEF Spread

(* Spread far enough, the ones of x fill the word up to its length.         *)
LEMMA SmearedToMask ==
  ASSUME NEW x \in RS!Words, NEW y \in RS!Words, NEW s \in Nat, s >= Bits,
         Spread(x, y, s), NEW t, Length(x, t)
  PROVE  y = RS!power[t] - 1
<1>0. Bits \in Nat /\ t \in 1 .. Bits /\ t \in 0 .. Bits
  BY WidthAssumption DEF Length
<1>1. t - 1 \in RS!Ones(x) /\ \A b \in RS!Ones(x) : b <= t - 1
  BY LengthOnes
<1>2. ASSUME NEW b \in 0 .. Bits - 1 PROVE b \in RS!Ones(y) <=> b \in 0 .. t - 1
  <2>1. b \in RS!Ones(y) <=> \E u \in 0 .. s - 1 : b + u \in RS!Ones(x)
    BY DEF Spread
  <2>2. CASE b \in 0 .. t - 1
    <3>1. t - 1 - b \in 0 .. s - 1 /\ b + (t - 1 - b) = t - 1
      BY <1>0, <2>2
    <3> QED BY <1>1, <2>1, <2>2, <3>1
  <2>3. CASE b \notin 0 .. t - 1
    <3>1. \A u \in 0 .. s - 1 : ~(b + u <= t - 1)
      BY <1>0, <2>3
    <3> QED BY <1>1, <2>1, <2>3, <3>1
  <2> QED BY <2>2, <2>3
<1>3. RS!Ones(y) \subseteq 0 .. Bits - 1 /\ 0 .. t - 1 \subseteq 0 .. Bits - 1
  BY <1>0 DEF RS!Ones
<1>4. RS!Ones(y) = 0 .. t - 1
  BY <1>2, <1>3
<1>5. RS!power[t] - 1 \in RS!Words /\ RS!Ones(RS!power[t] - 1) = 0 .. t - 1
  BY <1>0, OnesOfMask
<1> QED BY <1>4, <1>5, WordOfOnes

(* least2pow(n) - 1 is n where n is all ones, also where least2pow wraps.   *)
LEMMA MaskOf ==
  ASSUME NEW t \in 1 .. Bits
  PROVE  RS!Decremented(RS!Incremented(RS!power[t] - 1)) = RS!power[t] - 1
<1> DEFINE P == RS!power
<1>0. Bits \in Nat /\ Bits \in 1 .. Bits /\ t \in 0 .. Bits /\ Bits \in 0 .. Bits
      /\ Bits - 1 \in 0 .. Bits
  BY WidthAssumption
<1>1. P[t] \in Nat \ {0} /\ P[Bits] \in Nat \ {0} /\ P[Bits - 1] \in Nat \ {0}
      /\ P[Bits] = 2 * P[Bits - 1]
  BY <1>0, PowerTurns
<1> HIDE DEF P
<1>2. CASE promotes
  <2>1. RS!Incremented(P[t] - 1) = P[t]
    BY <1>1, <1>2 DEF RS!Incremented
  <2>2. RS!Decremented(P[t]) = P[t] - 1
    BY <1>1 DEF RS!Decremented
  <2> QED BY <2>1, <2>2 DEF P
<1>3. CASE ~promotes
  <2>1. RS!Incremented(P[t] - 1) = P[t] % P[Bits]
    BY <1>1, <1>3 DEF RS!Incremented, P
  <2>2. CASE t = Bits
    <3>1. P[t] % P[Bits] = 0
      BY <1>1, <2>2
    <3>2. RS!Decremented(0) = P[Bits] - 1
      BY DEF RS!Decremented, P
    <3> QED BY <2>1, <2>2, <3>1, <3>2 DEF P
  <2>3. CASE t # Bits
    <3>1. t \in 0 .. Bits - 1 /\ Bits - 1 \in 0 .. Bits
      BY <1>0, <2>3
    <3>2. P[t] <= P[Bits - 1]
      BY <3>1, PowerGrows DEF P
    <3>3. P[t] % P[Bits] = P[t]
      <4> DEFINE d == P[Bits]
                 x == P[t]
      <4>1. d \in Nat \ {0} /\ x \in 0 .. d - 1 /\ x = 0 * d + x
        BY <1>1, <3>2
      <4> HIDE DEF d, x
      <4>2. x % d = x
        BY <4>1, DivUnique
      <4> QED BY <4>2 DEF d, x
    <3>4. RS!Decremented(P[t]) = P[t] - 1
      BY <1>1 DEF RS!Decremented
    <3> QED BY <2>1, <3>3, <3>4 DEF P
  <2> QED BY <2>2, <2>3
<1> QED BY <1>2, <1>3

(* A sample begins.                                                         *)
LEMMA SampleBegins ==
  ASSUME SInv, UNCHANGED vars, NEW k \in RS!Words, RS!Call(k),
         pc = "loop" => method = "rejection" /\ i < size /\ k = Candidates(i)
  PROVE  SInv'
<1>1. IInv'
  BY NextInductive DEF SInv
<1>2. spc' = "smear" /\ mod' = k /\ k > 1 /\ n' = k - 1 /\ shift' = 1 /\ out' \in RS!Words
  BY DEF RS!Call
<1>3. SampleOK'
  BY <1>2 DEF SampleOK
<1>4. Serving'
  BY <1>2 DEF Serving, vars, Candidates
<1>5. Spread(k - 1, k - 1, 1)
  <2>1. \A b \in 0 .. Bits - 1 : \A u \in 0 .. 1 - 1 : b + u = b
    BY WidthAssumption
  <2>2. 0 \in 0 .. 1 - 1
    OBVIOUS
  <2> QED BY <2>1, <2>2 DEF Spread
<1>6. Smearing'
  BY <1>2, <1>5, LessOne DEF Smearing, Spread
<1>7. Tight'
  BY <1>2 DEF Tight, RS!Drawing
<1> QED BY <1>1, <1>3, <1>4, <1>6, <1>7 DEF SInv

LEMMA SmearGoesOn == ASSUME SInv, RS!Smear PROVE Smearing'
<1>1. spc = "smear" /\ shift < Bits /\ n' = RS!Smeared(n, shift) /\ shift' = 2 * shift
      /\ mod' = mod
  BY DEF RS!Smear
<1>2. n \in RS!Words /\ shift \in Nat \ {0} /\ Spread(mod - 1, n, shift)
  BY <1>1 DEF SInv, Smearing
<1>3. shift \in 1 .. Bits
  BY <1>1, <1>2, WidthAssumption
<1>4. n' \in RS!Words /\ Spread(mod - 1, n', 2 * shift)
  BY <1>1, <1>2, <1>3, SmearSpreads
<1>5. Spread(mod' - 1, n', shift')
  BY <1>1, <1>4
<1> QED BY <1>1, <1>2, <1>4, <1>5 DEF Smearing, Spread

LEMMA SmearEnds == ASSUME SInv, RS!SmearDone PROVE Tight'
<1>1. spc = "smear" /\ shift >= Bits /\ mask' = RS!Decremented(RS!Incremented(n))
      /\ mod' = mod
  BY DEF RS!SmearDone
<1>2. n \in RS!Words /\ shift \in Nat \ {0} /\ Spread(mod - 1, n, shift)
      /\ mod \in RS!Words /\ mod > 1
  BY <1>1 DEF SInv, Smearing, SampleOK
<1>3. mod - 1 \in RS!Words /\ mod - 1 > 0
  BY <1>2, LessOne
<1>4. PICK t \in 1 .. Bits : Length(mod - 1, t)
  BY <1>3, LengthExists
<1>5. n = RS!power[t] - 1
  BY <1>1, <1>2, <1>3, <1>4, SmearedToMask
<1>6. mask' = RS!power[t] - 1
  BY <1>1, <1>5, MaskOf
<1> QED BY <1>1, <1>4, <1>6 DEF Tight, Length

(* The steps inside of a sample keep the invariant.                         *)
LEMMA InSampleOK == ASSUME SInv, InSample PROVE SInv'
<1>1. UNCHANGED vars /\ RS!Inside
  BY DEF InSample
<1>2. IInv'
  BY <1>1, NextInductive DEF SInv
<1>3. /\ spc # "idle" /\ spc' \in {"smear", "draw", "test"} /\ mod' = mod
      /\ out' \in RS!Words
  BY <1>1, MaskedType DEF SInv, SampleOK, RS!Inside, RS!Smear, RS!SmearDone, RS!DrawWord,
     RS!DrawPart, RS!DrawNothing, RS!Draw, RS!Reject
<1>4. SampleOK' /\ Serving'
  BY <1>1, <1>3 DEF SInv, SampleOK, Serving, vars, Candidates
<1>5. CASE RS!Smear
  BY <1>2, <1>4, <1>5, SmearGoesOn DEF SInv, Tight, RS!Drawing, RS!Smear
<1>6. CASE RS!SmearDone
  BY <1>2, <1>4, <1>6, SmearEnds DEF SInv, Smearing, RS!SmearDone
<1>7. CASE ~RS!Smear /\ ~RS!SmearDone
  <2>1. RS!Drawing /\ spc' # "smear" /\ mask' = mask
    BY <1>1, <1>7 DEF RS!Inside, RS!DrawWord, RS!DrawPart, RS!DrawNothing, RS!Draw, RS!Reject,
       RS!Drawing
  <2>2. Tight' /\ Smearing'
    BY <1>3, <2>1 DEF SInv, Tight, Smearing, Length, RS!Drawing
  <2> QED BY <1>2, <1>4, <2>2 DEF SInv
<1> QED BY <1>5, <1>6, <1>7

(* A step of the composed program is one of FisherYates or changes none of  *)
(* its variables.                                                           *)
LEMMA StepImplements ==
  ASSUME SInv, [SampledNext]_all
  PROVE  [Next]_vars
<1>1. CASE CallShuffle \/ CallRounded \/ RoundedTurn \/ ShuffleReturns
  BY <1>1 DEF CallShuffle, CallRounded, RoundedTurn, ShuffleReturns, Next
<1>2. CASE CallSampler \/ CallSample \/ InSample \/ SampleReturns \/ UNCHANGED all
  BY <1>2 DEF CallSampler, CallSample, InSample, SampleReturns, all
<1>3. CASE SampledTurn
  <2>1. pc = "loop" /\ spc # "idle" /\ out < mod /\ Turn(out)
    BY <1>3 DEF SampledTurn, RS!Accept
  <2>2. method = "rejection" /\ i < size /\ mod = Candidates(i)
    BY <2>1 DEF SInv, Serving
  <2>3. out \in Nat /\ size \in Nat /\ i \in Nat
    BY ArrayAssumption, WordType DEF SInv, SampleOK, IInv, TypeOK
  <2>4. out \in RejectionIndex(i)
    BY <2>1, <2>2, <2>3 DEF RejectionIndex, Candidates
  <2> QED BY <2>1, <2>2, <2>4 DEF RejectionTurn, Next
<1> QED BY <1>1, <1>2, <1>3 DEF SampledNext, Inside

LEMMA SampledInductive == SampledSpec => []SInv
<1>1. SampledInit => SInv
  <2> SUFFICES ASSUME SampledInit PROVE SInv
    OBVIOUS
  <2>1. IInv
    BY InitInductive DEF SampledInit
  <2>2. mod = 0 /\ out = 0 /\ spc = "idle"
    BY DEF SampledInit, RS!Init
  <2> QED BY <2>1, <2>2, ZeroWord DEF SInv, SampleOK, Serving, Smearing, Tight, RS!Drawing
<1>2. SInv /\ [SampledNext]_all => SInv'
  <2> SUFFICES ASSUME SInv, [SampledNext]_all PROVE SInv'
    OBVIOUS
  <2>1. IInv'
    BY StepImplements, NextInductive DEF SInv
  <2>2. size \in Nat /\ i \in Nat /\ 1 <= i /\ size \in Sizes
    BY ArrayAssumption DEF SInv, IInv, TypeOK
  <2>3. CASE CallShuffle \/ CallRounded
    BY <2>1, <2>3 DEF SInv, CallShuffle, CallRounded, sample, SampleOK, Serving, Smearing,
       Tight, RS!Drawing
  <2>4. CASE CallSampler
    <3>1. PICK k \in Mods : RS!Call(k)
      BY <2>4 DEF CallSampler
    <3>2. k \in RS!Words /\ pc = "idle" /\ UNCHANGED vars
      BY <2>4, <3>1, WidthAssumption DEF CallSampler
    <3> QED BY <3>1, <3>2, SampleBegins
  <2>5. CASE CallSample
    <3>1. RS!Call(Candidates(i)) /\ UNCHANGED vars /\ method = "rejection" /\ i < size
      BY <2>5 DEF CallSample, Modulus
    <3>2. Candidates(i) \in RS!Words
      <4>1. size \in RS!Words
        BY <2>2, WidthAssumption
      <4>2. Candidates(i) \in 0 .. size
        BY <2>2, <3>1 DEF Candidates
      <4>3. RS!power[Bits] \in Nat
        <5>1. Bits \in 0 .. Bits
          BY WidthAssumption
        <5> QED BY <5>1, PowerTurns
      <4> QED BY <2>2, <4>1, <4>2, <4>3 DEF RS!Words
    <3> QED BY <3>1, <3>2, SampleBegins
  <2>6. CASE InSample
    BY <2>6, InSampleOK
  <2>7. CASE SampledTurn \/ SampleReturns
    <3>1. spc' = "idle" /\ mod' = 0 /\ out' = 0
      BY <2>7 DEF SampledTurn, SampleReturns, RS!Accept
    <3> QED BY <2>1, <3>1, ZeroWord DEF SInv, SampleOK, Serving, Smearing, Tight, RS!Drawing
  <2>8. CASE RoundedTurn \/ ShuffleReturns
    <3>1. spc = "idle" \/ ~(method = "rejection" /\ i < size)
      BY <2>2, <2>8 DEF RoundedTurn, RoundingTurn, ShuffleReturns, Return
    <3>2. spc = "idle"
      BY <2>8, <3>1 DEF SInv, Serving, RoundedTurn, RoundingTurn, ShuffleReturns, Return
    <3> QED BY <2>1, <2>8, <3>2 DEF SInv, RoundedTurn, ShuffleReturns, sample, SampleOK,
            Serving, Smearing, Tight, RS!Drawing
  <2>9. CASE UNCHANGED all
    <3>1. UNCHANGED vars /\ UNCHANGED sample
      BY <2>9 DEF all
    <3> QED BY <2>1, <3>1 DEF SInv, vars, sample, SampleOK, Serving, Smearing, Spread, Tight,
            Length, RS!Drawing, Candidates
  <2> QED BY <2>3, <2>4, <2>5, <2>6, <2>7, <2>8, <2>9 DEF SampledNext, Inside
<1> QED BY <1>1, <1>2, PTL DEF SampledSpec

(* The loops composed with the draws they make, on a device that may fail,  *)
(* implement FisherYates: every turn takes an index below the number of     *)
(* candidates, for arrays of every length and integers of every width.      *)
THEOREM SamplesImplement == SampledSpec => Implements
<1>1. SampledInit => Init
  BY DEF SampledInit
<1>2. SInv /\ [SampledNext]_all => [Next]_vars
  BY StepImplements
<1> QED BY <1>1, <1>2, SampledInductive, PTL DEF SampledSpec, Spec, Implements

(* The mask of least2pow lets every index below mod through and rejects     *)
(* less than half of the words, for every width and modulus, also where     *)
(* least2pow wraps to zero.                                                 *)
THEOREM MaskTight == SampledSpec => []AcceptHalf
<1>1. SInv => AcceptHalf
  <2> SUFFICES ASSUME SInv, RS!Drawing PROVE mod - 1 <= mask /\ mask + 1 < 2 * mod
    BY DEF AcceptHalf, RS!AcceptHalf
  <2>1. PICK t \in 1 .. Bits : mask = RS!power[t] - 1 /\ Length(mod - 1, t)
    BY DEF SInv, Tight
  <2>2. t \in 0 .. Bits /\ t - 1 \in 0 .. Bits /\ t \in 1 .. Bits
    BY WidthAssumption
  <2>3. RS!power[t] = 2 * RS!power[t - 1] /\ RS!power[t] \in Nat /\ RS!power[t - 1] \in Nat
    BY <2>2, PowerTurns
  <2>4. mod \in Nat
    BY WordType DEF SInv, SampleOK
  <2>5. RS!power[t - 1] <= mod - 1 /\ mod - 1 < RS!power[t]
    BY <2>1 DEF Length
  <2> QED BY <2>1, <2>3, <2>4, <2>5
<1> QED BY <1>1, SampledInductive, PTL

(* Words with one remainder are as many as the quotients.                   *)
LEMMA CountRemainder ==
  ASSUME NEW d \in Nat \ {0}, NEW q \in Nat, NEW v \in 0 .. d - 1
  PROVE  Cardinality({w \in 0 .. q * d - 1 : w % d = v}) = q
<1> DEFINE A == 0 .. q - 1
           B == {w \in 0 .. q * d - 1 : w % d = v}
           f == [u \in A |-> u * d + v]
<1>0. q * d \in Nat
  BY TimesNatural
<1>1. ASSUME NEW u \in A PROVE u * d + v \in B /\ (u * d + v) \div d = u
  <2>1. u \in Nat
    OBVIOUS
  <2>2. (u * d + v) \div d = u /\ (u * d + v) % d = v /\ u * d \in Nat
    BY <2>1, DivUnique, TimesNatural
  <2>3. (q - (u + 1)) * d \in Nat /\ (q - (u + 1)) * d = q * d - (u + 1) * d
        /\ (u + 1) * d = u * d + 1 * d
    <3>1. q - (u + 1) \in Nat /\ u + 1 \in Int
      BY <2>1
    <3> QED BY <2>1, <3>1, TimesNatural, TimesRegroups
  <2> QED BY <1>0, <2>2, <2>3
<1>2. ASSUME NEW w \in B PROVE \E u \in A : u * d + v = w
  <2> DEFINE u == w \div d
  <2>1. w \in Nat /\ w < q * d /\ w % d = v
    BY <1>0
  <2>2. u \in Nat /\ w = u * d + v
    BY <2>1, DivMod
  <2> HIDE DEF u
  <2>3. u * d \in Nat
    BY <2>2, TimesNatural
  <2>4. u * d < q * d
    BY <1>0, <2>1, <2>2, <2>3
  <2>5. u < q
    BY <2>2, <2>4, TimesLess
  <2>6. u \in A
    BY <2>2, <2>5
  <2> QED BY <2>2, <2>6
<1>3. f \in [A -> B]
  BY <1>1
<1>4. \A a, b \in A : f[a] = f[b] => a = b
  BY <1>1
<1>5. \A w \in B : \E a \in A : f[a] = w
  BY <1>2
<1>6. f \in Bijection(A, B)
  BY <1>3, <1>4, <1>5 DEF Bijection, Injection, Surjection, IsInjective
<1>7. IsFiniteSet(A) /\ Cardinality(A) = q
  BY FS_Interval
<1> QED BY <1>6, <1>7, FS_Bijection DEF ExistsBijection

(* Every index below mod is the masked value of equally many words.         *)
THEOREM SamplesUniform == SampledSpec => []Unbiased
<1>1. SInv => Unbiased
  <2> SUFFICES ASSUME SInv, RS!Drawing, NEW v \in 0 .. mod - 1
      PROVE  Cardinality({w \in RS!Words : RS!Masked(w, mask) = v}) * (mask + 1)
             = RS!power[Bits]
    BY DEF Unbiased, RS!Unbiased, RS!Cardinality, Cardinality
  <2>1. PICK t \in 1 .. Bits : mask = RS!power[t] - 1 /\ Length(mod - 1, t)
    BY DEF SInv, Tight
  <2> DEFINE d == RS!power[t]
             q == RS!power[Bits - t]
  <2>2. t \in 0 .. Bits /\ Bits \in 0 .. Bits
    BY WidthAssumption
  <2>3. d \in Nat \ {0} /\ q \in Nat \ {0} /\ RS!power[Bits] = q * d
    BY <2>2, PowerGrows
  <2>4. v \in 0 .. d - 1
    <3>1. mod - 1 < d /\ mod \in Nat
      BY <2>1, WordType DEF SInv, SampleOK, Length
    <3> QED BY <2>3, <3>1
  <2>5. \A w \in RS!Words : RS!Masked(w, mask) = w % d
    BY <2>1, <2>2, MaskedIsModulo
  <2>6. RS!Words = 0 .. q * d - 1
    BY <2>3 DEF RS!Words
  <2>7. {w \in RS!Words : RS!Masked(w, mask) = v} = {w \in 0 .. q * d - 1 : w % d = v}
    BY <2>5, <2>6
  <2> HIDE DEF d, q
  <2>8. Cardinality({w \in 0 .. q * d - 1 : w % d = v}) = q
    BY <2>3, <2>4, CountRemainder
  <2>9. mask + 1 = d
    BY <2>1, <2>3 DEF d
  <2> QED BY <2>3, <2>7, <2>8, <2>9
<1> QED BY <1>1, SampledInductive, PTL

(* Masking a word again changes nothing.                                    *)
LEMMA MaskedTwice ==
  ASSUME SInv, RS!Drawing, NEW w \in RS!Words
  PROVE  RS!Masked(RS!Masked(w, mask), mask) = RS!Masked(w, mask)
<1>1. PICK t \in 1 .. Bits : mask = RS!power[t] - 1
  BY DEF SInv, Tight
<1> DEFINE d == RS!power[t]
           o == RS!Masked(w, mask)
<1>2. t \in 0 .. Bits
  BY WidthAssumption
<1>3. d \in Nat \ {0}
  BY <1>2, PowerGrows
<1>4. o \in RS!Words
  BY MaskedType
<1>5. \A x \in RS!Words : RS!Masked(x, mask) = x % d
  BY <1>1, <1>2, MaskedIsModulo
<1> HIDE DEF d, o
<1>6. w \in Nat /\ o \in Nat
  BY <1>4, WordType
<1>7. o = w % d /\ RS!Masked(o, mask) = o % d
  BY <1>4, <1>5 DEF o
<1>8. o \in 0 .. d - 1
  BY <1>3, <1>6, <1>7, DivMod
<1>9. o % d = o
  <2>1. o = 0 * d + o
    BY <1>3, <1>6
  <2> QED BY <1>3, <1>8, <2>1, DivUnique
<1> QED BY <1>7, <1>9 DEF o

(* What is tested has been masked.                                          *)
MaskedOut == spc = "test" => RS!Masked(out, mask) = out

(* A value the device no longer replaces, and the test rejects              *)
Stuck == ~good /\ RS!Drawing /\ out >= mod /\ RS!Masked(out, mask) = out

LEMMA MaskedOutStays == ASSUME SInv, MaskedOut, [SampledNext]_all PROVE MaskedOut'
<1>1. ASSUME NEW w \in RS!Words, RS!Draw(w) PROVE MaskedOut'
  <2>1. RS!Drawing /\ out' = RS!Masked(w, mask) /\ mask' = mask
    BY <1>1 DEF RS!Draw, RS!Drawing
  <2>2. RS!Masked(RS!Masked(w, mask), mask) = RS!Masked(w, mask)
    BY <2>1, MaskedTwice
  <2> QED BY <2>1, <2>2 DEF MaskedOut, RS!Masked
<1>2. CASE InSample
  <2>1. out \in RS!Words
    BY DEF SInv, SampleOK
  <2>2. CASE RS!DrawWord \/ RS!DrawPart \/ RS!DrawNothing
    BY <1>1, <2>1, <2>2 DEF RS!DrawWord, RS!DrawPart, RS!DrawNothing
  <2>3. CASE RS!Smear \/ RS!SmearDone \/ RS!Reject
    <3>1. spc' # "test"
      BY <2>3 DEF RS!Smear, RS!SmearDone, RS!Reject
    <3> QED BY <3>1 DEF MaskedOut
  <2> QED BY <1>2, <2>2, <2>3 DEF InSample, RS!Inside
<1>3. CASE CallSampler \/ CallSample \/ SampledTurn \/ SampleReturns
  <2>1. spc' # "test"
    BY <1>3 DEF CallSampler, CallSample, SampledTurn, SampleReturns, RS!Call, RS!Accept
  <2> QED BY <2>1 DEF MaskedOut
<1>4. CASE CallShuffle \/ CallRounded \/ RoundedTurn \/ ShuffleReturns \/ UNCHANGED all
  <2>1. UNCHANGED <<spc, out, mask>>
    BY <1>4 DEF CallShuffle, CallRounded, RoundedTurn, ShuffleReturns, all, sample
  <2> QED BY <2>1 DEF MaskedOut, RS!Masked
<1> QED BY <1>2, <1>3, <1>4 DEF SampledNext, Inside

LEMMA StuckStays == ASSUME SInv, Stuck, [SampledNext]_all PROVE Stuck'
<1>1. ~good /\ spc \in {"draw", "test"} /\ out >= mod /\ RS!Masked(out, mask) = out
  BY DEF Stuck, RS!Drawing
<1>2. out \in Nat /\ mod \in Nat /\ ~(out < mod)
  <2>1. out \in Nat /\ mod \in Nat
    BY WordType DEF SInv, SampleOK
  <2> QED BY <1>1, <2>1
<1>3. ASSUME UNCHANGED <<good, mod, mask>>, spc' \in {"draw", "test"}, out' = out
      PROVE  Stuck'
  BY <1>1, <1>3 DEF Stuck, RS!Drawing, RS!Masked
<1>4. CASE InSample
  <2>1. RS!DrawNothing \/ RS!Reject
    BY <1>1, <1>4 DEF InSample, RS!Inside, RS!Smear, RS!SmearDone, RS!DrawWord, RS!DrawPart
  <2>2. CASE RS!DrawNothing
    <3>1. out' = RS!Masked(out, mask) /\ spc' = "test" /\ UNCHANGED <<good, mod, mask>>
      BY <2>2 DEF RS!DrawNothing, RS!Draw
    <3> QED BY <1>1, <1>3, <3>1
  <2>3. CASE RS!Reject
    BY <1>3, <2>3 DEF RS!Reject
  <2> QED BY <2>1, <2>2, <2>3
<1>5. CASE UNCHANGED sample
  BY <1>1, <1>3, <1>5 DEF sample
<1>6. ~CallShuffle /\ ~CallRounded /\ ~CallSampler /\ ~CallSample
  BY <1>1 DEF CallShuffle, CallRounded, CallSampler, CallSample, RS!Call
<1>7. ~SampledTurn /\ ~SampleReturns
  BY <1>2 DEF SampledTurn, SampleReturns, RS!Accept
<1> QED BY <1>4, <1>5, <1>6, <1>7
        DEF SampledNext, Inside, RoundedTurn, ShuffleReturns, all

(* A sample rejected after the device failed never ends, for every width    *)
(* and modulus: its caller waits for ever.                                  *)
THEOREM RejectedForEver == SampledSpec => StuckOnceRejected
<1>1. SampledInit => MaskedOut
  BY DEF SampledInit, RS!Init, MaskedOut
<1>2. SInv /\ MaskedOut /\ [SampledNext]_all => MaskedOut'
  BY MaskedOutStays
<1>3. SInv /\ Stuck /\ [SampledNext]_all => Stuck'
  BY StuckStays
<1>4. MaskedOut /\ spc = "test" /\ ~good /\ out >= mod => Stuck
  BY DEF MaskedOut, Stuck, RS!Drawing
<1>5. Stuck => RS!Drawing
  BY DEF Stuck
<1> QED BY <1>1, <1>2, <1>3, <1>4, <1>5, SampledInductive, PTL
        DEF SampledSpec, StuckOnceRejected, RS!StuckOnceRejected
-----------------------------------------------------------------------------
LEMMA ProductPerm ==
  ASSUME degree \in Nat, NEW p, NEW q, IsPerm(p, degree), IsPerm(q, degree)
  PROVE  IsPerm(product(p, q), degree)
<1> DEFINE r == product(p, q)
<1>1. p \in [Places -> Places] /\ q \in [Places -> Places]
  BY DEF IsPerm, Places
<1>2. r \in [Places -> Places] /\ \A k \in Places : r[k] = q[p[k]]
  BY <1>1 DEF product
<1>3. ASSUME NEW a \in Places, NEW b \in Places, r[a] = r[b] PROVE a = b
  <2>1. q[p[a]] = q[p[b]] /\ p[a] \in Places /\ p[b] \in Places
    BY <1>1, <1>2, <1>3
  <2>2. p[a] = p[b]
    BY <2>1 DEF IsPerm, Places
  <2> QED BY <2>2 DEF IsPerm, Places
<1>4. ASSUME NEW v \in Places PROVE \E k \in Places : r[k] = v
  <2>1. PICK m \in Places : q[m] = v
    BY DEF IsPerm, Places
  <2>2. PICK k \in Places : p[k] = m
    BY DEF IsPerm, Places
  <2> QED BY <1>2, <2>1, <2>2
<1> QED BY <1>2, <1>3, <1>4 DEF IsPerm, Places

(* Sorting by value inverts, with 64-bit indices for every degree.          *)
LEMMA InverseEntry ==
  ASSUME degree \in Nat, NEW p, IsPerm(p, degree)
  PROVE  /\ inverse(p) \in [Places -> Places]
         /\ \A k \in Places : p[inverse(p)[k]] = k /\ inverse(p)[p[k]] = k
<1> DEFINE inv == inverse(p)
<1>1. p \in [Places -> Places]
  BY DEF IsPerm, Places
<1>2. ASSUME NEW k \in Places
      PROVE  inv[k] \in Places /\ p[inv[k]] = k
  <2>1. PICK a \in Places : p[a] = k
    BY DEF IsPerm, Places
  <2>2. Below(p, degree, a) = k
    BY <2>1, BelowIsValue DEF Places
  <2>3. inv[k] \in Places /\ Below(p, degree, inv[k]) = k
    BY <2>2 DEF inverse
  <2> QED BY <2>3, BelowIsValue DEF Places
<1>3. inv \in [Places -> Places]
  BY <1>2 DEF inverse
<1>4. ASSUME NEW k \in Places PROVE inv[p[k]] = k
  <2>1. p[k] \in Places
    BY <1>1
  <2>2. inv[p[k]] \in Places /\ p[inv[p[k]]] = p[k]
    BY <2>1, <1>2
  <2> QED BY <2>2 DEF IsPerm, Places
<1> QED BY <1>2, <1>3, <1>4

LEMMA InversePerm ==
  ASSUME degree \in Nat, NEW p, IsPerm(p, degree)
  PROVE  IsPerm(inverse(p), degree)
<1> DEFINE inv == inverse(p)
<1>1. /\ inv \in [Places -> Places]
      /\ \A k \in Places : p[inv[k]] = k /\ inv[p[k]] = k
  BY InverseEntry
<1>2. \A k \in Places : p[k] \in Places
  BY DEF IsPerm, Places
<1> HIDE DEF inv
<1>3. \A a, b \in Places : inv[a] = inv[b] => a = b
  BY <1>1
<1>4. \A v \in Places : \E k \in Places : inv[k] = v
  BY <1>1, <1>2
<1>5. IsPerm(inv, degree)
  BY <1>1, <1>3, <1>4 DEF IsPerm, Places
<1> QED BY <1>5 DEF inv

(* The two objects are permutations of their degree after every call.       *)
THEOREM ObjectsCorrect == ObjectsSpec => []ObjectsOK
<1>1. ObjectsInit => ObjectsOK
  <2> SUFFICES ASSUME ObjectsInit PROVE ObjectsOK
    OBVIOUS
  <2>1. degree \in Nat
    BY DegreeAssumption DEF ObjectsInit
  <2>2. buff \in [Places -> Nat]
    BY <2>1 DEF ObjectsInit, Places
  <2> QED BY <2>1, <2>2, IdentityPerm DEF ObjectsInit, ObjectsOK
<1>2. ObjectsOK /\ [ObjectsNext]_objects => ObjectsOK'
  <2> SUFFICES ASSUME ObjectsOK, [ObjectsNext]_objects PROVE ObjectsOK'
    OBVIOUS
  <2>0. degree \in Nat
    BY DegreeAssumption DEF ObjectsOK
  <2>1. ASSUME NEW p, IsPerm(p, degree), Change(p) PROVE ObjectsOK'
    BY <2>1 DEF ObjectsOK, Change, Places
  <2>2. CASE Shuffle
    BY <2>1, <2>2 DEF Shuffle, Perms
  <2>3. CASE \E a, j \in Places : pivot(a, j)
    <3>1. PICK a \in Places, j \in Places : Change(Swap(perm, a, j))
      BY <2>3 DEF pivot
    <3>2. IsPerm(Swap(perm, a, j), degree)
      BY <2>0, SwapPerm DEF ObjectsOK, Places
    <3> QED BY <2>1, <3>1, <3>2
  <2>4. CASE Multiply
    <3>1. IsPerm(product(perm, other), degree)
      BY <2>0, ProductPerm DEF ObjectsOK
    <3> QED BY <2>1, <2>4, <3>1 DEF Multiply
  <2>5. CASE Invert
    <3>1. IsPerm(inverse(perm), degree)
      BY <2>0, InversePerm DEF ObjectsOK
    <3> QED BY <2>1, <2>5, <3>1 DEF Invert
  <2>6. CASE Assign
    BY <2>6 DEF ObjectsOK, Assign, Places
  <2>7. CASE Apply \/ ApplyInverse
    <3>1. PICK p \in [Places -> Places] : Move(p)
      <4>1. perm \in [Places -> Places]
        BY DEF ObjectsOK, IsPerm, Places
      <4>2. inverse_permutation(perm, degree) \in [Places -> Places]
        BY <2>0, DegreeAssumption, InverseIsInverse DEF ObjectsOK, Places
      <4> QED BY <2>7, <4>1, <4>2 DEF Apply, ApplyInverse
    <3>2. apply(p, buff) \in [Places -> Nat]
      BY DEF ObjectsOK, apply
    <3> QED BY <3>1, <3>2 DEF ObjectsOK, Move, Places
  <2>8. CASE UNCHANGED objects
    BY <2>8 DEF ObjectsOK, objects, Places
  <2> QED BY <2>2, <2>3, <2>4, <2>5, <2>6, <2>7, <2>8 DEF ObjectsNext
<1> QED BY <1>1, <1>2, PTL DEF ObjectsSpec

(* operator* multiplies in the order in which apply acts.                   *)
THEOREM ProductsAct == ObjectsSpec => []ProductActs
<1>1. ObjectsOK => ProductActs
  <2> SUFFICES ASSUME ObjectsOK PROVE ProductActs
    OBVIOUS
  <2>1. \A k \in Places : perm[k] \in Places
    BY DEF ObjectsOK, IsPerm, Places
  <2> QED BY <2>1 DEF ProductActs, product, apply
<1> QED BY <1>1, ObjectsCorrect, PTL

(* Both inversions undo.                                                    *)
THEOREM InversesUndo == ObjectsSpec => []InverseUndoes
<1>1. ObjectsOK => InverseUndoes
  <2> SUFFICES ASSUME ObjectsOK PROVE InverseUndoes
    OBVIOUS
  <2>0. /\ degree \in Nat /\ degree <= IndexMod /\ IsPerm(perm, degree)
        /\ perm \in [Places -> Places]
    BY DegreeAssumption DEF ObjectsOK, IsPerm, Places
  <2> DEFINE inv == inverse(perm)
             narrow == inverse_permutation(perm, degree)
  <2>1. /\ inv \in [Places -> Places]
        /\ \A k \in Places : perm[inv[k]] = k /\ inv[perm[k]] = k
    BY <2>0, InverseEntry
  <2>2. narrow \in [Places -> Places] /\ \A k \in Places : perm[narrow[k]] = k
    BY <2>0, InverseIsInverse DEF Places
  <2> HIDE DEF inv, narrow
  <2>3. product(perm, inv) = Identity(degree) /\ product(inv, perm) = Identity(degree)
    BY <2>1 DEF product, Identity, Places
  <2>4. apply(narrow, apply(perm, buff)) = [k \in Places |-> buff[k]]
    BY <2>2 DEF apply
  <2>5. buff = [k \in Places |-> buff[k]]
    BY DEF ObjectsOK
  <2> QED BY <2>3, <2>4, <2>5 DEF InverseUndoes, inv, narrow
<1> QED BY <1>1, ObjectsCorrect, PTL
=============================================================================
