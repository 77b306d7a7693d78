--------------------------- MODULE Ranking_proof ----------------------------
(***************************************************************************)
(* For permutations of every degree: the two arrays of rank_impl stay      *)
(* inverse to each other below the level reached, its digits stay below    *)
(* their radix, and unrank_impl only permutes.                             *)
(***************************************************************************)
EXTENDS Ranking, Permutations_proof

RankInv ==
  pc = "down" => /\ Mutual(pi, inv_pi, n)
                 /\ \A k \in n + 1 .. degree : digits[k] < k

DivideInv == pc = "divide" => IsPerm(pi, degree) /\ acc \in Nat

IInv == TypeOK /\ RankInv /\ DivideInv

(* What a step that stays within a call has to show for TypeOK.             *)
LEMMA KeepType ==
  ASSUME TypeOK, degree' = degree, perm' = perm,
         pc' \in {"idle", "down", "up", "divide"}, n' \in 0 .. degree,
         pc' \in {"down", "up"} => n' >= 1,
         pi' \in [0 .. degree - 1 -> 0 .. degree - 1],
         inv_pi' \in [0 .. degree - 1 -> 0 .. degree - 1],
         digits' \in [2 .. degree -> 0 .. degree - 1]
  PROVE  TypeOK'
BY DEF TypeOK

LEMMA InitInv == Init => IInv
<1> SUFFICES ASSUME Init PROVE IInv
  OBVIOUS
<1>1. degree \in Nat \ {0} /\ degree \in Degrees
  BY DegreeAssumption DEF Init
<1>2. IsPerm(Identity(degree), degree)
  BY <1>1, IdentityPerm
<1>3. IsPerm(perm, degree)
  BY <1>2 DEF Init, Perms
<1>4. Identity(degree) \in [0 .. degree - 1 -> 0 .. degree - 1]
  BY <1>2 DEF IsPerm
<1>5. pc = "idle" /\ n \in 0 .. degree
  BY <1>1 DEF Init
<1>6. digits \in [2 .. degree -> 0 .. degree - 1]
  BY <1>1 DEF Init
<1> QED BY <1>1, <1>3, <1>4, <1>5, <1>6 DEF IInv, TypeOK, RankInv, DivideInv, Init

LEMMA RankStep ==
  ASSUME IInv, CallRank \/ Down \/ Bottom \/ Up \/ RankReturn
  PROVE  IInv'
<1>0. TypeOK /\ degree \in Nat \ {0} /\ degree <= IndexMod /\ IsPerm(perm, degree)
  BY DegreeAssumption DEF IInv, TypeOK
<1>1. CASE CallRank
  <2>1. /\ inv_pi' \in [0 .. degree - 1 -> 0 .. degree - 1]
        /\ \A k \in 0 .. degree - 1 : perm[inv_pi'[k]] = k /\ inv_pi'[perm[k]] = k
    BY <1>0, <1>1, InverseIsInverse DEF CallRank
  <2>2. perm \in [0 .. degree - 1 -> 0 .. degree - 1]
    BY <1>0 DEF IsPerm
  <2>3. Mutual(pi', inv_pi', n')
    BY <1>1, <2>1, <2>2 DEF CallRank, Mutual
  <2>4. \A k \in n' + 1 .. degree : digits'[k] < k
    BY <1>0, <1>1 DEF CallRank
  <2>5. TypeOK'
    <3>1. n' \in 0 .. degree /\ n' >= 1
      BY <1>0, <1>1 DEF CallRank
    <3>2. digits' \in [2 .. degree -> 0 .. degree - 1]
      BY <1>0, <1>1 DEF CallRank, TypeOK
    <3> QED BY <1>0, <1>1, <2>1, <2>2, <3>1, <3>2, KeepType DEF CallRank
  <2>6. RankInv' /\ DivideInv'
    BY <1>1, <2>3, <2>4 DEF RankInv, DivideInv, CallRank
  <2> QED BY <2>5, <2>6 DEF IInv
<1>2. CASE Down
  <2>1. n \in 2 .. degree /\ Mutual(pi, inv_pi, n) /\ pc = "down"
    BY <1>0, <1>2 DEF Down, TypeOK, IInv, RankInv
  <2>2. /\ pi \in [0 .. degree - 1 -> 0 .. degree - 1]
        /\ inv_pi \in [0 .. degree - 1 -> 0 .. degree - 1]
    BY <1>0 DEF TypeOK
  <2>3. /\ pi' \in [0 .. degree - 1 -> 0 .. degree - 1]
        /\ inv_pi' \in [0 .. degree - 1 -> 0 .. degree - 1]
        /\ pi[n - 1] \in 0 .. n - 1
        /\ Mutual(pi', inv_pi', n - 1)
    BY <1>0, <1>2, <2>1, <2>2, LevelStep DEF Down
  <2>4. digits' \in [2 .. degree -> 0 .. degree - 1]
    <3>0. digits \in [2 .. degree -> 0 .. degree - 1]
      BY <1>0 DEF TypeOK
    <3>1. pi[n - 1] \in 0 .. degree - 1
      <4>1. n - 1 \in 0 .. degree - 1
        BY <1>0, <2>1
      <4> QED BY <2>2, <4>1
    <3>2. digits' = [digits EXCEPT ![n] = pi[n - 1]]
      BY <1>2 DEF Down
    <3> QED BY <3>0, <3>1, <3>2
  <2>5. ASSUME NEW k \in n' + 1 .. degree PROVE digits'[k] < k
    <3>1. k \in n .. degree /\ k \in 2 .. degree
      BY <1>2, <2>1 DEF Down
    <3>2. CASE k = n
      BY <1>0, <1>2, <2>1, <2>3, <3>2 DEF Down, TypeOK
    <3>3. CASE k # n
      <4>1. k \in n + 1 .. degree
        BY <2>1, <3>1, <3>3
      <4>2. digits[k] < k
        BY <2>1, <4>1 DEF IInv, RankInv
      <4>3. digits'[k] = digits[k]
        BY <1>0, <1>2, <3>1, <3>3 DEF Down, TypeOK
      <4> QED BY <4>2, <4>3
    <3> QED BY <3>2, <3>3
  <2>6. TypeOK'
    <3>1. n' \in 0 .. degree /\ n' >= 1
      BY <1>0, <1>2, <2>1 DEF Down
    <3> QED BY <1>0, <1>2, <2>1, <2>3, <2>4, <3>1, KeepType DEF Down
  <2>7. RankInv' /\ DivideInv'
    BY <1>2, <2>1, <2>3, <2>5 DEF Down, RankInv, DivideInv
  <2> QED BY <2>6, <2>7 DEF IInv
<1>3. CASE Bottom
  BY <1>0, <1>3 DEF Bottom, TypeOK, IInv, RankInv, DivideInv
<1>4. CASE Up
  <2>1. n' \in 0 .. degree /\ n' >= 1
    BY <1>0, <1>4 DEF Up, TypeOK
  <2>2. /\ pi' \in [0 .. degree - 1 -> 0 .. degree - 1]
        /\ inv_pi' \in [0 .. degree - 1 -> 0 .. degree - 1]
        /\ digits' \in [2 .. degree -> 0 .. degree - 1]
    BY <1>0, <1>4 DEF Up, TypeOK
  <2>3. TypeOK'
    BY <1>0, <1>4, <2>1, <2>2, KeepType DEF Up
  <2> QED BY <1>4, <2>3 DEF Up, IInv, RankInv, DivideInv
<1>5. CASE RankReturn
  BY <1>0, <1>5 DEF RankReturn, TypeOK, IInv, RankInv, DivideInv
<1> QED BY <1>1, <1>2, <1>3, <1>4, <1>5

LEMMA UnrankStep ==
  ASSUME IInv, CallUnrank \/ Divide \/ UnrankReturn
  PROVE  IInv'
<1>0. TypeOK /\ degree \in Nat \ {0} /\ n \in 0 .. degree
  BY DegreeAssumption DEF IInv, TypeOK
<1>1. CASE CallUnrank
  <2>1. IsPerm(pi', degree) /\ pi' \in [0 .. degree - 1 -> 0 .. degree - 1]
    BY <1>0, <1>1, IdentityPerm DEF CallUnrank, IsPerm
  <2>2. acc' \in Nat /\ pc' = "divide" /\ n' = degree
    BY <1>1 DEF CallUnrank
  <2>3. TypeOK'
    <3>1. /\ inv_pi' \in [0 .. degree - 1 -> 0 .. degree - 1]
          /\ digits' \in [2 .. degree -> 0 .. degree - 1]
      BY <1>0, <1>1 DEF CallUnrank, TypeOK
    <3>2. n' \in 0 .. degree
      BY <1>0, <2>2
    <3> QED BY <1>0, <1>1, <2>1, <2>2, <3>1, <3>2, KeepType DEF CallUnrank
  <2> QED BY <1>1, <2>1, <2>2, <2>3 DEF CallUnrank, IInv, RankInv, DivideInv
<1>2. CASE Divide
  <2>1. n \in 1 .. degree /\ acc \in Nat /\ IsPerm(pi, degree)
    BY <1>0, <1>2 DEF Divide, IInv, DivideInv
  <2>2. Digit(acc, n) \in 0 .. n - 1 /\ acc \div n \in Nat
    BY <1>0, <2>1 DEF Digit
  <2>3. n - 1 \in 0 .. degree - 1 /\ Digit(acc, n) \in 0 .. degree - 1
    BY <1>0, <2>1, <2>2
  <2>4. IsPerm(pi', degree)
    BY <1>0, <1>2, <2>1, <2>3, SwapPerm DEF Divide
  <2>5. pi' \in [0 .. degree - 1 -> 0 .. degree - 1]
    BY <1>2, <2>4 DEF Divide, IsPerm
  <2>6. TypeOK'
    <3>1. /\ inv_pi' \in [0 .. degree - 1 -> 0 .. degree - 1]
          /\ digits' \in [2 .. degree -> 0 .. degree - 1]
      BY <1>0, <1>2 DEF Divide, TypeOK
    <3>2. n' \in 0 .. degree
      BY <1>0, <1>2, <2>1 DEF Divide
    <3> QED BY <1>0, <1>2, <2>5, <3>1, <3>2, KeepType DEF Divide
  <2> QED BY <1>2, <2>2, <2>4, <2>6 DEF Divide, IInv, RankInv, DivideInv
<1>3. CASE UnrankReturn
  <2>1. IsPerm(perm', degree)
    BY <1>3 DEF UnrankReturn, IInv, DivideInv
  <2> QED BY <1>0, <1>3, <2>1 DEF UnrankReturn, TypeOK, IInv, RankInv, DivideInv
<1> QED BY <1>1, <1>2, <1>3

LEMMA StutterStep == ASSUME IInv, UNCHANGED vars PROVE IInv'
BY DEF IInv, TypeOK, RankInv, DivideInv, vars

THEOREM Inductive == Spec => []IInv
<1>1. IInv /\ [Next]_vars => IInv'
  BY RankStep, UnrankStep, StutterStep DEF Next
<1> QED BY <1>1, InitInv, PTL DEF Spec

(* Between any two calls the caller holds a permutation, and every index    *)
(* into pi and inv_pi is in range.                                          *)
THEOREM TypeCorrect == Spec => []TypeOK
<1>1. IInv => TypeOK
  BY DEF IInv
<1> QED BY <1>1, Inductive, PTL

(* The digits of rank_impl are read from two arrays that agree.             *)
THEOREM SwapsAlwaysAgree == Spec => []SwapsAgree
<1>1. IInv => SwapsAgree
  BY DEF IInv, RankInv, Mutual, SwapsAgree
<1> QED BY <1>1, Inductive, PTL

(* unrank returns a permutation for every number it is given.               *)
THEOREM UnrankPermutes == Spec => []DivideKeepsPerm
<1>1. IInv => DivideKeepsPerm
  BY DEF IInv, DivideInv, DivideKeepsPerm
<1> QED BY <1>1, Inductive, PTL
-----------------------------------------------------------------------------
(* The numbers                                                              *)

LEMMA NextSum ==
  ASSUME NEW k \in Nat \ {0}, NEW s \in 0 .. k - 1, NEW x \in 0 .. Factorial[k - 1] - 1
  PROVE  s + k * x \in 0 .. Factorial[k] - 1
<1> DEFINE g == Factorial[k - 1]
<1>1. g \in Nat \ {0} /\ Factorial[k] = k * g
  BY FactorialTurns
<1> HIDE DEF g
<1>2. x \in Nat /\ x + 1 <= g
  BY <1>1 DEF g
<1> DEFINE y == g - (x + 1)
<1>3. y \in Nat /\ g = x + 1 + y
  BY <1>1, <1>2
<1> HIDE DEF y
<1>4. k * g = k * x + k + k * y
  BY <1>2, <1>3
<1>5. k * x \in Nat /\ k * y \in Nat
  BY <1>2, <1>3, TimesNatural
<1> QED BY <1>1, <1>4, <1>5

LEMMA NextDigit ==
  ASSUME NEW k \in Nat \ {0}, NEW x \in 0 .. Factorial[k] - 1
  PROVE  /\ x % k \in 0 .. k - 1 /\ x \div k \in 0 .. Factorial[k - 1] - 1
         /\ x = (x % k) + k * (x \div k)
<1> DEFINE g == Factorial[k - 1]
           q == x \div k
           r == x % k
<1>1. g \in Nat \ {0} /\ Factorial[k] = k * g /\ x \in Nat
  BY FactorialTurns
<1>2. q \in Nat /\ r \in 0 .. k - 1 /\ x = q * k + r
  BY <1>1, DivMod
<1> HIDE DEF g, q, r
<1>3. q * k < g * k
  <2>1. k * g = g * k /\ k * g \in Nat /\ q * k \in Nat
    BY <1>1, <1>2, TimesNatural
  <2> QED BY <1>1, <1>2, <2>1
<1>4. q < g
  BY <1>1, <1>2, <1>3, TimesLess
<1>5. q * k = k * q
  BY <1>2
<1>6. q \in 0 .. g - 1 /\ x = r + k * q
  BY <1>1, <1>2, <1>4, <1>5
<1> QED BY <1>2, <1>6 DEF g, q, r

(* The sums of rank_impl, from level lo to level hi.                        *)
Summed(a, d, lo, hi, c) ==
  /\ a \in [0 .. d -> Nat]
  /\ \A k \in lo + 1 .. hi : a[k] = c[k] + k * a[k - 1]

(* The number x and the permutation p of degree d have the same indices:    *)
(* as digits of the one and as swaps that build the other.                  *)
Ranked(d, x, p) ==
  \E c, a, u : /\ Summed(a, d, 0, d, c) /\ a[0] = 0 /\ a[d] = x
               /\ Built(u, d, 0, c) /\ u[0] = p

LEMMA RankedSamePerm ==
  ASSUME NEW d \in Nat, NEW x, NEW p, NEW q, Ranked(d, x, p), Ranked(d, x, q)
  PROVE  p = q
<1>1. PICK c, a, u : Summed(a, d, 0, d, c) /\ a[d] = x /\ Built(u, d, 0, c) /\ u[0] = p
  BY DEF Ranked
<1>2. PICK e, b, w : Summed(b, d, 0, d, e) /\ b[d] = x /\ Built(w, d, 0, e) /\ w[0] = q
  BY DEF Ranked
<1> DEFINE S == {k \in 0 .. d : a[k] = b[k]}
<1>3. d \in S
  BY <1>1, <1>2
<1>4. ASSUME NEW k \in 1 .. d, a[k] = b[k] PROVE a[k - 1] = b[k - 1] /\ c[k] = e[k]
  <2> DEFINE f == a[k - 1]
             g == b[k - 1]
  <2>1. k \in 0 + 1 .. d /\ k - 1 \in 0 .. d /\ k \in Nat \ {0}
    OBVIOUS
  <2>2. c[k] \in 0 .. k - 1 /\ e[k] \in 0 .. k - 1 /\ f \in Nat /\ g \in Nat
    BY <1>1, <1>2, <2>1 DEF Built, Summed
  <2>3. a[k] = c[k] + k * f /\ b[k] = e[k] + k * g
    BY <1>1, <1>2, <2>1 DEF Summed
  <2> HIDE DEF f, g
  <2>4. k * f = f * k /\ k * g = g * k /\ f * k \in Nat /\ g * k \in Nat
    BY <2>1, <2>2, TimesNatural
  <2>5. a[k] = f * k + c[k] /\ b[k] = g * k + e[k]
    BY <2>2, <2>3, <2>4
  <2>6. a[k] \div k = f /\ a[k] % k = c[k]
    <3>1. (f * k + c[k]) \div k = f /\ (f * k + c[k]) % k = c[k]
      BY <2>1, <2>2, DivUnique
    <3> QED BY <2>5, <3>1
  <2>7. b[k] \div k = g /\ b[k] % k = e[k]
    <3>1. (g * k + e[k]) \div k = g /\ (g * k + e[k]) % k = e[k]
      BY <2>1, <2>2, DivUnique
    <3> QED BY <2>5, <3>1
  <2> QED BY <1>4, <2>6, <2>7 DEF f, g
<1>5. ASSUME NEW k \in 1 .. d, k \in S PROVE k - 1 \in S
  BY <1>4, <1>5
<1> HIDE DEF S
<1>6. \A k \in 0 .. d : k \in S
  BY <1>3, <1>5, AllDownTo
<1>7. \A k \in 1 .. d : c[k] = e[k]
  BY <1>4, <1>6 DEF S
<1> QED BY <1>1, <1>2, <1>7, BuiltSame

LEMMA RankedSameNumber ==
  ASSUME NEW d \in Nat, NEW x, NEW y, NEW p, Ranked(d, x, p), Ranked(d, y, p)
  PROVE  x = y
<1>1. PICK c, a, u : Summed(a, d, 0, d, c) /\ a[0] = 0 /\ a[d] = x /\ Built(u, d, 0, c) /\ u[0] = p
  BY DEF Ranked
<1>2. PICK e, b, w : Summed(b, d, 0, d, e) /\ b[0] = 0 /\ b[d] = y /\ Built(w, d, 0, e) /\ w[0] = p
  BY DEF Ranked
<1>3. \A k \in 1 .. d : c[k] = e[k]
  BY <1>1, <1>2, BuiltTells
<1> DEFINE S == {k \in 0 .. d : a[k] = b[k]}
<1>4. 0 \in S
  BY <1>1, <1>2
<1>5. ASSUME NEW k \in 0 .. d, k # d, k \in S PROVE k + 1 \in S
  <2>1. k + 1 \in 0 + 1 .. d /\ k + 1 - 1 = k /\ k + 1 \in 1 .. d /\ k + 1 \in 0 .. d
    BY <1>5
  <2>2. a[k + 1] = c[k + 1] + (k + 1) * a[k] /\ b[k + 1] = e[k + 1] + (k + 1) * b[k]
    BY <1>1, <1>2, <2>1 DEF Summed
  <2> QED BY <1>3, <1>5, <2>1, <2>2
<1> HIDE DEF S
<1>6. \A k \in 0 .. d : k \in S
  BY <1>4, <1>5, AllUpTo
<1>7. a[d] = b[d]
  BY <1>6 DEF S
<1> QED BY <1>1, <1>2, <1>7

(* The identity has the greatest digits.                                    *)
LEMMA RankedIdentity ==
  ASSUME NEW d \in Nat
  PROVE  Ranked(d, Factorial[d] - 1, Identity(d))
<1> DEFINE c == [k \in 1 .. d |-> k - 1]
           a == [k \in 0 .. d |-> Factorial[k] - 1]
           u == [k \in 0 .. d |-> Identity(d)]
<1>1. Identity(d) \in IndexArrays(d)
  BY DEF Identity, IndexArrays
<1>2. \A k \in 1 .. d : Swap(Identity(d), k - 1, k - 1) = Identity(d)
  BY DEF Swap, Identity
<1>3. Built(u, d, 0, c)
  <2>1. u \in [0 .. d -> IndexArrays(d)] /\ u[d] = Identity(d)
    BY <1>1
  <2>2. ASSUME NEW k \in 0 + 1 .. d
        PROVE  c[k] \in 0 .. k - 1 /\ u[k - 1] = Swap(u[k], k - 1, c[k])
    <3>1. c[k] = k - 1 /\ u[k - 1] = Identity(d) /\ u[k] = Identity(d) /\ k \in 1 .. d
      OBVIOUS
    <3> QED BY <3>1, <1>2
  <2> HIDE DEF u, c
  <2> QED BY <2>1, <2>2 DEF Built
<1>4. a \in [0 .. d -> Nat] /\ a[0] = 0 /\ a[d] = Factorial[d] - 1
  BY FactorialTurns
<1>5. ASSUME NEW k \in 0 + 1 .. d PROVE a[k] = c[k] + k * a[k - 1]
  <2> DEFINE g == Factorial[k - 1]
  <2>1. k \in Nat \ {0} /\ a[k] = Factorial[k] - 1 /\ a[k - 1] = g - 1 /\ c[k] = k - 1
    OBVIOUS
  <2>2. g \in Nat \ {0} /\ Factorial[k] = k * g
    BY <2>1, FactorialTurns
  <2> HIDE DEF a, g, c
  <2>3. k * (g - 1) = k * g - k /\ k * g \in Int
    BY <2>1, <2>2
  <2> QED BY <2>1, <2>2, <2>3
<1>6. u[0] = Identity(d)
  OBVIOUS
<1> HIDE DEF a, c, u
<1> QED BY <1>3, <1>4, <1>5, <1>6 DEF Ranked, Summed

-----------------------------------------------------------------------------
(* rank and unrank compute Ranked, from either side.                        *)

KnownInv ==
  /\ rk \in 0 .. Factorial[degree] - 1
  /\ known => Ranked(degree, Mirror(degree, rk), perm)

(* What is left in pi and the swaps of the digits taken make perm.          *)
DownInv ==
  pc = "down" =>
    /\ \A x \in n .. degree - 1 : pi[x] = x
    /\ \E u : Built(u, degree, n, digits) /\ \A x \in 0 .. degree - 1 : perm[x] = u[n][pi[x]]

UpInv ==
  pc = "up" =>
    /\ \E u : Built(u, degree, 1, digits) /\ u[1] = perm
    /\ acc \in 0 .. Factorial[n] - 1
    /\ \E a : Summed(a, degree, 1, n, digits) /\ a[0] = 0 /\ a[1] = 0 /\ a[n] = acc

(* The digits divided off so far have built pi, and acc is the number of    *)
(* those that are left.                                                     *)
QuotientInv ==
  pc = "divide" =>
    /\ acc \in 0 .. Factorial[n] - 1
    /\ \E c, a, u : /\ Summed(a, degree, n, degree, c) /\ a[degree] = Mirror(degree, rk)
                    /\ a[n] = acc
                    /\ Built(u, degree, n, c) /\ u[n] = pi

NInv == IInv /\ KnownInv /\ DownInv /\ UpInv /\ QuotientInv

(* The digits of a rank_impl that has returned, with the one of level 1.    *)
LEMMA RankedAtTop ==
  ASSUME NEW d \in Nat \ {0}, NEW p, NEW x, NEW c, NEW u, NEW a,
         Built(u, d, 1, c), u[1] = p,
         Summed(a, d, 1, d, c), a[0] = 0, a[1] = 0, a[d] = x
  PROVE  Ranked(d, x, p)
<1>1. PICK e, w : /\ Built(w, d, 0, e) /\ w[0] = p
                  /\ e[1] = 0 /\ \A k \in 2 .. d : e[k] = c[k]
  BY BuiltToEnd
<1>2. ASSUME NEW k \in 0 + 1 .. d PROVE a[k] = e[k] + k * a[k - 1]
  <2>1. CASE k = 1
    BY <1>1, <2>1
  <2>2. CASE k # 1
    <3>1. k \in 1 + 1 .. d /\ k \in 2 .. d
      BY <2>2
    <3> QED BY <1>1, <3>1 DEF Summed
  <2> QED BY <2>1, <2>2
<1>3. Summed(a, d, 0, d, e)
  BY <1>2 DEF Summed
<1> QED BY <1>1, <1>3 DEF Ranked

LEMMA NumbersInit == Init => NInv
<1> SUFFICES ASSUME Init PROVE NInv
  OBVIOUS
<1>1. degree \in Nat /\ Factorial[degree] \in Nat \ {0}
  BY DegreeAssumption, FactorialTurns DEF Init
<1>2. rk \in 0 .. Factorial[degree] - 1
  BY <1>1 DEF Init
<1> QED BY <1>2, InitInv DEF Init, NInv, KnownInv, DownInv, UpInv, QuotientInv

LEMMA NumbersCallRank == ASSUME NInv, CallRank PROVE NInv'
<1> DEFINE d == degree
<1>0. IInv' /\ d \in Nat \ {0} /\ IsPerm(perm, d) /\ d <= IndexMod
  BY RankStep, DegreeAssumption DEF NInv, IInv, TypeOK
<1>1. /\ UNCHANGED <<degree, perm, rk, known, digits>> /\ pc' = "down" /\ n' = d /\ pi' = perm
  BY DEF CallRank
<1> DEFINE u == [k \in 0 .. d |-> Identity(d)]
<1>2. Identity(d) \in IndexArrays(d) /\ \A x \in 0 .. d - 1 : Identity(d)[x] = x
  BY DEF Identity, IndexArrays
<1>3. u \in [0 .. d -> IndexArrays(d)] /\ u[d] = Identity(d)
  BY <1>0, <1>2
<1> HIDE DEF u
<1>4. Built(u, d, d, digits)
  <2>1. \A k \in d + 1 .. d : FALSE
    BY <1>0
  <2> QED BY <1>3, <2>1 DEF Built
<1>5. \A x \in 0 .. d - 1 : perm[x] = u[d][perm[x]]
  <2>1. \A x \in 0 .. d - 1 : perm[x] \in 0 .. d - 1
    BY <1>0 DEF IsPerm
  <2> QED BY <1>2, <1>3, <2>1
<1>6. DownInv'
  <2>1. \A x \in d .. d - 1 : FALSE
    BY <1>0
  <2> HIDE DEF d
  <2>2. degree' = d
    BY <1>1 DEF d
  <2> QED BY <1>1, <1>4, <1>5, <2>1, <2>2 DEF DownInv
<1>7. KnownInv' /\ UpInv' /\ QuotientInv'
  BY <1>1 DEF NInv, KnownInv, UpInv, QuotientInv
<1> QED BY <1>0, <1>6, <1>7 DEF NInv

LEMMA NumbersDown == ASSUME NInv, Down PROVE NInv'
<1> DEFINE d == degree
<1>0. IInv' /\ IInv /\ TypeOK /\ d \in Nat \ {0}
  BY RankStep, DegreeAssumption DEF NInv, IInv, TypeOK
<1>1. /\ n \in 2 .. d /\ Mutual(pi, inv_pi, n) /\ pc = "down"
      /\ pi \in IndexArrays(d) /\ inv_pi \in IndexArrays(d) /\ IsPerm(perm, d)
      /\ digits \in [2 .. d -> 0 .. d - 1]
  <2>1. /\ pi \in IndexArrays(d) /\ inv_pi \in IndexArrays(d) /\ IsPerm(perm, d)
        /\ digits \in [2 .. d -> 0 .. d - 1] /\ n \in 0 .. d /\ (pc = "down" => n >= 1)
    BY <1>0 DEF TypeOK, IndexArrays
  <2>2. pc = "down" /\ n # 1
    BY DEF Down
  <2>3. Mutual(pi, inv_pi, n)
    BY <1>0, <2>2 DEF IInv, RankInv
  <2> HIDE DEF d
  <2> QED BY <1>0, <2>1, <2>2, <2>3
<1>2. /\ UNCHANGED <<degree, perm, rk, known, pc>> /\ n' = n - 1
      /\ digits' = [digits EXCEPT ![n] = pi[n - 1]] /\ pi' = PiStep(pi, inv_pi, n)
  BY DEF Down
<1>3. pi[n - 1] \in 0 .. n - 1
  BY <1>1 DEF Mutual
<1>4. digits'[n] = pi[n - 1] /\ \A k \in n + 1 .. d : digits'[k] = digits[k]
  BY <1>0, <1>1, <1>2
<1>5. PICK u : Built(u, d, n, digits) /\ \A x \in 0 .. d - 1 : perm[x] = u[n][pi[x]]
  BY <1>1 DEF NInv, DownInv
<1>6. PICK w : Built(w, d, n - 1, digits') /\ w[n - 1] = Swap(u[n], n - 1, pi[n - 1])
  <2>1. n \in 1 .. d /\ digits'[n] \in 0 .. n - 1
    BY <1>1, <1>3, <1>4
  <2> HIDE DEF d
  <2>2. AgreeAbove(n, d, digits, digits')
    BY <1>4 DEF AgreeAbove
  <2>3. \E w : Built(w, d, n - 1, digits') /\ w[n - 1] = Swap(u[n], n - 1, digits'[n])
    BY <1>0, <1>5, <2>1, <2>2, BuiltMore
  <2> QED BY <1>4, <2>3
<1>7. /\ \A x \in 0 .. d - 1 : Swap(u[n], n - 1, pi[n - 1])[PiStep(pi, inv_pi, n)[x]] = u[n][pi[x]]
      /\ \A x \in n - 1 .. d - 1 : PiStep(pi, inv_pi, n)[x] = x
  <2>1. u[n] \in IndexArrays(d)
    BY <1>1, <1>5 DEF Built
  <2>2. \A x \in n .. d - 1 : pi[x] = x
    BY <1>1 DEF NInv, DownInv
  <2> DEFINE v == u[n]
  <2> HIDE DEF d, v
  <2>3. d \in Nat /\ n \in 2 .. d /\ v \in IndexArrays(d)
    BY <1>0, <1>1, <2>1 DEF v
  <2>4. pi \in IndexArrays(d) /\ inv_pi \in IndexArrays(d) /\ Mutual(pi, inv_pi, n)
    BY <1>1
  <2>5. /\ \A x \in 0 .. d - 1 : Swap(v, n - 1, pi[n - 1])[PiStep(pi, inv_pi, n)[x]] = v[pi[x]]
        /\ \A x \in n - 1 .. d - 1 : PiStep(pi, inv_pi, n)[x] = x
    BY <2>2, <2>3, <2>4, LevelProduct
  <2> QED BY <2>5 DEF v
<1>8. DownInv'
  <2> HIDE DEF d
  <2>1. degree' = d
    BY <1>2 DEF d
  <2>2. \A x \in 0 .. d - 1 : perm[x] = w[n - 1][pi'[x]]
    BY <1>2, <1>5, <1>6, <1>7
  <2>3. \A x \in n - 1 .. d - 1 : pi'[x] = x
    BY <1>2, <1>7
  <2> QED BY <1>2, <1>6, <2>1, <2>2, <2>3 DEF DownInv
<1>9. KnownInv' /\ UpInv' /\ QuotientInv'
  BY <1>1, <1>2 DEF NInv, KnownInv, UpInv, QuotientInv
<1> QED BY <1>0, <1>8, <1>9 DEF NInv

LEMMA NumbersBottom == ASSUME NInv, Bottom PROVE NInv'
<1> DEFINE d == degree
<1>0. IInv' /\ IInv /\ TypeOK /\ d \in Nat \ {0}
  BY RankStep, DegreeAssumption DEF NInv, IInv, TypeOK
<1>1. /\ n = 1 /\ Mutual(pi, inv_pi, 1) /\ pc = "down" /\ IsPerm(perm, d)
  BY <1>0 DEF Bottom, TypeOK, IInv, RankInv
<1>2. /\ UNCHANGED <<degree, perm, rk, known, n, digits>> /\ acc' = 0 /\ pc' = "up"
  BY DEF Bottom
<1>3. PICK u : Built(u, d, 1, digits) /\ \A x \in 0 .. d - 1 : perm[x] = u[1][pi[x]]
  BY <1>1 DEF NInv, DownInv
<1>4. u[1] = perm
  <2>1. \A x \in 0 .. d - 1 : pi[x] = x
    <3>1. \A x \in 1 .. d - 1 : pi[x] = x
      BY <1>1 DEF NInv, DownInv
    <3>2. pi[0] = 0
      BY <1>1 DEF Mutual
    <3> QED BY <3>1, <3>2
  <2>2. perm \in [0 .. d - 1 -> 0 .. d - 1]
    BY <1>1 DEF IsPerm
  <2>3. u[1] \in [0 .. d - 1 -> 0 .. d - 1]
    <3>1. u \in [0 .. d -> IndexArrays(d)] /\ 1 \in 0 .. d
      BY <1>0, <1>3 DEF Built
    <3> QED BY <3>1 DEF IndexArrays
  <2>4. \A x \in 0 .. d - 1 : perm[x] = u[1][x]
    BY <1>3, <2>1
  <2> DEFINE f == u[1]
             dom == 0 .. d - 1
  <2>5. perm \in [dom -> dom] /\ f \in [dom -> dom] /\ \A x \in dom : perm[x] = f[x]
    BY <2>2, <2>3, <2>4
  <2> HIDE DEF f, dom
  <2>6. perm = f
    BY <2>5
  <2> QED BY <2>6 DEF f
<1> DEFINE a == [k \in 0 .. d |-> 0]
<1>5. Summed(a, d, 1, 1, digits) /\ a[0] = 0 /\ a[1] = 0
  BY <1>0 DEF Summed
<1> HIDE DEF a
<1>6. Factorial[1] \in Nat \ {0}
  BY FactorialTurns
<1>7. UpInv'
  <2> HIDE DEF d
  <2>1. degree' = d
    BY <1>2 DEF d
  <2>2. 0 \in 0 .. Factorial[1] - 1
    BY <1>6
  <2> QED BY <1>1, <1>2, <1>3, <1>4, <1>5, <2>1, <2>2 DEF UpInv
<1>8. KnownInv' /\ DownInv' /\ QuotientInv'
  BY <1>2 DEF NInv, KnownInv, DownInv, QuotientInv
<1> QED BY <1>0, <1>7, <1>8 DEF NInv

LEMMA NumbersUp == ASSUME NInv, Up PROVE NInv'
<1> DEFINE d == degree
           k == n + 1
<1>0. IInv' /\ IInv /\ TypeOK /\ d \in Nat \ {0}
  BY RankStep, DegreeAssumption DEF NInv, IInv, TypeOK
<1>1. n \in 1 .. d - 1 /\ pc = "up" /\ k \in 2 .. d /\ k - 1 = n
  BY <1>0 DEF Up, TypeOK
<1>2. /\ UNCHANGED <<degree, perm, rk, known, pc, digits>> /\ n' = k
      /\ acc' = digits[k] + k * acc
  BY DEF Up, Accumulate
<1>3. PICK u : Built(u, d, 1, digits) /\ u[1] = perm
  BY <1>1 DEF NInv, UpInv
<1>4. acc \in 0 .. Factorial[n] - 1
  BY <1>1 DEF NInv, UpInv
<1>5. PICK a : Summed(a, d, 1, n, digits) /\ a[0] = 0 /\ a[1] = 0 /\ a[n] = acc
  BY <1>1 DEF NInv, UpInv
<1>6. digits[k] \in 0 .. k - 1
  <2>1. k \in 1 + 1 .. d
    BY <1>1
  <2> QED BY <1>3, <2>1 DEF Built
<1>7. acc' \in 0 .. Factorial[k] - 1
  <2> HIDE DEF k
  <2>1. k \in Nat \ {0} /\ acc \in 0 .. Factorial[k - 1] - 1
    BY <1>1, <1>4
  <2> QED BY <1>2, <1>6, <2>1, NextSum
<1> DEFINE b == [a EXCEPT ![k] = acc']
<1>8. Summed(b, d, 1, k, digits) /\ b[0] = 0 /\ b[1] = 0 /\ b[k] = acc'
  <2>1. acc' \in Nat
    <3>1. Factorial[k] \in Nat
      BY <1>1, FactorialTurns
    <3> QED BY <1>7, <3>1
  <2>2. a \in [0 .. d -> Nat] /\ \A j \in 1 + 1 .. n : a[j] = digits[j] + j * a[j - 1]
    BY <1>5 DEF Summed
  <2>3. b \in [0 .. d -> Nat] /\ b[k] = acc' /\ \A j \in 0 .. n : b[j] = a[j]
    BY <1>1, <2>1, <2>2
  <2> HIDE DEF b
  <2>4. ASSUME NEW j \in 1 + 1 .. k PROVE b[j] = digits[j] + j * b[j - 1]
    <3>1. CASE j = k
      <4>1. j - 1 = n /\ n \in 0 .. n
        BY <1>1, <3>1
      <4>2. b[j - 1] = acc
        BY <1>5, <2>3, <4>1
      <4> QED BY <1>2, <2>3, <3>1, <4>2
    <3>2. CASE j # k
      <4>1. j \in 1 + 1 .. n /\ j \in 0 .. n /\ j - 1 \in 0 .. n
        BY <1>1, <3>2
      <4> QED BY <2>2, <2>3, <4>1
    <3> QED BY <3>1, <3>2
  <2>5. b[0] = 0 /\ b[1] = 0
    BY <1>1, <1>5, <2>3
  <2> QED BY <2>3, <2>4, <2>5 DEF Summed
<1>9. UpInv'
  <2> HIDE DEF d, k, b
  <2>1. degree' = d
    BY <1>2 DEF d
  <2> QED BY <1>2, <1>3, <1>7, <1>8, <2>1 DEF UpInv
<1>10. KnownInv' /\ DownInv' /\ QuotientInv'
  BY <1>1, <1>2 DEF NInv, KnownInv, DownInv, QuotientInv
<1> QED BY <1>0, <1>9, <1>10 DEF NInv

(* What rank returns is the number of its permutation, between 0 and        *)
(* degree! - 1, and what was known before was the same.                     *)
LEMMA NumbersRanked ==
  ASSUME NInv, RankReturn
  PROVE  /\ acc \in 0 .. Factorial[degree] - 1 /\ Ranked(degree, acc, perm)
         /\ Mirror(degree, Mirror(degree, acc)) = acc
         /\ Mirror(degree, acc) \in 0 .. Factorial[degree] - 1
<1>0. degree \in Nat \ {0} /\ pc = "up" /\ n = degree
  BY DegreeAssumption DEF NInv, IInv, TypeOK, RankReturn
<1>1. acc \in 0 .. Factorial[degree] - 1
  BY <1>0 DEF NInv, UpInv
<1>2. PICK u : Built(u, degree, 1, digits) /\ u[1] = perm
  BY <1>0 DEF NInv, UpInv
<1>3. PICK a : Summed(a, degree, 1, degree, digits) /\ a[0] = 0 /\ a[1] = 0 /\ a[degree] = acc
  BY <1>0 DEF NInv, UpInv
<1>4. Ranked(degree, acc, perm)
  BY <1>0, <1>2, <1>3, RankedAtTop
<1>5. Factorial[degree] \in Nat
  BY <1>0, FactorialTurns
<1> QED BY <1>1, <1>4, <1>5 DEF Mirror

LEMMA NumbersRankReturn == ASSUME NInv, RankReturn PROVE NInv'
<1>1. IInv'
  BY RankStep DEF NInv
<1>2. UNCHANGED <<degree, perm>> /\ rk' = Mirror(degree, acc) /\ pc' = "idle"
  BY DEF RankReturn
<1>3. KnownInv'
  BY <1>2, NumbersRanked DEF KnownInv
<1> QED BY <1>1, <1>2, <1>3 DEF NInv, DownInv, UpInv, QuotientInv

LEMMA NumbersCallUnrank == ASSUME NInv, CallUnrank PROVE NInv'
<1> DEFINE d == degree
           x == Mirror(degree, rk)
<1>0. IInv' /\ d \in Nat \ {0}
  BY UnrankStep, DegreeAssumption DEF NInv, IInv, TypeOK
<1>1. /\ UNCHANGED <<degree, perm, rk, known>> /\ pc' = "divide" /\ n' = d
      /\ pi' = Identity(d) /\ acc' = x
  BY DEF CallUnrank
<1>2. x \in 0 .. Factorial[d] - 1 /\ x \in Nat
  <2>1. Factorial[d] \in Nat
    BY <1>0, FactorialTurns
  <2> QED BY <2>1 DEF NInv, KnownInv, Mirror
<1> DEFINE u == [k \in 0 .. d |-> Identity(d)]
           a == [k \in 0 .. d |-> x]
           c == [k \in 1 .. d |-> 0]
<1>3. Identity(d) \in IndexArrays(d) /\ \A k \in d + 1 .. d : FALSE
  BY <1>0 DEF Identity, IndexArrays
<1>4. u \in [0 .. d -> IndexArrays(d)] /\ u[d] = Identity(d)
  BY <1>0, <1>3
<1>5. a \in [0 .. d -> Nat] /\ a[d] = x
  <2> HIDE DEF x
  <2> QED BY <1>0, <1>2
<1> HIDE DEF u, a, c, d, x
<1>6. Built(u, d, d, c) /\ Summed(a, d, d, d, c)
  BY <1>3, <1>4, <1>5 DEF Built, Summed
<1>7. QuotientInv'
  <2>1. degree' = d /\ Mirror(degree', rk') = x
    BY <1>1 DEF d, x
  <2> QED BY <1>1, <1>2, <1>4, <1>5, <1>6, <2>1 DEF QuotientInv
<1>8. KnownInv' /\ DownInv' /\ UpInv'
  BY <1>1 DEF NInv, KnownInv, DownInv, UpInv
<1> QED BY <1>0, <1>7, <1>8 DEF NInv

LEMMA NumbersDivide == ASSUME NInv, Divide PROVE NInv'
<1> DEFINE d == degree
           x == Mirror(degree, rk)
           r == acc % n
           q == acc \div n
<1>0. IInv' /\ d \in Nat \ {0} /\ n \in 1 .. d /\ pc = "divide"
  <2>1. n > 0 /\ pc = "divide"
    BY DEF Divide
  <2>2. IInv' /\ d \in Nat \ {0} /\ n \in 0 .. d
    BY UnrankStep, DegreeAssumption DEF NInv, IInv, TypeOK
  <2> HIDE DEF d
  <2> QED BY <2>1, <2>2
<1>1. /\ UNCHANGED <<degree, perm, rk, known, pc>> /\ n' = n - 1
      /\ pi' = Swap(pi, n - 1, r) /\ acc' = q
  BY DEF Divide, Digit
<1>2. PICK c, a, u : /\ Summed(a, d, n, d, c) /\ a[d] = x /\ a[n] = acc
                     /\ Built(u, d, n, c) /\ u[n] = pi
  BY <1>0 DEF NInv, QuotientInv
<1>3. r \in 0 .. n - 1 /\ q \in 0 .. Factorial[n - 1] - 1 /\ acc = r + n * q /\ q \in Nat
  <2>1. acc \in 0 .. Factorial[n] - 1 /\ n \in Nat \ {0} /\ Factorial[n - 1] \in Nat
    BY <1>0, FactorialTurns DEF NInv, QuotientInv
  <2>2. r \in 0 .. n - 1 /\ q \in 0 .. Factorial[n - 1] - 1 /\ acc = r + n * q
    BY <2>1, NextDigit
  <2> HIDE DEF q, r
  <2> QED BY <2>1, <2>2
<1> DEFINE e == [k \in 1 .. d |-> IF k = n THEN r ELSE c[k]]
           b == [a EXCEPT ![n - 1] = q]
<1>4. e[n] = r /\ \A k \in n + 1 .. d : e[k] = c[k]
  <2> HIDE DEF r
  <2> QED BY <1>0
<1> HIDE DEF d, x, r, q, e
<1>5. PICK w : Built(w, d, n - 1, e) /\ w[n - 1] = Swap(u[n], n - 1, r)
  <2>1. AgreeAbove(n, d, c, e) /\ e[n] \in 0 .. n - 1
    BY <1>3, <1>4 DEF AgreeAbove
  <2>2. \E w : Built(w, d, n - 1, e) /\ w[n - 1] = Swap(u[n], n - 1, e[n])
    BY <1>0, <1>2, <2>1, BuiltMore
  <2> QED BY <1>4, <2>2
<1>6. Summed(b, d, n - 1, d, e) /\ b[d] = x /\ b[n - 1] = q
  <2>1. a \in [0 .. d -> Nat] /\ \A j \in n + 1 .. d : a[j] = c[j] + j * a[j - 1]
    BY <1>2 DEF Summed
  <2>2. b \in [0 .. d -> Nat] /\ b[n - 1] = q /\ \A j \in n .. d : b[j] = a[j]
    BY <1>0, <1>3, <2>1
  <2> HIDE DEF b
  <2>3. ASSUME NEW j \in n - 1 + 1 .. d PROVE b[j] = e[j] + j * b[j - 1]
    <3>1. CASE j = n
      BY <1>0, <1>2, <1>3, <1>4, <2>2, <3>1
    <3>2. CASE j # n
      <4>1. j \in n + 1 .. d /\ j \in n .. d /\ j - 1 \in n .. d
        BY <1>0, <3>2
      <4> QED BY <1>4, <2>1, <2>2, <4>1
    <3> QED BY <3>1, <3>2
  <2>4. b[d] = x
    BY <1>0, <1>2, <2>2
  <2> QED BY <2>2, <2>3, <2>4 DEF Summed
<1>7. QuotientInv'
  <2> HIDE DEF b
  <2>1. degree' = d /\ Mirror(degree', rk') = x
    BY <1>1 DEF d, x
  <2> QED BY <1>1, <1>2, <1>3, <1>5, <1>6, <2>1 DEF QuotientInv
<1>8. KnownInv' /\ DownInv' /\ UpInv'
  BY <1>0, <1>1 DEF NInv, KnownInv, DownInv, UpInv
<1> QED BY <1>0, <1>7, <1>8 DEF NInv

LEMMA NumbersUnranked ==
  ASSUME NInv, UnrankReturn
  PROVE  Ranked(degree, Mirror(degree, rk), pi)
<1>0. degree \in Nat \ {0} /\ n = 0 /\ pc = "divide" /\ Factorial[0] = 1
  BY DegreeAssumption, FactorialTurns DEF NInv, IInv, TypeOK, UnrankReturn
<1>1. PICK c, a, u : /\ Summed(a, degree, 0, degree, c) /\ a[degree] = Mirror(degree, rk)
                     /\ a[0] = acc /\ Built(u, degree, 0, c) /\ u[0] = pi
  BY <1>0 DEF NInv, QuotientInv
<1>2. acc = 0
  BY <1>0 DEF NInv, QuotientInv
<1> QED BY <1>1, <1>2 DEF Ranked

LEMMA NumbersUnrankReturn == ASSUME NInv, UnrankReturn PROVE NInv'
<1>1. IInv'
  BY UnrankStep DEF NInv
<1>2. UNCHANGED <<degree, rk>> /\ perm' = pi /\ pc' = "idle"
  BY DEF UnrankReturn
<1>3. KnownInv'
  BY <1>2, NumbersUnranked DEF NInv, KnownInv
<1> QED BY <1>1, <1>2, <1>3 DEF NInv, DownInv, UpInv, QuotientInv

LEMMA NumbersInductive == Spec => []NInv
<1>1. NInv /\ UNCHANGED vars => NInv'
  BY StutterStep DEF NInv, KnownInv, DownInv, UpInv, QuotientInv, vars
<1>2. NInv /\ [Next]_vars => NInv'
  BY <1>1, NumbersCallRank, NumbersDown, NumbersBottom, NumbersUp, NumbersRankReturn,
     NumbersCallUnrank, NumbersDivide, NumbersUnrankReturn DEF Next
<1> QED BY <1>2, NumbersInit, PTL DEF Spec

(* rank never returns a number unrank could not take, and 0 for the         *)
(* identity only.                                                           *)
THEOREM RanksInRange == Spec => []RankInRange
<1>1. NInv => RankInRange
  <2> SUFFICES ASSUME NInv, known
               PROVE  rk \in 0 .. Factorial[degree] - 1 /\ (rk = 0 <=> perm = Identity(degree))
    BY DEF RankInRange
  <2> DEFINE f == Factorial[degree]
  <2>1. degree \in Nat /\ f \in Nat \ {0}
    BY DegreeAssumption, FactorialTurns DEF NInv, IInv, TypeOK
  <2>2. rk \in 0 .. f - 1 /\ Ranked(degree, f - rk - 1, perm)
    BY DEF NInv, KnownInv, Mirror
  <2>3. Ranked(degree, f - 1, Identity(degree))
    BY <2>1, RankedIdentity
  <2> HIDE DEF f
  <2>4. ASSUME rk = 0 PROVE perm = Identity(degree)
    <3>1. f - rk - 1 = f - 1
      BY <2>1, <2>4
    <3> QED BY <2>1, <2>2, <2>3, <3>1, RankedSamePerm
  <2>5. ASSUME perm = Identity(degree) PROVE rk = 0
    <3>1. f - rk - 1 = f - 1
      BY <2>1, <2>2, <2>3, <2>5, RankedSameNumber
    <3> QED BY <2>1, <2>2, <3>1
  <2> QED BY <2>2, <2>4, <2>5 DEF f
<1> QED BY <1>1, NumbersInductive, PTL

(* rank and unrank are inverse to each other, for every degree: what was    *)
(* computed from the other never changes again.                             *)
THEOREM RanksRoundTrip == Spec => RoundTrips
<1>1. NInv /\ [Next]_vars => [known => perm' = perm /\ rk' = rk]_vars
  <2> SUFFICES ASSUME NInv, Next, known PROVE perm' = perm /\ rk' = rk
    OBVIOUS
  <2>0. /\ degree \in Nat /\ Factorial[degree] \in Nat /\ rk \in 0 .. Factorial[degree] - 1
        /\ Ranked(degree, Mirror(degree, rk), perm)
    BY DegreeAssumption, FactorialTurns DEF NInv, IInv, TypeOK, KnownInv
  <2>1. CASE RankReturn
    <3>1. acc = Mirror(degree, rk)
      BY <2>0, <2>1, NumbersRanked, RankedSameNumber
    <3>2. rk' = Mirror(degree, acc) /\ perm' = perm
      BY <2>1 DEF RankReturn
    <3> QED BY <2>0, <3>1, <3>2 DEF Mirror
  <2>2. CASE UnrankReturn
    <3>1. perm = pi
      BY <2>0, <2>2, NumbersUnranked, RankedSamePerm
    <3> QED BY <2>2, <3>1 DEF UnrankReturn
  <2>3. CASE CallRank \/ Down \/ Bottom \/ Up \/ CallUnrank \/ Divide
    BY <2>3 DEF CallRank, Down, Bottom, Up, CallUnrank, Divide
  <2> QED BY <2>1, <2>2, <2>3 DEF Next
<1> QED BY <1>1, NumbersInductive, PTL DEF Spec, RoundTrips
=============================================================================
