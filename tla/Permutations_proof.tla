------------------------- MODULE Permutations_proof -------------------------
(***************************************************************************)
(* Facts about index arrays of every length, used where shuffling and      *)
(* ranking are proved about: what holds after every turn of a loop,        *)
(* swapping keeps a permutation one, and sorting by value inverts it.      *)
(***************************************************************************)
EXTENDS Permutations, FiniteSetTheorems, WellFoundedInduction, TLAPS

(* A set of numbers that is not empty has a least one: induction, for facts *)
(* that are stated as a set.                                                *)
LEMMA LeastNumber ==
  ASSUME NEW T, T \subseteq Nat, T # {}
  PROVE  \E x \in T : \A y \in T : x <= y
<1> DEFINE R == {ss \in Nat \X Nat : ss[1] < ss[2]}
<1>1. IsWellFoundedOn(R, Nat)
  BY NatLessThanWellFounded DEF OpToRel
<1>2. PICK x \in T : \A y \in T : ~(<<y, x>> \in R)
  <2> HIDE DEF R
  <2> QED BY <1>1, WFMin
<1>3. ASSUME NEW y \in T PROVE x <= y
  <2>1. x \in Nat /\ y \in Nat
    OBVIOUS
  <2>2. ~(y < x)
    <3>1. SUFFICES ASSUME y < x PROVE FALSE
      OBVIOUS
    <3>2. <<y, x>> \in R
      BY <2>1, <3>1
    <3> QED BY <1>2, <3>2
  <2> QED BY <2>1, <2>2
<1> QED BY <1>3

(* A set of numbers with 0 in it, and with the successor of every number    *)
(* below n that is in it, holds all numbers up to n.                        *)
LEMMA AllUpTo ==
  ASSUME NEW n \in Nat, NEW S, 0 \in S,
         \A k \in 0 .. n : k # n /\ k \in S => k + 1 \in S
  PROVE  \A k \in 0 .. n : k \in S
<1> DEFINE T == {k \in 0 .. n : k \notin S}
<1>1. SUFFICES ASSUME T # {} PROVE FALSE
  OBVIOUS
<1>2. PICK x \in T : \A y \in T : x <= y
  <2>1. T \subseteq Nat
    OBVIOUS
  <2> HIDE DEF T
  <2> QED BY <2>1, <1>1, LeastNumber
<1>3. x - 1 \in 0 .. n /\ x - 1 # n /\ x - 1 + 1 = x
  BY <1>2
<1>4. x - 1 \in S
  BY <1>2, <1>3
<1> QED BY <1>2, <1>3, <1>4

(* What a loop of n turns makes of its first value, a turn being a function *)
(* of its number and of what the turn before left.                          *)
Loop(f, n, base, turn) ==
  f[0] = base /\ \A k \in 1 .. n : f[k] = turn[<<k, f[k - 1]>>]

LEMMA LoopExists ==
  ASSUME NEW n \in Nat, NEW V, NEW base \in V, NEW turn \in [(1 .. n) \X V -> V]
  PROVE  \E f \in [0 .. n -> V] : Loop(f, n, base, turn)
<1> DEFINE Ends(m) == \E f \in [0 .. m -> V] : Loop(f, m, base, turn)
           S == {m \in 0 .. n : Ends(m)}
<1>1. 0 \in S
  <2> DEFINE z == [k \in 0 .. 0 |-> base]
  <2>1. z \in [0 .. 0 -> V] /\ z[0] = base /\ \A k \in 1 .. 0 : z[k] = turn[<<k, z[k - 1]>>]
    OBVIOUS
  <2> HIDE DEF z
  <2> QED BY <2>1 DEF Loop
<1>2. ASSUME NEW m \in 0 .. n, m # n, m \in S PROVE m + 1 \in S
  <2>1. PICK f \in [0 .. m -> V] :
          f[0] = base /\ \A k \in 1 .. m : f[k] = turn[<<k, f[k - 1]>>]
    BY <1>2 DEF Loop
  <2> DEFINE g == [k \in 0 .. m + 1 |-> IF k = m + 1 THEN turn[<<k, f[m]>>] ELSE f[k]]
  <2>2. m + 1 \in 1 .. n /\ m \in 0 .. m
    BY <1>2
  <2>3. turn[<<m + 1, f[m]>>] \in V
    BY <2>2
  <2>4. g \in [0 .. m + 1 -> V]
    BY <2>3
  <2>5. g[0] = base
    BY <2>1, <2>2
  <2>6. ASSUME NEW k \in 1 .. m + 1 PROVE g[k] = turn[<<k, g[k - 1]>>]
    <3>1. CASE k = m + 1
      <4>1. k - 1 = m /\ g[k - 1] = f[m]
        BY <3>1, <2>2
      <4> QED BY <3>1, <4>1
    <3>2. CASE k # m + 1
      BY <3>2, <2>1
    <3> QED BY <3>1, <3>2
  <2> HIDE DEF g
  <2>7. m + 1 \in 0 .. n
    BY <1>2
  <2> QED BY <2>4, <2>5, <2>6, <2>7 DEF Loop
<1> HIDE DEF S
<1>3. n \in S
  BY <1>1, <1>2, AllUpTo
<1> QED BY <1>3 DEF S
-----------------------------------------------------------------------------
(* Arithmetic                                                               *)
LEMMA DivMod ==
  ASSUME NEW x \in Nat, NEW d \in Nat \ {0}
  PROVE  /\ x \div d \in Nat /\ x % d \in 0 .. d - 1
         /\ x = (x \div d) * d + (x % d)
OBVIOUS

LEMMA TimesLess ==
  ASSUME NEW u \in Int, NEW v \in Int, NEW d \in Nat \ {0}, u * d < v * d
  PROVE  u < v
OBVIOUS

LEMMA TimesNatural ==
  ASSUME NEW u \in Nat, NEW v \in Nat
  PROVE  u * v \in Nat /\ (u > 0 /\ v > 0 => u * v > 0) /\ (u > 0 => v <= u * v)
OBVIOUS

LEMMA TimesRegroups ==
  ASSUME NEW u \in Int, NEW v \in Int, NEW w \in Int
  PROVE  (u * v) * w = u * (v * w) /\ u * v = v * u
         /\ (u + v) * w = u * w + v * w /\ (u - v) * w = u * w - v * w
OBVIOUS

LEMMA DivUnique ==
  ASSUME NEW d \in Nat \ {0}, NEW q \in Nat, NEW r \in 0 .. d - 1
  PROVE  (q * d + r) \div d = q /\ (q * d + r) % d = r
<1> DEFINE x == q * d + r
           u == x \div d
           v == x % d
<1>1. q * d \in Nat
  BY TimesNatural
<1>2. x \in Nat
  BY <1>1
<1>3. u \in Nat /\ v \in 0 .. d - 1 /\ x = u * d + v
  <2> HIDE DEF x
  <2> QED BY <1>2, DivMod
<1>4. x = q * d + r
  OBVIOUS
<1> HIDE DEF x, u, v
<1>5. u * d \in Nat
  BY <1>3, TimesNatural
<1>6. ~(u < q)
  <2>1. SUFFICES ASSUME u + 1 <= q PROVE FALSE
    BY <1>3
  <2>2. (u + 1) * d = u * d + d
    BY <1>3
  <2>3. q * d < (u + 1) * d
    BY <1>1, <1>3, <1>4, <1>5, <2>2
  <2> QED BY <1>3, <2>1, <2>3, TimesLess
<1>7. ~(q < u)
  <2>1. SUFFICES ASSUME q + 1 <= u PROVE FALSE
    BY <1>3
  <2>2. (q + 1) * d = q * d + d
    OBVIOUS
  <2>3. u * d < (q + 1) * d
    BY <1>1, <1>3, <1>4, <1>5, <2>2
  <2> QED BY <1>3, <2>1, <2>3, TimesLess
<1>8. u = q
  BY <1>3, <1>6, <1>7
<1>9. v = r
  BY <1>1, <1>3, <1>4, <1>8
<1> QED BY <1>8, <1>9 DEF u, v, x

-----------------------------------------------------------------------------

LEMMA IdentityPerm == ASSUME NEW n \in Nat PROVE IsPerm(Identity(n), n)
BY DEF IsPerm, Identity

LEMMA SwapAt ==
  ASSUME NEW n \in Nat, NEW f, DOMAIN f = 0 .. n - 1,
         NEW i \in 0 .. n - 1, NEW j \in 0 .. n - 1
  PROVE  /\ DOMAIN Swap(f, i, j) = 0 .. n - 1
         /\ Swap(f, i, j)[i] = f[j]
         /\ Swap(f, i, j)[j] = f[i]
         /\ \A k \in 0 .. n - 1 : k # i /\ k # j => Swap(f, i, j)[k] = f[k]
BY DEF Swap

LEMMA SwapPerm ==
  ASSUME NEW n \in Nat, NEW p, IsPerm(p, n),
         NEW i \in 0 .. n - 1, NEW j \in 0 .. n - 1
  PROVE  IsPerm(Swap(p, i, j), n)
<1> DEFINE s == Swap(p, i, j)
<1>1. p \in [0 .. n - 1 -> 0 .. n - 1]
  BY DEF IsPerm
<1>2. s \in [0 .. n - 1 -> 0 .. n - 1]
  BY <1>1 DEF Swap
<1>3. s[i] = p[j] /\ s[j] = p[i] /\ \A k \in 0 .. n - 1 : k # i /\ k # j => s[k] = p[k]
  BY <1>1, SwapAt
<1>4. \A a, b \in 0 .. n - 1 : p[a] = p[b] => a = b
  BY DEF IsPerm
<1>5. \A a, b \in 0 .. n - 1 : s[a] = s[b] => a = b
  BY <1>3, <1>4
<1>6. ASSUME NEW v \in 0 .. n - 1
      PROVE  \E k \in 0 .. n - 1 : s[k] = v
  <2>1. PICK k \in 0 .. n - 1 : p[k] = v
    BY DEF IsPerm
  <2> QED BY <2>1, <1>3
<1> QED BY <1>2, <1>5, <1>6 DEF IsPerm

(* std::sort puts the entry with value v at place v.                        *)
LEMMA BelowIsValue ==
  ASSUME NEW n \in Nat, NEW p, IsPerm(p, n), NEW i \in 0 .. n - 1
  PROVE  Below(p, n, i) = p[i]
<1> DEFINE S == {j \in 0 .. n - 1 : p[j] < p[i]}
           T == 0 .. p[i] - 1
           f == [j \in S |-> p[j]]
<1>1. p \in [0 .. n - 1 -> 0 .. n - 1]
  BY DEF IsPerm
<1>2. \A j \in S : p[j] \in T
  BY <1>1
<1>3. f \in [S -> T]
  BY <1>2
<1>4. \A a, b \in S : f[a] = f[b] => a = b
  BY DEF IsPerm
<1>5. ASSUME NEW v \in T PROVE \E j \in S : f[j] = v
  <2>1. v \in 0 .. n - 1 /\ v < p[i]
    BY <1>1
  <2>2. PICK j \in 0 .. n - 1 : p[j] = v
    BY <2>1 DEF IsPerm
  <2> QED BY <2>1, <2>2
<1>6. f \in Bijection(S, T)
  BY <1>3, <1>4, <1>5 DEF Bijection, Injection, Surjection, IsInjective
<1>7. ExistsBijection(S, T)
  BY <1>6 DEF ExistsBijection
<1>8. IsFiniteSet(S)
  <2>1. IsFiniteSet(0 .. n - 1)
    BY FS_Interval
  <2> QED BY <2>1, FS_Subset
<1>9. Cardinality(T) = p[i]
  <2>1. p[i] \in Nat /\ 0 \in Int /\ p[i] - 1 \in Int
    BY <1>1
  <2>2. Cardinality(T) = IF 0 > p[i] - 1 THEN 0 ELSE p[i] - 1 - 0 + 1
    BY <2>1, FS_Interval
  <2> QED BY <2>1, <2>2
<1>10. Cardinality(S) = Cardinality(T)
  BY <1>7, <1>8, FS_Bijection
<1> QED BY <1>9, <1>10 DEF Below

(* inverse_permutation of a permutation is its inverse as long as uint32_t  *)
(* holds every index.                                                       *)
LEMMA InverseIsInverse ==
  ASSUME NEW n \in Nat, n <= IndexMod, NEW p, IsPerm(p, n)
  PROVE  /\ inverse_permutation(p, n) \in [0 .. n - 1 -> 0 .. n - 1]
         /\ \A k \in 0 .. n - 1 :
              /\ p[inverse_permutation(p, n)[k]] = k
              /\ inverse_permutation(p, n)[p[k]] = k
<1> DEFINE inv == inverse_permutation(p, n)
<1>1. p \in [0 .. n - 1 -> 0 .. n - 1]
  BY DEF IsPerm
<1>2. ASSUME NEW k \in 0 .. n - 1
      PROVE  inv[k] \in 0 .. n - 1 /\ p[inv[k]] = k
  <2> DEFINE c == CHOOSE i \in 0 .. n - 1 : Below(p, n, i) = k
  <2>1. PICK i \in 0 .. n - 1 : p[i] = k
    BY DEF IsPerm
  <2>2. Below(p, n, i) = k
    BY <2>1, BelowIsValue
  <2>3. c \in 0 .. n - 1 /\ Below(p, n, c) = k
    BY <2>2
  <2>4. p[c] = k
    BY <2>3, BelowIsValue
  <2>5. inv[k] = c
    BY <2>3, IndexAssumption DEF inverse_permutation, Narrow
  <2> QED BY <2>3, <2>4, <2>5
<1>3. inv \in [0 .. n - 1 -> 0 .. n - 1]
  BY <1>2 DEF inverse_permutation
<1>4. ASSUME NEW k \in 0 .. n - 1 PROVE inv[p[k]] = k
  <2>1. p[k] \in 0 .. n - 1
    BY <1>1
  <2>2. inv[p[k]] \in 0 .. n - 1 /\ p[inv[p[k]]] = p[k]
    BY <2>1, <1>2
  <2> QED BY <2>2 DEF IsPerm
<1> QED BY <1>2, <1>3, <1>4
-----------------------------------------------------------------------------
(* The turns of the loop of factorial.                                      *)
LEMMA FactorialTurns ==
  /\ Factorial \in [Nat -> Nat \ {0}] /\ Factorial[0] = 1
  /\ \A n \in Nat \ {0} : Factorial[n] = n * Factorial[n - 1]
<1> DEFINE Pos == Nat \ {0}
           Is(f, m) == f \in [0 .. m -> Pos] /\ f[0] = 1 /\ \A k \in 1 .. m : f[k] = k * f[k - 1]
           L == [m \in Nat |-> CHOOSE f : Is(f, m)]
           F == [m \in Nat |-> L[m][m]]
<1>1. ASSUME NEW m \in Nat PROVE Is(L[m], m)
  <2> DEFINE turn == [kp \in (1 .. m) \X Pos |-> kp[1] * kp[2]]
  <2>1. \A k \in 1 .. m, x \in Pos : k * x \in Pos
    <3>1. ASSUME NEW k \in 1 .. m, NEW x \in Pos PROVE k * x \in Pos
      <4>1. k \in Nat /\ k > 0 /\ x \in Nat /\ x > 0
        OBVIOUS
      <4> QED BY <4>1, TimesNatural
    <3> QED BY <3>1
  <2>2. turn \in [(1 .. m) \X Pos -> Pos] /\ 1 \in Pos
    BY <2>1
  <2>3. \A k \in 1 .. m, x \in Pos : turn[<<k, x>>] = k * x
    OBVIOUS
  <2> HIDE DEF turn
  <2>4. PICK f \in [0 .. m -> Pos] : Loop(f, m, 1, turn)
    <3> HIDE DEF Pos
    <3> QED BY <2>2, LoopExists
  <2>5. \A k \in 1 .. m : k - 1 \in 0 .. m
    OBVIOUS
  <2>6. f[0] = 1 /\ \A k \in 1 .. m : f[k] = k * f[k - 1]
    BY <2>3, <2>4, <2>5 DEF Loop
  <2>7. Is(f, m)
    BY <2>6
  <2> HIDE DEF Is
  <2> QED BY <2>7
<1>2. ASSUME NEW m \in Nat \ {0} PROVE L[m - 1][m - 1] = L[m][m - 1]
  <2> DEFINE f == L[m - 1]
             g == L[m]
             n == m - 1
             S == {k \in 0 .. n : f[k] = g[k]}
  <2>1. Is(f, n) /\ Is(g, n + 1) /\ n \in Nat
    <3>1. n \in Nat /\ m \in Nat /\ n + 1 = m
      OBVIOUS
    <3> HIDE DEF Is, L
    <3> QED BY <1>1, <3>1
  <2> HIDE DEF f, g, n, L
  <2>2. 0 \in S
    BY <2>1
  <2>3. ASSUME NEW k \in 0 .. n, k # n, k \in S PROVE k + 1 \in S
    <3>1. k + 1 \in 1 .. n /\ k + 1 \in 1 .. n + 1 /\ k + 1 - 1 = k /\ f[k] = g[k] /\ k + 1 \in 0 .. n
      BY <2>1, <2>3
    <3>2. /\ \A j \in 1 .. n : f[j] = j * f[j - 1]
          /\ \A j \in 1 .. n + 1 : g[j] = j * g[j - 1]
      BY <2>1
    <3>3. f[k + 1] = (k + 1) * f[k]
      BY <3>1, <3>2
    <3>4. g[k + 1] = (k + 1) * g[k]
      BY <3>1, <3>2
    <3> QED BY <3>1, <3>3, <3>4
  <2> HIDE DEF S, Is
  <2>4. \A k \in 0 .. n : k \in S
    BY <2>1, <2>2, <2>3, AllUpTo
  <2> QED BY <2>1, <2>4 DEF S, f, g, n
<1>3. F \in [Nat -> Pos] /\ F[0] = 1
  <2>1. ASSUME NEW m \in Nat PROVE L[m][m] \in Pos /\ (m = 0 => L[m][m] = 1)
    <3> DEFINE f == L[m]
    <3>1. Is(f, m)
      BY <1>1
    <3> HIDE DEF f
    <3>2. f[m] \in Pos /\ (m = 0 => f[m] = 1)
      BY <3>1
    <3> QED BY <3>2 DEF f
  <2> HIDE DEF L
  <2> QED BY <2>1
<1>4. ASSUME NEW m \in Nat \ {0} PROVE F[m] = m * F[m - 1]
  <2> DEFINE f == L[m]
  <2>1. Is(f, m) /\ m \in 1 .. m /\ m - 1 \in Nat
    <3> HIDE DEF Is, L
    <3> QED BY <1>1
  <2> HIDE DEF f
  <2>2. f[m] = m * f[m - 1]
    BY <2>1
  <2> USE DEF f
  <2> HIDE DEF L, Is
  <2> QED BY <1>2, <2>1, <2>2
<1> HIDE DEF L, F, Is
<1>5. F = [n \in Nat |-> IF n = 0 THEN 1 ELSE n * F[n - 1]]
  BY <1>3, <1>4
<1>6. Factorial = [n \in Nat |-> IF n = 0 THEN 1 ELSE n * Factorial[n - 1]]
  BY <1>5 DEF Factorial
<1> DEFINE G == Factorial
<1>7. G = F
  <2> DEFINE T == {k \in Nat : G[k] # F[k]}
  <2>1. SUFFICES ASSUME T # {} PROVE FALSE
    <3>1. T = {} => \A k \in Nat : G[k] = F[k]
      OBVIOUS
    <3> QED BY <3>1, <1>5, <1>6
  <2>2. PICK x \in T : \A y \in T : x <= y
    <3>1. T \subseteq Nat
      OBVIOUS
    <3> HIDE DEF T
    <3> QED BY <2>1, <3>1, LeastNumber
  <2> HIDE DEF G
  <2>3. G[0] = 1 /\ \A k \in Nat \ {0} : G[k] = k * G[k - 1]
    BY <1>6 DEF G
  <2>4. x # 0 /\ x - 1 \in Nat /\ x \in Nat
    BY <1>3, <2>2, <2>3
  <2>5. G[x - 1] = F[x - 1]
    BY <2>2, <2>4
  <2> QED BY <1>4, <2>2, <2>3, <2>4, <2>5
<1> QED BY <1>3, <1>4, <1>7

(* Counting down, in the way of AllUpTo.                                    *)
LEMMA AllDownTo ==
  ASSUME NEW n \in Nat, NEW S, n \in S,
         \A k \in 1 .. n : k \in S => k - 1 \in S
  PROVE  \A k \in 0 .. n : k \in S
<1> DEFINE R == {k \in 0 .. n : n - k \in S}
<1>1. 0 \in R
  OBVIOUS
<1>2. ASSUME NEW k \in 0 .. n, k # n, k \in R PROVE k + 1 \in R
  <2>1. n - k \in 1 .. n /\ (n - k) - 1 = n - (k + 1) /\ k + 1 \in 0 .. n /\ n - k \in S
    BY <1>2
  <2> QED BY <2>1
<1> HIDE DEF R
<1>3. \A k \in 0 .. n : k \in R
  BY <1>1, <1>2, AllUpTo
<1>4. ASSUME NEW k \in 0 .. n PROVE k \in S
  <2>1. n - k \in 0 .. n /\ n - (n - k) = k
    OBVIOUS
  <2> QED BY <1>3, <2>1 DEF R
<1> QED BY <1>4
-----------------------------------------------------------------------------
(* The levels of rank_impl                                                  *)

(* p and v are inverse to each other on 0 .. k - 1.                         *)
Mutual(p, v, k) ==
  \A x \in 0 .. k - 1 : /\ p[x] \in 0 .. k - 1 /\ v[x] \in 0 .. k - 1
                        /\ p[v[x]] = x /\ v[p[x]] = x

(* The swaps of one level take its largest value off both arrays.           *)
LEMMA LevelStep ==
  ASSUME NEW d \in Nat, NEW k \in 2 .. d,
         NEW p \in [0 .. d - 1 -> 0 .. d - 1], NEW v \in [0 .. d - 1 -> 0 .. d - 1],
         Mutual(p, v, k)
  PROVE  /\ PiStep(p, v, k) \in [0 .. d - 1 -> 0 .. d - 1]
         /\ InvStep(p, v, k) \in [0 .. d - 1 -> 0 .. d - 1]
         /\ p[k - 1] \in 0 .. k - 1
         /\ Mutual(PiStep(p, v, k), InvStep(p, v, k), k - 1)
<1> DEFINE e == k - 1
           s == p[e]
           t == v[e]
           q == PiStep(p, v, k)
           w == InvStep(p, v, k)
<1>1. e \in Nat /\ e \in 0 .. k - 1 /\ e \in 0 .. d - 1 /\ k = e + 1
  OBVIOUS
<1>2. s \in 0 .. e /\ t \in 0 .. e /\ p[t] = e /\ v[s] = e
  BY <1>1 DEF Mutual
<1>3. s \in 0 .. d - 1 /\ t \in 0 .. d - 1
  BY <1>1, <1>2
<1>4. q \in [0 .. d - 1 -> 0 .. d - 1] /\ w \in [0 .. d - 1 -> 0 .. d - 1]
  BY <1>1, <1>3 DEF PiStep, InvStep, Swap
<1>5. q[t] = s /\ \A x \in 0 .. d - 1 : x # e /\ x # t => q[x] = p[x]
  <2>1. q = Swap(p, e, t) /\ DOMAIN p = 0 .. d - 1
    BY DEF PiStep
  <2> HIDE DEF q, t, s, e
  <2>2. q[t] = p[e] /\ \A x \in 0 .. d - 1 : x # e /\ x # t => q[x] = p[x]
    BY <1>1, <1>3, <2>1 DEF Swap
  <2> QED BY <2>2 DEF s
<1>6. w[s] = t /\ \A x \in 0 .. d - 1 : x # e /\ x # s => w[x] = v[x]
  <2>1. w = Swap(v, s, e) /\ DOMAIN v = 0 .. d - 1
    BY DEF InvStep
  <2> HIDE DEF w, t, s, e
  <2>2. w[s] = v[e] /\ \A x \in 0 .. d - 1 : x # e /\ x # s => w[x] = v[x]
    BY <1>1, <1>3, <2>1 DEF Swap
  <2> QED BY <2>2 DEF t
<1>7. ASSUME NEW x \in 0 .. e - 1
      PROVE  /\ q[x] \in 0 .. e - 1 /\ w[x] \in 0 .. e - 1
             /\ q[w[x]] = x /\ w[q[x]] = x
  <2> HIDE DEF q, w, s, t, e
  <2>1. x # e /\ x \in 0 .. d - 1 /\ x \in 0 .. k - 1
    BY <1>1
  <2>2. p[x] \in 0 .. e /\ v[x] \in 0 .. e /\ p[v[x]] = x /\ v[p[x]] = x
    BY <1>1, <2>1 DEF Mutual
  <2>3. q[x] \in 0 .. e - 1 /\ w[q[x]] = x
    <3>1. CASE x = t
      <4>1. s # e
        BY <1>2, <2>1, <3>1 DEF t
      <4>2. s \in 0 .. e - 1
        BY <1>1, <1>2, <4>1
      <4>3. q[x] = s /\ w[s] = x
        BY <1>5, <1>6, <3>1
      <4> QED BY <4>2, <4>3
    <3>2. CASE x # t
      <4>1. q[x] = p[x] /\ p[x] # e /\ p[x] # s
        BY <1>2, <1>5, <2>1, <2>2, <3>2 DEF t
      <4>2. p[x] \in 0 .. d - 1
        BY <2>1
      <4>3. w[p[x]] = x
        BY <1>6, <2>2, <4>1, <4>2
      <4>4. p[x] \in 0 .. e - 1
        BY <1>1, <2>2, <4>1
      <4> QED BY <4>1, <4>3, <4>4
    <3> QED BY <3>1, <3>2
  <2>4. w[x] \in 0 .. e - 1 /\ q[w[x]] = x
    <3>1. CASE x = s
      <4>1. t # e
        BY <1>2, <2>1, <3>1 DEF s
      <4>2. t \in 0 .. e - 1
        BY <1>1, <1>2, <4>1
      <4>3. w[x] = t /\ q[t] = x
        BY <1>5, <1>6, <3>1
      <4> QED BY <4>2, <4>3
    <3>2. CASE x # s
      <4>1. w[x] = v[x] /\ v[x] # e /\ v[x] # t
        BY <1>2, <1>6, <2>1, <2>2, <3>2 DEF s
      <4>2. v[x] \in 0 .. d - 1
        BY <2>1
      <4>3. q[v[x]] = x
        BY <1>5, <2>2, <4>1, <4>2
      <4>4. v[x] \in 0 .. e - 1
        BY <1>1, <2>2, <4>1
      <4> QED BY <4>1, <4>3, <4>4
    <3> QED BY <3>1, <3>2
  <2> QED BY <2>3, <2>4
<1>8. Mutual(q, w, e)
  BY <1>7 DEF Mutual
<1> QED BY <1>1, <1>2, <1>4, <1>8
-----------------------------------------------------------------------------
(* Products of swaps: what unrank_impl and both shuffles multiply together, *)
(* from level d down to level m, c giving the index of each level.          *)
IndexArrays(d) == [0 .. d - 1 -> 0 .. d - 1]

Built(u, d, m, c) ==
  /\ u \in [0 .. d -> IndexArrays(d)] /\ u[d] = Identity(d)
  /\ \A k \in m + 1 .. d : c[k] \in 0 .. k - 1 /\ u[k - 1] = Swap(u[k], k - 1, c[k])

LEMMA SwapCommutes ==
  ASSUME NEW n \in Nat, NEW f, DOMAIN f = 0 .. n - 1,
         NEW i \in 0 .. n - 1, NEW j \in 0 .. n - 1
  PROVE  Swap(f, i, j) = Swap(f, j, i)
BY DEF Swap

(* Swapping composes with whatever the entries are looked up in.            *)
LooksUp(f, g, p, n) == \A x \in 0 .. n - 1 : f[x] = g[p[x]]

LEMMA SwapComposes ==
  ASSUME NEW n \in Nat, NEW f, DOMAIN f = 0 .. n - 1, NEW p, DOMAIN p = 0 .. n - 1, NEW g,
         NEW i \in 0 .. n - 1, NEW j \in 0 .. n - 1, LooksUp(f, g, p, n)
  PROVE  LooksUp(Swap(f, i, j), g, Swap(p, i, j), n)
<1>1. /\ Swap(f, i, j)[i] = f[j] /\ Swap(f, i, j)[j] = f[i]
      /\ \A k \in 0 .. n - 1 : k # i /\ k # j => Swap(f, i, j)[k] = f[k]
  BY SwapAt
<1>2. /\ Swap(p, i, j)[i] = p[j] /\ Swap(p, i, j)[j] = p[i]
      /\ \A k \in 0 .. n - 1 : k # i /\ k # j => Swap(p, i, j)[k] = p[k]
  BY SwapAt
<1> QED BY <1>1, <1>2 DEF LooksUp

LEMMA BuiltPerm ==
  ASSUME NEW d \in Nat, NEW m \in 0 .. d, NEW c, NEW u, Built(u, d, m, c)
  PROVE  \A k \in m .. d : IsPerm(u[k], d)
<1> DEFINE S == {k \in 0 .. d : k >= m => IsPerm(u[k], d)}
<1>1. d \in S
  BY IdentityPerm DEF Built
<1>2. ASSUME NEW k \in 1 .. d, k \in S PROVE k - 1 \in S
  <2>1. SUFFICES ASSUME k - 1 >= m PROVE IsPerm(u[k - 1], d)
    OBVIOUS
  <2>2. k \in m + 1 .. d /\ k - 1 \in 0 .. d - 1 /\ IsPerm(u[k], d)
    BY <1>2, <2>1
  <2>3. c[k] \in 0 .. d - 1 /\ u[k - 1] = Swap(u[k], k - 1, c[k])
    BY <2>2 DEF Built
  <2> QED BY <2>2, <2>3, SwapPerm
<1> HIDE DEF S
<1>3. \A k \in 0 .. d : k \in S
  BY <1>1, <1>2, AllDownTo
<1> QED BY <1>3 DEF S

(* What a level settles stays, down to the last level.                      *)
LEMMA BuiltSettled ==
  ASSUME NEW d \in Nat, NEW c, NEW u, Built(u, d, 0, c), NEW k \in 1 .. d
  PROVE  u[0][k - 1] = u[k][c[k]]
<1> DEFINE S == {j \in 0 .. k - 1 : u[j][k - 1] = u[k - 1][k - 1]}
<1>0. k - 1 \in Nat /\ k - 1 \in 0 .. d - 1
  OBVIOUS
<1>1. k - 1 \in S
  BY <1>0
<1>2. ASSUME NEW j \in 1 .. k - 1, j \in S PROVE j - 1 \in S
  <2>1. /\ j \in 0 + 1 .. d /\ j - 1 \in 0 .. d - 1 /\ j - 1 # k - 1 /\ j - 1 \in 0 .. k - 1
        /\ j \in 0 .. d
        /\ u[j][k - 1] = u[k - 1][k - 1]
    BY <1>2
  <2>2. c[j] \in 0 .. j - 1 /\ u[j - 1] = Swap(u[j], j - 1, c[j]) /\ DOMAIN u[j] = 0 .. d - 1
    BY <2>1 DEF Built, IndexArrays
  <2>3. c[j] # k - 1 /\ c[j] \in 0 .. d - 1
    BY <2>1, <2>2
  <2>4. u[j - 1][k - 1] = u[j][k - 1]
    BY <1>0, <2>1, <2>2, <2>3, SwapAt
  <2> QED BY <2>1, <2>4
<1> HIDE DEF S
<1>3. 0 \in S
  <2>1. \A j \in 0 .. k - 1 : j \in S
    BY <1>0, <1>1, <1>2, AllDownTo
  <2> QED BY <2>1, <1>0
<1>4. u[k - 1][k - 1] = u[k][c[k]]
  <2>1. k \in 0 + 1 .. d /\ k \in 0 .. d
    OBVIOUS
  <2>2. c[k] \in 0 .. k - 1 /\ u[k - 1] = Swap(u[k], k - 1, c[k]) /\ DOMAIN u[k] = 0 .. d - 1
    BY <2>1 DEF Built, IndexArrays
  <2>3. c[k] \in 0 .. d - 1
    BY <2>2
  <2>4. Swap(u[k], k - 1, c[k])[k - 1] = u[k][c[k]]
    BY <1>0, <2>2, <2>3, SwapAt
  <2> QED BY <2>2, <2>4
<1> QED BY <1>3, <1>4 DEF S

(* Equal indices build equal arrays, and an array tells its indices.        *)
LEMMA BuiltSame ==
  ASSUME NEW d \in Nat, NEW c, NEW e, NEW u, NEW w, Built(u, d, 0, c), Built(w, d, 0, e),
         \A k \in 1 .. d : c[k] = e[k]
  PROVE  u[0] = w[0]
<1> DEFINE S == {k \in 0 .. d : u[k] = w[k]}
<1>1. d \in S
  BY DEF Built
<1>2. ASSUME NEW k \in 1 .. d, k \in S PROVE k - 1 \in S
  <2>1. k \in 0 + 1 .. d /\ u[k] = w[k] /\ k - 1 \in 0 .. d
    BY <1>2
  <2>2. u[k - 1] = Swap(u[k], k - 1, c[k]) /\ w[k - 1] = Swap(w[k], k - 1, e[k])
    BY <2>1 DEF Built
  <2> QED BY <2>1, <2>2
<1> HIDE DEF S
<1>3. \A k \in 0 .. d : k \in S
  BY <1>1, <1>2, AllDownTo
<1>4. 0 \in S
  BY <1>3
<1> QED BY <1>4 DEF S

LEMMA BuiltTells ==
  ASSUME NEW d \in Nat, NEW c, NEW e, NEW u, NEW w, Built(u, d, 0, c), Built(w, d, 0, e),
         u[0] = w[0]
  PROVE  \A k \in 1 .. d : c[k] = e[k]
<1> DEFINE S == {k \in 0 .. d : u[k] = w[k]}
<1>1. d \in S
  BY DEF Built
<1>2. ASSUME NEW k \in 1 .. d, u[k] = w[k] PROVE c[k] = e[k]
  <2>1. u[k][c[k]] = w[k][e[k]]
    BY BuiltSettled
  <2>2. k \in 0 + 1 .. d /\ k \in 0 .. d /\ 0 \in 0 .. d
    OBVIOUS
  <2>3. IsPerm(u[k], d)
    BY <2>2, BuiltPerm
  <2>4. c[k] \in 0 .. k - 1 /\ e[k] \in 0 .. k - 1
    BY <2>2 DEF Built
  <2>5. c[k] \in 0 .. d - 1 /\ e[k] \in 0 .. d - 1
    BY <2>4
  <2>6. \A a, b \in 0 .. d - 1 : u[k][a] = u[k][b] => a = b
    BY <2>3 DEF IsPerm
  <2>7. u[k][c[k]] = u[k][e[k]]
    BY <1>2, <2>1
  <2> QED BY <2>5, <2>6, <2>7
<1>3. ASSUME NEW k \in 1 .. d, k \in S PROVE k - 1 \in S
  <2>1. k \in 0 + 1 .. d /\ u[k] = w[k] /\ k - 1 \in 0 .. d /\ c[k] = e[k]
    BY <1>2, <1>3
  <2>2. u[k - 1] = Swap(u[k], k - 1, c[k]) /\ w[k - 1] = Swap(w[k], k - 1, e[k])
    BY <2>1 DEF Built
  <2> QED BY <2>1, <2>2
<1> HIDE DEF S
<1>4. \A k \in 0 .. d : k \in S
  BY <1>1, <1>3, AllDownTo
<1> QED BY <1>2, <1>4 DEF S

(* A level of rank_impl takes the last factor off: what is left of it, pi,  *)
(* is composed with one more swap.                                          *)
LEMMA LevelProduct ==
  ASSUME NEW d \in Nat, NEW k \in 2 .. d, NEW u \in IndexArrays(d),
         NEW p \in IndexArrays(d), NEW v \in IndexArrays(d), Mutual(p, v, k),
         \A x \in k .. d - 1 : p[x] = x
  PROVE  /\ \A x \in 0 .. d - 1 : Swap(u, k - 1, p[k - 1])[PiStep(p, v, k)[x]] = u[p[x]]
         /\ \A x \in k - 1 .. d - 1 : PiStep(p, v, k)[x] = x
<1> DEFINE e == k - 1
           s == p[e]
           t == v[e]
           q == PiStep(p, v, k)
           w == Swap(u, e, s)
<1>1. /\ e \in 0 .. d - 1 /\ e \in 0 .. k - 1 /\ s \in 0 .. d - 1 /\ t \in 0 .. d - 1
      /\ s \in 0 .. k - 1 /\ t \in 0 .. k - 1 /\ p[t] = e /\ v[s] = e
  BY DEF Mutual, IndexArrays
<1>2. q[e] = e /\ q[t] = s /\ \A x \in 0 .. d - 1 : x # e /\ x # t => q[x] = p[x]
  <2>1. q = Swap(p, e, t) /\ DOMAIN p = 0 .. d - 1
    BY DEF PiStep, IndexArrays
  <2> HIDE DEF q, t, s, e
  <2>2. q[e] = p[t] /\ q[t] = p[e] /\ \A x \in 0 .. d - 1 : x # e /\ x # t => q[x] = p[x]
    BY <1>1, <2>1, SwapAt
  <2> QED BY <1>1, <2>2 DEF s
<1>3. w[e] = u[s] /\ w[s] = u[e] /\ \A x \in 0 .. d - 1 : x # e /\ x # s => w[x] = u[x]
  <2>1. DOMAIN u = 0 .. d - 1
    BY DEF IndexArrays
  <2> HIDE DEF t, s, e
  <2> QED BY <1>1, <2>1, SwapAt, SMTT(30) DEF w
<1>4. \A x \in 0 .. d - 1 : p[x] \in 0 .. d - 1
  BY DEF IndexArrays
<1>5. p[e] = s
  OBVIOUS
<1>6. ASSUME NEW x \in 0 .. d - 1, x # e, x # t PROVE p[x] # e /\ p[x] # s
  <2>1. CASE x \in 0 .. k - 1
    <3>1. v[p[x]] = x
      BY <2>1 DEF Mutual
    <3> HIDE DEF e, s, t
    <3>2. v[e] = t
      BY DEF t
    <3> QED BY <1>1, <1>6, <3>1, <3>2
  <2>2. CASE x \in k .. d - 1
    <3>1. p[x] = x /\ x \notin 0 .. k - 1
      BY <2>2
    <3> HIDE DEF e, s, t
    <3> QED BY <1>1, <3>1
  <2> QED BY <2>1, <2>2
<1> HIDE DEF q, w, s, t
<1>7. ASSUME NEW x \in 0 .. d - 1 PROVE w[q[x]] = u[p[x]]
  <2>1. CASE x = e
    BY <1>2, <1>3, <1>5, <2>1
  <2>2. CASE x # e /\ x = t
    BY <1>1, <1>2, <1>3, <2>2
  <2>3. CASE x # e /\ x # t
    BY <1>2, <1>3, <1>4, <1>6, <2>3
  <2> QED BY <2>1, <2>2, <2>3
<1>8. ASSUME NEW x \in e .. d - 1 PROVE q[x] = x
  <2>1. CASE x = e
    BY <1>2, <2>1
  <2>2. CASE x # e
    <3>1. x \in k .. d - 1 /\ x \in 0 .. d - 1 /\ x # t /\ p[x] = x
      BY <1>1, <2>2
    <3> QED BY <1>2, <2>2, <3>1
  <2> QED BY <2>1, <2>2
<1> QED BY <1>7, <1>8 DEF q, w, s

(* One more level.                                                          *)
AgreeAbove(m, d, c, e) == \A k \in m + 1 .. d : e[k] = c[k]

LEMMA BuiltMore ==
  ASSUME NEW d \in Nat, NEW m \in 1 .. d, NEW c, NEW e, NEW u, Built(u, d, m, c),
         e[m] \in 0 .. m - 1, AgreeAbove(m, d, c, e)
  PROVE  \E w : Built(w, d, m - 1, e) /\ w[m - 1] = Swap(u[m], m - 1, e[m])
<1> DEFINE f == Swap(u[m], m - 1, e[m])
           w == [u EXCEPT ![m - 1] = f]
<1>1. m \in 0 .. d /\ m - 1 \in 0 .. d /\ m - 1 # d /\ e[m] \in 0 .. d - 1 /\ m - 1 \in 0 .. d - 1
  OBVIOUS
<1>2. u \in [0 .. d -> IndexArrays(d)] /\ u[d] = Identity(d)
  BY DEF Built
<1>3. f \in IndexArrays(d)
  <2>1. u[m] \in IndexArrays(d)
    BY <1>1, <1>2
  <2> QED BY <1>1, <2>1 DEF IndexArrays, Swap
<1>4. w \in [0 .. d -> IndexArrays(d)] /\ w[m - 1] = f /\ \A k \in 0 .. d : k # m - 1 => w[k] = u[k]
  <2> HIDE DEF f
  <2> QED BY <1>1, <1>2, <1>3
<1> HIDE DEF w
<1>5. ASSUME NEW k \in m - 1 + 1 .. d
      PROVE  e[k] \in 0 .. k - 1 /\ w[k - 1] = Swap(w[k], k - 1, e[k])
  <2>1. k \in 0 .. d /\ k # m - 1 /\ k - 1 \in 0 .. d
    OBVIOUS
  <2>2. w[k] = u[k]
    BY <1>4, <2>1
  <2>3. CASE k = m
    BY <1>4, <2>2, <2>3
  <2>4. CASE k # m
    <3>1. k \in m + 1 .. d /\ k - 1 # m - 1
      BY <2>4
    <3>2. c[k] \in 0 .. k - 1 /\ u[k - 1] = Swap(u[k], k - 1, c[k]) /\ e[k] = c[k]
      BY <3>1 DEF Built, AgreeAbove
    <3>3. w[k - 1] = u[k - 1]
      BY <1>4, <2>1, <3>1
    <3> QED BY <2>2, <3>2, <3>3
  <2> QED BY <2>3, <2>4
<1>6. Built(w, d, m - 1, e)
  BY <1>1, <1>2, <1>4, <1>5 DEF Built
<1> QED BY <1>4, <1>6

(* Level 1 has one index to choose from, and its swap does nothing.         *)
LEMMA BuiltToEnd ==
  ASSUME NEW d \in Nat \ {0}, NEW c, NEW u, Built(u, d, 1, c)
  PROVE  \E e, w : /\ Built(w, d, 0, e) /\ w[0] = u[1]
                   /\ e[1] = 0 /\ \A k \in 2 .. d : e[k] = c[k]
<1> DEFINE e == [k \in 1 .. d |-> IF k = 1 THEN 0 ELSE c[k]]
<1>1. e[1] = 0 /\ \A k \in 2 .. d : e[k] = c[k]
  OBVIOUS
<1> HIDE DEF e
<1>2. PICK w : Built(w, d, 0, e) /\ w[0] = Swap(u[1], 0, 0)
  <2>1. 1 \in 1 .. d /\ e[1] \in 0 .. 1 - 1 /\ AgreeAbove(1, d, c, e)
    BY <1>1 DEF AgreeAbove
  <2>2. \E w : Built(w, d, 1 - 1, e) /\ w[1 - 1] = Swap(u[1], 1 - 1, e[1])
    BY <2>1, BuiltMore
  <2> QED BY <1>1, <2>2
<1>3. Swap(u[1], 0, 0) = u[1]
  <2>1. u[1] \in IndexArrays(d)
    BY DEF Built
  <2> QED BY <2>1 DEF Swap, IndexArrays
<1> QED BY <1>1, <1>2, <1>3
=============================================================================
