--------------------------- MODULE ShuffleRS_proof ---------------------------
(***************************************************************************)
(* For vectors of every length and any device: shuffle_RS loses and copies *)
(* no element at any depth, its owner sees rearrangements only, and every  *)
(* element of a split is placed by a drawn bit of its own.                 *)
(***************************************************************************)
EXTENDS ShuffleRS, Permutations_proof, SequenceTheorems

(* How often x occurs in s *)
Occ(s, x) == Cardinality({i \in DOMAIN s : s[i] = x})

LEMMA OccType ==
  ASSUME NEW V, NEW s \in Seq(V), NEW x
  PROVE  /\ IsFiniteSet({i \in DOMAIN s : s[i] = x})
         /\ Occ(s, x) \in Nat
         /\ Occ(s, x) = 0 <=> \A i \in DOMAIN s : s[i] # x
<1> DEFINE A == {i \in DOMAIN s : s[i] = x}
<1>1. DOMAIN s = 1 .. Len(s) /\ Len(s) \in Nat
  OBVIOUS
<1>2. IsFiniteSet(1 .. Len(s)) /\ A \in SUBSET (1 .. Len(s))
  BY <1>1, FS_Interval
<1>3. IsFiniteSet(A)
  BY <1>2, FS_Subset
<1>4. Cardinality(A) \in Nat /\ (Cardinality(A) = 0 <=> A = {})
  BY <1>3, FS_CardinalityType, FS_EmptySet
<1> QED BY <1>3, <1>4 DEF Occ

(* Two sequences have one bag if and only if everything occurs in both as   *)
(* often.                                                                   *)
LEMMA SameBag ==
  ASSUME NEW V, NEW s \in Seq(V), NEW t \in Seq(V)
  PROVE  ToBag(s) = ToBag(t) <=> \A x \in V : Occ(s, x) = Occ(t, x)
<1>1. \A x : Occ(s, x) = 0 <=> x \notin Range(s)
  BY OccType DEF Range
<1>2. \A x : Occ(t, x) = 0 <=> x \notin Range(t)
  BY OccType DEF Range
<1>3. ToBag(s) = [x \in Range(s) |-> Occ(s, x)] /\ ToBag(t) = [x \in Range(t) |-> Occ(t, x)]
  BY DEF ToBag, Occ
<1>4. Range(s) \subseteq V /\ Range(t) \subseteq V
  BY DEF Range
<1>5. ASSUME ToBag(s) = ToBag(t), NEW x \in V PROVE Occ(s, x) = Occ(t, x)
  <2>1. Range(s) = Range(t)
    <3>1. DOMAIN ToBag(s) = Range(s) /\ DOMAIN ToBag(t) = Range(t)
      BY <1>3
    <3> QED BY <3>1, <1>5
  <2>2. CASE x \in Range(s)
    <3>1. ToBag(s)[x] = Occ(s, x) /\ ToBag(t)[x] = Occ(t, x)
      BY <1>3, <2>1, <2>2
    <3> QED BY <3>1, <1>5
  <2>3. CASE x \notin Range(s)
    BY <2>1, <2>3, <1>1, <1>2
  <2> QED BY <2>2, <2>3
<1>6. ASSUME \A x \in V : Occ(s, x) = Occ(t, x) PROVE ToBag(s) = ToBag(t)
  <2>1. Range(s) = Range(t)
    BY <1>1, <1>2, <1>4, <1>6
  <2>2. \A x \in Range(s) : Occ(s, x) = Occ(t, x)
    BY <1>4, <1>6
  <2> QED BY <1>3, <2>1, <2>2
<1> QED BY <1>5, <1>6

LEMMA OccConcat ==
  ASSUME NEW V, NEW s \in Seq(V), NEW t \in Seq(V), NEW x
  PROVE  Occ(s \o t, x) = Occ(s, x) + Occ(t, x)
<1> DEFINE m == Len(s)
           n == Len(t)
           A == {i \in DOMAIN s : s[i] = x}
           B == {i \in DOMAIN t : t[i] = x}
           M == {i \in m + 1 .. m + n : t[i - m] = x}
           f == [i \in B |-> i + m]
<1>1. m \in Nat /\ n \in Nat /\ DOMAIN s = 1 .. m /\ DOMAIN t = 1 .. n
  OBVIOUS
<1>2. DOMAIN (s \o t) = 1 .. m + n
      /\ \A i \in 1 .. m + n : (s \o t)[i] = IF i <= m THEN s[i] ELSE t[i - m]
  BY <1>1
<1>3. {i \in DOMAIN (s \o t) : (s \o t)[i] = x} = A \cup M
  BY <1>1, <1>2
<1>4. A \cap M = {}
  BY <1>1
<1>5. IsFiniteSet(A) /\ IsFiniteSet(B)
  BY OccType
<1>6. f \in Bijection(B, M)
  <2>1. f \in [B -> M]
    BY <1>1
  <2>2. \A a, b \in B : f[a] = f[b] => a = b
    BY <1>1
  <2>3. ASSUME NEW i \in M PROVE \E b \in B : f[b] = i
    <3>1. i - m \in B /\ f[i - m] = i
      BY <1>1
    <3> QED BY <3>1
  <2> QED BY <2>1, <2>2, <2>3 DEF Bijection, Injection, Surjection, IsInjective
<1>7. IsFiniteSet(M) /\ Cardinality(M) = Cardinality(B)
  BY <1>5, <1>6, FS_Bijection DEF ExistsBijection
<1>8. Cardinality(A \cup M) = Cardinality(A) + Cardinality(M) - Cardinality(A \cap M)
  BY <1>5, <1>7, FS_Union
<1>9. Cardinality(A \cap M) = 0
  BY <1>4, FS_EmptySet
<1>10. Cardinality(A) \in Nat /\ Cardinality(B) \in Nat
  BY <1>5, FS_CardinalityType
<1>11. Occ(s, x) = Cardinality(A) /\ Occ(t, x) = Cardinality(B)
       /\ Occ(s \o t, x) = Cardinality(A \cup M)
  BY <1>3 DEF Occ
<1> HIDE DEF A, B, M
<1> QED BY <1>7, <1>8, <1>9, <1>10, <1>11

LEMMA OccAppend ==
  ASSUME NEW V, NEW s \in Seq(V), NEW e \in V, NEW x
  PROVE  Occ(Append(s, e), x) = IF e = x THEN Occ(s, x) + 1 ELSE Occ(s, x)
<1> DEFINE m == Len(s)
           A == {i \in DOMAIN s : s[i] = x}
           U == {i \in DOMAIN Append(s, e) : Append(s, e)[i] = x}
<1>1. m \in Nat /\ DOMAIN s = 1 .. m /\ DOMAIN Append(s, e) = 1 .. m + 1
  OBVIOUS
<1>2. \A i \in 1 .. m + 1 : Append(s, e)[i] = IF i = m + 1 THEN e ELSE s[i]
  BY <1>1
<1>3. IsFiniteSet(A) /\ m + 1 \notin A
  <2>1. IsFiniteSet(A)
    BY OccType
  <2> QED BY <2>1, <1>1
<1>4. U = IF e = x THEN A \cup {m + 1} ELSE A
  BY <1>1, <1>2
<1>5. Cardinality(A \cup {m + 1}) = Cardinality(A) + 1
  BY <1>3, FS_AddElement
<1> QED BY <1>4, <1>5 DEF Occ
-----------------------------------------------------------------------------
Elements == UNION {ToSet(a) : a \in Arrays}
Vectors  == Seq(Elements)
Parts    == [lhs : Vectors, rhs : Vectors]

(* A turn of the loop that deals out *)
DealTurn(a, r, k, p) ==
  IF bit_at(r, k - 1) THEN [p EXCEPT !.lhs = Append(@, a[k])]
                      ELSE [p EXCEPT !.rhs = Append(@, a[k])]

LEMMA DealTurnType ==
  ASSUME NEW a \in Vectors, NEW r, NEW k \in 1 .. Len(a), NEW p \in Parts
  PROVE  DealTurn(a, r, k, p) \in Parts
<1>1. a[k] \in Elements /\ p.lhs \in Vectors /\ p.rhs \in Vectors
  BY DEF Vectors, Parts
<1>2. Append(p.lhs, a[k]) \in Vectors /\ Append(p.rhs, a[k]) \in Vectors
  BY <1>1 DEF Vectors
<1> QED BY <1>1, <1>2 DEF DealTurn, Parts

LEMMA DealsTurns ==
  ASSUME NEW a \in Vectors, NEW r
  PROVE  /\ Deals(a, r)[0] = [lhs |-> <<>>, rhs |-> <<>>]
         /\ \A k \in 1 .. Len(a) : Deals(a, r)[k] = DealTurn(a, r, k, Deals(a, r)[k - 1])
<1> DEFINE n == Len(a)
           base == [lhs |-> <<>>, rhs |-> <<>>]
           turn == [kp \in (1 .. n) \X Parts |-> DealTurn(a, r, kp[1], kp[2])]
<1>1. n \in Nat
  BY DEF Vectors
<1>2. base \in Parts
  BY DEF Parts, Vectors
<1>3. turn \in [(1 .. n) \X Parts -> Parts]
  BY DealTurnType
<1>4. \A k \in 1 .. n, p \in Parts : turn[<<k, p>>] = DealTurn(a, r, k, p)
  OBVIOUS
<1> HIDE DEF n, base, turn
<1>5. PICK f \in [0 .. n -> Parts] : Loop(f, n, base, turn)
  BY <1>1, <1>2, <1>3, LoopExists
<1>6. \A k \in 1 .. n : f[k] = DealTurn(a, r, k, f[k - 1])
  <2>1. \A k \in 1 .. n : k - 1 \in 0 .. n
    BY <1>1
  <2> QED BY <1>4, <1>5, <2>1 DEF Loop
<1>7. f = [k \in 0 .. n |-> IF k = 0 THEN base ELSE DealTurn(a, r, k, f[k - 1])]
  BY <1>5, <1>6 DEF Loop
<1> DEFINE D == Deals(a, r)
<1>8. D = [k \in 0 .. n |-> IF k = 0 THEN base ELSE DealTurn(a, r, k, D[k - 1])]
  BY <1>7 DEF Deals, DealTurn, n, base
<1> HIDE DEF D
<1>9. D[0] = base /\ \A k \in 1 .. n : D[k] = DealTurn(a, r, k, D[k - 1])
  BY <1>1, <1>8
<1> QED BY <1>9 DEF D, n, base

(* Dealing out copies each element once, to one of the parts.               *)
LEMMA DealtConserves ==
  ASSUME NEW a \in Vectors, NEW r
  PROVE  /\ Dealt(a, r) \in Parts
         /\ \A x \in Elements :
              Occ(Dealt(a, r).lhs, x) + Occ(Dealt(a, r).rhs, x) = Occ(a, x)
<1> DEFINE D == Deals(a, r)
           n == Len(a)
           Ok(p, b) == /\ p \in Parts
                       /\ \A x \in Elements : Occ(p.lhs, x) + Occ(p.rhs, x) = Occ(b, x)
           S == {k \in 0 .. n : Ok(D[k], SubSeq(a, 1, k))}
<1>1. n \in Nat
  BY DEF Vectors
<1>2. Ok([lhs |-> <<>>, rhs |-> <<>>], <<>>)
  <2>1. <<>> \in Seq(Elements) /\ DOMAIN <<>> = {}
    OBVIOUS
  <2>2. \A x \in Elements : Occ(<<>>, x) = 0
    BY <2>1, OccType
  <2> QED BY <2>1, <2>2 DEF Parts, Vectors
<1>3. ASSUME NEW p, NEW b \in Vectors, Ok(p, b), NEW k \in 1 .. n
      PROVE  Ok(DealTurn(a, r, k, p), Append(b, a[k]))
  <2> DEFINE q == DealTurn(a, r, k, p)
  <2>1. p \in Parts /\ p.lhs \in Vectors /\ p.rhs \in Vectors /\ a[k] \in Elements
    BY <1>3 DEF Parts, Vectors
  <2>2. q \in Parts
    BY <2>1, DealTurnType
  <2>3. ASSUME NEW x \in Elements
        PROVE  Occ(q.lhs, x) + Occ(q.rhs, x) = Occ(Append(b, a[k]), x)
    <3> DEFINE one == IF a[k] = x THEN 1 ELSE 0
    <3>1. \A c \in Vectors : Occ(c, x) \in Nat
      BY OccType DEF Vectors
    <3>2. \A c \in Vectors : Occ(Append(c, a[k]), x) = Occ(c, x) + one
      BY <2>1, <3>1, OccAppend, SMTT(30) DEF Vectors
    <3>3. Occ(p.lhs, x) + Occ(p.rhs, x) = Occ(b, x)
      BY <1>3
    <3>4. one \in Nat
      OBVIOUS
    <3>5. CASE bit_at(r, k - 1)
      <4>1. q.lhs = Append(p.lhs, a[k]) /\ q.rhs = p.rhs
        BY <2>1, <3>5 DEF DealTurn, Parts
      <4> HIDE DEF one, q
      <4> QED BY <2>1, <3>1, <3>2, <3>3, <3>4, <4>1
    <3>6. CASE ~bit_at(r, k - 1)
      <4>1. q.rhs = Append(p.rhs, a[k]) /\ q.lhs = p.lhs
        BY <2>1, <3>6 DEF DealTurn, Parts
      <4> HIDE DEF one, q
      <4> QED BY <2>1, <3>1, <3>2, <3>3, <3>4, <4>1
    <3> QED BY <3>5, <3>6
  <2> QED BY <2>2, <2>3
<1>4. D[0] = [lhs |-> <<>>, rhs |-> <<>>]
      /\ \A k \in 1 .. n : D[k] = DealTurn(a, r, k, D[k - 1])
  BY DealsTurns
<1> HIDE DEF Ok, D
<1>5. 0 \in S
  <2>1. SubSeq(a, 1, 0) = <<>>
    BY DEF Vectors
  <2>2. Ok(D[0], SubSeq(a, 1, 0))
    BY <1>2, <1>4, <2>1
  <2>3. 0 \in 0 .. n
    BY <1>1
  <2> QED BY <2>2, <2>3
<1>6. ASSUME NEW k \in 0 .. n, k # n, k \in S PROVE k + 1 \in S
  <2>1. k + 1 \in 1 .. n /\ k + 1 \in 0 .. n /\ k + 1 - 1 = k
    BY <1>1, <1>6
  <2>2. SubSeq(a, 1, k + 1) = Append(SubSeq(a, 1, k), a[k + 1]) /\ SubSeq(a, 1, k) \in Vectors
    BY <2>1 DEF Vectors
  <2>3. D[k + 1] = DealTurn(a, r, k + 1, D[k])
    BY <1>4, <2>1
  <2>4. Ok(D[k], SubSeq(a, 1, k))
    BY <1>6
  <2>5. Ok(D[k + 1], SubSeq(a, 1, k + 1))
    BY <1>3, <2>1, <2>2, <2>3, <2>4
  <2> QED BY <2>1, <2>5
<1> HIDE DEF S, n
<1>7. n \in S
  <2>1. \A k \in 0 .. n : k \in S
    BY <1>1, <1>5, <1>6, AllUpTo
  <2> QED BY <2>1, <1>1
<1>8. SubSeq(a, 1, n) = a
  BY <1>1 DEF Vectors, n
<1>9. Ok(Dealt(a, r), a)
  BY <1>7, <1>8 DEF S, Dealt, n, D
<1> QED BY <1>9 DEF Ok
-----------------------------------------------------------------------------
Frames ==
  [inplace : Vectors, lhs : Vectors, rhs : Vectors,
   pc : {"enter", "split", "lhs", "rhs", "copy"}]

TypeInv == array \in Vectors /\ stack \in Seq(Frames) /\ good \in BOOLEAN

Same(s, t) == \A x \in Elements : Occ(s, x) = Occ(t, x)

(* The parts of a call hold what its vector held.                           *)
Kept(f) == f.pc \in {"lhs", "rhs", "copy"} => Same(f.lhs \o f.rhs, f.inplace)

(* A call works on all of the part its caller waits for.                    *)
Serves(f, up) ==
  /\ up.pc \in {"rhs", "copy"}
  /\ f.inplace = IF up.pc = "rhs" THEN up.lhs ELSE up.rhs

(* Conserved, by occurrences                                                *)
StackOk(st, arr) ==
  \A k \in 1 .. Len(st) :
    /\ Kept(st[k])
    /\ k = 1 => Same(st[k].inplace, arr)
    /\ k > 1 => Serves(st[k], st[k - 1])

(* The bits of a split are those the rng was asked for.                     *)
BitsDrawn == At("split") /\ good => rs \in Drawn(N)

IInv == TypeInv /\ StackOk(stack, array) /\ BitsDrawn

LEMMA FrameTypes ==
  ASSUME NEW f \in Frames
  PROVE  /\ f.inplace \in Vectors /\ f.lhs \in Vectors /\ f.rhs \in Vectors
         /\ f.lhs \o f.rhs \in Vectors
BY DEF Frames, Vectors

LEMMA FrontOf ==
  ASSUME NEW S, NEW s \in Seq(S), s # <<>>
  PROVE  /\ Front(s) \in Seq(S) /\ Len(Front(s)) = Len(s) - 1
         /\ \A k \in 1 .. Len(s) - 1 : Front(s)[k] = s[k]
         /\ Len(s) \in Nat \ {0} /\ Last(s) \in S /\ Last(s) = s[Len(s)]
<1>1. Len(s) \in Nat \ {0}
  OBVIOUS
<1> DEFINE m == Len(s) - 1
<1>2. SubSeq(s, 1, m) \in Seq(S) /\ Len(SubSeq(s, 1, m)) = m
      /\ \A k \in 1 .. m : SubSeq(s, 1, m)[k] = s[k]
  <2>1. m \in Nat /\ \A k \in 1 .. m : s[k] \in S
    BY <1>1
  <2> HIDE DEF m
  <2>2. /\ SubSeq(s, 1, m) \in Seq(S)
        /\ Len(SubSeq(s, 1, m)) = IF 1 <= m THEN m - 1 + 1 ELSE 0
        /\ \A k \in 1 .. m - 1 + 1 : SubSeq(s, 1, m)[k] = s[1 + k - 1]
    BY <2>1, SubSeqProperties
  <2>3. Len(SubSeq(s, 1, m)) = m
    BY <2>1, <2>2
  <2>4. ASSUME NEW k \in 1 .. m PROVE SubSeq(s, 1, m)[k] = s[k]
    <3>1. k \in 1 .. m - 1 + 1 /\ 1 + k - 1 = k
      BY <2>1
    <3> QED BY <2>2, <3>1
  <2> QED BY <2>2, <2>3, <2>4
<1>3. s[Len(s)] \in S
  BY <1>1
<1> QED BY <1>1, <1>2, <1>3 DEF Front, Last

(* A sequence whose last element is another one                             *)
LEMMA LastReplaced ==
  ASSUME NEW S, NEW s \in Seq(S), s # <<>>, NEW f \in S
  PROVE  LET st == Append(Front(s), f)
         IN  /\ st \in Seq(S) /\ Len(st) = Len(s) /\ st[Len(s)] = f
             /\ \A k \in 1 .. Len(s) - 1 : st[k] = s[k]
<1> DEFINE c == Front(s)
<1>1. c \in Seq(S) /\ Len(c) = Len(s) - 1 /\ Len(s) \in Nat \ {0}
      /\ \A k \in 1 .. Len(s) - 1 : c[k] = s[k]
  BY FrontOf
<1> HIDE DEF c
<1>2. /\ Append(c, f) \in Seq(S) /\ Len(Append(c, f)) = Len(s) /\ Append(c, f)[Len(s)] = f
      /\ \A k \in 1 .. Len(s) - 1 : Append(c, f)[k] = s[k]
  BY <1>1
<1> QED BY <1>2 DEF c

LEMMA ConservedIsStackOk == ASSUME TypeInv PROVE Conserved <=> StackOk(stack, array)
<1>1. ASSUME NEW s \in Vectors, NEW t \in Vectors
      PROVE  ToBag(s) = ToBag(t) <=> Same(s, t)
  BY SameBag DEF Vectors, Same
<1>2. ASSUME NEW k \in 1 .. Len(stack)
      PROVE  /\ stack[k] \in Frames
             /\ ToBag(stack[k].lhs \o stack[k].rhs) = ToBag(stack[k].inplace)
                  <=> Same(stack[k].lhs \o stack[k].rhs, stack[k].inplace)
             /\ ToBag(stack[k].inplace) = ToBag(array) <=> Same(stack[k].inplace, array)
  <2>1. stack[k] \in Frames
    BY DEF TypeInv
  <2> QED BY <2>1, <1>1, FrameTypes DEF TypeInv
<1> QED BY <1>2 DEF Conserved, StackOk, Kept, Serves

LEMMA EnteredOk ==
  ASSUME NEW a \in Vectors
  PROVE  Entered(a) \in Frames /\ Kept(Entered(a)) /\ Entered(a).inplace = a
         /\ Entered(a).pc = "enter"
<1>1. <<>> \in Vectors
  BY DEF Vectors
<1> QED BY <1>1 DEF Entered, Frames, Kept

(* The innermost call goes on with the same vector.                         *)
LEMMA ReplaceTop ==
  ASSUME TypeInv, StackOk(stack, array), Running,
         NEW f \in Frames, Kept(f), f.inplace = Top.inplace
  PROVE  LET st == Append(Front(stack), f)
         IN  /\ st \in Seq(Frames) /\ StackOk(st, array)
             /\ Len(st) = Len(stack) /\ st[Len(stack)] = f
<1> DEFINE st == Append(Front(stack), f)
           n == Len(stack)
<1>1. n \in Nat /\ n > 0 /\ stack \in Seq(Frames)
  BY DEF TypeInv, Running
<1>2. st \in Seq(Frames) /\ Len(st) = n /\ st[n] = f
      /\ \A k \in 1 .. n - 1 : st[k] = stack[k]
  BY <1>1, LastReplaced DEF Running
<1>3. Top = stack[n]
  BY DEF Top, Last
<1>4. ASSUME NEW k \in 1 .. n
      PROVE  /\ Kept(st[k])
             /\ k = 1 => Same(st[k].inplace, array)
             /\ k > 1 => Serves(st[k], st[k - 1])
  <2>1. k \in 1 .. Len(stack) /\ (k > 1 => k - 1 \in 1 .. n - 1)
    BY <1>1
  <2>2. st[k].inplace = stack[k].inplace /\ Kept(st[k])
    BY <1>2, <1>3, <2>1 DEF StackOk
  <2>3. k > 1 => st[k - 1] = stack[k - 1]
    BY <1>2, <2>1
  <2> QED BY <2>1, <2>2, <2>3 DEF StackOk, Serves
<1> QED BY <1>2, <1>4 DEF StackOk

(* The innermost call returns a rearrangement of its vector.                *)
LEMMA ReturnOk ==
  ASSUME TypeInv, StackOk(stack, array), Running,
         NEW a \in Vectors, Same(a, Top.inplace), Return(a)
  PROVE  /\ array' \in Vectors /\ stack' \in Seq(Frames) /\ StackOk(stack', array')
         /\ Same(array', array)
         /\ stack' # <<>> => stack'[Len(stack')].pc \in {"rhs", "copy"}
<1> DEFINE n == Len(stack)
           callers == Front(stack)
<1>1. n \in Nat /\ n > 0 /\ stack \in Seq(Frames) /\ Top = stack[n]
  BY DEF TypeInv, Running, Top, Last
<1>2. callers \in Seq(Frames) /\ Len(callers) = n - 1
      /\ \A k \in 1 .. n - 1 : callers[k] = stack[k]
  BY <1>1, FrontOf DEF Running
<1>3. CASE n = 1
  <2>1. callers = <<>>
    BY <1>2, <1>3
  <2>2. array' = a /\ stack' = <<>>
    BY <2>1 DEF Return
  <2>3. Same(Top.inplace, array)
    BY <1>1, <1>3 DEF StackOk
  <2>4. Same(a, array)
    BY <2>3 DEF Same
  <2> QED BY <2>2, <2>4 DEF StackOk
<1>4. CASE n > 1
  <2> DEFINE up == stack[n - 1]
             f == Store(up, a)
             st == Append(Front(callers), f)
  <2>1. callers # <<>>
    BY <1>2, <1>4
  <2>2. Last(callers) = up
    BY <1>1, <1>2, <1>4 DEF Last
  <2>3. array' = array /\ stack' = st
    BY <2>1, <2>2 DEF Return
  <2>4. up \in Frames /\ Serves(Top, up) /\ Kept(up)
    BY <1>1, <1>4 DEF StackOk
  <2>5. f \in Frames /\ f.inplace = up.inplace /\ f.pc = up.pc
    BY <2>4 DEF Store, Frames
  <2>6. Kept(f)
    <3>1. \A s, t \in Vectors : \A x \in Elements : Occ(s \o t, x) = Occ(s, x) + Occ(t, x)
      BY OccConcat DEF Vectors
    <3>2. up.lhs \in Vectors /\ up.rhs \in Vectors /\ up.pc \in {"rhs", "copy"}
      BY <2>4, FrameTypes DEF Serves
    <3>3. CASE up.pc = "rhs"
      <4>1. f.lhs = a /\ f.rhs = up.rhs /\ Same(a, up.lhs)
        BY <2>4, <3>3 DEF Store, Serves, Frames
      <4>2. Same(f.lhs \o f.rhs, up.lhs \o up.rhs)
        BY <3>1, <3>2, <4>1 DEF Same
      <4> QED BY <2>4, <2>5, <3>2, <4>2 DEF Kept, Same
    <3>4. CASE up.pc = "copy"
      <4>1. f.rhs = a /\ f.lhs = up.lhs /\ Same(a, up.rhs)
        BY <2>4, <3>4 DEF Store, Serves, Frames
      <4>2. Same(f.lhs \o f.rhs, up.lhs \o up.rhs)
        BY <3>1, <3>2, <4>1 DEF Same
      <4> QED BY <2>4, <2>5, <3>2, <4>2 DEF Kept, Same
    <3> QED BY <3>2, <3>3, <3>4
  <2> HIDE DEF f
  <2>7. st \in Seq(Frames) /\ Len(st) = n - 1 /\ st[n - 1] = f
        /\ \A k \in 1 .. n - 2 : st[k] = stack[k]
    <3>1. callers \in Seq(Frames) /\ callers # <<>> /\ Len(callers) = n - 1
      BY <1>2, <2>1
    <3> HIDE DEF callers, st
    <3>2. Append(Front(callers), f) \in Seq(Frames)
          /\ Len(Append(Front(callers), f)) = n - 1
          /\ Append(Front(callers), f)[n - 1] = f
          /\ \A k \in 1 .. n - 2 : Append(Front(callers), f)[k] = callers[k]
      BY <3>1, <2>5, <1>1, LastReplaced
    <3>3. \A k \in 1 .. n - 2 : callers[k] = stack[k]
      BY <1>1, <1>2
    <3> QED BY <3>2, <3>3 DEF st
  <2>8. ASSUME NEW k \in 1 .. n - 1
        PROVE  /\ Kept(st[k])
               /\ k = 1 => Same(st[k].inplace, array)
               /\ k > 1 => Serves(st[k], st[k - 1])
    <3>1. k \in 1 .. Len(stack) /\ (k > 1 => k - 1 \in 1 .. n - 2)
      BY <1>1
    <3>2. st[k].inplace = stack[k].inplace /\ Kept(st[k])
      BY <2>5, <2>6, <2>7, <3>1 DEF StackOk
    <3>3. k > 1 => st[k - 1] = stack[k - 1]
      BY <2>7, <3>1
    <3> QED BY <3>1, <3>2, <3>3 DEF StackOk, Serves
  <2>9. StackOk(st, array)
    BY <2>7, <2>8 DEF StackOk
  <2>10. f.pc \in {"rhs", "copy"}
    BY <2>4, <2>5 DEF Serves
  <2> HIDE DEF st
  <2>11. stack'[Len(stack')].pc \in {"rhs", "copy"}
    BY <2>3, <2>7, <2>10
  <2>12. StackOk(stack', array')
    BY <2>3, <2>9
  <2>13. array' \in Vectors /\ Same(array', array)
    BY <2>3 DEF TypeInv, Same
  <2>14. stack' \in Seq(Frames)
    BY <2>3, <2>7
  <2> QED BY <2>11, <2>12, <2>13, <2>14
<1> HIDE DEF n, callers
<1>5. n = 1 \/ n > 1
  BY <1>1
<1> QED BY <1>3, <1>4, <1>5

LEMMA TopOf ==
  ASSUME TypeInv, Running
  PROVE  /\ Len(stack) \in Nat \ {0} /\ Top = stack[Len(stack)] /\ Top \in Frames
         /\ Top.inplace \in Vectors /\ Top.lhs \in Vectors /\ Top.rhs \in Vectors
<1>1. stack \in Seq(Frames) /\ stack # <<>>
  BY DEF TypeInv, Running
<1>2. Len(stack) \in Nat \ {0} /\ Top = stack[Len(stack)] /\ Top \in Frames
  BY <1>1 DEF Top, Last
<1> QED BY <1>2, FrameTypes

LEMMA NoSplit ==
  ASSUME stack' # <<>> => stack'[Len(stack')].pc # "split"
  PROVE  BitsDrawn'
BY DEF BitsDrawn, At, Running, Top, Last

(* Both orders of two elements hold the same.                               *)
LEMMA PairSwapped ==
  ASSUME NEW a \in Vectors, Len(a) = 2
  PROVE  <<a[2], a[1]>> \in Vectors /\ Same(<<a[2], a[1]>>, a)
<1> DEFINE x == a[1]
           y == a[2]
           swapped == <<y, x>>
           empty == <<>>
<1>1. x \in Elements /\ y \in Elements
  BY DEF Vectors
<1>2. swapped \in Vectors /\ empty \in Vectors
  BY <1>1 DEF Vectors
<1>3. a = Append(Append(empty, x), y) /\ swapped = Append(Append(empty, y), x)
  BY DEF Vectors
<1> HIDE DEF x, y, swapped, empty
<1>4. ASSUME NEW e, NEW u \in Elements, NEW v \in Elements
      PROVE  Occ(Append(Append(empty, u), v), e)
             = (IF v = e THEN 1 ELSE 0) + (IF u = e THEN 1 ELSE 0) + Occ(empty, e)
  <2> DEFINE s == Append(empty, u)
  <2>1. empty \in Seq(Elements) /\ s \in Seq(Elements)
    BY <1>2 DEF Vectors
  <2>2. Occ(empty, e) \in Nat
    BY <2>1, OccType
  <2>3. Occ(s, e) = IF u = e THEN Occ(empty, e) + 1 ELSE Occ(empty, e)
    BY <2>1, OccAppend
  <2> HIDE DEF s
  <2>4. Occ(Append(s, v), e) = IF v = e THEN Occ(s, e) + 1 ELSE Occ(s, e)
    BY <2>1, OccAppend
  <2> QED BY <2>2, <2>3, <2>4 DEF s
<1>5. ASSUME NEW e \in Elements PROVE Occ(swapped, e) = Occ(a, e)
  <2>1. Occ(empty, e) \in Nat
    BY <1>2, OccType DEF Vectors
  <2>2. Occ(a, e) = (IF y = e THEN 1 ELSE 0) + (IF x = e THEN 1 ELSE 0) + Occ(empty, e)
    BY <1>1, <1>3, <1>4
  <2>3. Occ(swapped, e) = (IF x = e THEN 1 ELSE 0) + (IF y = e THEN 1 ELSE 0) + Occ(empty, e)
    BY <1>1, <1>3, <1>4
  <2> QED BY <2>1, <2>2, <2>3
<1>6. Same(swapped, a)
  BY <1>5 DEF Same
<1> QED BY <1>2, <1>6 DEF x, y, swapped

(* The innermost call calls itself on a part it holds.                      *)
LEMMA RecurseOk ==
  ASSUME TypeInv, StackOk(stack, array), Running,
         NEW part \in Vectors, NEW pc \in {"rhs", "copy"},
         Top.pc \in {"lhs", "rhs"}, part = IF pc = "rhs" THEN Top.lhs ELSE Top.rhs,
         Recurse(part, pc)
  PROVE  /\ stack' \in Seq(Frames) /\ StackOk(stack', array)
         /\ stack' # <<>> => stack'[Len(stack')].pc # "split"
<1> DEFINE f == [Top EXCEPT !.pc = pc]
           st == Append(Front(stack), f)
           n == Len(stack)
           e == Entered(part)
<1>1. n \in Nat \ {0} /\ Top = stack[n] /\ Top \in Frames
  BY TopOf
<1>2. f \in Frames /\ f.inplace = Top.inplace /\ f.pc = pc
      /\ f.lhs = Top.lhs /\ f.rhs = Top.rhs
  BY <1>1 DEF Frames
<1>3. Kept(Top)
  BY <1>1 DEF StackOk
<1>4. Kept(f)
  BY <1>2, <1>3 DEF Kept
<1> HIDE DEF f
<1>5. st \in Seq(Frames) /\ StackOk(st, array) /\ Len(st) = n /\ st[n] = f
  BY <1>2, <1>4, ReplaceTop
<1>6. e \in Frames /\ Kept(e) /\ e.inplace = part /\ e.pc = "enter"
  BY EnteredOk
<1>7. stack' = st \o (IF Len(part) > 0 THEN <<e>> ELSE <<>>)
  BY DEF Recurse, f
<1> HIDE DEF st, e, n
<1>8. CASE ~(Len(part) > 0)
  <2>1. stack' = st
    BY <1>5, <1>7, <1>8
  <2> QED BY <2>1, <1>1, <1>2, <1>5
<1>9. CASE Len(part) > 0
  <2>1. stack' = Append(st, e)
    BY <1>5, <1>7, <1>9
  <2>2. /\ Append(st, e) \in Seq(Frames) /\ Len(Append(st, e)) = n + 1
        /\ Append(st, e)[n + 1] = e /\ \A k \in 1 .. n : Append(st, e)[k] = st[k]
    BY <1>1, <1>5, <1>6
  <2>3. Serves(e, f)
    BY <1>2, <1>6 DEF Serves
  <2> DEFINE u == Append(st, e)
  <2>4. ASSUME NEW k \in 1 .. n + 1
        PROVE  /\ Kept(u[k])
               /\ k = 1 => Same(u[k].inplace, array)
               /\ k > 1 => Serves(u[k], u[k - 1])
    <3>1. CASE k = n + 1
      <4>1. k > 1 /\ k - 1 \in 1 .. n /\ k - 1 = n
        BY <1>1, <3>1
      <4>2. u[k] = e /\ u[k - 1] = f
        BY <2>2, <3>1, <4>1, <1>5
      <4> HIDE DEF u
      <4> QED BY <1>6, <2>3, <4>1, <4>2
    <3>2. CASE k # n + 1
      <4>1. k \in 1 .. n /\ k \in 1 .. Len(st) /\ (k > 1 => k - 1 \in 1 .. n)
        BY <1>1, <1>5, <3>2
      <4>2. u[k] = st[k] /\ (k > 1 => u[k - 1] = st[k - 1])
        BY <2>2, <4>1
      <4>3. /\ Kept(st[k])
            /\ k = 1 => Same(st[k].inplace, array)
            /\ k > 1 => Serves(st[k], st[k - 1])
        BY <1>5, <4>1 DEF StackOk
      <4> HIDE DEF u
      <4> QED BY <4>2, <4>3
    <3> QED BY <3>1, <3>2
  <2>5. StackOk(u, array)
    BY <2>2, <2>4 DEF StackOk
  <2>6. u[Len(u)].pc # "split"
    BY <2>2, <1>6
  <2> HIDE DEF u
  <2> QED BY <2>1, <2>2, <2>5, <2>6 DEF u
<1> QED BY <1>8, <1>9
-----------------------------------------------------------------------------
(* What a step leaves                                                       *)
StepOk ==
  /\ array' \in Vectors /\ stack' \in Seq(Frames) /\ good' \in BOOLEAN
  /\ StackOk(stack', array') /\ Same(array', array) /\ BitsDrawn'

LEMMA ReturnsOk ==
  ASSUME IInv, Running, good' \in BOOLEAN,
         NEW a \in Vectors, Same(a, Top.inplace), Return(a)
  PROVE  StepOk
<1>1. TypeInv /\ StackOk(stack, array)
  BY DEF IInv
<1>2. /\ array' \in Vectors /\ stack' \in Seq(Frames) /\ StackOk(stack', array')
      /\ Same(array', array)
      /\ stack' # <<>> => stack'[Len(stack')].pc \in {"rhs", "copy"}
  BY <1>1, ReturnOk
<1>3. BitsDrawn'
  BY <1>2, NoSplit
<1> QED BY <1>2, <1>3 DEF StepOk

LEMMA DrawOk ==
  ASSUME IInv, Asks, NEW r, Draw(r), good' \in BOOLEAN,
         good' => r \in Drawn(N)
  PROVE  StepOk
<1> DEFINE f == [Top EXCEPT !.pc = "split"]
           st == Append(Front(stack), f)
           n == Len(stack)
<1>1. TypeInv /\ StackOk(stack, array) /\ Running
  BY DEF IInv, Asks, At
<1>2. f \in Frames /\ Kept(f) /\ f.inplace = Top.inplace /\ f.pc = "split"
  BY <1>1, TopOf DEF Frames, Kept
<1> HIDE DEF f
<1>3. st \in Seq(Frames) /\ StackOk(st, array) /\ Len(st) = n /\ st[n] = f
  BY <1>1, <1>2, ReplaceTop
<1>4. stack' = st /\ rs' = r /\ array' = array
  BY DEF Draw, f
<1> HIDE DEF st, n
<1>5. Last(stack').inplace = Top.inplace
  BY <1>2, <1>3, <1>4 DEF Last
<1>6. BitsDrawn'
  BY <1>4, <1>5 DEF BitsDrawn, N, Top
<1>7. array' \in Vectors /\ Same(array', array)
  BY <1>1, <1>4 DEF TypeInv, Same
<1> QED BY <1>3, <1>4, <1>6, <1>7 DEF StepOk

LEMMA SplitOk == ASSUME IInv, Split PROVE StepOk
<1> DEFINE d == Dealt(Top.inplace, rs)
           f == IF Stays THEN Entered(Top.inplace)
                ELSE [Top EXCEPT !.lhs = d.lhs, !.rhs = d.rhs, !.pc = "lhs"]
           st == Append(Front(stack), f)
           n == Len(stack)
<1>1. TypeInv /\ StackOk(stack, array) /\ Running
  BY DEF IInv, Split, At
<1>2. Top \in Frames /\ Top.inplace \in Vectors /\ n \in Nat \ {0}
  BY <1>1, TopOf
<1>3. f \in Frames /\ Kept(f) /\ f.inplace = Top.inplace /\ f.pc # "split"
  <2>1. CASE Stays
    BY <1>2, <2>1, EnteredOk
  <2>2. CASE ~Stays
    <3>1. d \in Parts /\ \A x \in Elements : Occ(d.lhs, x) + Occ(d.rhs, x) = Occ(Top.inplace, x)
      BY <1>2, DealtConserves
    <3> HIDE DEF d
    <3>2. d.lhs \in Vectors /\ d.rhs \in Vectors
      BY <3>1 DEF Parts
    <3>3. \A x \in Elements : Occ(d.lhs \o d.rhs, x) = Occ(d.lhs, x) + Occ(d.rhs, x)
      BY <3>2, OccConcat DEF Vectors
    <3>4. Same(d.lhs \o d.rhs, Top.inplace)
      BY <3>1, <3>3 DEF Same
    <3>5. f \in Frames /\ f.inplace = Top.inplace /\ f.pc = "lhs"
          /\ f.lhs = d.lhs /\ f.rhs = d.rhs
      BY <1>2, <2>2, <3>2 DEF Frames
    <3> HIDE DEF f
    <3>6. Kept(f)
      BY <3>4, <3>5 DEF Kept
    <3> QED BY <3>5, <3>6
  <2> QED BY <2>1, <2>2
<1>4. stack' = st /\ array' = array /\ good' = good
  BY DEF Split
<1> HIDE DEF f
<1>5. st \in Seq(Frames) /\ StackOk(st, array) /\ Len(st) = n /\ st[n] = f
  BY <1>1, <1>3, ReplaceTop
<1> HIDE DEF st, n
<1>6. BitsDrawn'
  BY <1>3, <1>4, <1>5, NoSplit
<1>7. array' \in Vectors /\ Same(array', array) /\ good' \in BOOLEAN
  BY <1>1, <1>4 DEF TypeInv, Same
<1> QED BY <1>4, <1>5, <1>6, <1>7 DEF StepOk

LEMMA NextOk == ASSUME IInv, Next PROVE StepOk
<1>1. TypeInv /\ StackOk(stack, array) /\ good \in BOOLEAN /\ array \in Vectors
  BY DEF IInv, TypeInv
<1>2. \A a : Same(a, a)
  BY DEF Same
<1>3. CASE Call
  <2> DEFINE e == Entered(array)
  <2>1. e \in Frames /\ Kept(e) /\ e.inplace = array /\ e.pc = "enter"
    BY <1>1, EnteredOk
  <2>2. stack' = <<e>> /\ array' = array /\ good' = good
    BY <1>3 DEF Call
  <2> HIDE DEF e
  <2>3. stack' \in Seq(Frames) /\ Len(stack') = 1 /\ stack'[1] = e
    BY <2>1, <2>2
  <2>4. StackOk(stack', array')
    <3>1. \A k \in 1 .. 1 : k = 1 /\ ~(k > 1)
      OBVIOUS
    <3> QED BY <3>1, <2>1, <2>2, <2>3, <1>2 DEF StackOk
  <2>5. BitsDrawn'
    BY <2>1, <2>3, NoSplit
  <2> QED BY <1>1, <1>2, <2>2, <2>3, <2>4, <2>5 DEF StepOk
<1>4. CASE One
  <2>1. Running /\ Return(Top.inplace) /\ good' \in BOOLEAN
    BY <1>1, <1>4 DEF One, At
  <2>2. Top.inplace \in Vectors
    BY <1>1, <2>1, TopOf
  <2> QED BY <1>2, <2>1, <2>2, ReturnsOk
<1>5. CASE Two
  <2>1. Running /\ good' \in BOOLEAN /\ Len(Top.inplace) = 2
    BY <1>1, <1>5 DEF Two, At, N
  <2>2. Top.inplace \in Vectors
    BY <1>1, <2>1, TopOf
  <2>3. CASE Return(Top.inplace)
    BY <1>2, <2>1, <2>2, <2>3, ReturnsOk
  <2>4. CASE Return(<<Top.inplace[2], Top.inplace[1]>>)
    <3>1. <<Top.inplace[2], Top.inplace[1]>> \in Vectors
          /\ Same(<<Top.inplace[2], Top.inplace[1]>>, Top.inplace)
      BY <2>1, <2>2, PairSwapped
    <3> QED BY <2>1, <2>4, <3>1, ReturnsOk
  <2> QED BY <1>5, <2>3, <2>4 DEF Two
<1>6. CASE DrawBits \/ DrawPart
  <2>1. Asks /\ good' \in BOOLEAN
    BY <1>1, <1>6 DEF DrawBits, DrawPart
  <2>2. PICK r \in Drawn(N) : Draw(r)
    BY <1>6 DEF DrawBits, DrawPart
  <2> QED BY <2>1, <2>2, DrawOk
<1>7. CASE DrawNothing
  <2>1. Asks /\ Draw(Undrawn(N)) /\ good' = FALSE
    BY <1>1, <1>7 DEF DrawNothing
  <2> QED BY <2>1, DrawOk
<1>8. CASE Split
  BY <1>8, SplitOk
<1>9. CASE RecurseLhs \/ RecurseRhs
  <2>1. Running /\ array' = array /\ good' = good
    BY <1>9 DEF RecurseLhs, RecurseRhs, Recurse, At
  <2>2. Top.lhs \in Vectors /\ Top.rhs \in Vectors
    BY <1>1, <2>1, TopOf
  <2>3. /\ stack' \in Seq(Frames) /\ StackOk(stack', array)
        /\ stack' # <<>> => stack'[Len(stack')].pc # "split"
    <3>1. CASE RecurseLhs
      <4>1. Recurse(Top.lhs, "rhs") /\ Top.pc = "lhs"
        BY <3>1 DEF RecurseLhs, At
      <4> QED BY <1>1, <2>1, <2>2, <4>1, RecurseOk
    <3>2. CASE RecurseRhs
      <4>1. Recurse(Top.rhs, "copy") /\ Top.pc = "rhs"
        BY <3>2 DEF RecurseRhs, At
      <4> QED BY <1>1, <2>1, <2>2, <4>1, RecurseOk
    <3> QED BY <1>9, <3>1, <3>2
  <2>4. BitsDrawn'
    BY <2>3, NoSplit
  <2> QED BY <1>1, <1>2, <2>1, <2>3, <2>4 DEF StepOk
<1>10. CASE Copy
  <2>1. Running /\ Top.pc = "copy" /\ Return(Top.lhs \o Top.rhs) /\ good' \in BOOLEAN
    BY <1>1, <1>10 DEF Copy, At, Joined
  <2>2. Top \in Frames /\ Top = stack[Len(stack)] /\ Len(stack) \in Nat \ {0}
    BY <1>1, <2>1, TopOf
  <2>3. Kept(Top)
    BY <1>1, <2>2 DEF StackOk
  <2>4. Same(Top.lhs \o Top.rhs, Top.inplace)
    BY <2>1, <2>3 DEF Kept
  <2>5. Top.lhs \o Top.rhs \in Vectors
    BY <2>2, FrameTypes
  <2> QED BY <2>1, <2>4, <2>5, ReturnsOk
<1> QED BY <1>3, <1>4, <1>5, <1>6, <1>7, <1>8, <1>9, <1>10 DEF Next, Step

LEMMA Inductive == Spec => []IInv
<1>1. Init => IInv
  <2>1. SUFFICES ASSUME Init PROVE IInv
    OBVIOUS
  <2>2. array \in Arrays /\ stack = <<>> /\ good \in BOOLEAN
    BY <2>1 DEF Init
  <2>3. ToSet(array) \subseteq Elements /\ array \in Seq(ToSet(array))
    BY <2>2, RSAssumption DEF Elements
  <2>4. array \in Vectors
    BY <2>3 DEF Vectors
  <2>5. stack \in Seq(Frames) /\ Len(stack) = 0
    BY <2>2
  <2>6. StackOk(stack, array)
    BY <2>5 DEF StackOk
  <2> QED BY <2>2, <2>4, <2>5, <2>6 DEF IInv, TypeInv, BitsDrawn, At, Running
<1>2. IInv /\ [Next]_vars => IInv'
  <2>1. SUFFICES ASSUME IInv, [Next]_vars PROVE IInv'
    OBVIOUS
  <2>2. CASE Next
    BY <2>1, <2>2, NextOk DEF StepOk, IInv, TypeInv
  <2>3. CASE UNCHANGED vars
    BY <2>1, <2>3 DEF vars, IInv, TypeInv, BitsDrawn, At, Running, Top, N
  <2> QED BY <2>1, <2>2, <2>3
<1> QED BY <1>1, <1>2, PTL DEF Spec
-----------------------------------------------------------------------------
LEMMA TimesMonotone ==
  ASSUME NEW a \in Int, NEW b \in Int, NEW d \in Nat \ {0}, a * d < b * d
  PROVE  a < b
OBVIOUS

(* int_ceiling(n, d) groups of d hold n, and each k below n is in one.      *)
LEMMA Ceiling ==
  ASSUME NEW n \in Nat, NEW d \in Nat \ {0}
  PROVE  /\ int_ceiling(n, d) \in Nat /\ n <= int_ceiling(n, d) * d
         /\ \A k \in 0 .. n - 1 : k \div d \in 0 .. int_ceiling(n, d) - 1
<1> DEFINE q == n \div d
           r == n % d
           c == int_ceiling(n, d)
<1>1. q \in Nat /\ r \in 0 .. d - 1 /\ n = q * d + r
  BY DivMod
<1>2. c = IF r = 0 THEN q ELSE q + 1
  BY DEF int_ceiling
<1> HIDE DEF q, r, c
<1>3. (q + 1) * d = q * d + d
  BY <1>1
<1>4. c \in Nat /\ n <= c * d
  BY <1>1, <1>2, <1>3
<1>5. ASSUME NEW k \in 0 .. n - 1 PROVE k \div d \in 0 .. c - 1
  <2> DEFINE e == k \div d
  <2>1. e \in Nat /\ k % d \in 0 .. d - 1 /\ k = e * d + (k % d)
    <3>1. k \in Nat
      OBVIOUS
    <3> QED BY <3>1, DivMod
  <2> HIDE DEF e
  <2>2. e * d < c * d
    BY <1>4, <2>1
  <2>3. e < c
    BY <1>4, <2>1, <2>2, TimesMonotone
  <2> QED BY <1>4, <2>1, <2>3 DEF e
<1> QED BY <1>4, <1>5 DEF c

LEMMA DrawnOwn ==
  ASSUME NEW n \in Nat, NEW r \in Drawn(n)
  PROVE  /\ \A k \in 0 .. n - 1 : r[Place(k)[1]][Place(k)[2]] # "initial"
         /\ \A j, k \in 0 .. n - 1 : Place(j) = Place(k) => j = k
<1> DEFINE E == ElemBits
           B == num_bytes(n) * CHAR_BIT
<1>1. E \in Nat \ {0} /\ CHAR_BIT \in Nat \ {0}
  BY RSAssumption DEF ElemBits
<1>2. n <= B /\ B \in Nat
  BY <1>1, Ceiling DEF num_bytes
<1>3. ASSUME NEW k \in 0 .. n - 1
      PROVE  /\ Place(k) = <<k \div E, k % E>>
             /\ k % E \in 0 .. E - 1 /\ k = (k \div E) * E + (k % E)
             /\ k \div E \in 0 .. num_elems(n) - 1
  <2>1. k \in Nat
    OBVIOUS
  <2>2. Place(k) = <<k \div E, k % E>>
    BY DEF Place
  <2> HIDE DEF E
  <2>3. k % E \in 0 .. E - 1 /\ k = (k \div E) * E + (k % E)
    BY <1>1, <2>1, DivMod
  <2>4. k \div E \in 0 .. int_ceiling(n, E) - 1
    BY <1>1, Ceiling
  <2> QED BY <2>2, <2>3, <2>4 DEF num_elems, E
<1>4. PICK d \in [0 .. B - 1 -> {"zero", "one"}] : r = Words(n, d)
  BY DEF Drawn
<1>5. \A e \in 0 .. num_elems(n) - 1, b \in 0 .. E - 1 :
        r[e][b] = IF e * E + b \in DOMAIN d THEN d[e * E + b] ELSE "initial"
  BY <1>4 DEF Words
<1> HIDE DEF E, B
<1>6. ASSUME NEW k \in 0 .. n - 1 PROVE r[Place(k)[1]][Place(k)[2]] # "initial"
  <2>1. r[k \div E][k % E] = IF k \in DOMAIN d THEN d[k] ELSE "initial"
    BY <1>3, <1>5
  <2>2. k \in 0 .. B - 1
    BY <1>2
  <2>3. k \in DOMAIN d /\ d[k] \in {"zero", "one"}
    BY <1>4, <2>2
  <2>4. Place(k)[1] = k \div E /\ Place(k)[2] = k % E
    BY <1>3
  <2> QED BY <2>1, <2>3, <2>4
<1>7. ASSUME NEW j \in 0 .. n - 1, NEW k \in 0 .. n - 1, Place(j) = Place(k) PROVE j = k
  <2>1. j \div E = k \div E /\ j % E = k % E
    BY <1>3, <1>7
  <2>2. j = (j \div E) * E + (j % E) /\ k = (k \div E) * E + (k % E)
    BY <1>3
  <2> QED BY <2>1, <2>2
<1> QED BY <1>6, <1>7

(* Whatever the length of the vector, no element of a split is placed by a  *)
(* zero the bit vector starts with, and no two by one bit.                  *)
THEOREM OwnBits == Spec => []OwnDrawnBits
<1>1. IInv => OwnDrawnBits
  <2>1. SUFFICES ASSUME IInv, At("split"), good PROVE OwnDrawnBits
    BY DEF OwnDrawnBits
  <2>2. rs \in Drawn(N)
    BY <2>1 DEF IInv, BitsDrawn
  <2>3. Top.inplace \in Vectors
    BY <2>1, TopOf DEF IInv, At
  <2>4. N \in Nat
    BY <2>3 DEF N, Vectors
  <2> QED BY <2>2, <2>4, DrawnOwn DEF OwnDrawnBits
<1> QED BY <1>1, Inductive, PTL

(* No call loses or copies an element, at any depth and whatever the device *)
(* does.                                                                    *)
THEOREM ConservesElements == Spec => []Conserved
<1>1. IInv => Conserved
  BY ConservedIsStackOk DEF IInv
<1> QED BY <1>1, Inductive, PTL

(* The owner of the vector sees one step at a time from it to one of its    *)
(* rearrangements: shuffle_RS implements AtomicShuffle.                     *)
THEOREM OwnerSeesShuffles == Spec => Implements
<1>1. Init => AS!Init
  BY DEF Init, AS!Init
<1>2. IInv /\ [Next]_vars => [AS!Next]_array
  <2>1. SUFFICES ASSUME IInv, [Next]_vars PROVE [AS!Next]_array
    OBVIOUS
  <2>2. CASE Next
    <3>1. StepOk /\ array \in Vectors
      BY <2>1, <2>2, NextOk DEF IInv, TypeInv
    <3>2. ToBag(array') = ToBag(array)
      BY <3>1, SameBag DEF StepOk, Vectors, Same
    <3>3. \A s : AS!ToBag(s) = ToBag(s)
      BY DEF AS!ToBag, ToBag, AS!Range, Range, AS!Cardinality, Cardinality
    <3> QED BY <3>2, <3>3 DEF AS!Next
  <2>3. CASE UNCHANGED vars
    BY <2>3 DEF vars
  <2> QED BY <2>1, <2>2, <2>3
<1> QED BY <1>1, <1>2, Inductive, PTL DEF Spec, Implements, AS!Spec
-----------------------------------------------------------------------------
(* Without bits every element goes to rhs.                                  *)
LEMMA DealtUndrawn ==
  ASSUME NEW a \in Vectors
  PROVE  Dealt(a, Undrawn(Len(a))).lhs = <<>> /\ Len(Dealt(a, Undrawn(Len(a))).rhs) = Len(a)
<1> DEFINE n == Len(a)
           r == Undrawn(n)
           D == Deals(a, r)
           Left(k) == D[k] \in Parts /\ D[k].lhs = <<>> /\ Len(D[k].rhs) = k
           S == {k \in 0 .. n : Left(k)}
<1>1. n \in Nat /\ \A k \in 1 .. n : a[k] \in Elements
  BY DEF Vectors
<1>2. ASSUME NEW k \in 0 .. n - 1 PROVE ~bit_at(r, k)
  <2> DEFINE E == ElemBits
  <2>1. E \in Nat \ {0} /\ k \in Nat
    BY RSAssumption DEF ElemBits
  <2>2. Place(k) = <<k \div E, k % E>>
    BY DEF Place
  <2>3. \A e \in 0 .. num_elems(n) - 1, b \in 0 .. E - 1 : r[e][b] = "initial"
    BY DEF Undrawn, Words
  <2> HIDE DEF E, r
  <2>4. (k % E) \in 0 .. E - 1
    BY <2>1, DivMod
  <2>5. k \div E \in 0 .. int_ceiling(n, E) - 1
    BY <1>1, <2>1, Ceiling
  <2>6. k \div E \in 0 .. num_elems(n) - 1
    BY <2>5 DEF num_elems, E
  <2> QED BY <2>2, <2>3, <2>4, <2>6 DEF bit_at
<1>3. /\ D[0] = [lhs |-> <<>>, rhs |-> <<>>]
      /\ \A k \in 1 .. n : D[k] = DealTurn(a, r, k, D[k - 1])
  BY DealsTurns
<1> HIDE DEF D, r, n
<1>4. 0 \in S
  <2>1. <<>> \in Vectors /\ Len(<<>>) = 0 /\ 0 \in 0 .. n
    BY <1>1 DEF Vectors
  <2>2. D[0] \in Parts /\ D[0].lhs = <<>> /\ D[0].rhs = <<>>
    BY <1>3, <2>1 DEF Parts
  <2> QED BY <2>1, <2>2
<1>5. ASSUME NEW k \in 0 .. n, k # n, k \in S PROVE k + 1 \in S
  <2>1. k + 1 \in 1 .. n /\ (k + 1) - 1 = k /\ k \in 0 .. n - 1 /\ k + 1 \in 0 .. n
    BY <1>1, <1>5
  <2>2. D[k + 1] = [D[k] EXCEPT !.rhs = Append(@, a[k + 1])]
    BY <1>2, <1>3, <2>1 DEF DealTurn
  <2> DEFINE p == D[k]
             q == D[k + 1]
  <2>3. p \in Parts /\ p.lhs = <<>> /\ Len(p.rhs) = k /\ k \in Nat
    BY <1>1, <1>5
  <2>4. q \in Parts
    BY <1>1, <1>3, <2>1, <2>3, DealTurnType DEF n
  <2> HIDE DEF p
  <2>5. q = [p EXCEPT !.rhs = Append(@, a[k + 1])]
    BY <2>2 DEF p
  <2> HIDE DEF q
  <2>6. p.rhs \in Vectors /\ q.lhs = p.lhs /\ q.rhs = Append(p.rhs, a[k + 1])
    BY <2>3, <2>5 DEF Parts
  <2>7. Len(q.rhs) = k + 1
    BY <2>3, <2>6 DEF Vectors
  <2> QED BY <2>1, <2>3, <2>4, <2>6, <2>7 DEF q
<1> HIDE DEF S
<1>6. n \in S
  <2>1. \A k \in 0 .. n : k \in S
    BY <1>1, <1>4, <1>5, AllUpTo
  <2> QED BY <2>1, <1>1
<1> QED BY <1>6 DEF S, Dealt, n, r, D

(* The device failed, and the innermost call is on more than two elements:  *)
(* it will have them all in rhs, or has.                                    *)
EndlessFrame(f, r) ==
  \/ f.pc = "enter" /\ Len(f.inplace) > 2
  \/ f.pc = "split" /\ Len(f.inplace) > 2 /\ r = Undrawn(Len(f.inplace))
  \/ f.pc = "lhs" /\ f.lhs = <<>> /\ Len(f.rhs) > 2
  \/ f.pc = "rhs" /\ Len(f.rhs) > 2

Endless == ~good /\ Running /\ EndlessFrame(Top, rs)

LEMMA EndlessStays == ASSUME IInv, Endless, [Next]_vars PROVE Endless'
<1> DEFINE f == Top
           callers == Front(stack)
<1>1. TypeInv /\ stack \in Seq(Frames) /\ stack # <<>> /\ ~good
  BY DEF IInv, TypeInv, Endless, Running
<1>2. f \in Frames /\ f.inplace \in Vectors /\ f.lhs \in Vectors /\ f.rhs \in Vectors
      /\ EndlessFrame(f, rs)
  BY <1>1, TopOf DEF Endless
<1>3. ASSUME NEW g \in Frames, stack' = Append(callers, g), ~good', EndlessFrame(g, rs')
      PROVE  Endless'
  <2> DEFINE st == Append(callers, g)
  <2>1. st \in Seq(Frames) /\ Len(st) = Len(stack) /\ st[Len(stack)] = g /\ Len(stack) # 0
    BY <1>1, <1>3, LastReplaced
  <2> HIDE DEF st
  <2>2. stack' = st
    BY <1>3 DEF st
  <2>3. Running' /\ Top' = g
    BY <2>1, <2>2 DEF Running, Top, Last
  <2> QED BY <1>3, <2>3 DEF Endless
<1> HIDE DEF callers
<1>4. CASE UNCHANGED vars
  BY <1>4 DEF vars, Endless, Running, Top
<1>5. CASE Asks /\ ~good /\ Draw(Undrawn(N)) /\ UNCHANGED good
  <2> DEFINE g == [f EXCEPT !.pc = "split"]
  <2>1. stack' = Append(callers, g) /\ rs' = Undrawn(Len(f.inplace)) /\ ~good'
        /\ Len(f.inplace) > 2
    BY <1>1, <1>5 DEF Asks, Draw, N, callers
  <2>2. g \in Frames /\ g.pc = "split" /\ g.inplace = f.inplace
    BY <1>2 DEF Frames
  <2> HIDE DEF g
  <2> QED BY <1>3, <2>1, <2>2 DEF EndlessFrame
<1>6. CASE Split
  <2> DEFINE d == Dealt(f.inplace, rs)
  <2>1. f.pc = "split" /\ ~good'
    BY <1>1, <1>6 DEF Split, At
  <2>2. Len(f.inplace) > 2 /\ rs = Undrawn(Len(f.inplace))
    BY <1>2, <2>1 DEF EndlessFrame
  <2>3. d \in Parts /\ d.lhs = <<>> /\ Len(d.rhs) = Len(f.inplace)
    BY <1>2, <2>2, DealtConserves, DealtUndrawn
  <2>4. CASE Stays
    <3> DEFINE g == Entered(f.inplace)
    <3>1. stack' = Append(callers, g)
      BY <1>6, <2>4 DEF Split, callers
    <3>2. g \in Frames /\ g.pc = "enter" /\ g.inplace = f.inplace
      BY <1>2, EnteredOk
    <3> HIDE DEF g
    <3> QED BY <1>3, <2>1, <2>2, <3>1, <3>2 DEF EndlessFrame
  <2>5. CASE ~Stays
    <3> DEFINE g == [f EXCEPT !.lhs = d.lhs, !.rhs = d.rhs, !.pc = "lhs"]
    <3>1. stack' = Append(callers, g)
      BY <1>6, <2>5 DEF Split, callers
    <3> HIDE DEF d
    <3>2. g \in Frames /\ g.pc = "lhs" /\ g.lhs = d.lhs /\ g.rhs = d.rhs
      BY <1>2, <2>3 DEF Frames, Parts
    <3> HIDE DEF g
    <3>3. EndlessFrame(g, rs')
      BY <2>2, <2>3, <3>2 DEF EndlessFrame
    <3> QED BY <1>3, <2>1, <3>1, <3>2, <3>3
  <2> QED BY <2>4, <2>5
<1>7. CASE RecurseLhs
  <2> DEFINE g == [f EXCEPT !.pc = "rhs"]
             st == Append(callers, g)
  <2>1. f.pc = "lhs" /\ ~good' /\ f.lhs = <<>> /\ Len(f.rhs) > 2
    BY <1>1, <1>2, <1>7 DEF RecurseLhs, At, Recurse, EndlessFrame
  <2>2. g \in Frames /\ g.pc = "rhs" /\ g.rhs = f.rhs
    BY <1>2 DEF Frames
  <2>3. stack' = st \o <<>>
    BY <1>7, <2>1 DEF RecurseLhs, Recurse, callers
  <2> HIDE DEF g
  <2>4. st \in Seq(Frames)
    BY <1>1, <2>2, LastReplaced DEF callers
  <2>5. stack' = Append(callers, g)
    <3> HIDE DEF st
    <3>1. stack' = st
      BY <2>3, <2>4
    <3> QED BY <3>1 DEF st
  <2> QED BY <1>3, <2>1, <2>2, <2>5 DEF EndlessFrame
<1>8. CASE RecurseRhs
  <2> DEFINE g == [f EXCEPT !.pc = "copy"]
             st == Append(callers, g)
             e == Entered(f.rhs)
  <2>1. f.pc = "rhs" /\ ~good' /\ Len(f.rhs) > 2
    BY <1>1, <1>2, <1>8 DEF RecurseRhs, At, Recurse, EndlessFrame
  <2>2. g \in Frames
    BY <1>2 DEF Frames
  <2>3. e \in Frames /\ e.pc = "enter" /\ e.inplace = f.rhs
    BY <1>2, EnteredOk
  <2>4. stack' = st \o <<e>>
    BY <1>8, <2>1 DEF RecurseRhs, Recurse, callers
  <2> HIDE DEF g, e
  <2>5. st \in Seq(Frames)
    BY <1>1, <2>2, LastReplaced DEF callers
  <2> HIDE DEF st
  <2>6. stack' \in Seq(Frames) /\ stack' # <<>> /\ stack'[Len(stack')] = e
    BY <2>3, <2>4, <2>5
  <2>7. Running' /\ Top' = e
    BY <2>6 DEF Running, Top, Last
  <2> QED BY <2>1, <2>3, <2>7 DEF Endless, EndlessFrame
<1>9. Next => \/ Asks /\ ~good /\ Draw(Undrawn(N)) /\ UNCHANGED good
              \/ Split \/ RecurseLhs \/ RecurseRhs
  <2>1. Running /\ (At("enter") => N > 2) /\ ~At("copy")
    BY <1>2 DEF EndlessFrame, At, N, Endless
  <2>2. N \in Nat
    BY <1>2 DEF N, Vectors
  <2>3. ~Call /\ ~Copy
    BY <2>1 DEF Call, Copy
  <2>4. ~One /\ ~Two
    <3>1. At("enter") => N # 1 /\ N # 2
      BY <2>1, <2>2
    <3>2. ~One
      BY <3>1, Zenon DEF One
    <3> QED BY <3>1, <3>2, Zenon DEF Two
  <2>5. ~DrawBits /\ ~DrawPart
    BY <1>1 DEF DrawBits, DrawPart
  <2> QED BY <2>3, <2>4, <2>5 DEF Next, Step, DrawNothing
<1> QED BY <1>4, <1>5, <1>6, <1>7, <1>8, <1>9

(* Without a device a call on more than two elements never returns: its     *)
(* owner waits for ever.                                                    *)
THEOREM NeverReturns == Spec => EndlessOnceFailed
<1>1. IInv /\ Endless /\ [Next]_vars => Endless'
  BY EndlessStays
<1>2. At("enter") /\ N > 2 /\ ~good => Endless
  BY DEF Endless, EndlessFrame, At, N
<1>3. Endless => Running
  BY DEF Endless
<1> QED BY <1>1, <1>2, <1>3, Inductive, PTL DEF Spec, EndlessOnceFailed
=============================================================================
