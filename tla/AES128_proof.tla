---------------------------- MODULE AES128_proof ----------------------------
(***************************************************************************)
(* For every word algebra, every NumRounds >= 2 and every Width: the key   *)
(* schedule of the constructors is the one of FIPS-197, the three          *)
(* primitives compute their reference functions, and dec inverts enc.  For *)
(* every memory, buffer length and block function: a bulk call writes      *)
(* num_blocks blocks and nothing else, and in every layout where the       *)
(* writes do not overtake the reads each of them is right.                 *)
(***************************************************************************)
EXTENDS AES128, BulkBlocks, TLAPS

LEMMA XorBType == ASSUME NEW a \in Block, NEW b \in Block
                  PROVE  XorB(a, b) \in Block
BY XorAssumption DEF XorB, Block

LEMMA XorBComm == ASSUME NEW a \in Block, NEW b \in Block
                  PROVE  XorB(a, b) = XorB(b, a)
BY XorAssumption DEF XorB, Block

LEMMA XorWCancel == ASSUME NEW a \in Word, NEW b \in Word
                    PROVE  XorW(XorW(a, b), b) = a
BY XorAssumption

LEMMA XorBCancel == ASSUME NEW a \in Block, NEW b \in Block
                    PROVE  XorB(XorB(a, b), b) = a
<1>1. \A c \in 0..3 : XorB(XorB(a, b), b)[c] = a[c]
  BY XorWCancel DEF XorB, Block
<1>2. XorB(XorB(a, b), b) = [c \in 0..3 |-> XorB(XorB(a, b), b)[c]]
  BY DEF XorB
<1>3. a = [c \in 0..3 |-> a[c]]
  BY DEF Block
<1> QED BY <1>1, <1>2, <1>3

LEMMA ZeroBlock == /\ ZeroB \in Block
                   /\ \A a \in Block : XorB(a, ZeroB) = a
<1>1. ZeroB \in Block
  BY XorAssumption DEF ZeroB, Block
<1>2. ASSUME NEW a \in Block PROVE XorB(a, ZeroB) = a
  <2>1. \A c \in 0..3 : XorB(a, ZeroB)[c] = a[c]
    BY XorAssumption DEF XorB, ZeroB, Block
  <2> QED BY <2>1 DEF XorB, Block
<1> QED BY <1>1, <1>2

(* The three-fold shift-and-xor leaves the running exclusive or of the words
   in each lane: (1 + x)^3 = 1 + x + x^2 + x^3 over two elements. *)
LEMMA TripleShift ==
  ASSUME NEW a \in Word, NEW b \in Word
  PROVE  /\ XorW(XorW(a, b), a) = b
         /\ XorW(a, XorW(a, b)) = b
         /\ XorW(b, XorW(a, b)) = a
BY XorAssumption

LEMMA ShiftXorIsFips ==
  ASSUME NEW k \in Block, NEW rc \in Word
  PROVE  /\ ShiftXor(k, KeyGenAssist(k, rc)) \in Block
         /\ FipsNextKey(k, ShiftXor(k, KeyGenAssist(k, rc)), rc)
<1> DEFINE t    == XorW(SubWord(RotWord(k[3])), rc)
           key1 == XorB(k, Slli4(k))
           key2 == XorB(key1, Slli4(key1))
           key3 == XorB(key2, Slli4(key2))
           nk   == ShiftXor(k, KeyGenAssist(k, rc))
<1>1. k[0] \in Word /\ k[1] \in Word /\ k[2] \in Word /\ k[3] \in Word
  BY DEF Block
<1>2. t \in Word
  BY <1>1, XorAssumption, SubWordAssumption
<1>3. Shuffle3333(KeyGenAssist(k, rc)) = [c \in 0..3 |-> t]
  BY <1>1, SubWordAssumption DEF Shuffle3333, KeyGenAssist
<1>4. /\ key1[0] = k[0]
      /\ key1[1] = XorW(k[1], k[0])
      /\ key1[2] = XorW(k[2], k[1])
      /\ key1[3] = XorW(k[3], k[2])
  BY <1>1, XorAssumption DEF XorB, Slli4
<1>5. key1[0] \in Word /\ key1[1] \in Word /\ key1[2] \in Word /\ key1[3] \in Word
  BY <1>1, <1>4, XorAssumption
<1>6. /\ key2[0] = k[0]
      /\ key2[1] = k[1]
      /\ key2[2] = XorW(k[2], k[0])
      /\ key2[3] = XorW(k[3], k[1])
  <2>1. /\ key2[0] = XorW(key1[0], ZeroW)
        /\ key2[1] = XorW(key1[1], key1[0])
        /\ key2[2] = XorW(key1[2], key1[1])
        /\ key2[3] = XorW(key1[3], key1[2])
    BY DEF XorB, Slli4
  <2>2. key2[0] = k[0] /\ key2[1] = k[1]
    BY <2>1, <1>1, <1>4, XorWCancel, XorAssumption
  <2>3. XorW(XorW(k[2], k[1]), XorW(k[1], k[0])) = XorW(k[2], k[0])
    BY <1>1, TripleShift, XorAssumption
  <2>4. XorW(XorW(k[3], k[2]), XorW(k[2], k[1])) = XorW(k[3], k[1])
    BY <1>1, TripleShift, XorAssumption
  <2> QED BY <2>1, <2>2, <2>3, <2>4, <1>4
<1>7. /\ key3[0] = k[0]
      /\ key3[1] = XorW(k[1], key3[0])
      /\ key3[2] = XorW(k[2], key3[1])
      /\ key3[3] = XorW(k[3], key3[2])
  <2>1. /\ key3[0] = XorW(key2[0], ZeroW)
        /\ key3[1] = XorW(key2[1], key2[0])
        /\ key3[2] = XorW(key2[2], key2[1])
        /\ key3[3] = XorW(key2[3], key2[2])
    BY DEF XorB, Slli4
  <2>2. key3[0] = k[0] /\ key3[1] = XorW(k[1], k[0])
    BY <2>1, <1>1, <1>6, XorAssumption
  <2>3. XorW(XorW(k[2], k[0]), k[1]) = XorW(k[2], XorW(k[1], k[0]))
    BY <1>1, XorAssumption
  <2>4. XorW(XorW(k[3], k[1]), XorW(k[2], k[0])) = XorW(k[3], XorW(k[2], XorW(k[1], k[0])))
    <3>1. XorW(k[2], k[0]) \in Word /\ XorW(k[1], k[0]) \in Word
      BY <1>1, XorAssumption
    <3>2. XorW(XorW(k[3], k[1]), XorW(k[2], k[0])) = XorW(k[3], XorW(k[1], XorW(k[2], k[0])))
      BY <3>1, <1>1, XorAssumption
    <3>3. XorW(k[1], XorW(k[2], k[0])) = XorW(k[2], XorW(k[1], k[0]))
      BY <1>1, <2>3, <3>1, XorAssumption
    <3> QED BY <3>2, <3>3
  <2> QED BY <2>1, <2>2, <2>3, <2>4, <1>6
<1>8. key3[0] \in Word /\ key3[1] \in Word /\ key3[2] \in Word /\ key3[3] \in Word
  BY <1>7, <1>1, XorAssumption
<1>9. nk = [c \in 0..3 |-> XorW(key3[c], t)]
  BY <1>3 DEF ShiftXor, XorB
<1>10. nk \in Block
  <2>1. \A c \in 0..3 : key3[c] \in Word
    BY <1>8
  <2> HIDE DEF key3, t
  <2>2. \A c \in 0..3 : XorW(key3[c], t) \in Word
    BY <2>1, <1>2, XorAssumption
  <2> QED BY <1>9, <2>2 DEF Block
<1>11. \A c \in 1..3 : nk[c] = XorW(k[c], nk[c - 1])
  <2>1. ASSUME NEW c \in 1..3 PROVE nk[c] = XorW(k[c], nk[c - 1])
    <3>1. nk[c] = XorW(XorW(k[c], key3[c - 1]), t) /\ nk[c - 1] = XorW(key3[c - 1], t)
      BY <1>7, <1>9
    <3>2. k[c] \in Word /\ key3[c - 1] \in Word
      BY <1>1, <1>8
    <3> QED BY <3>1, <3>2, <1>2, XorAssumption
  <2> QED BY <2>1
<1>12. nk[0] = XorW(k[0], t)
  BY <1>7, <1>9
<1> QED BY <1>10, <1>11, <1>12 DEF FipsNextKey
-----------------------------------------------------------------------------
LEMMA RoundType ==
  ASSUME NEW a \in Block, NEW k \in Block
  PROVE  /\ AesEnc(a, k) \in Block /\ AesEncLast(a, k) \in Block
         /\ AesDec(a, k) \in Block /\ AesDecLast(a, k) \in Block
         /\ AesImc(a) \in Block
BY XorBType, RoundAssumption DEF AesEnc, AesEncLast, AesDec, AesDecLast, AesImc

LEMMA NextKeyType ==
  ASSUME NEW k \in Block, NEW n \in 0 .. NumRounds - 1
  PROVE  NextKey(k, n) \in Block /\ FipsNextKey(k, NextKey(k, n), RconArray[n])
BY ShiftXorIsFips, CipherAssumption DEF NextKey

LEMMA DecKeyType ==
  ASSUME TypeOK, kind = "AES128", NEW i \in 0 .. NumRounds
  PROVE  DecKey(expanded_keys, i) \in Block
BY CipherAssumption DEF TypeOK, Slots, DecKey

LEMMA KeyType ==
  ASSUME TypeOK, NEW i \in 0 .. NumRounds
  PROVE  expanded_keys[i] \in Block
BY CipherAssumption DEF TypeOK, Slots, Kinds

LEMMA BeginType ==
  ASSUME TypeOK, NEW x \in Lanes, NEW key \in Block, NEW phase, Begin(x, key, phase)
  PROVE  /\ in' \in Lanes /\ m' \in Lanes /\ trace' \in States
         /\ N' \in 1 .. NumRounds /\ pc' = phase
<1>1. m' \in Lanes
  BY XorBType DEF Begin, Lanes
<1> QED BY <1>1, CipherAssumption DEF Begin, States

(* The type invariant is inductive by itself. *)
THEOREM TypeCorrect == Spec => []TypeOK
<1>1. Init => TypeOK
  <2> SUFFICES ASSUME Init PROVE TypeOK
    OBVIOUS
  <2>1. ZeroLs \in Lanes
    BY ZeroBlock DEF ZeroLs, Lanes
  <2>2. expanded_keys \in [Slots(kind) -> Block]
    BY ZeroBlock, CipherAssumption DEF Init
  <2>3. last \in [valid : BOOLEAN, plain : Lanes, cipher : Lanes, states : States]
    BY <2>1 DEF Init, States
  <2> QED BY <2>1, <2>2, <2>3, CipherAssumption DEF Init, TypeOK, States
<1>2. TypeOK /\ [Next]_vars => TypeOK'
  <2> SUFFICES ASSUME TypeOK, [Next]_vars PROVE TypeOK'
    OBVIOUS
  <2>1. CASE ExpandKey
    <3>1. NextKey(expanded_keys[N], N) \in Block
      BY <2>1, NextKeyType, KeyType, CipherAssumption DEF ExpandKey, TypeOK
    <3>2. expanded_keys' \in [Slots(kind) -> Block]
      BY <2>1, <3>1 DEF ExpandKey, TypeOK
    <3> QED BY <2>1, <3>2, CipherAssumption DEF ExpandKey, TypeOK, Kinds
  <2>2. CASE ExpandImc
    <3>1. ImcFrom(N) \in 0 .. NumRounds
      BY <2>2, CipherAssumption DEF ExpandImc, TypeOK, ImcFrom
    <3>2. AesImc(expanded_keys[ImcFrom(N)]) \in Block
      BY <3>1, KeyType, RoundType
    <3>3. expanded_keys' \in [Slots(kind) -> Block]
      BY <2>2, <3>2 DEF ExpandImc, TypeOK
    <3> QED BY <2>2, <3>3, CipherAssumption DEF ExpandImc, TypeOK
  <2>3. CASE \E x \in [Lane -> Inputs] : StartEnc(x)
    <3>1. PICK x \in [Lane -> Inputs] : StartEnc(x)
      BY <2>3
    <3>2. x \in Lanes
      BY CipherAssumption DEF Lanes
    <3>3. /\ in' \in Lanes /\ m' \in Lanes /\ trace' \in States
          /\ N' \in 1 .. NumRounds /\ pc' = "enc"
      BY <3>1, <3>2, BeginType, KeyType, CipherAssumption DEF StartEnc
    <3>4. /\ feed' = x /\ out' = out /\ op' = op /\ kind' = kind
          /\ expanded_keys' = expanded_keys /\ last' = last
      BY <3>1 DEF StartEnc
    <3> QED BY <3>2, <3>3, <3>4, CipherAssumption DEF TypeOK
  <2>4. CASE EncRound
    <3>1. m' \in Lanes
      BY <2>4, RoundType, KeyType DEF EncRound, TypeOK, Lanes
    <3>2. trace' \in States
      BY <2>4, <3>1 DEF EncRound, TypeOK, States
    <3> QED BY <2>4, <3>1, <3>2, CipherAssumption DEF EncRound, TypeOK
  <2>5. CASE EncLast
    <3>1. expanded_keys[NumRounds] \in Block
      BY KeyType, CipherAssumption
    <3>2. ASSUME NEW l \in Lane
          PROVE  FeedForward(kind, AesEncLast(m[l], expanded_keys[NumRounds]), feed[l]) \in Block
      BY <3>1, RoundType, XorBType DEF FeedForward, TypeOK, Lanes
    <3>3. m' \in Lanes
      BY <2>5, <3>2 DEF EncLast, Lanes
    <3>4. last' \in [valid : BOOLEAN, plain : Lanes, cipher : Lanes, states : States]
      BY <2>5, <3>3 DEF EncLast, TypeOK
    <3> QED BY <2>5, <3>3, <3>4 DEF EncLast, TypeOK
  <2>6. CASE \E y \in [Lane -> Inputs] \cup {last.cipher} : StartDec(y)
    <3>1. PICK y \in [Lane -> Inputs] \cup {last.cipher} : StartDec(y)
      BY <2>6
    <3>2. y \in Lanes
      BY CipherAssumption DEF TypeOK, Lanes
    <3>3. DecKey(expanded_keys, 0) \in Block
      BY <3>1, DecKeyType, CipherAssumption DEF StartDec
    <3>4. /\ in' \in Lanes /\ m' \in Lanes /\ trace' \in States
          /\ N' \in 1 .. NumRounds /\ pc' = "dec"
      BY <3>1, <3>2, <3>3, BeginType DEF StartDec
    <3>5. /\ kind = "AES128" /\ feed' = feed /\ out' = out /\ op' = op
          /\ kind' = kind /\ expanded_keys' = expanded_keys /\ last' = last
      BY <3>1 DEF StartDec
    <3> QED BY <3>2, <3>4, <3>5, CipherAssumption DEF TypeOK
  <2>7. CASE DecRound
    <3>1. m' \in Lanes
      BY <2>7, RoundType, DecKeyType DEF DecRound, TypeOK, Lanes
    <3>2. trace' \in States
      BY <2>7, <3>1 DEF DecRound, TypeOK, States
    <3> QED BY <2>7, <3>1, <3>2, CipherAssumption DEF DecRound, TypeOK
  <2>8. CASE DecLast
    <3>1. m' \in Lanes
      BY <2>8, RoundType, DecKeyType, CipherAssumption DEF DecLast, TypeOK, Lanes
    <3> QED BY <2>8, <3>1 DEF DecLast, TypeOK
  <2>9. CASE UNCHANGED vars
    BY <2>9 DEF vars, TypeOK
  <2> QED BY <2>1, <2>2, <2>3, <2>4, <2>5, <2>6, <2>7, <2>8, <2>9 DEF Next
<1> QED BY <1>1, <1>2, PTL DEF Spec
-----------------------------------------------------------------------------
(* Once the constructor has returned the object is const: no call changes   *)
(* the expanded keys.                                                       *)
LEMMA CallsKeepKeys ==
  ASSUME [Next]_vars, pc \notin {"expand", "imc"}
  PROVE  expanded_keys' = expanded_keys /\ kind' = kind /\ pc' \notin {"expand", "imc"}
<1>1. CASE \E x \in [Lane -> Inputs] : StartEnc(x)
  BY <1>1 DEF StartEnc, Begin
<1>2. CASE \E y \in [Lane -> Inputs] \cup {last.cipher} : StartDec(y)
  BY <1>2 DEF StartDec, Begin
<1>3. CASE EncRound \/ EncLast \/ DecRound \/ DecLast \/ UNCHANGED vars
  BY <1>3 DEF EncRound, EncLast, DecRound, DecLast, vars
<1> QED BY <1>1, <1>2, <1>3 DEF Next, ExpandKey, ExpandImc

(* While the constructor runs only its own two steps can be taken.          *)
LEMMA ConstructorSteps ==
  ASSUME [Next]_vars, pc \in {"expand", "imc"}
  PROVE  ExpandKey \/ ExpandImc \/ UNCHANGED vars
BY DEF Next, StartEnc, StartDec, Begin, EncRound, EncLast, DecRound, DecLast

LEMMA StepNoCallYet ==
  ASSUME NoCallYet, [Next]_vars PROVE NoCallYet'
<1>1. CASE pc \in {"expand", "imc"}
  BY <1>1, ConstructorSteps DEF NoCallYet, ExpandKey, ExpandImc, vars
<1>2. CASE pc \notin {"expand", "imc"}
  BY <1>2, CallsKeepKeys DEF NoCallYet
<1> QED BY <1>1, <1>2

LEMMA StepKeysSoFar ==
  ASSUME TypeOK, KeysSoFar, [Next]_vars PROVE KeysSoFar'
<1>1. CASE ExpandKey
  <2> SUFFICES ASSUME NEW r \in 0 .. NumRounds - 1, ~(pc' = "expand" /\ N' <= r)
               PROVE  FipsNextKey(expanded_keys'[r], expanded_keys'[r + 1], RconArray[r])
    BY DEF KeysSoFar
  <2>1. r <= N
    BY <1>1, CipherAssumption DEF ExpandKey, TypeOK
  <2>2. N \in 0 .. NumRounds - 1 /\ expanded_keys[N] \in Block
    BY <1>1, KeyType, CipherAssumption DEF ExpandKey, TypeOK
  <2>3. expanded_keys'[r] = expanded_keys[r]
    BY <1>1, <2>1, <2>2, CipherAssumption DEF ExpandKey, TypeOK, Slots
  <2>4. CASE r = N
    <3>1. expanded_keys'[N + 1] = NextKey(expanded_keys[N], N)
      BY <1>1, <2>2, CipherAssumption DEF ExpandKey, TypeOK, Slots
    <3> QED BY <3>1, <2>2, <2>3, <2>4, NextKeyType
  <2>5. CASE r < N
    <3>1. expanded_keys'[r + 1] = expanded_keys[r + 1]
      BY <1>1, <2>5, <2>2, CipherAssumption DEF ExpandKey, TypeOK, Slots
    <3> QED BY <1>1, <3>1, <2>2, <2>3, <2>5 DEF KeysSoFar
  <2> QED BY <2>1, <2>2, <2>4, <2>5, CipherAssumption
<1>2. CASE ExpandImc
  <2>1. \A r \in 0 .. NumRounds : expanded_keys'[r] = expanded_keys[r]
    BY <1>2, CipherAssumption DEF ExpandImc, TypeOK, Slots, ImcSlot
  <2> QED BY <1>2, <2>1, CipherAssumption DEF ExpandImc, KeysSoFar
<1>3. CASE UNCHANGED vars
  BY <1>3 DEF vars, KeysSoFar
<1>4. CASE pc \notin {"expand", "imc"}
  BY <1>4, CallsKeepKeys DEF KeysSoFar
<1> QED BY <1>1, <1>2, <1>3, <1>4, ConstructorSteps

LEMMA StepImcSoFar ==
  ASSUME TypeOK, ImcSoFar, [Next]_vars PROVE ImcSoFar'
<1>1. CASE ExpandKey
  BY <1>1, CipherAssumption DEF ExpandKey, ImcSoFar
<1>2. CASE ExpandImc
  <2> SUFFICES ASSUME NEW n \in 0 .. NumRounds - 2, ~(pc' = "imc" /\ N' <= n)
               PROVE  expanded_keys'[ImcSlot(n)] = InvMix(expanded_keys'[ImcFrom(n)])
    BY DEF ImcSoFar
  <2>1. kind = "AES128" /\ pc = "imc" /\ N \in 0 .. NumRounds - 2 /\ n <= N
    BY <1>2, CipherAssumption DEF ExpandImc, TypeOK
  <2>2. expanded_keys'[ImcFrom(n)] = expanded_keys[ImcFrom(n)]
    BY <1>2, <2>1, CipherAssumption DEF ExpandImc, TypeOK, Slots, ImcSlot, ImcFrom
  <2>3. CASE n = N
    <3>1. expanded_keys'[ImcSlot(N)] = InvMix(expanded_keys[ImcFrom(N)])
      BY <1>2, <2>1, CipherAssumption DEF ExpandImc, TypeOK, Slots, ImcSlot, AesImc
    <3> QED BY <3>1, <2>2, <2>3
  <2>4. CASE n < N
    <3>1. expanded_keys'[ImcSlot(n)] = expanded_keys[ImcSlot(n)]
      BY <1>2, <2>1, <2>4, CipherAssumption DEF ExpandImc, TypeOK, Slots, ImcSlot
    <3> QED BY <2>1, <2>2, <2>4, <3>1 DEF ImcSoFar
  <2> QED BY <2>1, <2>3, <2>4
<1>3. CASE UNCHANGED vars
  BY <1>3 DEF vars, ImcSoFar
<1>4. CASE pc \notin {"expand", "imc"}
  BY <1>4, CallsKeepKeys DEF ImcSoFar
<1> QED BY <1>1, <1>2, <1>3, <1>4, ConstructorSteps
-----------------------------------------------------------------------------
(* What Begin leaves in the registers, lane by lane.                        *)
LEMMA BeginLanes ==
  ASSUME NEW x, NEW key, NEW phase, Begin(x, key, phase)
  PROVE  /\ in' = x /\ N' = 1 /\ pc' = phase /\ pc = "idle"
         /\ m' = trace'[0]
         /\ \A l \in Lane : trace'[0][l] = XorB(x[l], key)
BY CipherAssumption DEF Begin

LEMMA StepEncSoFar ==
  ASSUME TypeOK, EncSoFar, [Next]_vars PROVE EncSoFar'
<1>1. CASE \E x \in [Lane -> Inputs] : StartEnc(x)
  <2>1. PICK x \in [Lane -> Inputs] : StartEnc(x)
    BY <1>1
  <2>2. /\ in' = x /\ N' = 1 /\ m' = trace'[0] /\ feed' = x
        /\ expanded_keys' = expanded_keys
        /\ \A l \in Lane : trace'[0][l] = XorB(x[l], expanded_keys[0])
    BY <2>1, BeginLanes DEF StartEnc
  <2> QED BY <2>2, CipherAssumption DEF EncSoFar
<1>2. CASE EncRound
  <2>1. /\ pc = "enc" /\ N \in 1 .. NumRounds - 1 /\ N' = N + 1
        /\ in' = in /\ expanded_keys' = expanded_keys /\ kind' = kind
    BY <1>2, CipherAssumption DEF EncRound, TypeOK
  <2>2. trace'[N] = m' /\ (\A r \in 0 .. NumRounds - 1 : r # N => trace'[r] = trace[r])
    BY <1>2, <2>1 DEF EncRound, TypeOK, States
  <2>3. m = trace[N - 1]
    BY <2>1 DEF EncSoFar
  <2>4. \A l \in Lane : trace'[N][l] = AesEnc(trace[N - 1][l], expanded_keys[N])
    BY <1>2, <2>2, <2>3 DEF EncRound
  <2>5. \A l \in Lane : trace'[0][l] = XorB(in[l], expanded_keys[0])
    BY <2>1, <2>2, CipherAssumption DEF EncSoFar
  <2>6. ASSUME NEW r \in 1 .. NumRounds - 1, r < N + 1, NEW l \in Lane
        PROVE  trace'[r][l] = AesEnc(trace'[r - 1][l], expanded_keys[r])
    <3>1. trace'[r - 1] = trace[r - 1]
      BY <2>1, <2>2, <2>6, CipherAssumption
    <3>2. CASE r = N
      BY <3>1, <3>2, <2>4
    <3>3. CASE r < N
      <4>1. trace'[r] = trace[r]
        BY <3>3, <2>2, CipherAssumption
      <4> QED BY <3>1, <3>3, <4>1, <2>1 DEF EncSoFar
    <3> QED BY <3>2, <3>3, <2>1, <2>6
  <2>7. kind = "MMO128" => feed' = in
    BY <1>2, <2>1 DEF EncRound, EncSoFar
  <2>8. kind = "AESPRF128" /\ N + 1 > FeedRound => feed' = trace'[FeedRound]
    <3>1. CASE N = FeedRound
      BY <1>2, <2>2, <3>1 DEF EncRound
    <3>2. CASE N # FeedRound
      BY <1>2, <2>1, <2>2, <3>2, CipherAssumption DEF EncRound, EncSoFar
    <3> QED BY <3>1, <3>2
  <2> QED BY <2>1, <2>2, <2>5, <2>6, <2>7, <2>8 DEF EncSoFar
<1>3. CASE UNCHANGED vars
  BY <1>3 DEF vars, EncSoFar
<1>4. CASE ~(\E x \in [Lane -> Inputs] : StartEnc(x)) /\ ~EncRound /\ ~UNCHANGED vars
  BY <1>4 DEF Next, EncSoFar, TypeOK, ExpandKey, ExpandImc, EncLast, StartDec, Begin,
              DecRound, DecLast
<1> QED BY <1>1, <1>2, <1>3, <1>4

LEMMA StatesOfAt ==
  ASSUME NEW tr, NEW l, NEW r \in 0 .. NumRounds - 1 PROVE StatesOf(tr, l)[r] = tr[r][l]
BY DEF StatesOf

(* The states an encryption went through are those of the standard, and its *)
(* last round closes the relation.                                          *)
LEMMA EncLastIsFips ==
  ASSUME TypeOK, EncSoFar, EncLast, NEW l \in Lane
  PROVE  FipsCipher(expanded_keys, in[l], StatesOf(trace, l),
                    AesEncLast(m[l], expanded_keys[NumRounds]))
<1>1. pc = "enc" /\ N = NumRounds
  BY DEF EncLast
<1>2. trace[0][l] = XorB(in[l], expanded_keys[0])
  BY <1>1 DEF EncSoFar
<1>3. \A r \in 1 .. NumRounds - 1 :
         trace[r][l] = XorB(Mix(ShiftSub(trace[r - 1][l])), expanded_keys[r])
  BY <1>1, CipherAssumption DEF EncSoFar, AesEnc
<1>4. m[l] = trace[NumRounds - 1][l]
  BY <1>1 DEF EncSoFar
<1> DEFINE st == StatesOf(trace, l)
<1>5. \A r \in 0 .. NumRounds - 1 : st[r] = trace[r][l]
  BY StatesOfAt
<1> HIDE DEF st
<1>6. \A r \in 1 .. NumRounds - 1 : r - 1 \in 0 .. NumRounds - 1 /\ r \in 0 .. NumRounds - 1
  BY CipherAssumption
<1>7. 0 \in 0 .. NumRounds - 1 /\ NumRounds - 1 \in 0 .. NumRounds - 1
  BY CipherAssumption
<1>8. FipsCipher(expanded_keys, in[l], st, AesEncLast(m[l], expanded_keys[NumRounds]))
  BY <1>2, <1>3, <1>4, <1>5, <1>6, <1>7 DEF FipsCipher, AesEncLast
<1> QED BY <1>8 DEF st

LEMMA StepFipsOutput ==
  ASSUME TypeOK, NoCallYet, EncSoFar, FipsOutput, [Next]_vars PROVE FipsOutput'
<1>1. CASE EncLast
  <2>1. /\ expanded_keys' = expanded_keys /\ kind' = kind /\ in' = in /\ trace' = trace
        /\ out' = m' /\ pc = "enc" /\ N = NumRounds
    BY <1>1 DEF EncLast
  <2> SUFFICES ASSUME NEW l \in Lane
      PROVE LET st   == StatesOf(trace, l)
                mask == CASE kind = "AES128"    -> ZeroB
                          [] kind = "MMO128"    -> in[l]
                          [] kind = "AESPRF128" -> st[FeedRound]
            IN  FipsCipher(expanded_keys, in[l], st, XorB(out'[l], mask))
    BY <2>1 DEF FipsOutput
  <2> DEFINE c    == AesEncLast(m[l], expanded_keys[NumRounds])
             st   == StatesOf(trace, l)
             mask == CASE kind = "AES128"    -> ZeroB
                       [] kind = "MMO128"    -> in[l]
                       [] kind = "AESPRF128" -> st[FeedRound]
  <2>2. FipsCipher(expanded_keys, in[l], st, c)
    BY <1>1, EncLastIsFips
  <2>3. out'[l] = FeedForward(kind, c, feed[l])
    BY <1>1, <2>1 DEF EncLast
  <2>4. c \in Block /\ feed[l] \in Block
    <3>1. m[l] \in Block /\ feed[l] \in Block
      BY DEF TypeOK, Lanes
    <3>2. expanded_keys[NumRounds] \in Block
      BY KeyType, CipherAssumption
    <3> QED BY <3>1, <3>2, RoundType
  <2>5. st[FeedRound] = trace[FeedRound][l]
    BY StatesOfAt, CipherAssumption
  <2>6. kind # "AES128" => mask = feed[l]
    BY <2>1, <2>5, CipherAssumption DEF EncSoFar, TypeOK, Kinds
  <2>7. XorB(out'[l], mask) = c
    <3>1. CASE kind = "AES128"
      <4>1. mask = ZeroB
        BY <3>1
      <4> QED BY <3>1, <4>1, <2>3, <2>4, ZeroBlock DEF FeedForward
    <3>2. CASE kind # "AES128"
      <4> HIDE DEF c, mask
      <4> QED BY <3>2, <2>3, <2>4, <2>6, XorBCancel DEF FeedForward
    <3> QED BY <3>1, <3>2
  <2> QED BY <2>2, <2>7
<1>2. CASE UNCHANGED vars
  BY <1>2 DEF vars, FipsOutput
<1>3. CASE ~EncLast /\ ~UNCHANGED vars
  BY <1>3 DEF Next, FipsOutput, TypeOK, NoCallYet, ExpandKey, ExpandImc, StartEnc,
              EncRound, StartDec, Begin, DecRound, DecLast
<1> QED BY <1>1, <1>2, <1>3
-----------------------------------------------------------------------------
(* The key array dec loads: the last round key, then InvMixColumns of the   *)
(* round keys in reverse, then the original key.                            *)
LEMMA DecKeys ==
  ASSUME TypeOK, ImcSoFar, kind = "AES128", pc \notin {"expand", "imc"}
  PROVE  /\ DecKey(expanded_keys, 0) = expanded_keys[NumRounds]
         /\ \A i \in 1 .. NumRounds - 1 :
              DecKey(expanded_keys, i) = InvMix(expanded_keys[NumRounds - i])
         /\ DecKey(expanded_keys, NumRounds) = expanded_keys[0]
<1>1. ASSUME NEW i \in 1 .. NumRounds - 1
      PROVE  DecKey(expanded_keys, i) = InvMix(expanded_keys[NumRounds - i])
  <2>1. i - 1 \in 0 .. NumRounds - 2 /\ ImcSlot(i - 1) = NumRounds + i
        /\ ImcFrom(i - 1) = NumRounds - i
    BY CipherAssumption DEF ImcSlot, ImcFrom
  <2>2. expanded_keys[ImcSlot(i - 1)] = InvMix(expanded_keys[ImcFrom(i - 1)])
    BY <2>1 DEF ImcSoFar
  <2> QED BY <2>1, <2>2, CipherAssumption DEF DecKey
<1> QED BY <1>1, CipherAssumption DEF DecKey

LEMMA StepDecSoFar ==
  ASSUME TypeOK, ImcSoFar, DecSoFar, [Next]_vars PROVE DecSoFar'
<1>1. CASE \E y \in [Lane -> Inputs] \cup {last.cipher} : StartDec(y)
  <2>1. PICK y \in [Lane -> Inputs] \cup {last.cipher} : StartDec(y)
    BY <1>1
  <2>2. /\ in' = y /\ N' = 1 /\ m' = trace'[0] /\ pc = "idle" /\ kind = "AES128"
        /\ expanded_keys' = expanded_keys
        /\ \A l \in Lane : trace'[0][l] = XorB(y[l], DecKey(expanded_keys, 0))
    BY <2>1, BeginLanes DEF StartDec
  <2>3. DecKey(expanded_keys, 0) = expanded_keys[NumRounds]
    BY <2>2, DecKeys
  <2> QED BY <2>2, <2>3, CipherAssumption DEF DecSoFar
<1>2. CASE DecRound
  <2>1. /\ pc = "dec" /\ N \in 1 .. NumRounds - 1 /\ N' = N + 1
        /\ in' = in /\ expanded_keys' = expanded_keys /\ kind = "AES128"
    BY <1>2, CipherAssumption DEF DecRound, TypeOK
  <2>2. trace'[N] = m' /\ (\A r \in 0 .. NumRounds - 1 : r # N => trace'[r] = trace[r])
    BY <1>2, <2>1 DEF DecRound, TypeOK, States
  <2>3. m = trace[N - 1]
    BY <2>1 DEF DecSoFar
  <2>4. DecKey(expanded_keys, N) = InvMix(expanded_keys[NumRounds - N])
    BY <2>1, DecKeys
  <2>5. \A l \in Lane : trace'[N][l] =
          AesDec(trace[N - 1][l], InvMix(expanded_keys[NumRounds - N]))
    BY <1>2, <2>2, <2>3, <2>4 DEF DecRound
  <2>6. \A l \in Lane : trace'[0][l] = XorB(in[l], expanded_keys[NumRounds])
    BY <2>1, <2>2, CipherAssumption DEF DecSoFar
  <2>7. ASSUME NEW r \in 1 .. NumRounds - 1, r < N + 1, NEW l \in Lane
        PROVE  trace'[r][l] = AesDec(trace'[r - 1][l], InvMix(expanded_keys[NumRounds - r]))
    <3>1. trace'[r - 1] = trace[r - 1]
      BY <2>1, <2>2, <2>7, CipherAssumption
    <3>2. CASE r = N
      BY <3>1, <3>2, <2>5
    <3>3. CASE r < N
      <4>1. trace'[r] = trace[r]
        BY <3>3, <2>2, CipherAssumption
      <4> QED BY <3>1, <3>3, <4>1, <2>1 DEF DecSoFar
    <3> QED BY <3>2, <3>3, <2>1, <2>7
  <2> QED BY <2>1, <2>2, <2>6, <2>7 DEF DecSoFar
<1>3. CASE UNCHANGED vars
  BY <1>3 DEF vars, DecSoFar
<1>4. CASE /\ ~(\E y \in [Lane -> Inputs] \cup {last.cipher} : StartDec(y))
           /\ ~DecRound /\ ~UNCHANGED vars
  BY <1>4 DEF Next, DecSoFar, TypeOK, ExpandKey, ExpandImc, EncRound, EncLast, StartEnc,
              Begin, DecLast
<1> QED BY <1>1, <1>2, <1>3, <1>4

(* One round of dec with an InvMixColumns-ed key is the inverse of a round  *)
(* of enc with the key itself: the equivalent inverse cipher.               *)
LEMMA RoundUndone ==
  ASSUME NEW d \in Block, NEW k \in Block
  PROVE  XorB(Mix(AesDec(d, InvMix(k))), k) = InvShiftSub(d)
<1> DEFINE u == InvShiftSub(d)
<1>1. u \in Block /\ XorB(u, k) \in Block
  BY XorBType, RoundAssumption
<1>2. AesDec(d, InvMix(k)) = InvMix(XorB(u, k))
  BY <1>1, LinearAssumption DEF AesDec
<1>3. Mix(InvMix(XorB(u, k))) = XorB(u, k)
  BY <1>1, RoundAssumption
<1>4. XorB(XorB(u, k), k) = u
  BY <1>1, XorBCancel
<1> QED BY <1>2, <1>3, <1>4

(* Run backwards, the registers of a decryption are the states of an        *)
(* encryption of the block it returns.                                      *)
LEMMA DecLastIsFips ==
  ASSUME TypeOK, ImcSoFar, DecSoFar, DecLast, NEW l \in Lane
  PROVE  FipsCipher(expanded_keys, m'[l], UndoneStates(trace, l), in[l])
<1> DEFINE st == UndoneStates(trace, l)
<1>1. /\ pc = "dec" /\ N = NumRounds /\ kind = "AES128"
      /\ m'[l] = AesDecLast(m[l], DecKey(expanded_keys, NumRounds))
  BY DEF DecLast, TypeOK
<1>2. \A r \in 0 .. NumRounds - 1 : st[r] = InvShiftSub(trace[NumRounds - 1 - r][l])
  BY DEF UndoneStates
<1> HIDE DEF st
<1>3. \A r \in 0 .. NumRounds - 1 : trace[r][l] \in Block
  BY DEF TypeOK, States, Lanes
<1>4. in[l] \in Block
  BY DEF TypeOK, Lanes
<1>5. st[0] = XorB(m'[l], expanded_keys[0])
  <2>1. m[l] = trace[NumRounds - 1][l]
    BY <1>1 DEF DecSoFar
  <2>2. m'[l] = XorB(InvShiftSub(trace[NumRounds - 1][l]), expanded_keys[0])
    BY <1>1, <2>1, DecKeys DEF AesDecLast
  <2>3. InvShiftSub(trace[NumRounds - 1][l]) \in Block /\ expanded_keys[0] \in Block
    BY <1>3, RoundAssumption, KeyType, CipherAssumption
  <2>4. st[0] = InvShiftSub(trace[NumRounds - 1][l])
    BY <1>2, CipherAssumption
  <2> QED BY <2>2, <2>3, <2>4, XorBCancel
<1>6. ASSUME NEW r \in 1 .. NumRounds - 1
      PROVE  st[r] = XorB(Mix(ShiftSub(st[r - 1])), expanded_keys[r])
  <2> DEFINE i == NumRounds - r
  <2>1. i \in 1 .. NumRounds - 1 /\ NumRounds - i = r /\ NumRounds - 1 - r = i - 1
        /\ NumRounds - 1 - (r - 1) = i /\ r - 1 \in 0 .. NumRounds - 1 /\ i - 1 \in 0 .. NumRounds - 1
        /\ r \in 0 .. NumRounds - 1 /\ i \in 0 .. NumRounds - 1
    BY CipherAssumption
  <2>2. trace[i][l] = AesDec(trace[i - 1][l], InvMix(expanded_keys[r]))
    <3>1. i < N
      BY <1>1, <2>1, CipherAssumption
    <3> HIDE DEF i
    <3> QED BY <1>1, <2>1, <3>1 DEF DecSoFar
  <2>3. st[r] = InvShiftSub(trace[i - 1][l]) /\ st[r - 1] = InvShiftSub(trace[i][l])
    BY <1>2, <2>1
  <2>4. trace[i][l] \in Block /\ trace[i - 1][l] \in Block /\ expanded_keys[r] \in Block
    BY <1>3, <2>1, KeyType, CipherAssumption
  <2>5. ShiftSub(st[r - 1]) = trace[i][l]
    BY <2>3, <2>4, RoundAssumption
  <2> QED BY <2>2, <2>3, <2>4, <2>5, RoundUndone
<1>7. in[l] = XorB(ShiftSub(st[NumRounds - 1]), expanded_keys[NumRounds])
  <2>1. trace[0][l] = XorB(in[l], expanded_keys[NumRounds])
    BY <1>1 DEF DecSoFar
  <2>2. st[NumRounds - 1] = InvShiftSub(trace[0][l])
    BY <1>2, CipherAssumption
  <2>3. trace[0][l] \in Block /\ expanded_keys[NumRounds] \in Block
    BY <1>3, KeyType, CipherAssumption
  <2>4. ShiftSub(st[NumRounds - 1]) = trace[0][l]
    BY <2>2, <2>3, RoundAssumption
  <2> QED BY <2>1, <2>3, <2>4, <1>4, XorBCancel
<1>8. FipsCipher(expanded_keys, m'[l], st, in[l])
  BY <1>5, <1>6, <1>7 DEF FipsCipher
<1> QED BY <1>8 DEF st

LEMMA StepDecInvertsCipher ==
  ASSUME TypeOK, NoCallYet, ImcSoFar, DecSoFar, DecInvertsCipher, [Next]_vars
  PROVE  DecInvertsCipher'
<1>1. CASE DecLast
  <2>1. /\ expanded_keys' = expanded_keys /\ in' = in /\ trace' = trace /\ out' = m'
    BY <1>1 DEF DecLast
  <2> QED BY <1>1, <2>1, DecLastIsFips DEF DecInvertsCipher
<1>2. CASE UNCHANGED vars
  BY <1>2 DEF vars, DecInvertsCipher
<1>3. CASE ~DecLast /\ ~UNCHANGED vars
  BY <1>3 DEF Next, DecInvertsCipher, TypeOK, NoCallYet, ExpandKey, ExpandImc, StartEnc,
              EncRound, EncLast, StartDec, Begin, DecRound
<1> QED BY <1>1, <1>2, <1>3
-----------------------------------------------------------------------------
LEMMA StepLastIsFips ==
  ASSUME TypeOK, NoCallYet, EncSoFar, LastIsFips, [Next]_vars PROVE LastIsFips'
<1>1. CASE EncLast
  <2>1. /\ expanded_keys' = expanded_keys /\ kind' = kind
        /\ last' = [valid |-> TRUE, plain |-> in, cipher |-> m', states |-> trace]
        /\ m' = [l \in Lane |-> FeedForward(kind,
                              AesEncLast(m[l], expanded_keys[NumRounds]), feed[l])]
    BY <1>1 DEF EncLast
  <2>2. ASSUME kind = "AES128", NEW l \in Lane
        PROVE  m'[l] = AesEncLast(m[l], expanded_keys[NumRounds])
    BY <2>1, <2>2 DEF FeedForward
  <2> QED BY <1>1, <2>1, <2>2, EncLastIsFips DEF LastIsFips
<1>2. CASE pc \in {"expand", "imc"}
  BY <1>2, ConstructorSteps DEF NoCallYet, LastIsFips, ExpandKey, ExpandImc, vars
<1>3. CASE pc \notin {"expand", "imc"} /\ ~EncLast
  <2>1. last' = last
    BY <1>3 DEF Next, ExpandKey, ExpandImc, StartEnc, EncRound, StartDec, DecRound, DecLast, vars
  <2> QED BY <1>3, <2>1, CallsKeepKeys DEF LastIsFips
<1> QED BY <1>1, <1>2, <1>3

LEMMA LastBlocks ==
  ASSUME TypeOK, NEW l \in Lane
  PROVE  /\ last.plain[l] \in Block /\ last.cipher[l] \in Block
         /\ \A r \in 0 .. NumRounds - 1 : last.states[r][l] \in Block
<1>1. last.plain \in Lanes /\ last.cipher \in Lanes /\ last.states \in States
  BY DEF TypeOK
<1>2. last.plain[l] \in Block /\ last.cipher[l] \in Block
  BY <1>1 DEF Lanes
<1>3. \A r \in 0 .. NumRounds - 1 : last.states[r] \in Lanes
  BY <1>1 DEF States
<1> QED BY <1>2, <1>3 DEF Lanes

LEMMA StepBackSoFar ==
  ASSUME TypeOK, ImcSoFar, LastIsFips, BackSoFar, [Next]_vars PROVE BackSoFar'
<1>1. CASE \E y \in [Lane -> Inputs] \cup {last.cipher} : StartDec(y)
  <2>1. PICK y \in [Lane -> Inputs] \cup {last.cipher} : StartDec(y)
    BY <1>1
  <2>2. /\ in' = y /\ N' = 1 /\ m' = trace'[0] /\ pc = "idle" /\ kind = "AES128"
        /\ last' = last
        /\ \A l \in Lane : trace'[0][l] = XorB(y[l], DecKey(expanded_keys, 0))
    BY <2>1, BeginLanes DEF StartDec
  <2> SUFFICES ASSUME last.valid, y = last.cipher, NEW l \in Lane
               PROVE  m'[l] = ShiftSub(last.states[NumRounds - 1][l])
    BY <2>2 DEF BackSoFar
  <2> DEFINE s == last.states[NumRounds - 1][l]
  <2>3. NumRounds - 1 \in 0 .. NumRounds - 1
    BY CipherAssumption
  <2>4. last.cipher[l] = XorB(ShiftSub(s), expanded_keys[NumRounds])
    BY <2>2, <2>3, StatesOfAt DEF LastIsFips, FipsCipher
  <2>5. ShiftSub(s) \in Block /\ expanded_keys[NumRounds] \in Block
    BY <2>3, LastBlocks, RoundAssumption, KeyType, CipherAssumption
  <2>6. m'[l] = XorB(last.cipher[l], expanded_keys[NumRounds])
    BY <2>2, DecKeys
  <2> QED BY <2>4, <2>5, <2>6, XorBCancel
<1>2. CASE DecRound
  <2>1. /\ pc = "dec" /\ N \in 1 .. NumRounds - 1 /\ N' = N + 1
        /\ in' = in /\ last' = last /\ kind = "AES128"
        /\ \A l \in Lane : m'[l] = AesDec(m[l], DecKey(expanded_keys, N))
    BY <1>2, CipherAssumption DEF DecRound, TypeOK
  <2> SUFFICES ASSUME last.valid, in = last.cipher, NEW l \in Lane
               PROVE  m'[l] = ShiftSub(last.states[NumRounds - (N + 1)][l])
    BY <2>1 DEF BackSoFar
  <2> DEFINE i == NumRounds - N
             s == last.states[i - 1][l]
  <2>2. i \in 1 .. NumRounds - 1 /\ i - 1 \in 0 .. NumRounds - 1 /\ i \in 0 .. NumRounds - 1
        /\ NumRounds - (N + 1) = i - 1
    BY <2>1, CipherAssumption
  <2>3. m[l] = ShiftSub(last.states[i][l])
    BY <2>1 DEF BackSoFar
  <2>4. DecKey(expanded_keys, N) = InvMix(expanded_keys[i])
    BY <2>1, DecKeys
  <2> HIDE DEF i
  <2>5. last.states[i][l] = XorB(Mix(ShiftSub(s)), expanded_keys[i])
    BY <2>1, <2>2, StatesOfAt DEF LastIsFips, FipsCipher
  <2>6. s \in Block /\ last.states[i][l] \in Block /\ expanded_keys[i] \in Block
    BY <2>2, LastBlocks, KeyType, CipherAssumption
  <2> HIDE DEF s
  <2>7. m'[l] = InvMix(XorB(last.states[i][l], expanded_keys[i]))
    <3>1. InvShiftSub(m[l]) = last.states[i][l]
      BY <2>3, <2>6, RoundAssumption
    <3>2. m'[l] = XorB(InvMix(last.states[i][l]), InvMix(expanded_keys[i]))
      BY <2>1, <2>4, <3>1 DEF AesDec
    <3> QED BY <3>2, <2>6, LinearAssumption
  <2>8. XorB(last.states[i][l], expanded_keys[i]) = Mix(ShiftSub(s))
    BY <2>5, <2>6, RoundAssumption, XorBCancel
  <2>9. m'[l] = ShiftSub(s)
    BY <2>6, <2>7, <2>8, RoundAssumption
  <2> QED BY <2>2, <2>9 DEF s
<1>3. CASE UNCHANGED vars
  BY <1>3 DEF vars, BackSoFar
<1>4. CASE /\ ~(\E y \in [Lane -> Inputs] \cup {last.cipher} : StartDec(y))
           /\ ~DecRound /\ ~UNCHANGED vars
  BY <1>4 DEF Next, BackSoFar, TypeOK, ExpandKey, ExpandImc, EncRound, EncLast, StartEnc,
              Begin, DecLast
<1> QED BY <1>1, <1>2, <1>3, <1>4

LEMMA StepRoundTrip ==
  ASSUME TypeOK, NoCallYet, ImcSoFar, LastIsFips, BackSoFar, RoundTrip, [Next]_vars
  PROVE  RoundTrip'
<1>1. CASE DecLast
  <2>1. /\ in' = in /\ last' = last /\ out' = m' /\ pc = "dec" /\ N = NumRounds
        /\ kind = "AES128"
        /\ m' = [l \in Lane |-> AesDecLast(m[l], DecKey(expanded_keys, NumRounds))]
    BY <1>1 DEF DecLast, TypeOK
  <2> SUFFICES ASSUME last.valid, in = last.cipher
               PROVE  m' = last.plain
    BY <2>1 DEF RoundTrip
  <2>2. ASSUME NEW l \in Lane PROVE m'[l] = last.plain[l]
    <3> DEFINE s == last.states[0][l]
    <3>1. 0 \in 0 .. NumRounds - 1
      BY CipherAssumption
    <3>2. m[l] = ShiftSub(s)
      <4>1. NumRounds - N = 0
        BY <2>1, CipherAssumption
      <4> QED BY <2>1, <4>1 DEF BackSoFar
    <3>3. s = XorB(last.plain[l], expanded_keys[0])
      BY <2>1, <3>1, StatesOfAt DEF LastIsFips, FipsCipher
    <3>4. s \in Block /\ last.plain[l] \in Block /\ expanded_keys[0] \in Block
      BY <3>1, LastBlocks, KeyType, CipherAssumption
    <3>5. m'[l] = XorB(s, expanded_keys[0])
      BY <2>1, <3>2, <3>4, DecKeys, RoundAssumption DEF AesDecLast
    <3> QED BY <3>3, <3>4, <3>5, XorBCancel
  <2>3. last.plain = [l \in Lane |-> last.plain[l]]
    BY DEF TypeOK, Lanes
  <2>4. m' = [l \in Lane |-> m'[l]]
    BY <2>1
  <2> QED BY <2>2, <2>3, <2>4
<1>2. CASE UNCHANGED vars
  BY <1>2 DEF vars, RoundTrip
<1>3. CASE ~DecLast /\ ~UNCHANGED vars
  BY <1>3 DEF Next, RoundTrip, TypeOK, NoCallYet, ExpandKey, ExpandImc, StartEnc,
              EncRound, EncLast, StartDec, Begin, DecRound
<1> QED BY <1>1, <1>2, <1>3
-----------------------------------------------------------------------------
LEMMA InitIInv == Init /\ TypeOK => IInv
<1> SUFFICES ASSUME Init, TypeOK PROVE IInv
  OBVIOUS
<1>1. NoCallYet /\ LastIsFips
  BY DEF Init, NoCallYet, LastIsFips
<1>2. KeysSoFar /\ ImcSoFar
  BY DEF Init, KeysSoFar, ImcSoFar
<1>3. EncSoFar /\ DecSoFar /\ BackSoFar
  BY DEF Init, EncSoFar, DecSoFar, BackSoFar
<1>4. FipsOutput /\ DecInvertsCipher /\ RoundTrip
  BY DEF Init, FipsOutput, DecInvertsCipher, RoundTrip
<1> QED BY <1>1, <1>2, <1>3, <1>4 DEF IInv

(* The inductive invariant: every loop of the machine keeps its promise.    *)
THEOREM Inductive == Spec => []IInv
<1>1. IInv /\ TypeOK' /\ [Next]_vars => IInv'
  BY StepNoCallYet, StepKeysSoFar, StepImcSoFar, StepEncSoFar, StepFipsOutput, StepDecSoFar,
     StepDecInvertsCipher, StepLastIsFips, StepBackSoFar, StepRoundTrip DEF IInv
<1> QED BY <1>1, InitIInv, TypeCorrect, PTL DEF Spec

(* aes128_key_expansion_impl computes the key schedule of FIPS-197.         *)
THEOREM KeyScheduleCorrect == Spec => []FipsKeySchedule
<1>1. IInv => FipsKeySchedule
  BY DEF IInv, KeysSoFar, FipsKeySchedule
<1> QED BY <1>1, Inductive, PTL

(* enc, MMO128 and AESPRF128 return their reference functions.              *)
THEOREM OutputCorrect == Spec => []FipsOutput
<1>1. IInv => FipsOutput
  BY DEF IInv
<1> QED BY <1>1, Inductive, PTL

(* dec returns a preimage of its input under the cipher, whatever the input.*)
THEOREM DecCorrect == Spec => []DecInvertsCipher
<1>1. IInv => DecInvertsCipher
  BY DEF IInv
<1> QED BY <1>1, Inductive, PTL

(* dec returns the plaintext of every ciphertext that enc has made.         *)
THEOREM RoundTripCorrect == Spec => []RoundTrip
<1>1. IInv => RoundTrip
  BY DEF IInv
<1> QED BY <1>1, Inductive, PTL
-----------------------------------------------------------------------------
(* The bulk calls.                                                          *)

LEMMA BlockOutType ==
  ASSUME NEW o \in Ops, NEW x \in Value, NEW y \in Value
  PROVE  BlockOut(o, x, y) \in Value
BY MemAssumption DEF BlockOut

(* The two loops split num_blocks without loss.                             *)
LEMMA Split ==
  ASSUME NEW o \in Ops, NEW len \in Nat
  PROVE  /\ NumQuads(o, len) \in Nat /\ Rest(o, len) \in Nat
         /\ 4 * NumQuads(o, len) + Rest(o, len) = len
<1>1. len \div 4 \in Nat /\ len % 4 \in Nat /\ 4 * (len \div 4) + (len % 4) = len
  OBVIOUS
<1> QED BY <1>1 DEF NumQuads, Rest

(* One turn of either loop, from its first position p and of width w: the   *)
(* second read sees what the first did.                                     *)
LEMMA ProcessMemory ==
  ASSUME BulkTypeOK, NEW p \in Nat, NEW w \in Nat, Process(p, w)
  PROVE  mem' = [k \in Addr |->
                   IF dst + p <= k /\ k < dst + p + w
                     THEN BlockOut(member, mem[src + (k - dst)], mem[src + (k - dst)])
                     ELSE mem[k]]
<1> DEFINE regs == [j \in p .. p + w - 1 |-> BlockOut(member, mem[src + j], mem[src + j])]
<1>1. mem' = [k \in Addr |-> IF dst + p <= k /\ k < dst + p + w THEN regs[k - dst] ELSE mem[k]]
  BY DEF Process, Stored, SecondRead
<1>2. ASSUME NEW k \in Addr, dst + p <= k, k < dst + p + w
      PROVE  regs[k - dst] = BlockOut(member, mem[src + (k - dst)], mem[src + (k - dst)])
  <2>1. k - dst \in p .. p + w - 1
    BY <1>2, MemAssumption DEF BulkTypeOK, Addr
  <2> QED BY <2>1
<1> HIDE DEF regs
<1> QED BY <1>1, <1>2

LEMMA ProcessType ==
  ASSUME BulkTypeOK, NEW p \in Nat, NEW w \in Nat, p + w <= num_blocks, Process(p, w)
  PROVE  mem' \in [Addr -> Value]
<1>1. ASSUME NEW k \in Addr, dst + p <= k, k < dst + p + w
      PROVE  src + (k - dst) \in Addr
  BY <1>1, MemAssumption DEF BulkTypeOK, Addr
<1>2. ASSUME NEW k \in Addr, dst + p <= k, k < dst + p + w
      PROVE  BlockOut(member, mem[src + (k - dst)], mem[src + (k - dst)]) \in Value
  BY <1>1, <1>2, BlockOutType DEF BulkTypeOK
<1> QED BY <1>2, ProcessMemory DEF BulkTypeOK

LEMMA ProcessFrame ==
  ASSUME BulkTypeOK, NEW p \in Nat, NEW w \in Nat, Process(p, w),
         NEW k \in Addr, ~(dst + p <= k /\ k < dst + p + w)
  PROVE  mem'[k] = mem[k]
BY ProcessMemory

LEMMA ProcessBlocks ==
  ASSUME BulkTypeOK, NEW p \in Nat, NEW w \in Nat, p + w <= num_blocks,
         Process(p, w), SafeLayout,
         \A k \in Addr : ~(dst <= k /\ k < dst + p) => mem[k] = mem0[k],
         \A j \in 0 .. num_blocks - 1 : j < p =>
           mem[dst + j] = BlockOut(member, mem0[src + j], mem0[src + j]),
         NEW j \in 0 .. num_blocks - 1, j < p + w
  PROVE  mem'[dst + j] = BlockOut(member, mem0[src + j], mem0[src + j])
<1>1. dst + j \in Addr /\ src + j \in Addr
  BY MemAssumption DEF BulkTypeOK, Addr
<1>2. CASE j < p
  <2>1. mem'[dst + j] = mem[dst + j]
    BY <1>1, <1>2, ProcessFrame DEF BulkTypeOK
  <2> QED BY <1>2, <2>1
<1>3. CASE p <= j
  <2>1. mem'[dst + j] = BlockOut(member, mem[src + j], mem[src + j])
    <3>1. src + ((dst + j) - dst) = src + j /\ dst + p <= dst + j /\ dst + j < dst + p + w
      BY <1>3 DEF BulkTypeOK
    <3> QED BY <1>1, <3>1, ProcessMemory
  <2>2. mem[src + j] = mem0[src + j]
    BY <1>1, <1>3 DEF SafeLayout, BulkTypeOK
  <2> QED BY <2>1, <2>2
<1> QED BY <1>2, <1>3

LEMMA BulkStep == ASSUME BulkInv, [BulkNext]_bulk PROVE BulkInv'
<1> USE DEF BulkInv
<1>1. ASSUME NEW o \in Ops, NEW a \in Addr, NEW b \in Addr, NEW len \in 0 .. MemSize,
             Call(o, a, b, len)
      PROVE  BulkInv'
  <2>1. len \in Nat /\ a \in Nat /\ b \in Nat
    BY MemAssumption DEF Addr
  <2>2. /\ num_blocks_q' \in Nat /\ num_blocks_r' \in Nat
        /\ 4 * num_blocks_q' + num_blocks_r' = num_blocks'
    BY <1>1, <2>1, Split DEF Call
  <2>3. BulkTypeOK'
    BY <1>1, <2>1, <2>2 DEF Call, BulkTypeOK
  <2>4. LoopInv'
    BY <1>1, <2>2 DEF Call, LoopInv
  <2>5. Pos' = 0
    BY <1>1 DEF Call, Pos
  <2>6. mem' = mem0'
    BY <1>1 DEF Call
  <2>7. Done'
    <3>1. \A k \in Addr : mem'[k] = mem0'[k]
      BY <2>6
    <3>2. \A j \in 0 .. num_blocks' - 1 : ~(j < Pos')
      BY <2>5
    <3> QED BY <3>1, <3>2 DEF Done
  <2> QED BY <2>3, <2>4, <2>7
<1>2. CASE QuadStep
  <2>1. /\ at = "quads" /\ turn < num_blocks_q /\ turn' = turn + 1 /\ Process(4 * turn, 4)
        /\ UNCHANGED <<mem0, member, src, dst, num_blocks, num_blocks_q, num_blocks_r>>
        /\ UNCHANGED <<at, calls>>
    BY <1>2 DEF QuadStep, call
  <2>2. 4 * turn \in Nat /\ 4 * turn + 4 <= num_blocks /\ Pos = 4 * turn /\ Pos' = 4 * turn + 4
    BY <2>1 DEF BulkTypeOK, LoopInv, Pos
  <2>3. BulkTypeOK'
    BY <2>1, <2>2, ProcessType DEF BulkTypeOK
  <2>4. LoopInv'
    BY <2>1 DEF LoopInv, BulkTypeOK
  <2>5. ASSUME NEW k \in Addr, ~(dst <= k /\ k < dst + Pos') PROVE mem'[k] = mem0[k]
    <3>1. mem'[k] = mem[k]
      BY <2>1, <2>2, <2>5, ProcessFrame DEF BulkTypeOK, Addr
    <3>2. mem[k] = mem0[k]
      BY <2>2, <2>5 DEF Done, BulkTypeOK, Addr
    <3> QED BY <3>1, <3>2
  <2>6. ASSUME SafeLayout, NEW j \in 0 .. num_blocks - 1, j < Pos'
        PROVE  mem'[dst + j] = BlockOut(member, mem0[src + j], mem0[src + j])
    BY <2>1, <2>2, <2>6, ProcessBlocks DEF Done
  <2>7. Done'
    BY <2>1, <2>5, <2>6 DEF Done, SafeLayout
  <2> QED BY <2>3, <2>4, <2>7
<1>3. CASE QuadsDone
  <2>1. Pos' = Pos /\ 4 * num_blocks_q + num_blocks_r = num_blocks
    BY <1>3 DEF QuadsDone, call, Pos, BulkTypeOK, LoopInv
  <2>2. BulkTypeOK' /\ LoopInv'
    BY <1>3 DEF QuadsDone, call, BulkTypeOK, LoopInv
  <2>3. Done'
    BY <1>3, <2>1 DEF QuadsDone, call, Done, SafeLayout
  <2> QED BY <2>2, <2>3
<1>4. CASE RestStep
  <2>1. /\ at = "rest" /\ turn < num_blocks_r /\ turn' = turn + 1
        /\ Process(4 * num_blocks_q + turn, 1)
        /\ UNCHANGED <<mem0, member, src, dst, num_blocks, num_blocks_q, num_blocks_r>>
        /\ UNCHANGED <<at, calls>>
    BY <1>4 DEF RestStep, call
  <2>2. /\ 4 * num_blocks_q + turn \in Nat /\ (4 * num_blocks_q + turn) + 1 <= num_blocks
        /\ Pos = 4 * num_blocks_q + turn /\ Pos' = (4 * num_blocks_q + turn) + 1
    BY <2>1 DEF BulkTypeOK, LoopInv, Pos
  <2>3. BulkTypeOK'
    BY <2>1, <2>2, ProcessType DEF BulkTypeOK
  <2>4. LoopInv'
    BY <2>1 DEF LoopInv, BulkTypeOK
  <2>5. ASSUME NEW k \in Addr, ~(dst <= k /\ k < dst + Pos') PROVE mem'[k] = mem0[k]
    <3>1. mem'[k] = mem[k]
      BY <2>1, <2>2, <2>5, ProcessFrame DEF BulkTypeOK, Addr
    <3>2. mem[k] = mem0[k]
      BY <2>2, <2>5 DEF Done, BulkTypeOK, Addr
    <3> QED BY <3>1, <3>2
  <2>6. ASSUME SafeLayout, NEW j \in 0 .. num_blocks - 1, j < Pos'
        PROVE  mem'[dst + j] = BlockOut(member, mem0[src + j], mem0[src + j])
    BY <2>1, <2>2, <2>6, ProcessBlocks DEF Done
  <2>7. Done'
    BY <2>1, <2>5, <2>6 DEF Done, SafeLayout
  <2> QED BY <2>3, <2>4, <2>7
<1>5. CASE Return
  <2>1. Pos' = Pos
    BY <1>5 DEF Return, call, Pos
  <2>2. BulkTypeOK' /\ LoopInv'
    BY <1>5 DEF Return, call, BulkTypeOK, LoopInv
  <2>3. Done'
    BY <1>5, <2>1 DEF Return, call, Done, SafeLayout
  <2> QED BY <2>2, <2>3
<1>6. CASE UNCHANGED bulk
  BY <1>6 DEF bulk, call, BulkTypeOK, LoopInv, Done, Pos, SafeLayout
<1> QED BY <1>1, <1>2, <1>3, <1>4, <1>5, <1>6 DEF BulkNext

(* The loop invariant of both loops, with the types.                        *)
THEOREM BulkInductive == BulkSpec => []BulkInv
<1>1. BulkInit => BulkInv
  BY MemAssumption DEF BulkInit, BulkInv, BulkTypeOK, LoopInv, Done, Pos, Ops, QuadOps
<1> QED BY <1>1, BulkStep, PTL DEF BulkSpec

(* The buffers of every call stay inside memory while its loops run.        *)
THEOREM BulkTypeCorrect == BulkSpec => []BulkTypeOK
<1>1. BulkInv => BulkTypeOK
  BY DEF BulkInv
<1> QED BY <1>1, BulkInductive, PTL

(* Every block of a bulk call's output is the block function of its input. *)
THEOREM BulkCorrect == BulkSpec => []EachBlockOnce
<1>1. BulkInv => EachBlockOnce
  BY DEF BulkInv, LoopInv, Done, EachBlockOnce, Returned, Pos, BulkTypeOK
<1> QED BY <1>1, BulkInductive, PTL

(* A bulk call writes nothing outside its output.                           *)
THEOREM BulkFrame == BulkSpec => []OnlyOutput
<1>1. BulkInv => OnlyOutput
  <2> SUFFICES ASSUME BulkInv, NEW k \in Addr, ~(dst <= k /\ k < dst + num_blocks)
               PROVE  mem[k] = mem0[k]
    BY DEF OnlyOutput
  <2>1. Pos \in Nat /\ Pos <= num_blocks
    BY DEF BulkInv, LoopInv, Pos, BulkTypeOK
  <2>2. ~(dst <= k /\ k < dst + Pos)
    BY <2>1 DEF BulkInv, BulkTypeOK, Addr
  <2> QED BY <2>2 DEF BulkInv, Done
<1> QED BY <1>1, BulkInductive, PTL
=============================================================================
