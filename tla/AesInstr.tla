------------------------------ MODULE AesInstr ------------------------------
(***************************************************************************)
(* The x86 instructions that src/src/aes-ni.cpp and its detail headers     *)
(* reach through compiler intrinsics.  They are not code of the library:   *)
(* a 128-bit register is four 32-bit words, word 0 the lowest, and what    *)
(* the library relies on is only the algebra named in the assumptions, so  *)
(* the tables of AES itself stay parameters.                               *)
(***************************************************************************)
EXTENDS Integers

CONSTANTS
  Word,            \* the values of a 32-bit lane
  ZeroW,           \* the all-zero word, shifted in by PSLLDQ
  XorW(_, _),      \* bitwise exclusive or of two words
  SubWord(_),      \* the S-box on each byte of a word
  RotWord(_),      \* rotation of a word by one byte
  ShiftSub(_),     \* ShiftRows and SubBytes of a block
  InvShiftSub(_),  \* their inverse
  Mix(_),          \* MixColumns of a block
  InvMix(_)        \* InvMixColumns of a block

Block == [0..3 -> Word]

(* Exclusive or makes the words a commutative group of exponent two. *)
ASSUME XorAssumption ==
  /\ ZeroW \in Word
  /\ \A a, b \in Word : XorW(a, b) \in Word
  /\ \A a, b \in Word : XorW(a, b) = XorW(b, a)
  /\ \A a, b, c \in Word : XorW(XorW(a, b), c) = XorW(a, XorW(b, c))
  /\ \A a \in Word : XorW(a, ZeroW) = a /\ XorW(a, a) = ZeroW

(* The S-box acts on bytes, so it commutes with moving bytes in a word. *)
ASSUME SubWordAssumption ==
  \A a \in Word : /\ SubWord(a) \in Word
                  /\ RotWord(a) \in Word
                  /\ SubWord(RotWord(a)) = RotWord(SubWord(a))

-----------------------------------------------------------------------------
(* _mm_xor_si128 (PXOR) *)
XorB(a, b) == [c \in 0..3 |-> XorW(a[c], b[c])]

ASSUME RoundAssumption ==
  \A a \in Block : /\ ShiftSub(a) \in Block
                   /\ InvShiftSub(a) \in Block
                   /\ Mix(a) \in Block
                   /\ InvMix(a) \in Block
                   /\ InvShiftSub(ShiftSub(a)) = a
                   /\ ShiftSub(InvShiftSub(a)) = a
                   /\ InvMix(Mix(a)) = a
                   /\ Mix(InvMix(a)) = a

(* InvMixColumns is linear: the fact the equivalent inverse cipher needs. *)
ASSUME LinearAssumption ==
  \A a, b \in Block : InvMix(XorB(a, b)) = XorB(InvMix(a), InvMix(b))

(* _mm_slli_si128(b, 4): shift by four bytes, that is by one word. *)
Slli4(b) == [c \in 0..3 |-> IF c = 0 THEN ZeroW ELSE b[c - 1]]

(* _mm_shuffle_epi32(b, _MM_SHUFFLE(3, 3, 3, 3)): word 3 in every lane. *)
Shuffle3333(b) == [c \in 0..3 |-> b[3]]

(* _mm_aeskeygenassist_si128(b, rcon) *)
KeyGenAssist(b, rcon) ==
  [c \in 0..3 |-> LET s == SubWord(b[IF c < 2 THEN 1 ELSE 3])
                  IN  IF c \in {0, 2} THEN s ELSE XorW(RotWord(s), rcon)]

AesEnc(b, k)     == XorB(Mix(ShiftSub(b)), k)        \* AESENC
AesEncLast(b, k) == XorB(ShiftSub(b), k)             \* AESENCLAST
AesDec(b, k)     == XorB(InvMix(InvShiftSub(b)), k)  \* AESDEC
AesDecLast(b, k) == XorB(InvShiftSub(b), k)          \* AESDECLAST
AesImc(b)        == InvMix(b)                        \* AESIMC
=============================================================================
