----------------------------- MODULE Keystream ------------------------------
(***************************************************************************)
(* What an AES128_CTR, MMO128_CTR or AESPRF128_CTR object promises: a call *)
(* returns at once the next bytes of the keystream that begins at the      *)
(* counter, and moves the counter past every block it touched, so that the *)
(* unused end of the last block is never handed out.                       *)
(***************************************************************************)
EXTENDS Integers

CONSTANTS
  Modulus,           \* 2^64: the counter is a uint64_t
  Kinds,             \* the three classes
  Lengths,           \* the values of num_bytes callers pass
  Rounds(_, _),      \* a class's rounds on a block holding a counter
  XorCtr(_, _),      \* a block xored with a counter
  NoData             \* nothing returned yet

Counter == 0 .. Modulus - 1

(* aes128::block_bytes *)
block_bytes == 16

(* aes128::bytes_to_blocks *)
bytes_to_blocks(num_bytes) ==
  IF num_bytes % block_bytes = 0
    THEN num_bytes \div block_bytes
    ELSE num_bytes \div block_bytes + 1

(* Unsigned addition: a is a counter and b at most the modulus. *)
WrapAdd(a, b) == IF a + b < Modulus THEN a + b ELSE a + b - Modulus

VARIABLES kind, counter, data

(* The pseudorandom function on counter c: E(c), or E(c) + c for MMO128.    *)
Prf(k, c) == IF k = "MMO128" THEN XorCtr(Rounds(k, c), c) ELSE Rounds(k, c)

(* Byte j of the keystream that begins at counter c. *)
KeyByte(k, c, j) ==
  Prf(k, WrapAdd(c, j \div block_bytes))[j % block_bytes]

Init == kind \in Kinds /\ counter = 0 /\ data = NoData

SetCounter == counter' \in Counter /\ UNCHANGED <<kind, data>>

Generate(n) ==
  /\ data' = [j \in 0 .. n - 1 |-> KeyByte(kind, counter, j)]
  /\ counter' = WrapAdd(counter, bytes_to_blocks(n))
  /\ UNCHANGED kind

Next == SetCounter \/ \E n \in Lengths : Generate(n)

Spec == Init /\ [][Next]_<<kind, counter, data>>
=============================================================================
