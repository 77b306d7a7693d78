----------------------------- MODULE CtrStream ------------------------------
(***************************************************************************)
(* The counter-mode generators of src/src/aes-ni.cpp: operator() of a _CTR *)
(* class calls ctr_byte_stream, which runs ctr_stream over the whole       *)
(* blocks, and for a tail runs it again for one block of its own and       *)
(* copies the bytes asked for.  The counter lives in three places - the    *)
(* member, the vector register of the loop and the value ctr_stream        *)
(* computes for its return - which have to agree.                          *)
(***************************************************************************)
EXTENDS Integers

CONSTANTS
  Modulus, Lengths, Rounds(_, _), XorCtr(_, _), NoData,   \* as in Keystream
  MaxBytes,                                      \* size of the caller's buffer
  Byte,                                          \* values of a byte
  Old,                                           \* a byte no call has written
  MaxSpent                                       \* bound on blocks between two set_counter

Kinds == {"AES128", "MMO128", "AESPRF128"}

VARIABLES
  kind,
  counter,       \* counter_ of the object
  pc,            \* "idle", "stream", "tail" or "copy"
  num_bytes, num_blocks, rem_bytes,
  ctr,           \* the low half of the counter register
  i,             \* the loop index of ctr_stream
  ret,           \* what the last ctr_stream returned
  out,           \* the caller's buffer
  m,             \* the 16-byte array of the tail
  data,          \* history: what the last call returned
  base, spent,   \* history: the counter last set, and the blocks made since
  uses           \* history: how often each counter was encrypted since

call == <<num_bytes, num_blocks, rem_bytes>>
vars == <<kind, counter, pc, call, ctr, i, ret, out, m, data, base, spent, uses>>

KS == INSTANCE Keystream WITH kind <- kind, counter <- counter, data <- data

Counter     == 0 .. Modulus - 1
block_bytes == 16
Offsets     == 0 .. block_bytes - 1
Index       == 0 .. MaxBytes - 1

ASSUME BufferAssumption ==
  /\ Modulus \in Nat \ {0}
  /\ MaxBytes \in Nat /\ MaxSpent \in Nat
  /\ Lengths \subseteq 0 .. MaxBytes
  /\ \A n \in Lengths : KS!bytes_to_blocks(n) < Modulus
  /\ \A k \in Kinds : \A c, x \in Counter :
       /\ Rounds(k, c) \in [Offsets -> Byte]
       /\ XorCtr(Rounds(k, c), x) \in [Offsets -> Byte]
-----------------------------------------------------------------------------
(* _mm_add_epi64 and the uint64_t addition both wrap; the upper half of the *)
(* register stays zero.                                                     *)
Plus(a, b) == IF a + b < Modulus THEN a + b ELSE a + b - Modulus

(* num_blocks and rem_bytes of ctr_byte_stream *)
WholeBlocks(n) == n \div block_bytes
TailBytes(n)   == n % block_bytes

(* Variant: MMO128 counts before it xors the counter. *)
CountedCtrBlock(k, c) ==
  IF k = "MMO128" THEN XorCtr(Rounds(k, c), Plus(c, 1)) ELSE Rounds(k, c)

(* What a turn of the ctr_stream loop leaves in m.  AES128 and AESPRF128    *)
(* count before the rounds, on the copy in ctr; MMO128 counts last, since   *)
(* it still xors the counter it encrypted.                                  *)
CtrBlock(k, c) ==
  CASE k \in {"AES128", "AESPRF128"} -> Rounds(k, c)
    [] k = "MMO128"                  -> XorCtr(Rounds(k, c), c)

Count ==
  /\ ctr' = Plus(ctr, 1)
  /\ uses' = [uses EXCEPT ![ctr] = @ + 1]
  /\ spent' = spent + 1

(* Variant: the tail stores its whole block. *)
StoredWhole(at, w, block) ==
  [j \in Index |-> IF at <= j /\ j < at + block_bytes THEN block[j - at] ELSE out[j]]

(* The buffer after w bytes of block are copied to out + at.                *)
Stored(at, w, block) ==
  [j \in Index |-> IF at <= j /\ j < at + w THEN block[j - at] ELSE out[j]]

Init ==
  /\ kind \in Kinds
  /\ counter = 0 /\ pc = "idle"
  /\ num_bytes = 0 /\ num_blocks = 0 /\ rem_bytes = 0
  /\ ctr = 0 /\ i = 0 /\ ret = 0
  /\ out = [j \in Index |-> Old] /\ m = NoData /\ data = NoData
  /\ base = 0 /\ spent = 0 /\ uses = [c \in Counter |-> 0]

set_counter(c) ==
  /\ pc = "idle"
  /\ counter' = c
  /\ base' = c /\ spent' = 0 /\ uses' = [x \in Counter |-> 0]
  /\ UNCHANGED <<kind, pc, call, ctr, i, ret, out, m, data>>

(* operator()(out, n) and ctr_byte_stream up to the first loop.             *)
Call(n) ==
  /\ pc = "idle"
  /\ spent + KS!bytes_to_blocks(n) <= MaxSpent
  /\ num_bytes' = n
  /\ num_blocks' = WholeBlocks(n) /\ rem_bytes' = TailBytes(n)
  /\ ctr' = counter /\ i' = 0 /\ pc' = "stream"
  /\ out' = [j \in Index |-> Old]
  /\ UNCHANGED <<kind, counter, ret, m, data, base, spent, uses>>

StreamBlock ==
  /\ pc = "stream" /\ i < num_blocks
  /\ Count
  /\ out' = Stored(block_bytes * i, block_bytes, CtrBlock(kind, ctr))
  /\ i' = i + 1
  /\ UNCHANGED <<kind, counter, pc, call, ret, m, data, base>>

(* Variants: the new counter is dropped; a block is skipped. *)
FinishStale(c) ==
  /\ counter' = counter
  /\ data' = [j \in 0 .. num_bytes - 1 |-> out'[j]]
  /\ pc' = "idle"

FinishSkipping(c) ==
  /\ counter' = Plus(c, 1)
  /\ data' = [j \in 0 .. num_bytes - 1 |-> out'[j]]
  /\ pc' = "idle"

(* operator() keeps the counter ctr_byte_stream returns. *)
Finish(c) ==
  /\ counter' = c
  /\ data' = [j \in 0 .. num_bytes - 1 |-> out'[j]]
  /\ pc' = "idle"

(* The first ctr_stream returns num_blocks + start_count; a tail starts the *)
(* second one there.                                                        *)
StreamReturn ==
  /\ pc = "stream" /\ i = num_blocks
  /\ ret' = Plus(counter, num_blocks)
  /\ UNCHANGED <<kind, call, i, out, m, base, spent, uses>>
  /\ IF rem_bytes > 0
       THEN ctr' = ret' /\ pc' = "tail" /\ UNCHANGED <<counter, data>>
       ELSE Finish(ret') /\ UNCHANGED ctr

TailBlock ==
  /\ pc = "tail"
  /\ Count
  /\ m' = CtrBlock(kind, ctr)
  /\ ret' = Plus(ret, 1)
  /\ pc' = "copy"
  /\ UNCHANGED <<kind, counter, call, i, out, data, base>>

CopyTail ==
  /\ pc = "copy"
  /\ out' = Stored(block_bytes * num_blocks, rem_bytes, m)
  /\ Finish(ret)
  /\ UNCHANGED <<kind, call, ctr, i, ret, m, base, spent, uses>>

Next ==
  \/ \E c \in Counter : set_counter(c)
  \/ \E n \in Lengths : Call(n)
  \/ StreamBlock \/ StreamReturn \/ TailBlock \/ CopyTail

Spec == Init /\ [][Next]_vars
-----------------------------------------------------------------------------
TypeOK ==
  /\ kind \in Kinds
  /\ counter \in Counter /\ ctr \in Counter /\ ret \in Counter /\ base \in Counter
  /\ pc \in {"idle", "stream", "tail", "copy"}
  /\ num_bytes \in 0 .. MaxBytes
  /\ num_blocks = WholeBlocks(num_bytes) /\ rem_bytes = TailBytes(num_bytes)
  /\ KS!bytes_to_blocks(num_bytes) < Modulus
  /\ i \in 0 .. num_blocks
  /\ out \in [Index -> Byte \cup {Old}]
  /\ pc = "copy" => m \in [Offsets -> Byte]
  /\ spent \in Nat /\ uses \in [Counter -> Nat]

(* A call hands out the keystream bytes from its counter on and moves the   *)
(* counter past them, in one step as far as its caller can tell.            *)
Implements == KS!Spec

(* Between two set_counter calls no counter is encrypted twice for as long  *)
(* as at most Modulus blocks are made, however calls and tails cut them.    *)
NoReuse == spent <= Modulus => \A c \in Counter : uses[c] <= 1

(* Where the stream stands: each of the three copies of the counter is the  *)
(* one in force at its moment, and is the counter set plus what was spent.  *)
Position == CASE pc = "idle" -> counter [] pc \in {"stream", "tail"} -> ctr [] pc = "copy" -> ret

CountersAgree == spent <= Modulus => Position = Plus(base, spent)

(* No byte of the buffer past num_bytes is written, at any moment.          *)
OnlyNumBytes == \A j \in Index : j >= num_bytes => out[j] = Old
-----------------------------------------------------------------------------
(* What holds inside a call: the bytes stored so far are keystream bytes,   *)
(* and each copy of the counter is the member plus the blocks it is past.   *)
Prefix(len) ==
  \A j \in Index : j < len => out[j] = KS!KeyByte(kind, counter, j)

CallInv ==
  /\ pc = "stream" => /\ ctr = Plus(counter, i)
                      /\ Prefix(block_bytes * i)
  /\ pc \in {"tail", "copy"} => rem_bytes > 0 /\ Prefix(block_bytes * num_blocks)
  /\ pc = "tail" => ctr = Plus(counter, num_blocks) /\ ret = ctr
  /\ pc = "copy" => /\ ret = Plus(counter, num_blocks + 1)
                    /\ m = CtrBlock(kind, Plus(counter, num_blocks))

(* How far counter c lies after base.                                       *)
Distance(c) == IF c >= base THEN c - base ELSE c - base + Modulus

UsesInv ==
  spent <= Modulus =>
    \A c \in Counter : uses[c] = IF Distance(c) < spent THEN 1 ELSE 0

IInv == TypeOK /\ CallInv /\ CountersAgree /\ UsesInv /\ OnlyNumBytes
=============================================================================
