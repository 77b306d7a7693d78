-------------------------- MODULE CtrStream_proof ---------------------------
(***************************************************************************)
(* For every counter width and every sequence of calls: the generators     *)
(* implement the atomic keystream of Keystream.tla, and no counter is      *)
(* encrypted twice before Modulus blocks have been made.                   *)
(***************************************************************************)
EXTENDS CtrStream, TLAPS

LEMMA ByteAt ==
  ASSUME NEW b \in Nat, NEW j \in Nat, 16 * b <= j, j < 16 * b + 16
  PROVE  j \div 16 = b /\ j % 16 = j - 16 * b
OBVIOUS

(* The lengths of ctr_byte_stream add up, and bytes_to_blocks counts the    *)
(* tail as a block.                                                         *)
LEMMA Cut ==
  ASSUME NEW n \in Nat
  PROVE  /\ WholeBlocks(n) \in Nat /\ TailBytes(n) \in 0 .. 15
         /\ n = 16 * WholeBlocks(n) + TailBytes(n)
         /\ KS!bytes_to_blocks(n) =
              IF TailBytes(n) = 0 THEN WholeBlocks(n) ELSE WholeBlocks(n) + 1
<1>1. n \div 16 \in Nat /\ n % 16 \in 0 .. 15 /\ n = 16 * (n \div 16) + (n % 16)
  OBVIOUS
<1> QED BY <1>1 DEF WholeBlocks, TailBytes, block_bytes, KS!bytes_to_blocks, KS!block_bytes

LEMMA PlusType ==
  ASSUME NEW a \in Counter, NEW b \in Nat, b <= Modulus
  PROVE  Plus(a, b) \in Counter
BY BufferAssumption DEF Plus, Counter

LEMMA PlusNext ==
  ASSUME NEW a \in Counter, NEW b \in Nat, b < Modulus
  PROVE  Plus(Plus(a, b), 1) = Plus(a, b + 1)
BY BufferAssumption DEF Plus, Counter

LEMMA PlusZero == ASSUME NEW a \in Counter PROVE Plus(a, 0) = a
BY BufferAssumption DEF Plus, Counter

LEMMA CtrBlockIsPrf ==
  ASSUME NEW k \in Kinds, NEW c \in Counter
  PROVE  CtrBlock(k, c) = KS!Prf(k, c) /\ CtrBlock(k, c) \in [Offsets -> Byte]
BY BufferAssumption DEF CtrBlock, KS!Prf, Kinds

(* What a call knows of its lengths. *)
LEMMA LengthFacts ==
  ASSUME TypeOK
  PROVE  /\ num_bytes \in Nat /\ num_blocks \in Nat /\ rem_bytes \in 0 .. 15
         /\ num_bytes = 16 * num_blocks + rem_bytes
         /\ num_blocks < Modulus /\ (rem_bytes > 0 => num_blocks + 1 < Modulus)
         /\ KS!bytes_to_blocks(num_bytes) =
              IF rem_bytes = 0 THEN num_blocks ELSE num_blocks + 1
<1>1. num_bytes \in Nat
  BY BufferAssumption DEF TypeOK
<1> QED BY <1>1, Cut, BufferAssumption DEF TypeOK

(* A block stored at its place makes the next sixteen keystream bytes.      *)
LEMMA StoredBytes ==
  ASSUME TypeOK, NEW b \in Nat, NEW w \in 0 .. 16, NEW block,
         block = CtrBlock(kind, Plus(counter, b)), b <= Modulus,
         Prefix(16 * b)
  PROVE  \A j \in Index : j < 16 * b + w =>
           Stored(16 * b, w, block)[j] = KS!KeyByte(kind, counter, j)
<1> SUFFICES ASSUME NEW j \in Index, j < 16 * b + w
             PROVE  Stored(16 * b, w, block)[j] = KS!KeyByte(kind, counter, j)
  OBVIOUS
<1>1. j \in Nat
  BY BufferAssumption DEF Index
<1>2. CASE j < 16 * b
  BY <1>2, <1>1 DEF Stored, Prefix
<1>3. CASE 16 * b <= j
  <2>1. j \div 16 = b /\ j % 16 = j - 16 * b
    BY <1>1, <1>3, ByteAt
  <2>2. Stored(16 * b, w, block)[j] = block[j - 16 * b]
    BY <1>3 DEF Stored
  <2>3. Plus(counter, b) \in Counter /\ KS!WrapAdd(counter, b) = Plus(counter, b)
    BY PlusType DEF TypeOK, Plus, KS!WrapAdd
  <2>4. block = KS!Prf(kind, Plus(counter, b))
    BY <2>3, CtrBlockIsPrf DEF TypeOK
  <2> QED BY <2>1, <2>2, <2>3, <2>4 DEF KS!KeyByte, KS!block_bytes
<1> QED BY <1>1, <1>2, <1>3
-----------------------------------------------------------------------------
LEMMA StoredType ==
  ASSUME TypeOK, NEW at \in Nat, NEW w \in 0 .. 16, NEW block \in [Offsets -> Byte]
  PROVE  Stored(at, w, block) \in [Index -> Byte \cup {Old}]
<1>1. ASSUME NEW j \in Index, at <= j, j < at + w PROVE block[j - at] \in Byte
  <2>1. j - at \in Offsets
    BY <1>1, BufferAssumption DEF Index, Offsets, block_bytes
  <2> QED BY <2>1
<1> QED BY <1>1 DEF Stored, TypeOK

LEMMA CountType ==
  ASSUME TypeOK, Count
  PROVE  ctr' \in Counter /\ spent' \in Nat /\ uses' \in [Counter -> Nat]
<1>1. ctr' \in Counter
  BY PlusType, BufferAssumption DEF Count, TypeOK
<1>2. uses[ctr] + 1 \in Nat
  BY DEF TypeOK
<1> QED BY <1>1, <1>2 DEF Count, TypeOK

(* The type invariant, which needs that a length is below Modulus blocks.   *)
LEMMA StepTypeOK == ASSUME TypeOK, CallInv, [Next]_vars PROVE TypeOK'
<1>1. ASSUME NEW c \in Counter, set_counter(c) PROVE TypeOK'
  BY <1>1 DEF set_counter, call, TypeOK
<1>2. ASSUME NEW n \in Lengths, Call(n) PROVE TypeOK'
  <2>1. n \in 0 .. MaxBytes /\ KS!bytes_to_blocks(n) < Modulus /\ WholeBlocks(n) \in Nat
    BY Cut, BufferAssumption
  <2> QED BY <1>2, <2>1 DEF Call, TypeOK
<1>3. CASE StreamBlock
  <2>1. ctr' \in Counter /\ spent' \in Nat /\ uses' \in [Counter -> Nat]
    BY <1>3, CountType DEF StreamBlock
  <2>2. CtrBlock(kind, ctr) \in [Offsets -> Byte] /\ 16 * i \in Nat
    BY CtrBlockIsPrf, LengthFacts DEF TypeOK
  <2>3. out' \in [Index -> Byte \cup {Old}]
    BY <1>3, <2>2, StoredType DEF StreamBlock, block_bytes
  <2>4. i' \in 0 .. num_blocks
    BY <1>3, LengthFacts DEF StreamBlock, TypeOK
  <2> QED BY <1>3, <2>1, <2>3, <2>4 DEF StreamBlock, call, TypeOK
<1>4. CASE StreamReturn
  <2>1. ret' \in Counter
    <3>1. ret' = Plus(counter, num_blocks) /\ counter \in Counter
      BY <1>4 DEF StreamReturn, TypeOK
    <3> QED BY <3>1, PlusType, LengthFacts, BufferAssumption
  <2> QED BY <1>4, <2>1 DEF StreamReturn, Finish, call, TypeOK
<1>5. CASE TailBlock
  <2>1. ctr' \in Counter /\ spent' \in Nat /\ uses' \in [Counter -> Nat]
    BY <1>5, CountType DEF TailBlock
  <2>2. CtrBlock(kind, ctr) \in [Offsets -> Byte]
    BY CtrBlockIsPrf DEF TypeOK
  <2>3. ret' \in Counter
    <3>1. ret' = Plus(ret, 1)
      BY <1>5 DEF TailBlock
    <3> QED BY <3>1, PlusType, BufferAssumption DEF TypeOK
  <2> QED BY <1>5, <2>1, <2>2, <2>3 DEF TailBlock, call, TypeOK
<1>6. CASE CopyTail
  <2>1. out' \in [Index -> Byte \cup {Old}]
    BY <1>6, StoredType, LengthFacts DEF CopyTail, TypeOK, block_bytes
  <2> QED BY <1>6, <2>1 DEF CopyTail, Finish, call, TypeOK
<1>7. CASE UNCHANGED vars
  BY <1>7 DEF vars, call, TypeOK
<1> QED BY <1>1, <1>2, <1>3, <1>4, <1>5, <1>6, <1>7 DEF Next

LEMMA StepCallInv == ASSUME TypeOK, CallInv, [Next]_vars PROVE CallInv'
<1>1. ASSUME NEW c \in Counter, set_counter(c) PROVE CallInv'
  BY <1>1 DEF set_counter, CallInv
<1>2. ASSUME NEW n \in Lengths, Call(n) PROVE CallInv'
  <2>1. ctr' = Plus(counter', i')
    BY <1>2, PlusZero DEF Call, TypeOK
  <2>2. \A j \in Index : ~(j < 16 * i')
    BY <1>2, BufferAssumption DEF Call, Index
  <2> QED BY <1>2, <2>1, <2>2 DEF Call, CallInv, Prefix, block_bytes
<1>3. CASE StreamBlock
  <2>1. /\ pc = "stream" /\ i \in Nat /\ i < num_blocks /\ i' = i + 1
        /\ kind' = kind /\ counter' = counter /\ pc' = pc /\ num_blocks < Modulus
        /\ ctr = Plus(counter, i) /\ Prefix(16 * i)
    BY <1>3, LengthFacts DEF StreamBlock, CallInv, TypeOK, block_bytes
  <2>2. ctr' = Plus(counter, i + 1)
    <3>1. ctr' = Plus(ctr, 1)
      BY <1>3 DEF StreamBlock, Count
    <3>2. counter \in Counter /\ i < Modulus
      BY <2>1, LengthFacts, BufferAssumption DEF TypeOK
    <3> QED BY <2>1, <3>1, <3>2, PlusNext
  <2>3. \A j \in Index : j < 16 * i + 16 => out'[j] = KS!KeyByte(kind, counter, j)
    <3>1. out' = Stored(16 * i, 16, CtrBlock(kind, ctr))
      BY <1>3 DEF StreamBlock, block_bytes
    <3>2. i <= Modulus
      BY <2>1, LengthFacts, BufferAssumption
    <3> HIDE DEF Stored
    <3> QED BY <2>1, <3>1, <3>2, StoredBytes
  <2>4. Prefix(16 * i)'
    <3>1. 16 * i' = 16 * i + 16
      BY <2>1
    <3> QED BY <2>1, <2>3, <3>1 DEF Prefix
  <2> QED BY <2>1, <2>2, <2>4 DEF CallInv, block_bytes
<1>4. CASE StreamReturn
  BY <1>4, LengthFacts DEF StreamReturn, Finish, call, CallInv, Prefix, block_bytes
<1>5. CASE TailBlock
  <2>1. /\ ret = Plus(counter, num_blocks) /\ ctr = ret /\ num_blocks \in Nat
        /\ num_blocks < Modulus
    BY <1>5, LengthFacts DEF TailBlock, CallInv
  <2>2. ret' = Plus(counter, num_blocks + 1)
    BY <1>5, <2>1, PlusNext, BufferAssumption DEF TailBlock, TypeOK
  <2> QED BY <1>5, <2>1, <2>2 DEF TailBlock, call, CallInv, Prefix
<1>6. CASE CopyTail
  BY <1>6 DEF CopyTail, Finish, CallInv
<1>7. CASE UNCHANGED vars
  BY <1>7 DEF vars, call, CallInv, Prefix
<1> QED BY <1>1, <1>2, <1>3, <1>4, <1>5, <1>6, <1>7 DEF Next

(* Encrypting one more counter: the next one after base + spent.            *)
LEMMA CountUses ==
  ASSUME TypeOK, UsesInv, ctr = Plus(base, spent) \/ spent >= Modulus, Count,
         base' = base
  PROVE  /\ UsesInv'
         /\ spent' <= Modulus => ctr' = Plus(base, spent')
<1> SUFFICES ASSUME spent + 1 <= Modulus
             PROVE  /\ \A c \in Counter : uses'[c] = IF Distance(c) < spent + 1 THEN 1 ELSE 0
                    /\ ctr' = Plus(base, spent + 1)
  BY DEF Count, UsesInv, Distance, TypeOK
<1>1. spent \in Nat /\ base \in Counter /\ ctr = Plus(base, spent)
  BY BufferAssumption DEF TypeOK
<1>2. ctr' = Plus(base, spent + 1)
  BY <1>1, PlusNext, BufferAssumption DEF Count
<1>3. ASSUME NEW c \in Counter
      PROVE  uses'[c] = IF Distance(c) < spent + 1 THEN 1 ELSE 0
  <2>1. c = ctr <=> Distance(c) = spent
    BY <1>1, BufferAssumption DEF Distance, Plus, Counter
  <2>2. uses[c] = IF Distance(c) < spent THEN 1 ELSE 0
    BY <1>1, BufferAssumption DEF UsesInv
  <2>3. Distance(c) \in Int
    BY <1>1, BufferAssumption DEF Distance, Counter
  <2>4. uses'[c] = IF c = ctr THEN uses[c] + 1 ELSE uses[c]
    BY DEF Count, TypeOK
  <2> QED BY <2>1, <2>2, <2>3, <2>4, <1>1
<1> QED BY <1>2, <1>3

LEMMA StepUses ==
  ASSUME TypeOK, CallInv, CountersAgree, UsesInv, [Next]_vars
  PROVE  CountersAgree' /\ UsesInv'
<1>1. ASSUME NEW c \in Counter, set_counter(c) PROVE CountersAgree' /\ UsesInv'
  <2>1. counter' = Plus(base', spent')
    BY <1>1, PlusZero DEF set_counter
  <2>2. \A x \in Counter : uses'[x] = 0 /\ ~(Distance(x)' < spent')
    BY <1>1, BufferAssumption DEF set_counter, Distance, Counter
  <2> QED BY <1>1, <2>1, <2>2 DEF set_counter, CountersAgree, UsesInv, Position
<1>2. ASSUME NEW n \in Lengths, Call(n) PROVE CountersAgree' /\ UsesInv'
  BY <1>2 DEF Call, CountersAgree, UsesInv, Position, Distance
<1>3. CASE StreamBlock
  <2>1. ctr = Plus(base, spent) \/ spent >= Modulus
    BY <1>3, BufferAssumption DEF StreamBlock, CountersAgree, Position, TypeOK
  <2>2. UsesInv' /\ (spent' <= Modulus => ctr' = Plus(base, spent'))
    BY <1>3, <2>1, CountUses DEF StreamBlock
  <2> QED BY <1>3, <2>2 DEF StreamBlock, CountersAgree, Position
<1>4. CASE StreamReturn
  <2>1. ret' = ctr /\ spent' = spent /\ base' = base /\ uses' = uses
    BY <1>4 DEF StreamReturn, CallInv
  <2> QED BY <1>4, <2>1 DEF StreamReturn, Finish, CountersAgree, UsesInv, Distance, Position
<1>5. CASE TailBlock
  <2>1. ctr = Plus(base, spent) \/ spent >= Modulus
    BY <1>5, BufferAssumption DEF TailBlock, CountersAgree, Position, TypeOK
  <2>2. UsesInv' /\ (spent' <= Modulus => ctr' = Plus(base, spent'))
    BY <1>5, <2>1, CountUses DEF TailBlock
  <2>3. ret' = ctr'
    BY <1>5 DEF TailBlock, CallInv, Count
  <2> QED BY <1>5, <2>2, <2>3 DEF TailBlock, CountersAgree, Position
<1>6. CASE CopyTail
  BY <1>6 DEF CopyTail, Finish, CountersAgree, UsesInv, Distance, Position
<1>7. CASE UNCHANGED vars
  BY <1>7 DEF vars, CountersAgree, UsesInv, Distance, Position
<1> QED BY <1>1, <1>2, <1>3, <1>4, <1>5, <1>6, <1>7 DEF Next

LEMMA StepOnlyNumBytes ==
  ASSUME TypeOK, OnlyNumBytes, [Next]_vars PROVE OnlyNumBytes'
<1>1. ASSUME NEW c \in Counter, set_counter(c) PROVE OnlyNumBytes'
  BY <1>1 DEF set_counter, call, OnlyNumBytes
<1>2. ASSUME NEW n \in Lengths, Call(n) PROVE OnlyNumBytes'
  BY <1>2 DEF Call, OnlyNumBytes
<1>3. CASE StreamBlock
  <2>1. 16 * i + 16 <= num_bytes /\ num_bytes' = num_bytes
    BY <1>3, LengthFacts DEF StreamBlock, call, TypeOK
  <2>2. \A j \in Index : j >= num_bytes => out'[j] = out[j]
    BY <1>3, <2>1, LengthFacts, BufferAssumption DEF StreamBlock, Stored, Index, block_bytes, TypeOK
  <2> QED BY <2>1, <2>2 DEF OnlyNumBytes
<1>4. CASE StreamReturn \/ TailBlock \/ UNCHANGED vars
  BY <1>4 DEF StreamReturn, TailBlock, vars, call, OnlyNumBytes
<1>5. CASE CopyTail
  <2>1. 16 * num_blocks + rem_bytes = num_bytes /\ num_bytes' = num_bytes
    BY <1>5, LengthFacts DEF CopyTail, call
  <2>2. \A j \in Index : j >= num_bytes => out'[j] = out[j]
    BY <1>5, <2>1, LengthFacts, BufferAssumption DEF CopyTail, Stored, Index, block_bytes
  <2> QED BY <2>1, <2>2 DEF OnlyNumBytes
<1> QED BY <1>1, <1>2, <1>3, <1>4, <1>5 DEF Next
-----------------------------------------------------------------------------
LEMMA InitIInv == Init => IInv
<1> SUFFICES ASSUME Init PROVE IInv
  OBVIOUS
<1>1. TypeOK
  <2>1. WholeBlocks(0) = 0 /\ TailBytes(0) = 0 /\ KS!bytes_to_blocks(0) = 0
    BY Cut DEF WholeBlocks, TailBytes, block_bytes
  <2>2. 0 \in Counter
    BY BufferAssumption DEF Counter
  <2> QED BY <2>1, <2>2, BufferAssumption DEF Init, TypeOK
<1>2. CallInv /\ OnlyNumBytes
  BY DEF Init, CallInv, OnlyNumBytes
<1>3. CountersAgree
  BY <1>1, PlusZero DEF Init, CountersAgree, Position, TypeOK
<1>4. UsesInv
  BY BufferAssumption DEF Init, UsesInv, Distance, Counter
<1> QED BY <1>1, <1>2, <1>3, <1>4 DEF IInv

(* The inductive invariant of the generators.                               *)
THEOREM Inductive == Spec => []IInv
<1>1. IInv /\ [Next]_vars => IInv'
  BY StepTypeOK, StepCallInv, StepUses, StepOnlyNumBytes DEF IInv
<1> QED BY <1>1, InitIInv, PTL DEF Spec

(* No counter is used for two blocks before the counter has wrapped round.  *)
THEOREM NoReuseCorrect == Spec => []NoReuse
<1>1. IInv => NoReuse
  BY DEF IInv, UsesInv, NoReuse
<1> QED BY <1>1, Inductive, PTL

(* Every counter, pointer and position of a call has its type.              *)
THEOREM TypeCorrect == Spec => []TypeOK
<1>1. IInv => TypeOK
  BY DEF IInv
<1> QED BY <1>1, Inductive, PTL

(* The member, the register and the return value name the same counter.     *)
THEOREM CountersCorrect == Spec => []CountersAgree
<1>1. IInv => CountersAgree
  BY DEF IInv
<1> QED BY <1>1, Inductive, PTL

(* No byte past num_bytes is written.                                       *)
THEOREM FrameCorrect == Spec => []OnlyNumBytes
<1>1. IInv => OnlyNumBytes
  BY DEF IInv
<1> QED BY <1>1, Inductive, PTL

LEMMA FinishGenerates ==
  ASSUME TypeOK, Finish(Plus(counter, KS!bytes_to_blocks(num_bytes))), kind' = kind,
         \A j \in Index : j < num_bytes => out'[j] = KS!KeyByte(kind, counter, j)
  PROVE  KS!Generate(num_bytes)
<1>1. counter' = KS!WrapAdd(counter, KS!bytes_to_blocks(num_bytes))
  BY DEF Finish, Plus, KS!WrapAdd
<1>2. data' = [j \in 0 .. num_bytes - 1 |-> KS!KeyByte(kind, counter, j)]
  <2>1. \A j \in 0 .. num_bytes - 1 : j \in Index /\ j < num_bytes
    BY BufferAssumption DEF TypeOK, Index
  <2> QED BY <2>1 DEF Finish
<1> QED BY <1>1, <1>2 DEF KS!Generate

(* Every step of the generators is a step of the keystream or changes       *)
(* nothing a caller of it can see.                                          *)
LEMMA StepRefines ==
  ASSUME IInv, num_bytes \in Lengths \/ pc = "idle", [Next]_vars
  PROVE  KS!Next \/ UNCHANGED <<kind, counter, data>>
<1> USE DEF IInv
<1>1. ASSUME NEW c \in Counter, set_counter(c) PROVE KS!Next
  BY <1>1 DEF set_counter, KS!Next, KS!SetCounter, KS!Counter, Counter
<1>2. CASE StreamReturn
  <2>1. CASE rem_bytes = 0
    <3>1. num_bytes = 16 * num_blocks /\ KS!bytes_to_blocks(num_bytes) = num_blocks
      BY <2>1, LengthFacts
    <3>2. /\ Finish(Plus(counter, num_blocks)) /\ kind' = kind /\ pc = "stream"
          /\ out' = out /\ i = num_blocks
      BY <1>2, <2>1 DEF StreamReturn
    <3>3. \A j \in Index : j < num_bytes => out'[j] = KS!KeyByte(kind, counter, j)
      BY <3>1, <3>2 DEF CallInv, Prefix, block_bytes
    <3>4. KS!Generate(num_bytes)
      BY <3>1, <3>2, <3>3, FinishGenerates
    <3> QED BY <3>2, <3>4 DEF KS!Next
  <2>2. CASE rem_bytes # 0
    <3>1. rem_bytes > 0
      BY <2>2, LengthFacts
    <3> QED BY <1>2, <3>1 DEF StreamReturn
  <2> QED BY <2>1, <2>2
<1>3. CASE CopyTail
  <2>1. /\ pc = "copy" /\ Finish(Plus(counter, num_blocks + 1)) /\ kind' = kind
        /\ rem_bytes > 0 /\ Prefix(16 * num_blocks)
        /\ out' = Stored(16 * num_blocks, rem_bytes, m)
        /\ m = CtrBlock(kind, Plus(counter, num_blocks))
    BY <1>3 DEF CopyTail, CallInv, block_bytes
  <2>2. /\ num_blocks \in Nat /\ num_blocks <= Modulus /\ rem_bytes \in 0 .. 16
        /\ num_bytes = 16 * num_blocks + rem_bytes
        /\ KS!bytes_to_blocks(num_bytes) = num_blocks + 1
    BY <2>1, LengthFacts, BufferAssumption
  <2>3. \A j \in Index : j < num_bytes => out'[j] = KS!KeyByte(kind, counter, j)
    <3> HIDE DEF Stored
    <3> QED BY <2>1, <2>2, StoredBytes
  <2>4. KS!Generate(num_bytes)
    BY <2>1, <2>2, <2>3, FinishGenerates
  <2> QED BY <2>1, <2>4 DEF KS!Next
<1>4. CASE UNCHANGED vars
  BY <1>4 DEF vars
<1>5. CASE ~(\E c \in Counter : set_counter(c)) /\ ~StreamReturn /\ ~CopyTail /\ ~UNCHANGED vars
  BY <1>5 DEF Next, Call, StreamBlock, TailBlock
<1> QED BY <1>1, <1>2, <1>3, <1>4, <1>5

(* A length stays one the caller passed for as long as its call runs.       *)
LEMMA StepLength ==
  ASSUME num_bytes \in Lengths \/ pc = "idle", [Next]_vars
  PROVE  (num_bytes \in Lengths \/ pc = "idle")'
BY DEF Next, vars, call, set_counter, Call, StreamBlock, StreamReturn, TailBlock, CopyTail, Finish

(* The counter-mode generators implement the atomic keystream.              *)
THEOREM Refinement == Spec => Implements
<1>1. Init => KS!Init
  BY DEF Init, KS!Init
<1>2. Init => num_bytes \in Lengths \/ pc = "idle"
  BY DEF Init
<1>3. Spec => [](num_bytes \in Lengths \/ pc = "idle")
  BY <1>2, StepLength, PTL DEF Spec
<1>4. IInv /\ (num_bytes \in Lengths \/ pc = "idle") /\ [Next]_vars
        => [KS!Next]_<<kind, counter, data>>
  BY StepRefines
<1> QED BY <1>1, <1>3, <1>4, Inductive, PTL DEF Spec, Implements, KS!Spec
=============================================================================
