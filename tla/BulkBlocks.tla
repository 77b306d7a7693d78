----------------------------- MODULE BulkBlocks -----------------------------
(***************************************************************************)
(* The calls that process num_blocks blocks: AES128::enc and dec and       *)
(* hash_impl, four blocks at a time with a remainder loop, and the bulk    *)
(* operator() of MMO128 and AESPRF128, one at a time.  in and out are      *)
(* untyped pointers, so here both are positions in one memory of blocks    *)
(* and may overlap.  What one block becomes is AES128.tla's concern.       *)
(***************************************************************************)
EXTENDS Integers

CONSTANTS
  Value,          \* the contents of a 16-byte block of memory
  MemSize,        \* the number of blocks of memory
  Memories,       \* the contents a caller may start from
  Cipher(_, _),   \* the rounds of a member function on one register
  XorV(_, _),     \* _mm_xor_si128 on two registers
  MaxCalls        \* bound on the calls of a run

Addr == 0 .. MemSize - 1

QuadOps   == {"enc", "dec", "hash"}
SingleOps == {"mmo", "prf"}
Ops       == QuadOps \cup SingleOps

ASSUME MemAssumption ==
  /\ MemSize \in Nat \ {0}
  /\ MaxCalls \in Nat
  /\ Memories \subseteq [Addr -> Value]
  /\ \A o \in Ops : \A v \in Value : Cipher(o, v) \in Value
  /\ \A v, w \in Value : XorV(v, w) \in Value

VARIABLES
  mem,       \* the memory both pointers point into
  mem0,      \* history: the memory when the call began
  member,    \* the member function that runs
  src, dst,  \* p_in and p_out
  num_blocks, num_blocks_q, num_blocks_r,
  turn,      \* the index of the loop that runs
  at,        \* "idle", "quads" or "rest"
  calls      \* calls made so far

call == <<member, src, dst, num_blocks, num_blocks_q, num_blocks_r>>
bulk == <<mem, mem0, call, turn, at, calls>>
-----------------------------------------------------------------------------
(* One register: load x, run the rounds, and for the two hashes xor with    *)
(* the input block, which hash_impl's quads and MMO128 read again (y).      *)
BlockOut(o, x, y) ==
  IF o \in {"hash", "mmo"} THEN XorV(Cipher(o, x), y) ELSE Cipher(o, x)

(* Variant: a remainder one long. *)
RestLong(o, len) == IF o \in QuadOps THEN (len % 4) + 1 ELSE len + 1

(* The quads loop and where the remainder begins. *)
NumQuads(o, len) == IF o \in QuadOps THEN len \div 4 ELSE 0
Rest(o, len)     == IF o \in QuadOps THEN len % 4 ELSE len

(* Blocks already done. *)
Pos == IF at = "quads" THEN 4 * turn ELSE 4 * num_blocks_q + turn

(* w blocks are stored at p_out + p. *)
Stored(p, w, regs) ==
  [k \in Addr |-> IF dst + p <= k /\ k < dst + p + w THEN regs[k - dst] ELSE mem[k]]

(* Variant: the rounds are stored before the input is read again. *)
SecondReadLate(p, w) ==
  Stored(p, w, [j \in p .. p + w - 1 |-> Cipher(member, mem[src + j])])

(* The memory that the second read of a turn sees: no store has come yet. *)
SecondRead(p, w) == mem

(* A turn: w blocks are loaded at p_in + p, go through the rounds, and are  *)
(* stored.  The remainder of hash_impl keeps its load and reads no second.  *)
Process(p, w) ==
  LET kept == member = "hash" /\ at = "rest"
      again(j) == IF kept THEN mem[src + j] ELSE SecondRead(p, w)[src + j]
  IN  mem' = Stored(p, w, [j \in p .. p + w - 1 |-> BlockOut(member, mem[src + j], again(j))])

BulkInit ==
  /\ mem \in Memories /\ mem0 = mem
  /\ member = "enc"
  /\ src = 0 /\ dst = 0 /\ num_blocks = 0 /\ num_blocks_q = 0 /\ num_blocks_r = 0
  /\ turn = 0 /\ at = "idle" /\ calls = 0

(* The caller owns n blocks at each pointer. *)
Call(o, a, b, len) ==
  /\ at = "idle" /\ calls < MaxCalls
  /\ a + len <= MemSize /\ b + len <= MemSize
  /\ member' = o /\ src' = a /\ dst' = b /\ num_blocks' = len
  /\ num_blocks_q' = NumQuads(o, len) /\ num_blocks_r' = Rest(o, len)
  /\ turn' = 0 /\ at' = "quads" /\ mem0' = mem /\ calls' = calls + 1
  /\ UNCHANGED mem

QuadStep ==
  /\ at = "quads" /\ turn < num_blocks_q
  /\ Process(4 * turn, 4)
  /\ turn' = turn + 1
  /\ UNCHANGED <<mem0, call, at, calls>>

QuadsDone ==
  /\ at = "quads" /\ turn = num_blocks_q
  /\ turn' = 0 /\ at' = "rest"
  /\ UNCHANGED <<mem, mem0, call, calls>>

RestStep ==
  /\ at = "rest" /\ turn < num_blocks_r
  /\ Process(4 * num_blocks_q + turn, 1)
  /\ turn' = turn + 1
  /\ UNCHANGED <<mem0, call, at, calls>>

Return ==
  /\ at = "rest" /\ turn = num_blocks_r
  /\ at' = "idle"
  /\ UNCHANGED <<mem, mem0, call, turn, calls>>

BulkNext ==
  \/ \E o \in Ops, a, b \in Addr, len \in 0 .. MemSize : Call(o, a, b, len)
  \/ QuadStep \/ QuadsDone \/ RestStep \/ Return

BulkSpec == BulkInit /\ [][BulkNext]_bulk
-----------------------------------------------------------------------------
BulkTypeOK ==
  /\ mem \in [Addr -> Value] /\ mem0 \in [Addr -> Value]
  /\ member \in Ops
  /\ src \in Nat /\ dst \in Nat /\ num_blocks \in Nat
  /\ src + num_blocks <= MemSize /\ dst + num_blocks <= MemSize
  /\ num_blocks_q \in Nat /\ num_blocks_r \in Nat /\ turn \in Nat
  /\ at \in {"idle", "quads", "rest"}
  /\ calls \in Nat

(* In place, disjoint, or moved towards lower addresses: the layouts for    *)
(* which reading ahead of the writes is enough.                             *)
SafeLayout == dst <= src \/ src + num_blocks <= dst

Returned == at = "idle" /\ calls > 0

(* A bulk call is the block function on each block of its input: no block   *)
(* is skipped or done twice where the quads end, and the second read of the *)
(* hashes still sees the input, in place too.                               *)
EachBlockOnce ==
  Returned /\ SafeLayout =>
    \A j \in 0 .. num_blocks - 1 :
      mem[dst + j] = BlockOut(member, mem0[src + j], mem0[src + j])

(* At no moment has a call written outside the num_blocks blocks at out.    *)
OnlyOutput ==
  \A k \in Addr : ~(dst <= k /\ k < dst + num_blocks) => mem[k] = mem0[k]
-----------------------------------------------------------------------------
(* What both loops keep: the blocks before Pos are done, the others are     *)
(* as the caller left them.                                                 *)
LoopInv ==
  /\ 4 * num_blocks_q + num_blocks_r = num_blocks
  /\ at = "quads" => turn <= num_blocks_q
  /\ at = "rest" => turn <= num_blocks_r
  /\ at = "idle" => turn = num_blocks_r

Done ==
  /\ \A k \in Addr : ~(dst <= k /\ k < dst + Pos) => mem[k] = mem0[k]
  /\ SafeLayout => \A j \in 0 .. num_blocks - 1 : j < Pos =>
       mem[dst + j] = BlockOut(member, mem0[src + j], mem0[src + j])

BulkInv == BulkTypeOK /\ LoopInv /\ Done
=============================================================================
