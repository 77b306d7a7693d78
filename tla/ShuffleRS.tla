----------------------------- MODULE ShuffleRS ------------------------------
(***************************************************************************)
(* shuffle_RS of src/include/clt/shuffle.hpp: split the array by random    *)
(* bits, shuffle both parts by recursive calls, join them.  The calls in   *)
(* progress are an explicit stack.  The same array is shuffled again and   *)
(* again, with rng_global as in bench_shuffle_rs.cpp, a device that may    *)
(* fail, and once it failed stays so.                                      *)
(***************************************************************************)
EXTENDS Integers, SequencesExt

CONSTANTS
  Arrays,     \* what the caller's vector may hold at first
  CHAR_BIT,   \* bits in a byte
  ElemBytes,  \* sizeof(uint64_t)
  MaxDepth    \* bound: calls in progress before a one-sided split stays in place

ASSUME RSAssumption ==
  /\ \A a \in Arrays : a \in Seq(ToSet(a)) /\ Len(a) > 0   \* assert(n > 0)
  /\ CHAR_BIT \in Nat \ {0} /\ ElemBytes \in Nat \ {0} /\ MaxDepth \in Nat

VARIABLES
  array,   \* the vector of the outermost caller
  stack,   \* the calls in progress, the innermost last
  rs,      \* the random bits of the innermost call
  good     \* the state of the device

vars == <<array, stack, rs, good>>

(* A call: its vector, the two parts and the place where it goes on.        *)
Entered(a) == [inplace |-> a, lhs |-> <<>>, rhs |-> <<>>, pc |-> "enter"]

Running == stack # <<>>
Top     == Last(stack)
At(pc)  == Running /\ Top.pc = pc
N       == Len(Top.inplace)
-----------------------------------------------------------------------------
int_ceiling(n, d) == IF n % d = 0 THEN n \div d ELSE n \div d + 1

ElemBits     == ElemBytes * CHAR_BIT
num_bytes(n) == int_ceiling(n, CHAR_BIT)
num_elems(n) == int_ceiling(n, ElemBits)

(* rs is a vector of zeros before the rng writes its first num_bytes bytes, *)
(* the lowest bytes of an element first.                                    *)
NoBits == <<>>

Words(n, d) ==
  [e \in 0 .. num_elems(n) - 1 |->
     [b \in 0 .. ElemBits - 1 |->
        LET at == e * ElemBits + b IN IF at \in DOMAIN d THEN d[at] ELSE "initial"]]

Drawn(n) ==
  {Words(n, d) : d \in [0 .. num_bytes(n) * CHAR_BIT - 1 -> {"zero", "one"}]}

Undrawn(n) == Words(n, <<>>)

(* Variant: the position inside the element is taken modulo a byte. *)
PlaceInByte(at) == <<at \div ElemBits, at % CHAR_BIT>>

(* position and bit_position of bit_at *)
Place(at) == <<at \div ElemBits, at % ElemBits>>

(* Variant: the mask is not shifted. *)
LowestBit(r, at) == r[Place(at)[1]][0] = "one"

bit_at(r, at) == r[Place(at)[1]][Place(at)[2]] = "one"

(* The loop that deals the elements out, each to the end of its part.       *)
Deals(a, r) ==
  LET deal[k \in 0 .. Len(a)] ==
        IF k = 0 THEN [lhs |-> <<>>, rhs |-> <<>>]
        ELSE IF bit_at(r, k - 1)
          THEN [deal[k - 1] EXCEPT !.lhs = Append(@, a[k])]
          ELSE [deal[k - 1] EXCEPT !.rhs = Append(@, a[k])]
  IN  deal

Dealt(a, r) == Deals(a, r)[Len(a)]

OneSided(a, r) == Dealt(a, r).lhs = <<>> \/ Dealt(a, r).rhs = <<>>
-----------------------------------------------------------------------------
(* The device may be one that could not be opened.                          *)
Init ==
  /\ array \in Arrays
  /\ stack = <<>> /\ rs = NoBits /\ good \in BOOLEAN

Call ==
  /\ ~Running
  /\ stack' = <<Entered(array)>>
  /\ UNCHANGED <<array, rs, good>>

(* Variant: a part that was shuffled is stored over the other one. *)
StoreSwapped(f, a) == IF f.pc = "rhs" THEN [f EXCEPT !.rhs = a] ELSE [f EXCEPT !.lhs = a]

(* A call shuffles a vector of its caller, who waits before the rhs call if *)
(* it is lhs and before the copies if it is rhs.                            *)
Store(f, a) == IF f.pc = "rhs" THEN [f EXCEPT !.lhs = a] ELSE [f EXCEPT !.rhs = a]

(* The innermost call returns, its vector now a. *)
Return(a) ==
  LET callers == Front(stack) IN
  IF callers = <<>>
    THEN array' = a /\ stack' = <<>>
    ELSE /\ stack' = Append(Front(callers), Store(Last(callers), a))
         /\ UNCHANGED array

One == At("enter") /\ N = 1 /\ Return(Top.inplace) /\ UNCHANGED <<rs, good>>

(* The byte r is not initialised: a device that fails leaves any bit in it. *)
Two ==
  /\ At("enter") /\ N = 2
  /\ \/ Return(Top.inplace)
     \/ Return(<<Top.inplace[2], Top.inplace[1]>>)
  /\ good' \in {good, FALSE}
  /\ UNCHANGED rs

Asks == At("enter") /\ N > 2

(* The bits of a call, whatever the device did. *)
Draw(r) ==
  /\ rs' = r
  /\ stack' = Append(Front(stack), [Top EXCEPT !.pc = "split"])
  /\ UNCHANGED array

DrawBits == Asks /\ good /\ (\E r \in Drawn(N) : Draw(r)) /\ UNCHANGED good

(* The read that fails may have written some of the bytes. *)
DrawPart == Asks /\ good /\ (\E r \in Drawn(N) : Draw(r)) /\ good' = FALSE

(* Variant: rs is not filled with zeros. *)
DrawGarbage == Asks /\ ~good /\ (\E r \in Drawn(N) : Draw(r)) /\ UNCHANGED good

DrawNothing == Asks /\ ~good /\ Draw(Undrawn(N)) /\ UNCHANGED good

(* A one-sided split at the bound: the next call would have the vector of   *)
(* this one, which would copy back what that one leaves; this call stands   *)
(* for both.                                                                *)
Stays == OneSided(Top.inplace, rs) /\ Len(stack) >= MaxDepth

Split ==
  /\ At("split")
  /\ stack' = Append(Front(stack),
       IF Stays THEN Entered(Top.inplace)
       ELSE [Top EXCEPT !.lhs = Dealt(Top.inplace, rs).lhs,
                        !.rhs = Dealt(Top.inplace, rs).rhs,
                        !.pc = "lhs"])
  /\ rs' = NoBits
  /\ UNCHANGED <<array, good>>

(* The call on one of the parts, unless it is empty. *)
Recurse(part, pc) ==
  /\ stack' = Append(Front(stack), [Top EXCEPT !.pc = pc])
              \o (IF Len(part) > 0 THEN <<Entered(part)>> ELSE <<>>)
  /\ UNCHANGED <<array, rs, good>>

RecurseLhs == At("lhs") /\ Recurse(Top.lhs, "rhs")
RecurseRhs == At("rhs") /\ Recurse(Top.rhs, "copy")

(* Variant: rhs is copied to the beginning, over lhs. *)
JoinedOver(f) == f.rhs \o SubSeq(f.inplace, Len(f.rhs) + 1, Len(f.inplace))

(* Both copies into inplace *)
Joined(f) == f.lhs \o f.rhs

Copy == At("copy") /\ Return(Joined(Top)) /\ UNCHANGED <<rs, good>>

Step == One \/ Two \/ DrawBits \/ DrawNothing \/ Split \/ RecurseLhs \/ RecurseRhs \/ Copy

Next == Call \/ Step \/ DrawPart

(* A thread inside the function goes on, and a device asked again and again *)
(* does not answer with equal bits alone: of n > 2 bits more than half of   *)
(* the draws have both.                                                     *)
DrawBoth == DrawBits /\ ~OneSided(Top.inplace, rs')

Fairness == WF_vars(Step) /\ SF_vars(DrawBoth)

Spec == Init /\ [][Next]_vars /\ Fairness
-----------------------------------------------------------------------------
(* Every element of a split is placed by a bit of its own, one the request  *)
(* to the rng asked for: none of the zeros the vector starts with, and no   *)
(* bit twice, else the shuffle is not uniform.                              *)
OwnDrawnBits ==
  At("split") /\ good =>
    /\ \A k \in 0 .. N - 1 : rs[Place(k)[1]][Place(k)[2]] # "initial"
    /\ \A j, k \in 0 .. N - 1 : Place(j) = Place(k) => j = k

(* What is in progress never loses or copies an element: the parts of every *)
(* call hold what its vector held, and each inner call works on all of the  *)
(* part its caller waits for.                                               *)
Conserved ==
  \A k \in 1 .. Len(stack) :
    LET f == stack[k] IN
    /\ f.pc \in {"lhs", "rhs", "copy"} =>
         ToBag(f.lhs \o f.rhs) = ToBag(f.inplace)
    /\ k = 1 => ToBag(f.inplace) = ToBag(array)
    /\ k > 1 => LET up == stack[k - 1] IN
                /\ up.pc \in {"rhs", "copy"}
                /\ f.inplace = IF up.pc = "rhs" THEN up.lhs ELSE up.rhs

AS == INSTANCE AtomicShuffle WITH array <- array

(* Whoever owns the vector sees one step from the array they gave to a      *)
(* rearrangement of it.                                                     *)
Implements == AS!Spec

(* A shuffle whose device does not fail ends, though a split may fail to    *)
(* make the vector smaller any number of times.                             *)
Returns == Running ~> (~Running \/ ~good)

(* After the device failed, a call on more than two elements never returns: *)
(* all its bits are zero, rhs is the whole vector, and so on for ever.      *)
EndlessOnceFailed ==
  [](At("enter") /\ N > 2 /\ ~good => []Running)
=============================================================================
