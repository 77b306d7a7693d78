----------------------------- MODULE MC_AES128 ------------------------------
(***************************************************************************)
(* A toy cipher with the algebra of AES: words of two one-bit bytes, four  *)
(* words to a block.  RotWord swaps the bytes, ShiftRows rotates the upper *)
(* row, SubBytes is replaced by a non-linear bijection of the block, and   *)
(* MixColumns by the circulant 1 + x + x^2, the inverse of 1 + x^2 + x^3.  *)
(***************************************************************************)
EXTENDS AES128

Bits(w) == <<w % 2, w \div 2>>
MCWord == 0..3
XorTable == [a \in MCWord, b \in MCWord |->
               ((Bits(a)[1] + Bits(b)[1]) % 2) + 2 * ((Bits(a)[2] + Bits(b)[2]) % 2)]
MCXorW(a, b) == XorTable[a, b]
MCSubWord(w) == 3 - w
MCRotWord(w) == Bits(w)[2] + 2 * Bits(w)[1]

MCAnd(a, b) == Bits(a)[1] * Bits(b)[1] + 2 * (Bits(a)[2] * Bits(b)[2])
Rows(b, d)  == [c \in 0..3 |-> Bits(b[c])[1] + 2 * Bits(b[(c + d) % 4])[2]]
Quad(b)     == [b EXCEPT ![0] = MCXorW(b[0], MCXorW(3, MCAnd(b[1], b[2]))),
                         ![3] = MCXorW(b[3], MCXorW(1, MCAnd(b[1], b[2])))]
MCShiftSub(b)    == Quad(Rows(b, 1))
MCInvShiftSub(b) == Rows(Quad(b), 3)

MCMix(b)    == [c \in 0..3 |-> MCXorW(b[c], MCXorW(b[(c + 1) % 4], b[(c + 2) % 4]))]
MCInvMix(b) == [c \in 0..3 |-> MCXorW(b[c], MCXorW(b[(c + 2) % 4], b[(c + 3) % 4]))]

MCRcon == [r \in 0..9 |-> (r + 1) % 4]
Blk(a, b, c, d) == [i \in 0..3 |-> CASE i = 0 -> a [] i = 1 -> b [] i = 2 -> c [] i = 3 -> d]
MCKeys   == {Blk(0, 0, 0, 0), Blk(1, 2, 3, 1), Blk(3, 0, 1, 2)}
MCInputs == {Blk(0, 0, 0, 0), Blk(2, 1, 3, 0), Blk(1, 1, 0, 3)}
=============================================================================
