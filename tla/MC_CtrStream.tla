--------------------------- MODULE MC_CtrStream ----------------------------
(***************************************************************************)
(* Five counters instead of 2^64, so that the streams wrap; lengths around *)
(* every block boundary up to two blocks.  A byte is the pair of the       *)
(* counter encrypted and the counter xored on, with its offset.            *)
(***************************************************************************)
EXTENDS CtrStream

MCLengths == {0, 1, 15, 16, 17, 31, 32, 33}
MCRounds(k, c) == [o \in Offsets |-> <<c, 9, o>>]
MCXorCtr(b, c) == [o \in Offsets |-> [b[o] EXCEPT ![2] = c]]
MCByte == Counter \X (Counter \cup {9}) \X Offsets
=============================================================================
