--------------------------- MODULE MC_BulkBlocks ----------------------------
(***************************************************************************)
(* Every block of memory starts with contents of its own, so a block read  *)
(* from the wrong place, or after it was overwritten, shows.  Cipher and   *)
(* XorV are distinct injective codes of their arguments modulo a prime.    *)
(***************************************************************************)
EXTENDS BulkBlocks

MCCipher(o, v) ==
  LET c == CASE o = "enc" -> 3 [] o = "dec" -> 5 [] o = "hash" -> 7
             [] o = "mmo" -> 11 [] o = "prf" -> 13
  IN  (c * v + c + 40) % 101
MCXorV(v, w) == (v + 17 * w) % 101
MCValue == 0 .. 100

MCMemories == {[k \in Addr |-> k + 1]}
=============================================================================
