---------------------------- MODULE MC_ShuffleRS ----------------------------
(***************************************************************************)
(* Vectors of one to five elements; those of five reach the second element *)
(* of rs, whose elements have two bytes of two bits here.                  *)
(***************************************************************************)
EXTENDS ShuffleRS

MCArrays == {<<1>>, <<1, 2>>, <<1, 2, 3>>, <<1, 1, 2, 3>>, <<1, 1, 1, 1, 2>>}
=============================================================================
