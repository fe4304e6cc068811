----------------------------- MODULE MCSpscRing -----------------------------
(***************************************************************************)
(* The ring with two slots and four index values, so that the indices wrap  *)
(* inside and between packets, and with payloads shorter than, as long as  *)
(* and longer than a slot.                                                 *)
(***************************************************************************)
EXTENDS SpscRing

MCByte == 0 .. 2
MCPayloads == {<<1>>, <<2, 2>>, <<1, 2, 1>>}
==============================================================================
