----------------------------- MODULE MCPackets -----------------------------
(***************************************************************************)
(* Packets for TLC: a text of one character and one that fills the array.  *)
(* The long one has its own checksum as its last character, so that a      *)
(* frame that lost its checksum ends with the right one, and the last bit  *)
(* of that checksum is 1, so that the end of the collision completes a     *)
(* frame that lost only this bit.  The short one is a NUL: its checksum is *)
(* that of no text at all, and it passes with a length damaged to 0.       *)
(***************************************************************************)
EXTENDS Packets

MCTexts == {<<0>>, <<66, 105>>}
MCMasks == {1}
MCCuts  == {64, 71}
=============================================================================
