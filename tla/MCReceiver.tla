----------------------------- MODULE MCReceiver -----------------------------
(***************************************************************************)
(* A small receiver for TLC: bytes of two bits, frames of one or two       *)
(* bytes that have equal and different bits next to each other within and  *)
(* across bytes and end with either bit.                                   *)
(***************************************************************************)
EXTENDS Receiver

MCFrames == {<<0, 1>>, <<0, 0, 1, 1>>, <<0, 1, 1, 0>>}
=============================================================================
