------------------------- MODULE MCRingBufferQueue -------------------------
(***************************************************************************)
(* Four slots, so that a reader is overrun after three puts, and three     *)
(* different bytes, as many as the buffer can hold.                        *)
(***************************************************************************)
EXTENDS RingBufferQueue

CONSTANTS x, y, z      \* model values

MCBytes == {x, y, z}
=============================================================================
