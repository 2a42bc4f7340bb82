--------------------------- MODULE MCTransmitter ---------------------------
(***************************************************************************)
(* A small transmitter for TLC: three characters, lines of at most two of  *)
(* them, so that a frame has at most 9 bytes (18 of the 20 slots) of two   *)
(* bits an element, and two different backoffs.                            *)
(***************************************************************************)
EXTENDS Transmitter, TLC

CONSTANTS nul, a, b, cr      \* model values

MCChars == {nul, a, b}

\* A backoff of one tick and a longer one.
MCBackoffs == {1, 5}

\* With the 0 ms that rand() % TRANSMITTER_N_MAX = 0 gives.
MCBackoffsFromZero == {0, 5}
=============================================================================
