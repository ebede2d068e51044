---------------------------- MODULE MCRingBuffer ----------------------------
(* RingBuffer on a small instance: a ring of three slots, as in the code,   *)
(* and enough frames to fill it, to drop one, to go round the ring twice    *)
(* and to wrap the frame counter.                                           *)
EXTENDS RingBuffer

CONSTANTS gray, playpal

MCPalette == {gray, playpal}
=============================================================================
