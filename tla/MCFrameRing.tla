----------------------------- MODULE MCFrameRing -----------------------------
(***************************************************************************)
(* The frame ring with two pieces to a frame and a counter of a few        *)
(* values: the worker goes twice round the three slots.                    *)
(***************************************************************************)
EXTENDS FrameRing

CONSTANTS c1, c2
TwoChunks == {c1, c2}
=============================================================================
