----------------------------- MODULE MCPageAudio -----------------------------
(***************************************************************************)
(* Two board tunes, a pulsed tune, a synthesised and a gated effect on the *)
(* latch; two effects and two beds; a port with a saucer that loops and    *)
(* two shots. A cap of four voices, so that it is reached.                 *)
(***************************************************************************)
EXTENDS PageAudio

CONSTANTS ufo, shot
MCBitOrder == <<ufo, shot>>
EveryModel == {"latch", "strobed", "beds", "bitports"}
LatchModel == {"latch"}
=============================================================================
