---------------------------- MODULE MCGameStart -----------------------------
(***************************************************************************)
(* GameStart.cfg: a short ring and animation (8 frames of two messages     *)
(* still fill 10 slots), two coins to a credit and a cap that six coins    *)
(* reach.  GameStartFullRing.cfg: the real ring and animation, one coin.   *)
(***************************************************************************)
EXTENDS GameStart
=============================================================================
