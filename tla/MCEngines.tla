------------------------------ MODULE MCEngines ------------------------------
(***************************************************************************)
(* The four engines: runs of up to four frames, a boot chain and two main *)
(* loops, busy-waits of up to two frames, and budgets small enough to be   *)
(* met before the frame limit.                                             *)
(***************************************************************************)
EXTENDS Engines

CONSTANTS boot, attract, play, none
Mains == {boot, attract, play}
=============================================================================
