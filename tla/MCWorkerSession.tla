--------------------------- MODULE MCWorkerSession ---------------------------
(***************************************************************************)
(* One tapped latch and the polled line, two values each; pauses, resets   *)
(* and stops without bound.                                                *)
(***************************************************************************)
EXTENDS WorkerSession
=============================================================================
