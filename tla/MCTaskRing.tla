------------------------------ MODULE MCTaskRing ------------------------------
(***************************************************************************)
(* A ring of three slots under NMIs that post up to four messages: it      *)
(* wraps, fills, drops and drains within a few frames.                     *)
(***************************************************************************)
EXTENDS TaskRing
=============================================================================
