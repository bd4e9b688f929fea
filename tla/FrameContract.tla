---------------------------- MODULE FrameContract ----------------------------
(***************************************************************************)
(* What worker.js and the golden comparisons rely on in every engine of    *)
(* core/frame-stepped.js: a displayed frame is sampled, then its interrupt *)
(* runs, once, before the next frame; a run ends once, at any point.       *)
(***************************************************************************)
EXTENDS Naturals

VARIABLES shown,      \* frames displayed, the one that powers on not counted
          served,     \* frames whose interrupt has run
          over        \* the run has ended

vars == <<shown, served, over>>

Init == shown = 0 /\ served = 0 /\ over = FALSE

Show ==
  /\ ~over /\ served = shown
  /\ shown' = shown + 1 /\ UNCHANGED <<served, over>>

Serve ==
  /\ ~over /\ served < shown
  /\ served' = served + 1 /\ UNCHANGED <<shown, over>>

End == ~over /\ over' = TRUE /\ UNCHANGED <<shown, served>>

Next == Show \/ Serve \/ End

Spec == Init /\ [][Next]_vars
=============================================================================
