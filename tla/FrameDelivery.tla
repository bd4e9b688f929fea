---------------------------- MODULE FrameDelivery ----------------------------
(***************************************************************************)
(* What the frame ring of web/frame-ring.js promises: the engine publishes *)
(* frames 0, 1, 2, ... and the page shows whole frames only, each newer    *)
(* than the one before, and never more than one behind the newest one.     *)
(***************************************************************************)
EXTENDS Integers

CONSTANTS Chunk   \* the pieces of a frame a copy moves one at a time

VARIABLES published,   \* how many frames the engine has published
          display      \* what the canvas shows, piece by piece

NoFrame == -1                       \* the zeroed buffer, before any frame
Whole(n) == [c \in Chunk |-> n]     \* all the pieces of frame n

Init == published = 0 /\ display = Whole(NoFrame)

Publish == published' = published + 1 /\ UNCHANGED display

Present(n) ==
  /\ n \in {published - 1, published - 2} /\ n >= 0
  /\ \E old \in NoFrame .. n - 1 : display = Whole(old)
  /\ display' = Whole(n)
  /\ UNCHANGED published

Next == Publish \/ (\E n \in 0 .. published : Present(n))

vars == <<published, display>>
Spec == Init /\ [][Next]_vars
=============================================================================
