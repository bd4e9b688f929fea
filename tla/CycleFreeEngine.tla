--------------------------- MODULE CycleFreeEngine ---------------------------
(***************************************************************************)
(* runCycleFree (core/frame-stepped.js): the engine of the translated      *)
(* layer.  It wraps machine.step; reaching a poll PC with the NMI unmasked *)
(* is the frame boundary, and the NMI handler runs inside that step.  A    *)
(* handler that jumps into a new main loop instead of returning never      *)
(* leaves the step, and no boundary is taken while one is in its handler.  *)
(***************************************************************************)
EXTENDS Naturals

CONSTANTS MaxFrames,  \* the option maxFrames
          StepBudget  \* the option stepBudget

VARIABLES running,    \* the code that runs: "start", "main", "handler", "stopped"
          inNmi,      \* the engine's guard
          mask,       \* machine.io.nmiMask
          steps,      \* machine.step calls
          frame,      \* displayed frames
          sampled,    \* at a boundary: onFrame has been called, the NMI not yet fired
          stop,       \* the stop reason returned
          nmis        \* history: NMIs fired

vars == <<running, inNmi, mask, steps, frame, sampled, stop, nmis>>

Init ==
  /\ running = "start" /\ stop = "running"
  /\ inNmi = FALSE /\ mask = FALSE /\ sampled = FALSE
  /\ steps = 0 /\ frame = 0 /\ nmis = 0

\* Every exit passes the finally clause of a handler it interrupts.
Stopped(reason) == running' = "stopped" /\ stop' = reason /\ inNmi' = FALSE

\* onFrame for frame 0, outside the try; then machine.reset.
PowerOn ==
  /\ running = "start"
  /\ \/ running' = "main" /\ UNCHANGED <<inNmi, stop>>
     \/ Stopped("error")
  /\ UNCHANGED <<mask, steps, frame, sampled, nmis>>

Runs == running \in {"main", "handler"} /\ ~sampled

\* Game code opens or closes the mask between two steps.
SetMask ==
  /\ Runs /\ mask' \in BOOLEAN
  /\ UNCHANGED <<running, inNmi, steps, frame, sampled, stop, nmis>>

\* Mutant: steps inside a handler are not counted.
MStep ==
  /\ Runs
  /\ steps' = IF inNmi THEN steps ELSE steps + 1
  /\ IF steps' > StepBudget THEN Stopped("step-budget") ELSE UNCHANGED <<running, inNmi, stop>>
  /\ UNCHANGED <<mask, frame, sampled, nmis>>

\* A step that is no boundary: not at a poll PC, masked, or inside a handler.
Step ==
  /\ Runs
  /\ steps' = steps + 1
  /\ IF steps' > StepBudget THEN Stopped("step-budget") ELSE UNCHANGED <<running, inNmi, stop>>
  /\ UNCHANGED <<mask, frame, sampled, nmis>>

\* A step to a poll PC, unmasked and outside every handler: the frame is sampled.
Boundary ==
  /\ Runs /\ ~inNmi /\ mask
  /\ steps' = steps + 1
  /\ IF steps' > StepBudget
       THEN Stopped("step-budget") /\ UNCHANGED <<frame, sampled>>
       ELSE frame' = frame + 1 /\ sampled' = TRUE /\ UNCHANGED <<running, inNmi, stop>>
  /\ UNCHANGED <<mask, nmis>>

Fire ==
  /\ running = "main" /\ sampled
  /\ sampled' = FALSE
  /\ IF frame >= MaxFrames
       THEN Stopped("reached maxFrames") /\ UNCHANGED nmis
       ELSE running' = "handler" /\ inNmi' = TRUE /\ nmis' = nmis + 1 /\ UNCHANGED stop
  /\ UNCHANGED <<mask, steps, frame>>

HandlerReturns ==
  /\ running = "handler" /\ running' = "main" /\ inNmi' = FALSE
  /\ UNCHANGED <<mask, steps, frame, sampled, stop, nmis>>

\* The coin path: the handler enters a new main loop and does not come back.
LongJump ==
  /\ running = "handler" /\ running' = "main"
  /\ UNCHANGED <<inNmi, mask, steps, frame, sampled, stop, nmis>>

\* reset() falls off its end: only outside a handler does that end the run.
Return ==
  /\ running = "main" /\ ~sampled /\ ~inNmi
  /\ Stopped("returned")
  /\ UNCHANGED <<mask, steps, frame, sampled, nmis>>

Throw ==
  /\ running \in {"main", "handler"}
  /\ Stopped("error") /\ sampled' = FALSE
  /\ UNCHANGED <<mask, steps, frame, nmis>>

Next ==
  \/ PowerOn \/ SetMask \/ Step \/ Boundary \/ Fire
  \/ HandlerReturns \/ LongJump \/ Return \/ Throw

\* Code that runs takes steps: what spins takes them at an unpolled PC.
Progress == PowerOn \/ Step \/ Fire

-----------------------------------------------------------------------------
Contract ==
  INSTANCE FrameContract WITH shown <- frame, served <- nmis, over <- (running = "stopped")

\* A handler that jumped away leaves the guard set and no frame is shown any more; the
\* budget of steps still ends the run, as it ends any loop that never reaches a poll PC.
Ends == <>(running = "stopped")
=============================================================================
