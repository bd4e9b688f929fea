---------------------------- MODULE WatchdogEngine ---------------------------
(***************************************************************************)
(* runWatchdogGame (core/frame-stepped.js): the superseded engine of an    *)
(* idiomatic game.  A read of the watchdog port with the NMI unmasked is   *)
(* the frame boundary and the handler runs inside the read.  There is no   *)
(* guard against a boundary inside a handler: a handler that jumps into a  *)
(* new main loop gets its frames there, and its host stack frame stays.    *)
(***************************************************************************)
EXTENDS Naturals

CONSTANTS MaxFrames,  \* the option maxFrames
          ReadBudget, \* the option readBudget
          HostStack   \* handlers the host's stack can hold

VARIABLES running,    \* the code that runs: "start", "main", "handler", "stopped"
          depth,      \* handlers on the host's stack
          mask,       \* machine.io.nmiMask
          reads,      \* readsSinceFrame
          frame,      \* displayed frames
          sampled,    \* at a boundary: onFrame has been called, the NMI not yet fired
          stop,       \* the stop reason returned
          nmis,       \* history: NMIs fired
          restarts    \* history: handlers that jumped into a new main loop

vars == <<running, depth, mask, reads, frame, sampled, stop, nmis, restarts>>

Init ==
  /\ running = "start" /\ stop = "running"
  /\ depth = 0 /\ mask = FALSE /\ sampled = FALSE
  /\ reads = 0 /\ frame = 0 /\ nmis = 0 /\ restarts = 0

Stopped(reason) == running' = "stopped" /\ stop' = reason /\ depth' = 0

PowerOn ==
  /\ running = "start"
  /\ \/ running' = "main" /\ UNCHANGED <<depth, stop>>
     \/ Stopped("error")
  /\ UNCHANGED <<mask, reads, frame, sampled, nmis, restarts>>

Runs == running \in {"main", "handler"} /\ ~sampled

SetMask ==
  /\ Runs /\ mask' \in BOOLEAN
  /\ UNCHANGED <<running, depth, reads, frame, sampled, stop, nmis, restarts>>

\* A read that is no boundary.
Read ==
  /\ Runs
  /\ reads' = reads + 1
  /\ IF reads' > ReadBudget THEN Stopped("read-budget") ELSE UNCHANGED <<running, depth, stop>>
  /\ UNCHANGED <<mask, frame, sampled, nmis, restarts>>

\* Mutant: a handler kicks the watchdog too.
MKick ==
  /\ Runs /\ mask
  /\ IF reads >= ReadBudget
       THEN Stopped("read-budget") /\ reads' = reads + 1 /\ UNCHANGED <<frame, sampled>>
       ELSE frame' = frame + 1 /\ sampled' = TRUE /\ reads' = 0 /\ UNCHANGED <<running, depth, stop>>
  /\ UNCHANGED <<mask, nmis, restarts>>

\* A main loop kicks the watchdog, unmasked.  A handler never reads that port.
Kick ==
  /\ running = "main" /\ ~sampled /\ mask
  /\ IF reads >= ReadBudget
       THEN Stopped("read-budget") /\ reads' = reads + 1 /\ UNCHANGED <<frame, sampled>>
       ELSE frame' = frame + 1 /\ sampled' = TRUE /\ reads' = 0 /\ UNCHANGED <<running, depth, stop>>
  /\ UNCHANGED <<mask, nmis, restarts>>

\* The handler is called from inside the read; the host's stack may be exhausted by then.
Fire ==
  /\ sampled
  /\ sampled' = FALSE
  /\ \/ frame >= MaxFrames /\ Stopped("reached maxFrames") /\ UNCHANGED nmis
     \/ frame < MaxFrames /\ depth = HostStack /\ Stopped("error") /\ UNCHANGED nmis
     \/ /\ frame < MaxFrames /\ depth < HostStack
        /\ running' = "handler" /\ depth' = depth + 1 /\ nmis' = nmis + 1
        /\ UNCHANGED stop
  /\ UNCHANGED <<mask, reads, frame, restarts>>

HandlerReturns ==
  /\ running = "handler" /\ running' = "main" /\ depth' = depth - 1
  /\ UNCHANGED <<mask, reads, frame, sampled, stop, nmis, restarts>>

LongJump ==
  /\ running = "handler" /\ running' = "main" /\ restarts' = restarts + 1
  /\ UNCHANGED <<depth, mask, reads, frame, sampled, stop, nmis>>

\* reset() falls off its end; the loop a handler jumped to never does.
Return ==
  /\ running = "main" /\ ~sampled /\ depth = 0
  /\ Stopped("returned")
  /\ UNCHANGED <<mask, reads, frame, sampled, nmis, restarts>>

Throw ==
  /\ running \in {"main", "handler"}
  /\ Stopped("error") /\ sampled' = FALSE
  /\ UNCHANGED <<mask, reads, frame, nmis, restarts>>

Next ==
  \/ PowerOn \/ SetMask \/ Read \/ Kick \/ Fire
  \/ HandlerReturns \/ LongJump \/ Return \/ Throw

Progress == PowerOn \/ Read \/ Fire

-----------------------------------------------------------------------------
Contract ==
  INSTANCE FrameContract WITH shown <- frame, served <- nmis, over <- (running = "stopped")

\* What the engine leaks, and no more: one frame of the host's stack for every warm restart,
\* whatever the frames and the returns in between.
HostStackIsRestarts ==
  running # "stopped" => depth = restarts + (IF running = "handler" THEN 1 ELSE 0)

\* The read budget of a frame and the frame limit end every run that has one.
Ends == <>(running = "stopped")
=============================================================================
