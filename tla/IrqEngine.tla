------------------------------ MODULE IrqEngine ------------------------------
(***************************************************************************)
(* runIdiomaticIrqGame (core/frame-stepped.js) with the two games that run *)
(* on it.  At each yield of the main generator the engine samples the      *)
(* frame, fires the frame's interrupts, each with its own vblank level,    *)
(* and resumes.  What paces the game is a heartbeat cell: every interrupt  *)
(* of Tempest counts and the main loop waits for nine, in Centipede only   *)
(* the one inside vblank counts and the main loop halves the cell.         *)
(***************************************************************************)
EXTENDS Naturals, Sequences

CONSTANT MaxFrames    \* the option maxFrames

VARIABLES game,       \* "centiped" or "tempest"
          at,         \* where the engine's loop is
          frame,      \* displayed frames
          slot,       \* interrupts of this frame fired so far
          vblank,     \* machine.io.vblank
          beat,       \* the heartbeat cell: $8a of Centipede, $53 of Tempest
          stop,       \* the stop reason returned
          \* History: frames whose interrupts all ran, passes of the main loop.
          served, updates

engine == <<game, at, frame, slot, vblank, stop, served>>
vars == <<engine, beat, updates>>

Games == {"centiped", "tempest"}
Points == {"powerOn", "resume", "sample", "irq", "stopped"}

\* Mutant: the level of the slot inside vblank is lost.
MLevels(g) == [i \in 1 .. IF g = "centiped" THEN 4 ELSE 9 |-> 0]

\* irqVblank: the level of each slot in firing order.
Levels(g) == IF g = "centiped" THEN <<0, 0, 0, 1>> ELSE <<0, 0, 0, 0, 0, 0, 0, 0, 0>>

\* The most heartbeats a handler counts before it throws.
BeatLimit(g) == IF g = "centiped" THEN 7 ELSE 128

\* Heartbeats the main loop has when it is woken for a pass.
BeatsPerPass(g) == IF g = "centiped" THEN 1 ELSE 9

Init ==
  /\ game \in Games
  /\ at = "powerOn" /\ stop = "running"
  /\ frame = 0 /\ slot = 0 /\ vblank = 0 /\ beat = 0 /\ served = 0 /\ updates = 0

Stopped(reason) == at' = "stopped" /\ stop' = reason

-----------------------------------------------------------------------------
\* onFrame for frame 0, outside the engine's try: a reset thrown there ends the run too.
PowerOn ==
  /\ at = "powerOn"
  /\ \/ at' = "resume" /\ UNCHANGED stop
     \/ Stopped("error")
  /\ UNCHANGED <<game, frame, slot, vblank, beat, served, updates>>

\* The main loop of Centipede consumes one bit of the heartbeat and does a pass at every
\* resume; Tempest's does one when nine interrupts have come and else yields again.  The
\* first resume boots: RAM is wiped and the loop entered, up to its first yield.
Pass ==
  IF frame = 0
    THEN beat' = 0 /\ UNCHANGED updates
    ELSE IF game = "tempest" /\ beat < 9
           THEN UNCHANGED <<beat, updates>>
           ELSE /\ beat' = IF game = "centiped" THEN beat \div 2 ELSE 0
                /\ updates' = updates + 1

Resume ==
  /\ at = "resume" /\ Pass
  /\ frame' = frame + 1 /\ at' = "sample"
  /\ UNCHANGED <<game, slot, vblank, stop, served>>

\* A spine that falls off its end, or anything that throws: game code, onFrame, a handler.
Return ==
  /\ at = "resume" /\ Stopped("returned")
  /\ UNCHANGED <<game, frame, slot, vblank, beat, served, updates>>

Throw ==
  /\ at \in {"resume", "sample", "irq"} /\ Stopped("error")
  /\ UNCHANGED <<game, frame, slot, vblank, beat, served, updates>>

Sample ==
  /\ at = "sample"
  /\ IF frame >= MaxFrames
       THEN Stopped("reached maxFrames") /\ UNCHANGED slot
       ELSE at' = "irq" /\ slot' = 0 /\ UNCHANGED stop
  /\ UNCHANGED <<game, frame, vblank, beat, served, updates>>

\* One slot: its vblank level is driven, then the handler runs as a direct call and counts
\* the heartbeat.  Centipede's halts when the count reaches 8, Tempest's when it finds the
\* sign bit set.
FireIrq ==
  /\ at = "irq" /\ slot < Len(Levels(game))
  /\ LET level == Levels(game)[slot + 1]
         n == IF game = "tempest" \/ level = 1 THEN beat + 1 ELSE beat
     IN  /\ vblank' = level
         /\ IF n > BeatLimit(game)
              THEN Stopped("hang") /\ UNCHANGED <<slot, beat>>
              ELSE slot' = slot + 1 /\ beat' = n /\ UNCHANGED <<at, stop>>
  /\ UNCHANGED <<game, frame, served, updates>>

\* After the last slot the level is active video again.
IrqsDone ==
  /\ at = "irq" /\ slot = Len(Levels(game))
  /\ vblank' = 0 /\ at' = "resume" /\ served' = served + 1
  /\ UNCHANGED <<game, frame, slot, beat, stop, updates>>

Next ==
  \/ PowerOn \/ Resume \/ Return \/ Throw \/ Sample \/ FireIrq \/ IrqsDone

-----------------------------------------------------------------------------
Contract ==
  INSTANCE FrameContract WITH shown <- frame, served <- served, over <- (at = "stopped")

\* Every displayed frame but the first is exactly one pass of the game's main loop, and a
\* pass finds the heartbeats of one frame, in active video: the slots neither starve the
\* loop into a frame without a pass nor pile up into the handler's hang guard.
OnePassPerFrame ==
  /\ at \in {"sample", "irq"} => updates + 1 = frame
  /\ stop # "hang"
  /\ at = "resume" /\ frame > 0 => vblank = 0 /\ beat = BeatsPerPass(game)
=============================================================================
