------------------------------- MODULE Pointer -------------------------------
(***************************************************************************)
(* The mouse as a dial, from the page to the game: pointermove handlers    *)
(* add to a word of shared memory (player.html), the worker takes what is  *)
(* there once a frame (readInputsInto, worker.js) and hands it to the      *)
(* board, and the game's interrupts and its pass turn it into movement     *)
(* (Spinner for Tempest, Trackball for Centipede).  The page runs at any   *)
(* time; the worker's steps are those of one frame after another           *)
(* (IrqEngine).  One axis: the other is alike.                             *)
(***************************************************************************)
EXTENDS Integers

CONSTANTS Game,       \* of Tempest and Centipede, those to be played
          Movement,   \* what e.movementX may be
          MaxRolls,   \* bound, for each game: pointermoves between two samples
          Irqs        \* interrupts a frame, for each game: 9 and 4 in the code

ASSUME PointerAssumption ==
  /\ Game \subseteq {"tempest", "centiped"} /\ Movement \subseteq Int
  /\ MaxRolls \in [Game -> Nat] /\ Irqs \in [Game -> Nat \ {0}]

VARIABLES game,
          TRACK,   \* ctrl[C_TRACK_X]
          rolls, at, slot,
          \* History: the motion since the last sample, the motion of the last sample, and
          \* what the game makes of it.
          hand, sampled, heard,
          knob, potPrev, spinAccum, open, offset,
          track, sign, last, lastDelta, b9, fraction, x

page == <<TRACK, rolls, hand>>
spinner == <<knob, potPrev, spinAccum, open, offset>>
ball == <<track, sign, last, lastDelta, b9, fraction, x>>
pointerVars == <<game, page, at, slot, sampled, heard, spinner, ball>>

Spinner == INSTANCE Spinner WITH accum <- spinAccum
Ball == INSTANCE Trackball

clampByte(n) == IF n < -127 THEN -127 ELSE IF n > 127 THEN 127 ELSE n
byte(n) == n % 256
signed(n) == IF n < 128 THEN n ELSE n - 256

\* manifest.inputs.trackball.invertX.
direction == IF game = "tempest" THEN -1 ELSE 1

MachineStarts == Spinner!Init /\ Ball!Init

Init ==
  /\ game \in Game /\ MachineStarts
  /\ TRACK = 0 /\ rolls = 0 /\ hand = 0 /\ sampled = 0 /\ heard = 0
  /\ at = "sample" /\ slot = 0

-----------------------------------------------------------------------------
(* The page.                                                               *)

\* Atomics.add: motion not yet taken is added to, while the worker is anywhere.
PointerMove(movement) ==
  /\ rolls < MaxRolls[game] /\ rolls' = rolls + 1
  /\ TRACK' = TRACK + clampByte(direction * movement)
  /\ hand' = hand + clampByte(direction * movement)
  /\ UNCHANGED <<game, at, slot, sampled, heard, spinner, ball>>

-----------------------------------------------------------------------------
(* The worker.                                                             *)

\* "__reset__" is thrown before the motion is taken: it goes to the next machine, which is
\* built at once.
Reset ==
  /\ at = "sample"
  /\ knob' = 0 /\ potPrev' = 0 /\ spinAccum' = 0 /\ open' = FALSE /\ offset' = 0
  /\ track' = 0 /\ sign' = FALSE /\ last' = 0 /\ lastDelta' = 0
  /\ b9' = 0 /\ fraction' = 0 /\ x' = 128
  /\ UNCHANGED <<game, page, at, slot, sampled, heard>>

\* Atomics.exchange, the clamp to a signed byte, and the board.
Sample ==
  /\ at = "sample" /\ at' = "irqs"
  /\ TRACK' = 0 /\ rolls' = 0 /\ hand' = 0
  /\ sampled' = clampByte(hand)
  /\ LET delta == byte(clampByte(TRACK)) IN
     /\ IF game = "tempest" /\ TRACK # 0 THEN Spinner!ApplyTrackball(delta) ELSE UNCHANGED spinner
     /\ IF game = "centiped" /\ TRACK # 0 THEN Ball!ApplyTrackball(delta) ELSE UNCHANGED ball
  /\ UNCHANGED <<game, slot, heard>>

\* The interrupts of a frame.  What they add to the accumulator is what the game hears.
Irq ==
  /\ at = "irqs" /\ slot' = slot + 1
  /\ at' = IF slot + 1 = Irqs[game] THEN "pass" ELSE "irqs"
  /\ IF game = "tempest"
       THEN /\ Spinner!Heartbeat /\ UNCHANGED ball
            /\ heard' = heard + signed(byte(spinAccum' - spinAccum))
       ELSE /\ Ball!Irq /\ UNCHANGED spinner
            /\ heard' = heard + signed(byte(b9' - b9))
  /\ UNCHANGED <<game, page, sampled>>

\* The main loop's pass, in play.
Pass ==
  /\ at = "pass" /\ at' = "sample" /\ slot' = 0 /\ sampled' = 0 /\ heard' = 0
  /\ \/ /\ game = "tempest" /\ UNCHANGED ball
        /\ Spinner!RotateBlasterAroundRim \/ Spinner!RunLevelInit
     \/ /\ game = "centiped" /\ UNCHANGED spinner
        /\ \E blocked \in BOOLEAN : Ball!Move(blocked)
  /\ UNCHANGED <<game, page>>

Next == (\E movement \in Movement : PointerMove(movement)) \/ Reset \/ Sample \/ Irq \/ Pass

Spec == Init /\ [][Next]_pointerVars

-----------------------------------------------------------------------------
TypeOK ==
  /\ at \in {"sample", "irqs", "pass"} /\ rolls \in 0 .. MaxRolls[game]
  /\ knob \in 0 .. 15 /\ potPrev \in 0 .. 15 /\ spinAccum \in 0 .. 255
  /\ open \in BOOLEAN /\ offset \in 0 .. 255
  /\ track \in 0 .. 15 /\ last \in 0 .. 15 /\ sign \in BOOLEAN
  /\ lastDelta \in 0 .. 255 /\ b9 \in 0 .. 255 /\ fraction \in {0, 128} /\ x \in 0 .. 255

\* Tempest: however many pointermoves fall into a frame, and wherever the worker is when they
\* do, the interrupts hear their sum, cut to seven: the claw never turns against the hand,
\* and of a slow turn nothing is lost (boards/tempest/io.js says so of a frame's step).
KnobFollowsHand ==
  game = "tempest" /\ at = "pass" => heard = Spinner!Within(-7, 7, sampled)

LevelStart == 240

\* ... and the blaster turns by as much as the interrupts heard, between the end stops of an
\* open tube (or a level starts at the seam): in byte arithmetic, by a cap and a test of signs.
BlasterStopsAtEnds ==
  [][game = "tempest" /\ at = "pass" /\ at' = "sample" =>
       offset' \in {LevelStart, IF open THEN Spinner!Within(0, 239, offset - heard)
                                ELSE byte(offset - heard)}]_pointerVars

\* Centipede: as long as the hand moves no more than seven in a frame its motion is heard
\* exactly, whatever was heard before.
SlowBallIsExact ==
  game = "centiped" /\ at = "pass" /\ sampled \in -7 .. 7 => heard = sampled

\* ... and the player moves by half of it without losing a half-pixel, unless a mushroom or
\* the edge of the field is in the way.
NoHalfPixelLost ==
  [][game = "centiped" /\ at = "pass" /\ sampled \in -7 .. 7 /\ x' # x /\ x' \in 12 .. 243 =>
       2 * x' + fraction' \div 128 = 2 * x + fraction \div 128 + sampled]_pointerVars

\* "filters out spurious reversals" (accumulateTrackballAndReturnFromIrq.js): the player does
\* not move against the hand.
NeverReversed ==
  game = "centiped" /\ at = "pass" /\ sampled # 0 => heard * sampled >= 0
=============================================================================
