------------------------------- MODULE Spinner -------------------------------
(***************************************************************************)
(* Tempest's spinner: the board's four-bit knob (applyTrackball), the      *)
(* heartbeat interrupt that reads it, and the rotation of the blaster by a *)
(* player.  Numbers are bytes.                                             *)
(***************************************************************************)
EXTENDS Integers

VARIABLES knob,      \* io.knob
          potPrev,   \* SPINNER_POT_PREV, its low nibble
          accum,     \* SPINNER_ACCUM
          open,      \* TUBE_GEOM_FLAG # 0: the tube is not closed
          offset     \* RIM_ROT_OFFSET

vars == <<knob, potPrev, accum, open, offset>>

signed(byte) == IF byte < 128 THEN byte ELSE byte - 256
Within(lo, hi, n) == IF n < lo THEN lo ELSE IF n > hi THEN hi ELSE n

Init == knob = 0 /\ potPrev = 0 /\ accum = 0 /\ open = FALSE /\ offset = 0

\* Mutant: no clamp, as the encoder would take it.
MencoderStep(delta) == signed(delta)
encoderStep(delta) == Within(-7, 7, signed(delta))

ApplyTrackball(delta) ==
  /\ knob' = (knob + encoderStep(delta)) % 16
  /\ UNCHANGED <<potPrev, accum, open, offset>>

\* The four-bit difference, sign-extended to a byte.
nibbleDelta(now, before) ==
  LET d == (now - before) % 16 IN IF d >= 8 THEN d + 240 ELSE d

\* serviceHeartbeatInterrupt.  ALLPOT reads inverted and is inverted again.
Heartbeat ==
  /\ accum' = (accum + nibbleDelta(knob, potPrev)) % 256
  /\ potPrev' = knob
  /\ UNCHANGED <<knob, open, offset>>

\* What rotateBlasterAroundRim takes from the accumulator.
turn == Within(-31, 31, signed(accum))

Negative(byte) == byte >= 128

\* Mutant: the cap alone, without the test of an over-rotation.
MafterTurn ==
  LET c == (offset - turn) % 256 IN IF open /\ c >= 240 THEN 239 ELSE c

\* The end stops of an open tube: a cap, then a test of three signs for a turn that went
\* past an end and came round.
afterTurn ==
  LET c == (offset - turn) % 256
      capped == IF c >= 240 THEN 239 ELSE c
  IN  IF ~open THEN c
      ELSE IF Negative(capped) # (turn < 0) /\ Negative(capped) # Negative(offset)
           THEN IF Negative(offset) THEN 239 ELSE 0
           ELSE capped

RotateBlasterAroundRim ==
  /\ offset' = afterTurn /\ accum' = 0
  /\ UNCHANGED <<knob, potPrev, open>>

\* runLevelInit: a level starts at the rim's seam with nothing turned.
RunLevelInit ==
  /\ open' \in BOOLEAN /\ offset' = 240 /\ accum' = 0
  /\ UNCHANGED <<knob, potPrev>>
=============================================================================
