------------------------------ MODULE Trackball ------------------------------
(***************************************************************************)
(* One axis of Centipede's trackball: the board's counter with its latched *)
(* sign (applyTrackball), the interrupt that integrates it                 *)
(* (accumulateTrackballAndReturnFromIrq) and the player's movement         *)
(* (loc_2ace, loc_2aeb).  Numbers are bytes; of the board's counter the    *)
(* low nibble is read, and that is kept.                                   *)
(***************************************************************************)
EXTENDS Integers

VARIABLES track, sign,   \* io.trackX mod 16, and io.signX # 0
          last,          \* $bd, its low nibble
          lastDelta,     \* TRACKBALL_LAST_DELTA
          b9,            \* motion the game has not consumed
          fraction,      \* MOVE_SUBSTEP_ACCUM_A: 0 or 128
          x              \* $63

vars == <<track, sign, last, lastDelta, b9, fraction, x>>

Negative(byte) == byte >= 128

\* seedPlayerShotStartCells.
Init ==
  /\ track = 0 /\ sign = FALSE /\ last = 0 /\ lastDelta = 0
  /\ b9 = 0 /\ fraction = 0 /\ x = 128

ApplyTrackball(delta) ==
  /\ track' = (track + delta) % 16 /\ sign' = Negative(delta)
  /\ UNCHANGED <<last, lastDelta, b9, fraction, x>>

nibbleDelta == LET d == (track - last) % 16 IN IF d >= 8 THEN d + 240 ELSE d

\* Mutant: a change of direction is taken for noise whatever the counter's sign says.
Mfiltered(a) == IF Negative(a) # Negative(lastDelta) THEN lastDelta ELSE a

\* A change of direction the counter's sign does not confirm is replaced by the last step.
filtered(a) ==
  IF Negative(a) # Negative(lastDelta) /\ Negative(a) # sign THEN lastDelta ELSE a

Irq ==
  /\ last' = track
  /\ IF nibbleDelta = 0
       THEN UNCHANGED <<lastDelta, b9>>
       ELSE /\ lastDelta' = filtered(nibbleDelta)
            /\ b9' = (b9 + filtered(nibbleDelta)) % 256
  /\ UNCHANGED <<track, sign, fraction, x>>

\* clampAndHalveSignedDelta: a step is at most 8, and its odd half-pixel is kept apart.
step == IF b9 \in 8 .. 127 THEN 8 ELSE IF b9 \in 128 .. 247 THEN 248 ELSE b9
halved == (step \div 2) + (IF Negative(step) THEN 128 ELSE 0)
oddHalf == IF step % 2 = 1 THEN 128 ELSE 0

\* Mutant: the odd half-pixel is dropped.
Mcarry == 0
carry == IF fraction + oddHalf > 255 THEN 1 ELSE 0

inBand(n) == IF n >= 244 THEN 244 ELSE IF n >= 11 THEN n ELSE 11

\* loc_2ace and the first half of loc_2aeb: a filled cell holds the player, the field's edges
\* stop them.  $fe, which becomes the new $b9, is zero: the checksum of an intact ROM.
Move(blocked) ==
  /\ fraction' = (fraction + oddHalf) % 256
  /\ x' = IF blocked THEN x ELSE inBand((x + halved + carry) % 256)
  /\ b9' = 0
  /\ UNCHANGED <<track, sign, last, lastDelta>>
=============================================================================
