----------------------------- MODULE Inputs_proofs -----------------------------
(***************************************************************************)
(* What holds of the page's words and of the two dials for every set of    *)
(* keys, buttons and motions, every number of pointermoves in a frame and  *)
(* every number of interrupts.                                             *)
(***************************************************************************)
EXTENDS Inputs, Sequences, TLAPS

-----------------------------------------------------------------------------
(* The words.  A bit in the page's word is in the sample already or was    *)
(* pressed since.                                                          *)

Rising == in0 \subseteq sample \cup pressed
WordsInv == Words!TypeOK /\ NothingStuck /\ Rising

LEMMA WordsInitially == Words!Init => WordsInv
BY DEF Words!Init, WordsInv, Words!TypeOK, NothingStuck, Words!NothingStuck, Rising

\* The timers a frame goes by for keep their bits.
LEMMA FrameKeepsTimers ==
  ASSUME Words!TypeOK, Words!FrameGoesBy
  PROVE  /\ timers' \in Seq([bit : Button, left : 0 .. PulseFrames])
         /\ DOMAIN timers' = DOMAIN timers
         /\ \A i \in DOMAIN timers : timers'[i].bit = timers[i].bit
<1> DEFINE Timer == [bit : Button, left : 0 .. PulseFrames]
<1>1. timers \in Seq(Timer) /\ DOMAIN timers = 1 .. Len(timers) /\ Len(timers) \in Nat
  BY DEF Words!TypeOK
<1>2. \A i \in DOMAIN timers : timers[i] \in Timer
  <2> HIDE DEF Timer
  <2>1. QED
    BY <1>1
<1> DEFINE Left(n) == IF n = 0 THEN 0 ELSE n - 1
<1> DEFINE Later(i) == [bit |-> timers[i].bit, left |-> Left(timers[i].left)]
<1>3. \A n \in 0 .. PulseFrames : Left(n) \in 0 .. PulseFrames
  BY WordsAssumption
<1>4. \A i \in DOMAIN timers : Later(i) \in Timer /\ Later(i).bit = timers[i].bit
  <2> HIDE DEF Left
  <2>1. QED
    BY <1>2, <1>3
<1>5. /\ DOMAIN timers' = DOMAIN timers
      /\ timers' \in [DOMAIN timers -> Timer]
      /\ \A i \in DOMAIN timers : timers'[i].bit = timers[i].bit
  BY <1>4 DEF Words!FrameGoesBy
<1> HIDE DEF Timer
<1>6. timers' \in Seq(Timer)
  BY <1>1, <1>5
<1>7. QED
  BY <1>5, <1>6 DEF Timer

LEMMA WordsStep == ASSUME WordsInv, Words!Next PROVE WordsInv'
<1> USE DEF WordsInv
<1> DEFINE Timer == [bit : Button, left : 0 .. PulseFrames]
<1>1. CASE \E k \in Key : Words!KeyDown(k) \/ Words!KeyRepeat(k)
  BY <1>1 DEF Words!KeyDown, Words!KeyRepeat, Words!vars, Words!TypeOK, NothingStuck,
              Words!NothingStuck, Rising
<1>2. CASE \E k \in Key : Words!KeyUp(k)
  BY <1>2 DEF Words!KeyUp, Words!TypeOK, NothingStuck, Words!NothingStuck, Rising
<1>3. CASE \E k \in Key : Words!KeyUpElsewhere(k)
  BY <1>3 DEF Words!KeyUpElsewhere, Words!TypeOK, NothingStuck, Words!NothingStuck, Rising
<1>4. ASSUME NEW bit \in Button, Words!Pulse(bit) PROVE WordsInv'
  <2>1. /\ timers \in Seq(Timer) /\ [bit |-> bit, left |-> PulseFrames] \in Timer
        /\ timers' = Append(timers, [bit |-> bit, left |-> PulseFrames])
    BY <1>4, WordsAssumption DEF Words!Pulse, Words!TypeOK
  <2>2. /\ timers' \in Seq(Timer)
        /\ DOMAIN timers' = 1 .. Len(timers) + 1 /\ DOMAIN timers = 1 .. Len(timers)
        /\ \A i \in 1 .. Len(timers) : timers'[i] = timers[i]
        /\ timers'[Len(timers) + 1].bit = bit /\ Len(timers) \in Nat
    BY <2>1
  <2>3. Words!TypeOK' /\ Rising'
    BY <1>4, <2>2 DEF Words!Pulse, Words!TypeOK, Rising
  <2>4. NothingStuck'
    BY <1>4, <2>2 DEF Words!Pulse, NothingStuck, Words!NothingStuck
  <2>5. QED
    BY <2>3, <2>4
<1>5. CASE Words!PulseEnds
  <2>1. timers \in Seq(Timer) /\ timers # <<>> /\ timers' = Tail(timers)
    BY <1>5 DEF Words!PulseEnds, Words!TypeOK
  <2>2. /\ timers' \in Seq(Timer) /\ Len(timers) \in Nat \ {0}
        /\ DOMAIN timers' = 1 .. Len(timers) - 1 /\ DOMAIN timers = 1 .. Len(timers)
        /\ \A i \in 2 .. Len(timers) : i - 1 \in DOMAIN timers' /\ timers'[i - 1] = timers[i]
        /\ Head(timers) = timers[1]
    BY <2>1
  <2>3. Words!TypeOK' /\ Rising'
    BY <1>5, <2>2 DEF Words!PulseEnds, Words!TypeOK, Rising
  <2>4. ASSUME NEW bit \in in0', NEW i \in DOMAIN timers, timers[i].bit = bit
        PROVE  \E j \in DOMAIN timers' : timers'[j].bit = bit
    <3>1. bit # timers[1].bit
      BY <1>5, <2>2, <2>4 DEF Words!PulseEnds
    <3>2. i \in 2 .. Len(timers)
      BY <2>2, <2>4, <3>1
    <3>3. QED
      BY <2>2, <2>4, <3>2
  <2>5. NothingStuck'
    BY <1>5, <2>4 DEF Words!PulseEnds, NothingStuck, Words!NothingStuck
  <2>6. QED
    BY <2>3, <2>5
<1>6. CASE Words!TogglePause
  BY <1>6 DEF Words!TogglePause, Words!TypeOK, NothingStuck, Words!NothingStuck, Rising
<1>7. CASE Words!Sample
  BY <1>7, FrameKeepsTimers DEF Words!Sample, Words!TypeOK, NothingStuck, Words!NothingStuck, Rising
<1>8. CASE Words!Asleep
  BY <1>8, FrameKeepsTimers DEF Words!Asleep, Words!TypeOK, NothingStuck, Words!NothingStuck, Rising
<1>9. QED
  BY <1>1, <1>2, <1>3, <1>4, <1>5, <1>6, <1>7, <1>8 DEF Words!Next

\* What rises between two samples was pressed: a step of the words, or a stutter.
LEMMA RisesStep ==
  ASSUME Rising, [Words!Next]_(Words!vars)
  PROVE  [sample' \ sample \subseteq pressed]_(Words!vars)
BY DEF Rising, Words!Next, Words!vars, Words!KeyDown, Words!KeyRepeat, Words!KeyUp,
       Words!KeyUpElsewhere, Words!Pulse, Words!PulseEnds, Words!TogglePause, Words!Sample,
       Words!Asleep
-----------------------------------------------------------------------------
(* The dials.  Between the board's counter and the accumulator the motion  *)
(* of a frame exists once: in the difference of the nibbles before the     *)
(* frame's first interrupt, in the accumulator after it.                   *)

DialTypes ==
  /\ game \in Game /\ at \in {"sample", "irqs", "pass"}
  /\ TRACK \in Int /\ hand = TRACK /\ sampled \in -127 .. 127 /\ heard \in Int
  /\ slot \in Nat /\ (at = "irqs" => slot < Irqs[game]) /\ (at = "pass" => slot > 0)
  /\ at = "sample" => slot = 0 /\ heard = 0

\* An accumulator, a byte, holds a motion.
Holds(accumulator, motion) == accumulator = motion % 256

\* The step the encoder takes for a frame's motion.
Cut == Spinner!Within(-7, 7, sampled)

SpinnerInv ==
  /\ knob \in 0 .. 15 /\ potPrev \in 0 .. 15 /\ spinAccum \in 0 .. 255
  /\ open \in BOOLEAN /\ offset \in 0 .. 255 /\ (open => offset <= 240)
  /\ game = "tempest" =>
       /\ Holds(spinAccum, heard)
       /\ (at = "irqs" /\ slot = 0) => heard = 0 /\ knob = (potPrev + Cut) % 16
       /\ slot > 0 => heard = Cut
       /\ (at = "sample" \/ slot > 0) => knob = potPrev

Slow == sampled \in -7 .. 7

BallInv ==
  /\ track \in 0 .. 15 /\ last \in 0 .. 15 /\ sign \in BOOLEAN
  /\ lastDelta \in 0 .. 255 /\ b9 \in 0 .. 255 /\ fraction \in {0, 128} /\ x \in 11 .. 244
  /\ game = "centiped" =>
       /\ Holds(b9, heard)
       /\ (at = "irqs" /\ slot = 0) => heard = 0
       /\ (at = "irqs" /\ slot = 0 /\ Slow) =>
            track = (last + sampled) % 16 /\ (sampled # 0 => sign = (sampled < 0))
       /\ (slot > 0 /\ Slow) => heard = sampled
       /\ (at = "sample" \/ slot > 0) => track = last

DialInv == DialTypes /\ SpinnerInv /\ BallInv

\* A clamped motion survives the byte it travels in.
LEMMA Bytes ==
  /\ \A n \in Int : clampByte(n) \in -127 .. 127
  /\ \A n \in -127 .. 127 :
       /\ byte(n) \in 0 .. 255 /\ signed(byte(n)) = n /\ Spinner!signed(byte(n)) = n
       /\ Ball!Negative(byte(n)) = (n < 0)
<1>1. \A n \in Int : clampByte(n) \in -127 .. 127
  BY DEF clampByte
<1>2. \A n \in -127 .. 127 : n < 0 => n % 256 = n + 256
  BY SMT
<1>3. \A n \in -127 .. 127 : n >= 0 => n % 256 = n
  BY SMT
<1>4. QED
  BY <1>1, <1>2, <1>3 DEF byte, signed, Spinner!signed, Ball!Negative

\* The difference of two nibbles is the step between them.
Nibble(now, before) == LET n == (now - before) % 16 IN IF n >= 8 THEN n + 240 ELSE n

LEMMA Nibbles ==
  /\ \A now, before : Spinner!nibbleDelta(now, before) = Nibble(now, before)
  /\ Ball!nibbleDelta = Nibble(track, last)
  /\ \A now, before \in 0 .. 15 : Nibble(now, before) \in 0 .. 255
  /\ \A now \in 0 .. 15 : Nibble(now, now) = 0
<1>1. \A now, before : Spinner!nibbleDelta(now, before) = Nibble(now, before)
  BY Zenon DEF Spinner!nibbleDelta, Nibble
<1>2. Ball!nibbleDelta = Nibble(track, last)
  BY Zenon DEF Ball!nibbleDelta, Nibble
<1>3. \A now, before \in 0 .. 15 : Nibble(now, before) \in 0 .. 255
  BY SMT DEF Nibble
<1>4. \A now \in 0 .. 15 : Nibble(now, now) = 0
  BY SMT DEF Nibble
<1>5. QED
  BY <1>1, <1>2, <1>3, <1>4

\* A step of less than eight either way is the difference, as a signed byte.
LEMMA NibbleSteps ==
  ASSUME NEW before \in 0 .. 15, NEW d \in -7 .. 7
  PROVE  Nibble((before + d) % 16, before) = d % 256 /\ d % 256 \in 0 .. 255
<1>1. (((before + d) % 16) - before) % 16 = IF d < 0 THEN d + 16 ELSE d
  BY SMT
<1>2. d % 256 = IF d < 0 THEN d + 256 ELSE d
  BY SMT
<1>3. QED
  BY <1>1, <1>2 DEF Nibble

\* What an accumulator moves by, taken as a signed byte, moves the motion heard.
Heard(h, before, now) == h + signed(byte(now - before))

LEMMA HeardMove ==
  ASSUME NEW a \in 0 .. 255, NEW b \in 0 .. 255, NEW h \in Int, Holds(a, h)
  PROVE  Heard(h, a, b) \in Int /\ Holds(b, Heard(h, a, b))
BY SMT DEF Holds, Heard, signed, byte

\* An accumulator that stays moves nothing.
LEMMA HeardRests ==
  ASSUME NEW a \in 0 .. 255, NEW h \in Int
  PROVE  Heard(h, a, a) = h
BY SMT DEF Heard, signed, byte

\* A motion from zero is heard as it is.
LEMMA HeardFromZero ==
  ASSUME NEW n \in -127 .. 127
  PROVE  Heard(0, 0, n % 256) = n
<1>1. ((n % 256) - 0) % 256 = n % 256 /\ n % 256 = IF n < 0 THEN n + 256 ELSE n
  BY SMT
<1>2. QED
  BY <1>1 DEF Heard, signed, byte

LEMMA Zeros == 0 % 256 = 0 /\ 0 \in -127 .. 127 /\ 0 \in 0 .. 15 /\ 0 \in 0 .. 255 /\ 0 \in Int
BY SMT

LEMMA DialsInitially == ASSUME Init PROVE DialInv
<1>1. DialTypes /\ heard = 0 /\ slot = 0 /\ at = "sample"
  BY Zeros DEF Init, DialTypes
<1>2. SpinnerInv
  <2>1. /\ knob = 0 /\ potPrev = 0 /\ spinAccum = 0 /\ offset = 0
        /\ open \in BOOLEAN /\ ~open
    BY Zenon DEF Init, MachineStarts, Spinner!Init
  <2>2. offset \in 0 .. 255 /\ ~(slot > 0)
    BY <1>1, <2>1
  <2>3. QED
    BY <1>1, <2>1, <2>2, Zeros, Zenon DEF SpinnerInv, Holds
<1>3. BallInv
  <2>1. /\ track = 0 /\ last = 0 /\ lastDelta = 0 /\ b9 = 0 /\ fraction = 0
        /\ x = 128 /\ sign \in BOOLEAN
    BY Zenon DEF Init, MachineStarts, Ball!Init
  <2>2. x \in 11 .. 244 /\ ~(slot > 0)
    BY <1>1, <2>1
  <2>3. QED
    BY <1>1, <2>1, <2>2, Zeros, Zenon DEF BallInv, Holds
<1>4. QED
  BY <1>1, <1>2, <1>3 DEF DialInv

LEMMA MoveKeeps ==
  ASSUME DialInv, NEW movement \in Movement, PointerMove(movement) PROVE DialInv'
<1>1. /\ TRACK' = TRACK + clampByte(direction * movement) /\ hand' = hand + clampByte(direction * movement)
      /\ clampByte(direction * movement) \in Int
  <2>1. direction * movement \in Int
    BY PointerAssumption DEF direction
  <2>2. clampByte(direction * movement) \in Int
    <3> DEFINE m == direction * movement
    <3>1. m \in Int
      BY <2>1
    <3> HIDE DEF m
    <3>2. clampByte(m) \in Int
      BY <3>1 DEF clampByte
    <3>3. QED
      BY <3>2 DEF m
  <2>3. QED
    BY <2>2, Zenon DEF PointerMove
<1>2. DialTypes'
  BY <1>1 DEF DialInv, DialTypes, PointerMove
<1>3. SpinnerInv' /\ BallInv'
  BY DEF DialInv, SpinnerInv, BallInv, PointerMove, spinner, ball, Cut, Spinner!Within,
         Slow, Holds
<1>4. QED
  BY <1>2, <1>3 DEF DialInv

LEMMA ResetKeeps == ASSUME DialInv, Reset PROVE DialInv'
<1>1. DialTypes' /\ heard' = 0 /\ slot' = 0 /\ at' = "sample"
  BY DEF DialInv, DialTypes, Reset, page
<1>2. SpinnerInv'
  <2>1. /\ knob' = 0 /\ potPrev' = 0 /\ spinAccum' = 0 /\ offset' = 0
        /\ open' \in BOOLEAN /\ ~open'
    BY Zenon DEF Reset
  <2>2. offset' \in 0 .. 255 /\ ~(slot' > 0)
    BY <1>1, <2>1
  <2>3. QED
    BY <1>1, <2>1, <2>2, Zeros, Zenon DEF SpinnerInv, Holds
<1>3. BallInv'
  <2>1. /\ track' = 0 /\ last' = 0 /\ lastDelta' = 0 /\ b9' = 0 /\ fraction' = 0
        /\ x' = 128 /\ sign' \in BOOLEAN
    BY Zenon DEF Reset
  <2>2. x' \in 11 .. 244 /\ ~(slot' > 0)
    BY <1>1, <2>1
  <2>3. QED
    BY <1>1, <2>1, <2>2, Zeros, Zenon DEF BallInv, Holds
<1>4. QED
  BY <1>1, <1>2, <1>3 DEF DialInv

LEMMA SampleKeeps == ASSUME DialInv, Sample PROVE DialInv'
<1>1. /\ clampByte(TRACK) \in -127 .. 127 /\ sampled' = clampByte(TRACK)
      /\ TRACK = 0 => sampled' = 0
  <2>1. TRACK \in Int /\ hand = TRACK
    BY DEF DialInv, DialTypes
  <2>2. sampled' = clampByte(hand)
    BY Zenon DEF Sample
  <2>3. clampByte(TRACK) \in -127 .. 127 /\ (TRACK = 0 => clampByte(TRACK) = 0)
    BY <2>1 DEF clampByte
  <2>4. QED
    BY <2>1, <2>2, <2>3
<1>2. DialTypes'
  BY <1>1, PointerAssumption DEF DialInv, DialTypes, Sample
<1>3. SpinnerInv'
  <2>1. CASE game = "tempest" /\ TRACK # 0
    <3>1. knob' = (knob + Cut') % 16
      BY <1>1, <2>1, Bytes DEF Sample, Spinner!ApplyTrackball, Spinner!encoderStep, Cut, Spinner!Within
    <3>2. Cut' \in -7 .. 7
      BY <1>1 DEF Cut, Spinner!Within
    <3>3. knob' \in 0 .. 15
      <4>1. knob \in 0 .. 15
        BY DEF DialInv, SpinnerInv
      <4>2. \A k \in 0 .. 15, c \in -7 .. 7 : (k + c) % 16 \in 0 .. 15
        BY SMT
      <4>3. QED
        BY <3>1, <3>2, <4>1, <4>2, Zenon
    <3>4. QED
      BY <2>1, <3>1, <3>3 DEF DialInv, DialTypes, SpinnerInv, Sample, Spinner!ApplyTrackball
  <2>2. CASE game = "tempest" /\ TRACK = 0
    <3>1. Cut' = 0 /\ knob' = knob
      BY <1>1, <2>2 DEF Sample, spinner, Cut, Spinner!Within
    <3>2. knob' = (potPrev + Cut') % 16
      BY <2>2, <3>1 DEF DialInv, DialTypes, SpinnerInv, Sample
    <3>3. QED
      BY <2>2, <3>1, <3>2 DEF DialInv, DialTypes, SpinnerInv, Sample, spinner
  <2>3. CASE game # "tempest"
    BY <2>3 DEF DialInv, DialTypes, SpinnerInv, Sample, spinner
  <2>4. QED
    BY <2>1, <2>2, <2>3
<1>4. BallInv'
  <2>1. CASE game = "centiped" /\ TRACK # 0
    <3>1. /\ track' = (track + byte(sampled')) % 16 /\ sign' = (sampled' < 0)
          /\ byte(sampled') \in 0 .. 255
      BY <1>1, <2>1, Bytes DEF Sample, Ball!ApplyTrackball
    <3>2. track' = (track + sampled') % 16 /\ track' \in 0 .. 15 /\ sign' \in BOOLEAN
      BY <1>1, <3>1 DEF DialInv, BallInv, byte
    <3>3. QED
      BY <2>1, <3>1, <3>2 DEF DialInv, DialTypes, BallInv, Sample, Ball!ApplyTrackball, Slow
  <2>2. CASE game = "centiped" /\ TRACK = 0
    <3>1. sampled' = 0 /\ track' = track
      BY <1>1, <2>2 DEF Sample, ball
    <3>2. track' = (last + sampled') % 16
      BY <2>2, <3>1 DEF DialInv, DialTypes, BallInv, Sample
    <3>3. QED
      BY <2>2, <3>1, <3>2 DEF DialInv, DialTypes, BallInv, Sample, ball, Slow
  <2>3. CASE game # "centiped"
    BY <2>3 DEF DialInv, DialTypes, BallInv, Sample, ball
  <2>4. QED
    BY <2>1, <2>2, <2>3
<1>5. QED
  BY <1>2, <1>3, <1>4 DEF DialInv

\* The first interrupt of a frame hears the whole step, the others nothing.
LEMMA SpinnerIrq ==
  ASSUME DialTypes, SpinnerInv, Irq, game = "tempest" PROVE SpinnerInv'
<1>1. /\ spinAccum' = (spinAccum + Spinner!nibbleDelta(knob, potPrev)) % 256
      /\ potPrev' = knob /\ knob' = knob /\ open' = open /\ offset' = offset
      /\ heard' = Heard(heard, spinAccum, spinAccum')
      /\ game' = game /\ sampled' = sampled /\ slot' = slot + 1 /\ slot' > 0 /\ at = "irqs"
  BY DEF Irq, Spinner!Heartbeat, page, DialTypes, Heard
<1>2. /\ knob \in 0 .. 15 /\ potPrev \in 0 .. 15 /\ spinAccum \in 0 .. 255
      /\ open \in BOOLEAN /\ offset \in 0 .. 255 /\ (open => offset <= 240)
      /\ Holds(spinAccum, heard) /\ heard \in Int /\ slot \in Nat
  BY DEF SpinnerInv, DialTypes
<1>3. Cut \in -7 .. 7 /\ Cut' = Cut
  BY <1>1 DEF DialTypes, Cut, Spinner!Within
<1> DEFINE d == Nibble(knob, potPrev)
<1>4. d \in 0 .. 255 /\ spinAccum' = (spinAccum + d) % 256
  BY <1>1, <1>2, Nibbles
<1> HIDE DEF d
<1>5. spinAccum' \in 0 .. 255
  BY <1>2, <1>4
<1>6. heard' \in Int /\ Holds(spinAccum', heard')
  <2>1. heard' = Heard(heard, spinAccum, spinAccum') /\ Holds(spinAccum, heard)
    BY <1>1, <1>2
  <2>2. spinAccum \in 0 .. 255 /\ spinAccum' \in 0 .. 255 /\ heard \in Int
    BY <1>2, <1>5
  <2>3. QED
    BY <2>1, <2>2, HeardMove
<1>7. heard' = Cut
  <2>1. CASE slot = 0
    <3>1. heard = 0 /\ spinAccum = 0 /\ knob = (potPrev + Cut) % 16
      BY <1>1, <1>2, <2>1, Zeros DEF SpinnerInv, Holds
    <3>2. d = Cut % 256
      <4>1. potPrev \in 0 .. 15 /\ Cut \in -7 .. 7
        BY <1>2, <1>3
      <4>2. QED
        BY <3>1, <4>1, NibbleSteps, Zenon DEF d
    <3>3. spinAccum' = Cut % 256
      BY <1>4, <3>1, <3>2
    <3>4. heard' = Heard(0, 0, Cut % 256)
      BY <1>1, <3>1, <3>3, Zenon
    <3>5. Cut \in -127 .. 127
      BY <1>3
    <3>6. QED
      BY <3>4, <3>5, HeardFromZero, Zenon
  <2>2. CASE slot # 0
    <3>1. heard = Cut /\ knob = potPrev
      BY <1>1, <1>2, <2>2 DEF SpinnerInv
    <3>2. d = 0
      BY <1>2, <3>1, Nibbles, Zenon DEF d
    <3>3. spinAccum' = spinAccum
      BY <1>2, <1>4, <3>2
    <3>4. heard' = Heard(heard, spinAccum, spinAccum')
      BY <1>1
    <3>5. Heard(heard, spinAccum, spinAccum) = heard
      BY <1>2, HeardRests
    <3>6. QED
      BY <3>1, <3>3, <3>4, <3>5
  <2>3. QED
    BY <2>1, <2>2
<1>8. QED
  BY <1>1, <1>2, <1>3, <1>5, <1>6, <1>7 DEF SpinnerInv

\* The direction the counter latched confirms what its nibble says of a slow motion.
LEMMA BallIrq ==
  ASSUME DialTypes, BallInv, Irq, game = "centiped" PROVE BallInv'
<1> DEFINE d == Nibble(track, last)
<1>1. /\ last' = track /\ track' = track /\ sign' = sign /\ fraction' = fraction /\ x' = x
      /\ heard' = Heard(heard, b9, b9')
      /\ game' = game /\ sampled' = sampled /\ slot' = slot + 1 /\ slot' > 0 /\ at = "irqs"
      /\ d = 0 => lastDelta' = lastDelta /\ b9' = b9
      /\ d # 0 => lastDelta' = Ball!filtered(d) /\ b9' = (b9 + Ball!filtered(d)) % 256
  <2>1. /\ Ball!Irq /\ at = "irqs" /\ slot' = slot + 1
        /\ heard' = heard + signed(byte(b9' - b9)) /\ game' = game /\ sampled' = sampled
    BY Zenon DEF Irq
  <2>2. Ball!nibbleDelta = d
    BY Zenon DEF Ball!nibbleDelta, Nibble
  <2>3. heard' = Heard(heard, b9, b9')
    BY <2>1, Zenon DEF Heard
  <2>4. slot' > 0
    BY <2>1 DEF DialTypes
  <2>5. /\ last' = track /\ track' = track /\ sign' = sign /\ fraction' = fraction /\ x' = x
        /\ d = 0 => lastDelta' = lastDelta /\ b9' = b9
        /\ d # 0 => lastDelta' = Ball!filtered(d) /\ b9' = (b9 + Ball!filtered(d)) % 256
    <3> HIDE DEF d
    <3> QED
      BY <2>1, <2>2, Zenon DEF Ball!Irq
  <2>6. QED
    BY <2>1, <2>3, <2>4, <2>5, Zenon
<1>2. /\ track \in 0 .. 15 /\ last \in 0 .. 15 /\ sign \in BOOLEAN
      /\ lastDelta \in 0 .. 255 /\ b9 \in 0 .. 255 /\ fraction \in {0, 128} /\ x \in 11 .. 244
      /\ Holds(b9, heard) /\ heard \in Int /\ slot \in Nat
  BY DEF BallInv, DialTypes
<1>3. d \in 0 .. 255
  BY <1>2, Nibbles
<1>4. Ball!filtered(d) \in 0 .. 255
  BY <1>2, <1>3 DEF Ball!filtered
<1> HIDE DEF d
<1>5. lastDelta' \in 0 .. 255 /\ b9' \in 0 .. 255
  <2>1. \A a, b \in 0 .. 255 : (a + b) % 256 \in 0 .. 255
    BY SMT
  <2>2. CASE d = 0
    BY <1>1, <1>2, <2>2
  <2>3. CASE d # 0
    <3>1. lastDelta' = Ball!filtered(d) /\ b9' = (b9 + Ball!filtered(d)) % 256 /\ b9 \in 0 .. 255
      BY <1>1, <1>2, <2>3
    <3>2. QED
      BY <1>4, <2>1, <3>1, Zenon
  <2>4. QED
    BY <2>2, <2>3
<1>6. heard' \in Int /\ Holds(b9', heard')
  <2>1. heard' = Heard(heard, b9, b9') /\ Holds(b9, heard)
    BY <1>1, <1>2
  <2>2. b9 \in 0 .. 255 /\ b9' \in 0 .. 255 /\ heard \in Int
    BY <1>2, <1>5
  <2>3. QED
    BY <2>1, <2>2, HeardMove
<1>7. ASSUME Slow PROVE heard' = sampled
  <2>1. ASSUME track = last, heard = sampled PROVE heard' = sampled
    <3>1. d = 0
      BY <1>2, <2>1, Nibbles, Zenon DEF d
    <3>2. b9' = b9 /\ heard' = Heard(heard, b9, b9')
      BY <1>1, <3>1
    <3>3. Heard(heard, b9, b9) = heard
      <4>1. b9 \in 0 .. 255 /\ heard \in Int
        BY <1>2
      <4>2. QED
        BY <4>1, HeardRests
    <3>4. QED
      BY <2>1, <3>2, <3>3, Zenon
  <2>2. CASE slot = 0 /\ sampled = 0
    <3>1. heard = 0 /\ track = (last + 0) % 16
      BY <1>1, <1>2, <1>7, <2>2 DEF BallInv
    <3>2. track = last
      BY <1>2, <3>1
    <3>3. QED
      BY <2>1, <2>2, <3>1, <3>2
  <2>3. CASE slot = 0 /\ sampled # 0
    <3>1. heard = 0 /\ b9 = 0 /\ track = (last + sampled) % 16 /\ sign = (sampled < 0)
      BY <1>1, <1>2, <1>7, <2>3, Zeros DEF BallInv, Holds
    <3>2. d = sampled % 256
      <4>1. last \in 0 .. 15 /\ sampled \in -7 .. 7
        BY <1>2, <1>7 DEF Slow
      <4>2. QED
        BY <3>1, <4>1, NibbleSteps, Zenon DEF d
    <3>3. d # 0 /\ Ball!Negative(d) = (sampled < 0)
      BY <1>7, <2>3, <3>2 DEF Slow, Ball!Negative
    <3>4. Ball!filtered(d) = d
      BY <3>1, <3>3, Zenon DEF Ball!filtered
    <3>5. b9' = sampled % 256
      BY <1>1, <1>3, <3>1, <3>2, <3>3, <3>4
    <3>6. heard' = Heard(0, 0, sampled % 256)
      BY <1>1, <3>1, <3>5, Zenon
    <3>7. sampled \in -127 .. 127
      BY <1>7 DEF Slow
    <3>8. QED
      BY <3>6, <3>7, HeardFromZero, Zenon
  <2>4. CASE slot # 0
    <3>1. heard = sampled /\ track = last
      BY <1>1, <1>2, <1>7, <2>4 DEF BallInv
    <3>2. QED
      BY <2>1, <3>1
  <2>5. QED
    BY <2>2, <2>3, <2>4
<1>8. QED
  BY <1>1, <1>2, <1>5, <1>6, <1>7 DEF BallInv, Slow

LEMMA IrqKeeps == ASSUME DialInv, Irq PROVE DialInv'
<1>1. Irqs[game] \in Nat \ {0} /\ game \in {"tempest", "centiped"} /\ slot \in Nat
  BY PointerAssumption DEF DialInv, DialTypes
<1>2. \A a, b \in 0 .. 255, h \in Int : h + signed(byte(b - a)) \in Int
  BY SMT DEF signed, byte
<1>3. CASE game = "tempest"
  <2>1. SpinnerInv'
    BY <1>3, SpinnerIrq DEF DialInv
  <2>2. BallInv'
    BY <1>3 DEF DialInv, DialTypes, BallInv, Irq, ball
  <2>3. heard' \in Int
    <3>1. spinAccum \in 0 .. 255 /\ spinAccum' \in 0 .. 255 /\ heard \in Int
      BY <2>1 DEF DialInv, DialTypes, SpinnerInv
    <3>2. heard' = heard + signed(byte(spinAccum' - spinAccum))
      BY <1>3 DEF Irq
    <3>3. QED
      BY <1>2, <3>1, <3>2
  <2>4. DialTypes'
    BY <1>1, <2>3 DEF DialInv, DialTypes, Irq, page
  <2>5. QED
    BY <2>1, <2>2, <2>4 DEF DialInv
<1>4. CASE game = "centiped"
  <2>1. BallInv'
    BY <1>4, BallIrq DEF DialInv
  <2>2. SpinnerInv'
    BY <1>4 DEF DialInv, DialTypes, SpinnerInv, Irq, spinner
  <2>3. heard' \in Int
    <3>1. b9 \in 0 .. 255 /\ b9' \in 0 .. 255 /\ heard \in Int
      BY <2>1 DEF DialInv, DialTypes, BallInv
    <3>2. heard' = heard + signed(byte(b9' - b9))
      BY <1>4 DEF Irq
    <3>3. QED
      BY <1>2, <3>1, <3>2
  <2>4. DialTypes'
    BY <1>1, <2>3 DEF DialInv, DialTypes, Irq, page
  <2>5. QED
    BY <2>1, <2>2, <2>4 DEF DialInv
<1>5. QED
  BY <1>1, <1>3, <1>4

\* The turn of the blaster is the motion heard.
LEMMA TurnIsHeard ==
  ASSUME DialInv, game = "tempest", at = "pass"
  PROVE  heard = Cut /\ heard \in -7 .. 7 /\ Spinner!turn = heard
<1>1. heard = Cut /\ heard \in -7 .. 7 /\ Holds(spinAccum, heard)
  BY DEF DialInv, DialTypes, SpinnerInv, Cut, Spinner!Within
<1>2. \A n \in -7 .. 7 : n % 256 = IF n < 0 THEN n + 256 ELSE n
  BY SMT
<1>3. spinAccum = IF heard < 0 THEN heard + 256 ELSE heard
  BY <1>1, <1>2 DEF Holds
<1>4. Spinner!signed(spinAccum) = heard
  BY <1>1, <1>3 DEF Spinner!signed
<1>5. Spinner!turn = heard
  BY <1>1, <1>4 DEF Spinner!turn, Spinner!Within
<1>6. QED
  BY <1>1, <1>5

\* The cap and the test of signs are the end stops, for the turns there are.
LEMMA EndStops ==
  ASSUME DialInv, game = "tempest", at = "pass"
  PROVE  /\ Spinner!afterTurn \in 0 .. 255 /\ (open => Spinner!afterTurn <= 240)
         /\ Spinner!afterTurn = IF open THEN Spinner!Within(0, 239, offset - heard)
                                       ELSE byte(offset - heard)
<1>1. /\ Spinner!turn = heard /\ heard \in -7 .. 7
      /\ offset \in 0 .. 255 /\ (open => offset <= 240) /\ open \in BOOLEAN
  BY TurnIsHeard DEF DialInv, SpinnerInv
<1> DEFINE c == (offset - heard) % 256
<1>2. c \in 0 .. 255
  BY <1>1
<1>3. CASE ~open
  BY <1>1, <1>2, <1>3 DEF Spinner!afterTurn, byte
<1>4. CASE open
  <2>1. offset \in 0 .. 240
    BY <1>1, <1>4
  <2>2. \A o \in 0 .. 240, t \in -7 .. 7 :
          LET k == (o - t) % 256
              capped == IF k >= 240 THEN 239 ELSE k
          IN  (IF (capped >= 128) # (t < 0) /\ (capped >= 128) # (o >= 128)
                 THEN IF o >= 128 THEN 239 ELSE 0 ELSE capped)
              = IF o - t < 0 THEN 0 ELSE IF o - t > 239 THEN 239 ELSE o - t
    BY SMT
  <2>3. Spinner!afterTurn = Spinner!Within(0, 239, offset - heard)
    BY <1>1, <1>4, <2>1, <2>2 DEF Spinner!afterTurn, Spinner!Negative, Spinner!Within
  <2>4. Spinner!Within(0, 239, offset - heard) \in 0 .. 239
    BY <1>1 DEF Spinner!Within
  <2>5. QED
    BY <1>4, <2>3, <2>4
<1>5. QED
  BY <1>1, <1>3, <1>4

LEMMA PassKeeps == ASSUME DialInv, Pass PROVE DialInv'
<1>1. DialTypes'
  BY DEF DialInv, DialTypes, Pass, page
<1>2. /\ at = "pass" /\ at' = "sample" /\ slot' = 0 /\ slot > 0 /\ heard' = 0 /\ game' = game
      /\ ~(slot' > 0) /\ ~(at' = "irqs")
  BY DEF DialInv, DialTypes, Pass
<1>3. CASE game = "tempest"
  <2>1. UNCHANGED ball /\ (Spinner!RotateBlasterAroundRim \/ Spinner!RunLevelInit)
    BY <1>3 DEF Pass
  <2>2. BallInv'
    BY <1>2, <1>3, <2>1 DEF DialInv, BallInv, ball
  <2>3. knob \in 0 .. 15 /\ potPrev = knob /\ knob' = knob /\ potPrev' = potPrev /\ spinAccum' = 0
    BY <1>2, <1>3, <2>1 DEF DialInv, DialTypes, SpinnerInv, Spinner!RotateBlasterAroundRim, Spinner!RunLevelInit
  <2>4. open' \in BOOLEAN /\ offset' \in 0 .. 255 /\ (open' => offset' <= 240)
    <3>1. CASE Spinner!RotateBlasterAroundRim
      BY <1>2, <1>3, <3>1, EndStops DEF DialInv, SpinnerInv, Spinner!RotateBlasterAroundRim
    <3>2. CASE Spinner!RunLevelInit
      BY <3>2 DEF Spinner!RunLevelInit
    <3>3. QED
      BY <2>1, <3>1, <3>2
  <2>5. SpinnerInv'
    BY <1>2, <1>3, <2>3, <2>4, Zeros, Zenon DEF SpinnerInv, Holds
  <2>6. QED
    BY <1>1, <2>2, <2>5 DEF DialInv
<1>4. CASE game = "centiped"
  <2>1. UNCHANGED spinner /\ \E blocked \in BOOLEAN : Ball!Move(blocked)
    BY <1>4 DEF Pass
  <2>2. SpinnerInv'
    BY <1>2, <1>4, <2>1 DEF DialInv, SpinnerInv, spinner
  <2>3. b9' = 0 /\ track' = track /\ last' = last /\ sign' = sign /\ lastDelta' = lastDelta
    BY <2>1 DEF Ball!Move
  <2>4. fraction' \in {0, 128} /\ x' \in 11 .. 244
    <3>1. PICK blocked \in BOOLEAN : Ball!Move(blocked)
      BY <2>1
    <3>2. fraction \in {0, 128} /\ Ball!oddHalf \in {0, 128} /\ x \in 11 .. 244 /\ b9 \in 0 .. 255
      BY DEF DialInv, BallInv, Ball!oddHalf
    <3>3. fraction' \in {0, 128}
      BY <3>1, <3>2 DEF Ball!Move
    <3>4. \A n \in Int : Ball!inBand(n % 256) \in 11 .. 244
      BY SMT DEF Ball!inBand
    <3>5. Ball!halved \in Int /\ Ball!carry \in Int
      BY <3>2 DEF Ball!halved, Ball!step, Ball!carry, Ball!Negative
    <3>6. QED
      BY <3>1, <3>2, <3>3, <3>4, <3>5 DEF Ball!Move
  <2>5. BallInv'
    <3>1. /\ track \in 0 .. 15 /\ last = track /\ sign \in BOOLEAN /\ lastDelta \in 0 .. 255
      BY <1>2, <1>4 DEF DialInv, BallInv
    <3>2. QED
      BY <1>2, <1>4, <2>3, <2>4, <3>1, Zeros, Zenon DEF BallInv, Holds
  <2>6. QED
    BY <1>1, <2>2, <2>5 DEF DialInv
<1>5. QED
  BY <1>3, <1>4, PointerAssumption DEF DialInv, DialTypes

\* Half of a slow motion moves the player, its odd half waits in the fraction.
LEMMA HalfPixels ==
  ASSUME DialInv, game = "centiped", at = "pass", Slow, NEW blocked \in BOOLEAN,
         Ball!Move(blocked), x' # x, x' \in 12 .. 243
  PROVE  2 * x' + fraction' \div 128 = 2 * x + fraction \div 128 + sampled
<1>1. /\ heard = sampled /\ Holds(b9, heard) /\ sampled \in -7 .. 7
      /\ x \in 11 .. 244 /\ fraction \in {0, 128}
  BY DEF DialInv, DialTypes, BallInv, Slow
<1>2. \A n \in -7 .. 7 : n % 256 = IF n < 0 THEN n + 256 ELSE n
  BY SMT
<1>3. b9 = IF sampled < 0 THEN sampled + 256 ELSE sampled
  BY <1>1, <1>2 DEF Holds
<1>4. Ball!step = b9
  BY <1>1, <1>3 DEF Ball!step
<1>5. /\ Ball!oddHalf = (IF sampled % 2 = 1 THEN 128 ELSE 0)
      /\ Ball!halved = (IF sampled < 0 THEN 256 ELSE 0) + (sampled \div 2)
  BY <1>1, <1>3, <1>4 DEF Ball!oddHalf, Ball!halved, Ball!Negative
<1>6. sampled = 2 * (sampled \div 2) + (sampled % 2) /\ sampled % 2 \in {0, 1}
      /\ sampled \div 2 \in -4 .. 3
  <2>1. \A n \in -7 .. 7 : n = 2 * (n \div 2) + (n % 2)
    BY SMT
  <2>2. \A n \in -7 .. 7 : n % 2 = 0 \/ n % 2 = 1
    BY SMT
  <2>3. \A n \in -7 .. 7 : n \div 2 \in -4 .. 3
    BY SMT
  <2>4. QED
    BY <1>1, <2>1, <2>2, <2>3
<1> DEFINE h == sampled \div 2
           odd == sampled % 2
           on == Ball!carry
<1>7. /\ fraction' = (fraction + Ball!oddHalf) % 256
      /\ x' = Ball!inBand((x + Ball!halved + on) % 256)
  BY DEF Ball!Move
<1>8. /\ on \in {0, 1}
      /\ fraction' \div 128 + 2 * on = fraction \div 128 + odd
  BY <1>1, <1>5, <1>6, <1>7 DEF Ball!carry
<1>9. (x + Ball!halved + on) % 256 = x + h + on
  BY <1>1, <1>5, <1>6, <1>8
<1>10. x + h + on \in Int /\ fraction' \div 128 \in Int /\ fraction \div 128 \in Int
  BY <1>1, <1>5, <1>6, <1>7, <1>8
<1>11. x' = x + h + on
  BY <1>7, <1>9, <1>10 DEF Ball!inBand
<1>12. QED
  BY <1>1, <1>6, <1>8, <1>10, <1>11

-----------------------------------------------------------------------------
(* Both.  A step of one part leaves the other as it is.                    *)

InputsInv == device \in {"keys", "mouse"} /\ WordsInv /\ DialInv

LEMMA InputsInitially == InputsInit => InputsInv
BY WordsInitially, DialsInitially DEF InputsInit, InputsInv

LEMMA DialStep == ASSUME DialInv, Next PROVE DialInv'
BY MoveKeeps, ResetKeeps, SampleKeeps, IrqKeeps, PassKeeps DEF Next

LEMMA WordsStand == ASSUME WordsInv, UNCHANGED wordVars PROVE WordsInv'
BY DEF WordsInv, wordVars, Words!TypeOK, NothingStuck, Words!NothingStuck, Rising

LEMMA DialsStand == ASSUME DialInv, UNCHANGED pointerVars PROVE DialInv'
BY DEF DialInv, pointerVars, page, spinner, ball, DialTypes, SpinnerInv, BallInv, Cut,
       Spinner!Within, Slow, Holds

LEMMA InputsStep == ASSUME InputsInv, [InputsNext]_inputVars PROVE InputsInv'
<1>1. CASE Keys
  BY <1>1, WordsStep, DialsStand DEF Keys, InputsInv
<1>2. CASE Mouse
  BY <1>2, DialStep, WordsStand DEF Mouse, InputsInv
<1>3. CASE UNCHANGED inputVars
  BY <1>3, WordsStand, DialsStand DEF inputVars, InputsInv
<1>4. QED
  BY <1>1, <1>2, <1>3 DEF InputsNext

\* The invariant of the words and the dials.
THEOREM InputsInvariant == InputsSpec => []InputsInv
<1>1. InputsInit => InputsInv
  BY InputsInitially
<1>2. InputsInv /\ [InputsNext]_inputVars => InputsInv'
  BY InputsStep
<1>3. QED
  BY <1>1, <1>2, PTL DEF InputsSpec

\* Every bit of the word has a key or a timer behind it (keydown, keyup and pulse of
\* player.html).
THEOREM NoBitSticks == InputsSpec => []NothingStuck
<1>1. InputsInv => NothingStuck
  BY DEF InputsInv, WordsInv
<1>2. QED
  BY <1>1, InputsInvariant, PTL

\* The game sees no press nobody made (readInputsInto of worker.js): one coin is one coin.
THEOREM NoPhantomPress == InputsSpec => RisesOnlyOnPress
<1>1. InputsInv /\ [InputsNext]_inputVars => [sample' \ sample \subseteq pressed]_(Words!vars)
  <2> SUFFICES ASSUME InputsInv, [InputsNext]_inputVars
               PROVE  [sample' \ sample \subseteq pressed]_(Words!vars)
    OBVIOUS
  <2>1. Rising /\ [Words!Next]_(Words!vars)
    BY DEF InputsInv, WordsInv, InputsNext, Keys, Mouse, inputVars, wordVars, Words!vars
  <2>2. QED
    BY <2>1, RisesStep
<1>2. QED
  BY <1>1, InputsInvariant, PTL DEF InputsSpec, RisesOnlyOnPress, Words!RisesOnlyOnPress

\* Tempest: a frame's interrupts hear the motion of the frame, cut to the encoder's step
\* (applyTrackball of boards/tempest, serviceHeartbeatInterrupt).
THEOREM KnobFollows == InputsSpec => []KnobFollowsHand
<1>1. InputsInv => KnobFollowsHand
  BY DEF InputsInv, DialInv, DialTypes, SpinnerInv, KnobFollowsHand, Cut
<1>2. QED
  BY <1>1, InputsInvariant, PTL

\* Tempest: the blaster turns by what was heard, up to the end stops (rotateBlasterAroundRim).
THEOREM BlasterStops == InputsSpec => BlasterStopsAtEnds
<1> DEFINE A == game = "tempest" /\ at = "pass" /\ at' = "sample" =>
                  offset' \in {LevelStart, IF open THEN Spinner!Within(0, 239, offset - heard)
                                           ELSE byte(offset - heard)}
<1>1. InputsInv /\ [InputsNext]_inputVars => [A]_pointerVars
  <2> SUFFICES ASSUME InputsInv, Next, game = "tempest", at = "pass"
               PROVE  A
    BY DEF InputsNext, Keys, Mouse, inputVars
  <2>1. CASE Pass
    BY <2>1, EndStops DEF InputsInv, Pass, LevelStart, Spinner!RotateBlasterAroundRim,
                          Spinner!RunLevelInit
  <2>2. CASE ~Pass
    BY <2>2 DEF Next, PointerMove, Reset, Sample, Irq
  <2>3. QED
    BY <2>1, <2>2
<1>2. QED
  BY <1>1, InputsInvariant, PTL DEF InputsSpec, BlasterStopsAtEnds

\* Centipede: a slow motion is heard exactly (accumulateTrackballAndReturnFromIrq).
THEOREM SlowBall == InputsSpec => []SlowBallIsExact
<1>1. InputsInv => SlowBallIsExact
  BY DEF InputsInv, DialInv, DialTypes, BallInv, Slow, SlowBallIsExact
<1>2. QED
  BY <1>1, InputsInvariant, PTL

\* Centipede: ... and moves the player by its half, to the half-pixel (clampAndHalveSignedDelta).
THEOREM HalfPixelsKept == InputsSpec => NoHalfPixelLost
<1> DEFINE A == game = "centiped" /\ at = "pass" /\ sampled \in -7 .. 7 /\ x' # x /\ x' \in 12 .. 243 =>
                  2 * x' + fraction' \div 128 = 2 * x + fraction \div 128 + sampled
<1>1. InputsInv /\ [InputsNext]_inputVars => [A]_pointerVars
  <2> SUFFICES ASSUME InputsInv, Next, game = "centiped", at = "pass", x' # x PROVE A
    BY DEF InputsNext, Keys, Mouse, inputVars
  <2>1. \E blocked \in BOOLEAN : Ball!Move(blocked)
    BY DEF Next, PointerMove, Reset, Sample, Irq, Pass, ball, spinner, page
  <2>2. QED
    BY <2>1, HalfPixels DEF InputsInv, Slow
<1>2. QED
  BY <1>1, InputsInvariant, PTL DEF InputsSpec, NoHalfPixelLost
=============================================================================
