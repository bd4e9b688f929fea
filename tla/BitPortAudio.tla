---------------------------- MODULE BitPortAudio ----------------------------
(***************************************************************************)
(* Space Invaders' dispatcher (setupBitPortAudio): a sound for each bit of *)
(* two ports, fired as the bit rises; a sound of kind "loop" lasts as long *)
(* as its bit is up.  One port is modelled: a write names all its bits.    *)
(***************************************************************************)
EXTENDS SamplePlayer

CONSTANTS BitOrder,  \* the bits of the port, from the lowest
          LoopBit    \* those of kind "loop"

VARIABLES bits,    \* the last value written: prev
          looping  \* keys whose loop was started

Bit == Range(BitOrder)

DispatcherInit == bits = {} /\ looping = {}

Starts(on) == {bit \in LoopBit : bit \in on \ bits /\ bit \notin looping}

Ends(on) == {bit \in LoopBit : bit \in bits \ on /\ bit \in looping}

\* One bit of a write: a loop starts or stops, a one-shot plays.
heardBit(vs, on, bit) ==
  CASE bit \in Starts(on)            -> Played(vs, bit, TRUE)
    [] bit \in Ends(on)              -> Stopped(vs, bit)
    [] bit \in (on \ bits) \ LoopBit -> Played(vs, bit, FALSE)
    [] OTHER                         -> vs

\* The bits in order.
heard(vs, on) ==
  LET upTo[n \in 0 .. Len(BitOrder)] ==
        IF n = 0 THEN vs ELSE heardBit(upTo[n - 1], on, BitOrder[n])
  IN  upTo[Len(BitOrder)]

PortWrite(on) ==
  /\ bits' = on /\ voices' = heard(voices, on)
  /\ looping' = (looping \cup Starts(on)) \ Ends(on)
  /\ UNCHANGED <<ctx, decoded, muted>>

ToggleMute ==
  /\ MuteSwitch /\ voices' = kept(voices)
  /\ looping' = IF muted THEN looping ELSE {}
  /\ UNCHANGED bits

Next == ToggleMute \/ \E on \in SUBSET Bit : PortWrite(on)

-----------------------------------------------------------------------------
\* A loop is heard only while its bit is up, and once.
Accounted ==
  \A i \in HeardLoops :
    /\ voices[i].name \in bits \cap looping
    /\ \A j \in HeardLoops : voices[j].name = voices[i].name => i = j

TuneSurvives ==
  \A bit \in LoopBit :
    (\E i \in Loops : voices[i].name = bit) =>
       (\E i \in Loops : voices[i].name = bit)' \/ bit \notin bits' \/ ToggleMute
=============================================================================
