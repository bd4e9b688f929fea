----------------------------- MODULE LatchAudio -----------------------------
(***************************************************************************)
(* Donkey Kong's dispatcher (setupAudio, SOUNDS.model "latch"): tunes on   *)
(* the latch, one on the IRQ line, effects on the trigger bits.            *)
(***************************************************************************)
EXTENDS SamplePlayer

CONSTANTS LoopTune,   \* latch values of kind "loop"
          PulseTune,  \* those of kind "oneshot", and the IRQ tune
          Held,       \* recorded triggers of behaviour "level": gate
          None        \* no background

VARIABLE background   \* the looping tune the dispatcher knows of

\* Mutant: a latch write silences everything.
MEnded(vs) == <<>>

\* The next latch write ends the background, and nothing else.
ended(vs) == IF background = None THEN vs ELSE Stopped(vs, background)

\* A value without a tune, 0 among them.
LatchSilence ==
  /\ voices' = ended(voices) /\ background' = None
  /\ UNCHANGED <<ctx, decoded, muted>>

LatchLoop(tune) ==
  /\ voices' = Played(ended(voices), tune, TRUE) /\ background' = tune
  /\ UNCHANGED <<ctx, decoded, muted>>

LatchPulse(tune) ==
  /\ voices' = Played(ended(voices), tune, FALSE) /\ background' = None
  /\ UNCHANGED <<ctx, decoded, muted>>

LatchWrite ==
  \/ LatchSilence
  \/ \E tune \in LoopTune : LatchLoop(tune)
  \/ \E tune \in PulseTune : LatchPulse(tune)

\* The IRQ line rises; its fall is ignored.
IrqRises(tune) ==
  /\ voices' = Played(voices, tune, FALSE)
  /\ UNCHANGED <<ctx, decoded, muted, background>>

\* One circuit, one voice: a synthesised effect starts over.
retriggered(vs, name) == IF name \in Circuit THEN Stopped(vs, name) ELSE vs

TriggerRises(name) ==
  /\ voices' = Played(retriggered(voices, name), name, FALSE)
  /\ UNCHANGED <<ctx, decoded, muted, background>>

TriggerFalls(name) ==
  /\ voices' = IF name \in Held THEN Stopped(voices, name) ELSE voices
  /\ UNCHANGED <<ctx, decoded, muted, background>>

\* The background is forgotten whichever way the switch goes.
ToggleMute == MuteSwitch /\ voices' = kept(voices) /\ background' = None

Next ==
  \/ LatchWrite \/ ToggleMute
  \/ \E tune \in PulseTune : IrqRises(tune)
  \/ \E name \in Circuit \cup Held : TriggerRises(name) \/ TriggerFalls(name)

-----------------------------------------------------------------------------
\* The only tune heard in a loop is the background, which the next latch write stops.
Accounted ==
  Cardinality(HeardLoops) <= 1 /\ \A i \in HeardLoops : voices[i].name = background

Sounding == background # None /\ Voices(background) # {}
TuneSurvives == Sounding => Sounding' \/ LatchWrite \/ ToggleMute
=============================================================================
