------------------------------ MODULE ClipAudio ------------------------------
(***************************************************************************)
(* The dispatcher of boards with a sound CPU (setupClipAudio): one clip    *)
(* for each command, one voice for effects, and beds of background music   *)
(* that loop on voices of their own and fade into each other.  A map with  *)
(* a control port plays the latched command when the port's interrupt bit  *)
(* falls (Frogger), one without plays it as it is written (Pooyan, Time    *)
(* Pilot, The Pit).  No command is both an effect and a bed.               *)
(***************************************************************************)
EXTENDS SamplePlayer

CONSTANTS Effect,      \* commands with a clip
          Bed,         \* commands that select a bed
          Silence,     \* a command that stops the bed
          None,
          HasControl,  \* does the map declare a control port
          MaxFades     \* bound: beds fading at once

VARIABLES latched,  \* the last command
          ctrl,     \* the interrupt bit of the control port
          current,  \* the clip that sounds
          bed       \* the selected bed: bgSel

dispatcher == <<latched, ctrl, current, bed>>

DispatcherInit == latched = None /\ ctrl = TRUE /\ current = None /\ bed = None

-----------------------------------------------------------------------------
\* Mutant: the clip before it is left playing.
MFired(vs, command) == Played(vs, command, FALSE)

\* fire: one sound CPU, one voice.
fired(vs, command) ==
  Played(IF current = None THEN vs ELSE Stopped(vs, current), command, FALSE)

Fading(vs) == {i \in DOMAIN vs : vs[i].role = "fading"}

\* bgStopBed: the held voice fades, and a timer will stop it.
faded(vs) ==
  [i \in DOMAIN vs |-> IF vs[i].role = "held" THEN [vs[i] EXCEPT !.role = "fading"] ELSE vs[i]]

\* bgFire for a target other than the selected bed.
crossfaded(vs, target) ==
  IF target = None THEN faded(vs) ELSE PlayedAs(faded(vs), target, TRUE, "held")

Target(command) ==
  CASE command = Silence -> None
    [] command \in Bed   -> command
    [] OTHER             -> bed

\* A latch write: the bed first, then the effect if the map has no control port.
LatchWrite(command) ==
  LET target == Target(command)
      after  == IF target = bed THEN voices ELSE crossfaded(voices, target)
      fires  == ~HasControl /\ command \in Effect
  IN  /\ target # bed => Cardinality(Fading(voices)) < MaxFades
      /\ latched' = command /\ bed' = target
      /\ voices' = IF fires THEN fired(after, command) ELSE after
      /\ current' = IF fires THEN command ELSE current
      /\ UNCHANGED <<ctrl, ctx, decoded, muted>>

\* A control write whose bit is level: the latched command fires when it falls.
ControlWrite(level) ==
  LET fires == ctrl /\ ~level /\ latched \in Effect
  IN  /\ HasControl
      /\ ctrl' = level
      /\ voices' = IF fires THEN fired(voices, latched) ELSE voices
      /\ current' = IF fires THEN latched ELSE current
      /\ UNCHANGED <<latched, bed, ctx, decoded, muted>>

\* The timer of a faded bed.
FadeEnds ==
  /\ \E i \in Fading(voices) : voices' = Without(voices, i)
  /\ UNCHANGED <<dispatcher, ctx, decoded, muted>>

\* The handle of a bed that still plays is overwritten: nothing will stop that voice.
dropped(vs) ==
  [i \in DOMAIN vs |-> IF vs[i].role = "held" THEN [vs[i] EXCEPT !.role = "named"] ELSE vs[i]]

\* Off: every voice stops.  On: the selected bed starts again.
ToggleMute ==
  /\ MuteSwitch /\ current' = None
  /\ voices' = CASE ~muted             -> kept(voices)
                 [] muted /\ bed = None -> voices
                 [] OTHER              ->
                      IF Playable(bed)
                      THEN Added(dropped(voices), [name |-> bed, loop |-> TRUE,
                                                   quiet |-> FALSE, role |-> "held"])
                      ELSE dropped(voices)
  /\ UNCHANGED <<latched, ctrl, bed>>

Next ==
  \/ \E command \in Effect \cup Bed \cup {Silence} : LatchWrite(command)
  \/ \E level \in BOOLEAN : ControlWrite(level)
  \/ FadeEnds \/ ToggleMute

-----------------------------------------------------------------------------
HeldBeds == {i \in DOMAIN voices : voices[i].role = "held"}

\* Every bed that is heard is the selected one, or has a timer that will stop it.
Accounted ==
  /\ \A i \in HeardLoops : voices[i].role # "named"
  /\ Cardinality(HeldBeds) <= 1 /\ \A i \in HeldBeds : voices[i].name = bed

\* One effect plays at a time, and beside it at most one the dispatcher has forgotten: started
\* while the sound was off, it was current until the switch-on that made it heard.
Effects == {i \in DOMAIN voices : ~voices[i].loop}
Forgotten == {i \in Effects : voices[i].quiet /\ ~muted}
OneEffectOneLeftover ==
  Cardinality(Effects \ Forgotten) <= 1 /\ Cardinality(Forgotten) <= 1

Sounding == HeldBeds # {}
TuneSurvives == Sounding => Sounding' \/ bed' # bed \/ ToggleMute
=============================================================================
