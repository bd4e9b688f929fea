------------------------------ MODULE PageAudio ------------------------------
(***************************************************************************)
(* What the page makes of a session's sound events: the dispatcher and the *)
(* mute button that setupAudio chooses by SOUNDS.model (web/player.html)   *)
(* over one sample player.  Events come in any order, as after a reboot    *)
(* any edge may (WorkerSession).                                           *)
(***************************************************************************)
EXTENDS SamplePlayer

CONSTANTS LoopTune, PulseTune, Held,           \* LatchAudio
          Effect, Bed, Silence, MaxFades,      \* ClipAudio
          BitOrder, LoopBit,                   \* BitPortAudio
          None,
          Models                               \* the dispatchers of this instance

ASSUME NamesAssumption ==
  /\ LoopTune \cap (PulseTune \cup Circuit \cup Held) = {}
  /\ Effect \cap Bed = {}
  /\ None \notin LoopTune \cup Effect \cup Bed /\ Silence \notin Effect \cup Bed
ASSUME PortAssumption ==
  /\ BitOrder \in Seq(Range(BitOrder)) /\ LoopBit \subseteq Range(BitOrder)
  /\ \A i, j \in DOMAIN BitOrder : BitOrder[i] = BitOrder[j] => i = j
ASSUME CapAssumption == MaxVoices \in Nat \ {0, 1} /\ Cardinality(LoopBit) < MaxVoices

VARIABLES model, background, latched, ctrl, current, bed, bits, looping

dispatchers == <<background, latched, ctrl, current, bed, bits, looping>>
vars == <<player, model, dispatchers>>

Latch == INSTANCE LatchAudio
Strobed == INSTANCE ClipAudio WITH HasControl <- TRUE
Beds == INSTANCE ClipAudio WITH HasControl <- FALSE
Ports == INSTANCE BitPortAudio

AudioInit ==
  /\ Init /\ model \in Models
  /\ background = None /\ Beds!DispatcherInit /\ Ports!DispatcherInit

-----------------------------------------------------------------------------
LatchEvent ==
  model = "latch" /\ Latch!Next /\ UNCHANGED <<model, latched, ctrl, current, bed, bits, looping>>
StrobedEvent == model = "strobed" /\ Strobed!Next /\ UNCHANGED <<model, background, bits, looping>>
BedEvent == model = "beds" /\ Beds!Next /\ UNCHANGED <<model, background, bits, looping>>
PortEvent ==
  model = "bitports" /\ Ports!Next /\ UNCHANGED <<model, background, latched, ctrl, current, bed>>
Browser == PlayerNext /\ UNCHANGED <<model, dispatchers>>

AudioNext == LatchEvent \/ StrobedEvent \/ BedEvent \/ PortEvent \/ Browser

AudioSpec == AudioInit /\ [][AudioNext]_vars

-----------------------------------------------------------------------------
Clips == {"strobed", "beds"}

TypeOK ==
  /\ ctx \in {"none", "suspended", "running"} /\ decoded \in BOOLEAN /\ muted \in BOOLEAN
  /\ background \in LoopTune \cup {None} /\ bed \in Bed \cup {None}
  /\ looping \subseteq LoopBit /\ Len(voices) <= MaxVoices
  /\ \A i \in DOMAIN voices : voices[i].role \in Role

\* Every tune that loops is one its dispatcher will stop: the background of the latch, the
\* selected bed or one a timer fades, a loop whose bit is up. Except those started while the
\* sound was off.
NoStrayTune ==
  /\ model = "latch" => Latch!Accounted
  /\ model \in Clips => Beds!Accounted
  /\ model = "bitports" => Ports!Accounted

\* The page plays a board with one sound CPU as one voice for effects, heard or not, over
\* repeated commands, beds that fade and the cap, but not over the mute button: an effect
\* started while the sound is off is forgotten when it is switched on, and plays to its end
\* beside the next one. There is never more than one of those.
OneEffectOneLeftover == model \in Clips => Beds!OneEffectOneLeftover

\* However many effects sound at once, the cap never takes the background: only a write
\* that names another one and the mute button end it.
TuneSurvivesEffects ==
  [][ /\ model = "latch" => Latch!TuneSurvives
      /\ model \in Clips => Beds!TuneSurvives
      /\ model = "bitports" => Ports!TuneSurvives ]_vars

\* A one-shot is fired and left alone: a latch or port write with room for what it plays
\* stops none.
OneShots(vs) == only(vs, {i \in DOMAIN vs : ~vs[i].loop})
OneShotsFinish ==
  [][ \/ model = "latch" /\ Latch!LatchWrite /\ Len(voices) < MaxVoices
      \/ model = "bitports" /\ bits' # bits /\ Len(voices) + Len(BitOrder) <= MaxVoices
      => IsPrefix(OneShots(voices), OneShots(voices')) ]_vars

\* "exactly one may sound at a time, it loops, and the next latch write ends it"
\* (web/player.html, of the background).
ExactlyOneTune == model = "latch" => Cardinality(Loops) <= 1
=============================================================================
