-------------------------------- MODULE Inputs --------------------------------
(***************************************************************************)
(* What the page tells the game: the words of keys and buttons, and the    *)
(* mouse of the two games that have a dial.  They share nothing but the    *)
(* frame that samples them, so a behaviour follows one of them.            *)
(***************************************************************************)
EXTENDS Pointer

CONSTANTS Key, bitOf, Button, PulseFrames, MaxPulses

ASSUME WordsAssumption == PulseFrames \in Nat

VARIABLES device, in0, held, timers, paused, down, sample, pressed

Words == INSTANCE InputWords

wordVars == <<in0, held, timers, paused, down, sample, pressed>>
inputVars == <<device, pointerVars, wordVars>>

InputsInit == device \in {"keys", "mouse"} /\ Init /\ Words!Init

Keys == device = "keys" /\ Words!Next /\ UNCHANGED <<device, pointerVars>>
Mouse == device = "mouse" /\ Next /\ UNCHANGED <<device, wordVars>>

InputsNext == Keys \/ Mouse
InputsSpec == InputsInit /\ [][InputsNext]_inputVars

InputsTypeOK == TypeOK /\ Words!TypeOK

\* The page's words: see InputWords.
NothingStuck == Words!NothingStuck
RisesOnlyOnPress == Words!RisesOnlyOnPress
=============================================================================
