------------------------------ MODULE InputWords ------------------------------
(***************************************************************************)
(* An input word of the page (player.html) and the frame's sample of it    *)
(* (readInputsInto, web/worker.js).  Several keys may drive one bit (an    *)
(* arrow and its letter, the space bar and the mouse button), and so do    *)
(* the Coin and Start buttons, which set a bit and clear it on a timer.    *)
(* The three ports are alike; this is one.                                 *)
(*                                                                         *)
(* The page runs one handler at a time and stores the word at the end of   *)
(* each, so the shared word and the page's in0 are one variable.           *)
(***************************************************************************)
EXTENDS Integers, Sequences

CONSTANTS Key,          \* the keys of the game, the mouse button among them
          bitOf,        \* manifest.inputs: key -> bit
          Button,       \* the bits that have a button on the page
          PulseFrames,  \* frames in 120 ms: 7 in the code
          MaxPulses     \* bound: buttons whose timers are pending

VARIABLES in0,      \* the word
          held,     \* keys that are down
          timers,   \* pending setTimeouts of pulse(), oldest first: bit, frames to go
          paused,   \* no frame is serviced: the worker sleeps in pace()
          \* History: keys whose last event here was a keydown, the last sample, and the
          \* bits pressed since.
          down, sample, pressed

vars == <<in0, held, timers, paused, down, sample, pressed>>

Init ==
  /\ in0 = {} /\ held = {} /\ timers = <<>> /\ paused = FALSE
  /\ down = {} /\ sample = {} /\ pressed = {}

KeyDown(k) ==
  /\ k \notin held /\ held' = held \cup {k} /\ down' = down \cup {k}
  /\ in0' = in0 \cup {bitOf[k]} /\ pressed' = pressed \cup {bitOf[k]}
  /\ UNCHANGED <<timers, paused, sample>>

\* Mutant: a repeat is a press.
MKeyRepeat(k) ==
  /\ k \in held /\ in0' = in0 \cup {bitOf[k]}
  /\ UNCHANGED <<held, timers, paused, down, sample, pressed>>

\* Auto-repeat of a key that stays down is not a press.
KeyRepeat(k) == k \in held /\ UNCHANGED vars

\* A keyup or left mouseup clears the bit, also of a key that went down in another window.
KeyUp(k) ==
  /\ held' = held \ {k} /\ down' = down \ {k}
  /\ in0' = in0 \ {bitOf[k]}
  /\ UNCHANGED <<timers, paused, sample, pressed>>

\* A key let go while another window has the focus: the page hears nothing of it.
KeyUpElsewhere(k) ==
  /\ k \in held /\ held' = held \ {k}
  /\ UNCHANGED <<in0, timers, paused, down, sample, pressed>>

\* pulse.
Pulse(bit) ==
  /\ Len(timers) < MaxPulses
  /\ in0' = in0 \cup {bit} /\ pressed' = pressed \cup {bit}
  /\ timers' = Append(timers, [bit |-> bit, left |-> PulseFrames])
  /\ UNCHANGED <<held, paused, down, sample>>

\* Mutant: the word as it was sampled last comes back, without the bit.
MPulseEnds ==
  /\ timers # <<>> /\ Head(timers).left = 0 /\ timers' = Tail(timers)
  /\ in0' = sample \ {Head(timers).bit}
  /\ UNCHANGED <<held, paused, down, sample, pressed>>

\* The timer clears the bit, whoever has set it since.
PulseEnds ==
  /\ timers # <<>> /\ Head(timers).left = 0 /\ timers' = Tail(timers)
  /\ in0' = in0 \ {Head(timers).bit}
  /\ UNCHANGED <<held, paused, down, sample, pressed>>

TogglePause == paused' = ~paused /\ UNCHANGED <<in0, held, timers, down, sample, pressed>>

FrameGoesBy ==
  timers' = [i \in DOMAIN timers |->
               [bit |-> timers[i].bit,
                left |-> IF timers[i].left = 0 THEN 0 ELSE timers[i].left - 1]]

\* readInputsInto, once a frame: the word is only looked at.
Sample ==
  /\ ~paused /\ FrameGoesBy
  /\ sample' = in0 /\ pressed' = {}
  /\ UNCHANGED <<in0, held, paused, down>>

\* In a pause the page's clock goes on.
Asleep == paused /\ FrameGoesBy /\ UNCHANGED <<in0, held, paused, down, sample, pressed>>

Next ==
  \/ \E k \in Key : KeyDown(k) \/ KeyRepeat(k) \/ KeyUp(k) \/ KeyUpElsewhere(k)
  \/ \E bit \in Button : Pulse(bit)
  \/ PulseEnds \/ TogglePause \/ Sample \/ Asleep

-----------------------------------------------------------------------------
TypeOK ==
  /\ in0 \subseteq {bitOf[k] : k \in Key} \cup Button
  /\ held \subseteq Key /\ down \subseteq Key /\ held \subseteq down
  /\ timers \in Seq([bit : Button, left : 0 .. PulseFrames])

\* Nothing sticks that the page could know of: a set bit has a key the page was not told
\* the release of, or a pulse whose timer is still to come.
NothingStuck ==
  \A bit \in in0 :
    \/ \E k \in down : bitOf[k] = bit
    \/ \E i \in DOMAIN timers : timers[i].bit = bit

\* The game sees no press that nobody made: a bit that rises between two samples was
\* pressed between them, whatever else released it meanwhile (a second key of the bit, a
\* timer) and however long a key is held.  This is what keeps one coin one coin.
RisesOnlyOnPress == [][sample' \ sample \subseteq pressed]_vars
=============================================================================
