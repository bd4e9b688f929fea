----------------------------- MODULE FrameEngine -----------------------------
(***************************************************************************)
(* runIdiomaticGame (core/frame-stepped.js): the coroutine engine that     *)
(* runs a game's main generator one frame at a time, samples the frame at  *)
(* each vblank yield, fires the vblank NMI, swaps the generator when the   *)
(* game asked for a warm restart, and shows the extra frames a collapsed   *)
(* busy-wait declared.                                                     *)
(*                                                                         *)
(* The game is the environment: what a resumed generator or an NMI handler *)
(* does to the engine's fields, and how it ends, is chosen freely.  A main *)
(* generator is named by its factory, a member of Main.                    *)
(***************************************************************************)
EXTENDS Naturals

CONSTANTS Main,        \* the main generators of the game
          Boot,        \* the one machine.call(bootAddr) returns
          NoMain,      \* nextMain = null
          MaxFrames,   \* the option maxFrames
          MaxBusy      \* bound on the busy-wait frames a game declares at a time

ASSUME MainAssumption == Boot \in Main /\ NoMain \notin Main
ASSUME FramesAssumption == MaxFrames \in Nat \ {0} /\ MaxBusy \in Nat

VARIABLES at,         \* where the engine's loop is
          gen,        \* the current main generator
          nextMain,   \* machine.nextMain: the warm restart asked for
          frame,      \* displayed frames, the one that powers on not counted
          declared,   \* machine.busyDelayFrames
          busyLeft,   \* busy-wait frames of the current wait still to show
          stop,       \* the stop reason returned
          \* History: the main asked for last, the NMIs fired, the yields sampled, and the
          \* busy-wait frames shown, asked for, and cut off by maxFrames.
          wanted, nmis, yields, busyShown, busyAsked, busyCut

engine == <<at, gen, frame, busyLeft, stop>>
game == <<nextMain, declared, wanted, busyAsked>>
history == <<nmis, yields, busyShown, busyCut>>
vars == <<engine, game, history>>

Points == {"powerOn", "top", "resume", "sample", "nmi", "busy", "busyNmi", "stopped"}
Reasons == {"running", "returned", "reached maxFrames", "error"}

Init ==
  /\ at = "powerOn" /\ stop = "running"
  /\ gen = Boot /\ wanted = Boot /\ nextMain = NoMain
  /\ frame = 0 /\ nmis = 0 /\ yields = 0
  /\ declared = 0 /\ busyLeft = 0 /\ busyShown = 0 /\ busyAsked = 0 /\ busyCut = 0

-----------------------------------------------------------------------------
(* What game code may do to the engine's fields while it runs.             *)

Ask(next) == nextMain' = next /\ wanted' = next

AskOrNot == UNCHANGED <<nextMain, wanted>> \/ (\E next \in Main : Ask(next))

\* A wipe adds its frames to those already declared.
DeclareBusy ==
  \E n \in 0 .. MaxBusy - declared :
    declared' = declared + n /\ busyAsked' = busyAsked + n

GameRuns == AskOrNot /\ DeclareBusy

Stopped(reason) == at' = "stopped" /\ stop' = reason

-----------------------------------------------------------------------------
(* Frame 0: onFrame is called outside the engine's try, so what it throws  *)
(* (a reset) reaches the caller; either way the run is over.               *)

PowerOn ==
  /\ at = "powerOn"
  /\ \/ at' = "top" /\ UNCHANGED stop
     \/ Stopped("error")
  /\ UNCHANGED <<gen, frame, busyLeft, game, history>>

\* Mutant: the loop resumes first and looks at nextMain when the frame is over.
MTop ==
  /\ at = "top" /\ at' = "resume"
  /\ UNCHANGED <<gen, frame, busyLeft, stop, game, history>>

\* Mutant: nextMain is cleared before its factory is called.
MTopForget ==
  /\ at = "top" /\ at' = "resume"
  /\ nextMain' = NoMain
  /\ UNCHANGED <<gen, wanted, frame, busyLeft, stop, declared, busyAsked, history>>

\* A pending warm restart is applied before the resume.
Top ==
  /\ at = "top" /\ at' = "resume"
  /\ IF nextMain = NoMain
       THEN UNCHANGED <<gen, nextMain>>
       ELSE gen' = nextMain /\ nextMain' = NoMain
  /\ UNCHANGED <<wanted, frame, busyLeft, stop, declared, busyAsked, history>>

\* The generator runs to its next vblank yield.
Yield ==
  /\ at = "resume" /\ GameRuns
  /\ at' = "sample" /\ frame' = frame + 1 /\ yields' = yields + 1
  /\ UNCHANGED <<gen, busyLeft, stop, nmis, busyShown, busyCut>>

\* A service deep in the frame calls restartMain: the frame is abandoned, no NMI fires.
RestartMidFrame ==
  /\ at = "resume" /\ DeclareBusy /\ (\E next \in Main : Ask(next))
  /\ at' = "top"
  /\ UNCHANGED <<gen, frame, busyLeft, stop, history>>

\* The generator returns: with a successor handed off the engine goes on, else it stops.
Return ==
  /\ at = "resume" /\ GameRuns
  /\ IF nextMain' = NoMain THEN Stopped("returned") ELSE at' = "top" /\ UNCHANGED stop
  /\ UNCHANGED <<gen, frame, busyLeft, history>>

\* Game code throws anything else (the factory of the next main and busyRender are game code),
\* or onFrame throws (a reset).
Throw ==
  /\ \/ at \in {"resume", "sample", "nmi", "busyNmi"}
     \/ at = "top" /\ nextMain # NoMain
     \/ at = "busy" /\ busyLeft > 0 /\ frame < MaxFrames
  /\ GameRuns
  /\ Stopped("error")
  /\ UNCHANGED <<gen, frame, busyLeft, history>>

\* onFrame has the frame, before its NMI.
Sample ==
  /\ at = "sample"
  /\ IF frame >= MaxFrames THEN Stopped("reached maxFrames") ELSE at' = "nmi" /\ UNCHANGED stop
  /\ UNCHANGED <<gen, frame, busyLeft, game, history>>

\* Mutant: the declared frames are read and not reset.
MNmi ==
  /\ at = "nmi" /\ AskOrNot
  /\ nmis' = nmis + 1
  /\ \E n \in 0 .. MaxBusy - declared :
       busyAsked' = busyAsked + n /\ busyLeft' = declared + n /\ declared' = declared + n
  /\ at' = "busy"
  /\ UNCHANGED <<gen, frame, stop, yields, busyShown, busyCut>>

\* The NMI handler runs; then the declared busy-wait frames are taken over.
Nmi ==
  /\ at = "nmi" /\ AskOrNot
  /\ nmis' = nmis + 1
  /\ \E n \in 0 .. MaxBusy - declared :
       busyAsked' = busyAsked + n /\ busyLeft' = declared + n
  /\ declared' = 0
  /\ at' = "busy"
  /\ UNCHANGED <<gen, frame, stop, yields, busyShown, busyCut>>

\* One more displayed frame with the generator paused.
BusyFrame ==
  /\ at = "busy" /\ busyLeft > 0 /\ frame < MaxFrames
  /\ frame' = frame + 1 /\ busyShown' = busyShown + 1 /\ busyLeft' = busyLeft - 1
  /\ at' = "busyNmi"
  /\ UNCHANGED <<gen, stop, game, nmis, yields, busyCut>>

\* Mutant: the frames of a busy-wait pass without the NMI.
MBusyNmi ==
  /\ at = "busyNmi" /\ GameRuns
  /\ at' = "busy"
  /\ UNCHANGED <<gen, frame, busyLeft, stop, history>>

\* Its NMI.  What the handler declares waits for the next foreground frame.
BusyNmi ==
  /\ at = "busyNmi" /\ GameRuns
  /\ nmis' = nmis + 1
  /\ at' = "busy"
  /\ UNCHANGED <<gen, frame, busyLeft, stop, yields, busyShown, busyCut>>

\* The wait is over, or maxFrames cuts it: the loop goes on either way.
BusyDone ==
  /\ at = "busy" /\ (busyLeft = 0 \/ frame >= MaxFrames)
  /\ busyCut' = busyCut + busyLeft /\ busyLeft' = 0
  /\ at' = "top"
  /\ UNCHANGED <<gen, frame, stop, game, nmis, yields, busyShown>>

Finished == at = "stopped" /\ UNCHANGED vars

-----------------------------------------------------------------------------
Step ==
  \/ PowerOn \/ Top \/ Yield \/ RestartMidFrame \/ Return \/ Throw \/ Sample
  \/ Nmi \/ BusyFrame \/ BusyNmi \/ BusyDone
Next == Step \/ Finished

Spec == Init /\ [][Next]_vars

\* The loop is synchronous code: it does not stop between two steps.
FairSpec == Spec /\ WF_vars(Step)

-----------------------------------------------------------------------------
TypeOK ==
  /\ at \in Points /\ stop \in Reasons
  /\ gen \in Main /\ wanted \in Main /\ nextMain \in Main \cup {NoMain}
  /\ frame \in Nat /\ nmis \in Nat /\ yields \in Nat
  /\ declared \in 0 .. MaxBusy /\ busyLeft \in Nat
  /\ busyShown \in Nat /\ busyAsked \in Nat /\ busyCut \in Nat

\* The request last made is either still pending or the one that runs.
RequestKept == wanted = IF nextMain = NoMain THEN gen ELSE nextMain

\* An abandoned main loop is never resumed: the generator about to run is the one the
\* game asked for last, whichever handler asked and however many frames ago.
NewestMainRuns == at = "resume" => gen = wanted

\* A warm restart is applied, never forgotten: a request leaves nextMain only by becoming
\* the running generator, or by a later request.
RestartNotLost ==
  [][nextMain # NoMain => (nextMain' # NoMain \/ gen' = nextMain)]_vars

\* Every displayed frame is followed by exactly one NMI, before the next frame; only the
\* frame a run ends on may go without.
OneNmiPerFrame ==
  /\ at \in {"top", "resume", "busy", "powerOn"} => nmis = frame
  /\ at \in {"sample", "nmi", "busyNmi"} => nmis + 1 = frame
  /\ at = "stopped" => frame \in {nmis, nmis + 1}

\* The frames of a busy-wait are shown once each, however they were declared: every frame
\* asked for is shown, about to be, or was cut off by maxFrames.
BusyFramesExact ==
  /\ busyAsked = declared + busyLeft + busyShown + busyCut
  /\ frame = yields + busyShown
  /\ frame < MaxFrames => busyCut = 0

\* The foreground stands still for the whole of a busy-wait.
ForegroundPaused == at \in {"powerOn", "top", "resume", "sample", "nmi"} => busyLeft = 0

\* A run ends with a generator that returned and handed nothing off, at the frame limit,
\* or by an error.
StopReasonHonest ==
  /\ at = "stopped" <=> stop # "running"
  /\ stop = "returned" => nextMain = NoMain
  /\ stop = "reached maxFrames" => frame >= MaxFrames

\* How far past the limit a run can be.
Overrun ==
  /\ frame <= MaxFrames + 1
  /\ frame = MaxFrames + 1 => at \in {"sample", "stopped"}
  /\ at = "nmi" => frame < MaxFrames

IInv ==
  /\ TypeOK /\ RequestKept /\ OneNmiPerFrame /\ BusyFramesExact /\ ForegroundPaused
  /\ StopReasonHonest /\ Overrun
  /\ at = "resume" => nextMain = NoMain

\* A run with a frame limit ends, unless the game restarts for ever without a frame: a
\* mid-frame restart and a hand-off display nothing, so the limit does not count them.
EndsUnlessItOnlyRestarts ==
  <>(at = "stopped") \/ []<><<RestartMidFrame \/ Return>>_vars
=============================================================================
