---------------------------- MODULE WorkerSession ----------------------------
(***************************************************************************)
(* A browser session (web/worker.js, web/player.html): the page starts an  *)
(* engine worker, which boots one machine after another and services every *)
(* frame of it, and steers it by two words of shared memory, PAUSED and    *)
(* RESET, and by messages, which the worker takes only while run() awaits  *)
(* its modules: its frame loop never returns to the event loop.            *)
(*                                                                         *)
(* Order of a frame: serviceIdiomaticFrame.  Frames themselves are in      *)
(* FrameRing and FrameEngine, what the page plays in PageAudio.  RUNNING is*)
(* set once and never cleared.                                             *)
(***************************************************************************)
EXTENDS Integers, Sequences

CONSTANTS Latch,   \* the addresses the board taps
          IRQ,     \* IRQ_ADDR, which has no tap and is polled
          Value,   \* what a latch holds
          Idle,    \* the value of the interrupt line at power-on
          Unset    \* no value yet

ASSUME AddressAssumption == IRQ \notin Latch /\ Unset \notin Value /\ Idle \in Value

VARIABLES setup,       \* setupAudio: under way, or done before or after the worker started
          inbox,       \* messages to the worker
          PAUSED, RESET,
          at,          \* where the worker is
          frame,       \* is this frame 0 of its machine
          audioOn,
          board,       \* the machine's latches, Unset until written, and its IRQ line
          soundLast,   \* addr -> last value emitted
          soundQueue,  \* this frame's edges, as addr -> last value queued
          \* History: what the page was sent of this machine, whether a reset was asked for
          \* and no machine has booted since, and the frames shown since the pause.
          sent, owed, late

pageVars == <<setup, inbox>>
soundVars == <<audioOn, board, soundLast, soundQueue, sent>>
wordVars == <<PAUSED, RESET, owed>>
vars == <<pageVars, wordVars, at, frame, soundVars, late>>

Addr == Latch \cup {IRQ}
Nothing == [addr \in Addr |-> Unset]

\* The words are zero; the worker is created when the ROM is there.
Init ==
  /\ setup = "loading" /\ inbox = <<>>
  /\ PAUSED = 0 /\ RESET = 0
  /\ at = "none" /\ frame = "first" /\ audioOn = FALSE
  /\ board = Nothing /\ soundLast = Nothing /\ soundQueue = Nothing
  /\ sent = Nothing /\ owed = FALSE /\ late = 0

-----------------------------------------------------------------------------
(* The page.                                                               *)

\* startEngine: init, and audio after it if there is something to play already.
StartEngine ==
  /\ at = "none" /\ at' = "idle"
  /\ inbox' = IF setup = "early" THEN <<"init", "audio">> ELSE <<"init">>
  /\ UNCHANGED <<setup, wordVars, frame, soundVars, late>>

\* setupAudio ends in armWorkerAudio, which does nothing before there is a worker.
SetupAudio ==
  /\ setup = "loading" /\ setup' = IF at = "none" THEN "early" ELSE "late"
  /\ inbox' = IF at = "none" THEN inbox ELSE Append(inbox, "audio")
  /\ UNCHANGED <<wordVars, at, frame, soundVars, late>>

TogglePause ==
  /\ PAUSED' = 1 - PAUSED /\ late' = 0
  /\ UNCHANGED <<pageVars, RESET, owed, at, frame, soundVars>>

PressReset ==
  /\ RESET' = 1 /\ owed' = TRUE
  /\ UNCHANGED <<pageVars, PAUSED, at, frame, soundVars, late>>

-----------------------------------------------------------------------------
(* The worker: messages and boots.                                         *)

Moves(from, to) == at = from /\ at' = to
KeepsPage == UNCHANGED <<setup, PAUSED>>

OnInit ==
  /\ inbox # <<>> /\ Head(inbox) = "init" /\ inbox' = Tail(inbox)
  /\ Moves("idle", "loading") /\ KeepsPage
  /\ UNCHANGED <<RESET, owed, frame, soundVars, late>>

\* Taken in the event loop only.  There is no machine to arm yet.
OnAudio ==
  /\ at \in {"idle", "loading"}
  /\ inbox # <<>> /\ Head(inbox) = "audio" /\ inbox' = Tail(inbox)
  /\ audioOn' = TRUE /\ soundLast' = Nothing /\ soundQueue' = Nothing
  /\ KeepsPage /\ UNCHANGED <<RESET, owed, at, frame, board, sent, late>>

\* run() has all it awaits; its imports and fetches have taken the worker through its event
\* loop, so that a message posted together with init has been taken.
Ready ==
  /\ Moves("loading", "boot") /\ KeepsPage
  /\ setup = "early" => inbox = <<>>
  /\ UNCHANGED <<inbox, RESET, owed, frame, soundVars, late>>

\* Mutant: the edges the last machine emitted are still remembered.
MRemembered == soundLast

\* What is remembered of the edges when a machine boots.
remembered == Nothing

\* A fresh machine: its latches are unset, its line idle, and the tap is as audioOn says.
Boot ==
  /\ Moves("boot", "run") /\ frame' = "first"
  /\ board' = [Nothing EXCEPT ![IRQ] = Idle] /\ soundLast' = remembered /\ soundQueue' = Nothing
  /\ sent' = Nothing /\ owed' = FALSE
  /\ UNCHANGED <<pageVars, PAUSED, RESET, audioOn, late>>

-----------------------------------------------------------------------------
(* The worker: a frame.                                                    *)

\* emitSound of a set of addresses: an unchanged value is no edge.
Emit(addrs, values) ==
  LET edges == {a \in addrs : values[a] # soundLast[a]}
  IN  /\ soundLast' = [a \in Addr |-> IF a \in edges THEN values[a] ELSE soundLast[a]]
      /\ soundQueue' = [a \in Addr |-> IF a \in edges THEN values[a] ELSE soundQueue[a]]

\* The machine's code writes a latch, which is tapped if audio is on.
WriteLatch(addr, value) ==
  /\ at = "run"
  /\ board' = [board EXCEPT ![addr] = value]
  /\ IF audioOn THEN Emit({addr}, board') ELSE UNCHANGED <<soundLast, soundQueue>>
  /\ UNCHANGED <<pageVars, wordVars, at, frame, audioOn, sent, late>>

\* ... or its interrupt line to the sound CPU.
SetIrq(value) ==
  /\ at = "run"
  /\ board' = [board EXCEPT ![IRQ] = value]
  /\ UNCHANGED <<pageVars, wordVars, at, frame, audioOn, soundLast, soundQueue, sent, late>>

Yield == Moves("run", "read") /\ UNCHANGED <<pageVars, wordVars, frame, soundVars, late>>

\* The machine stops (FrameEngine): the page is told and another boots.
Stops == Moves("run", "boot") /\ UNCHANGED <<pageVars, wordVars, frame, soundVars, late>>

ReadInputs ==
  /\ at = "read" /\ at' = IF RESET = 1 THEN "resetting" ELSE "publish"
  /\ UNCHANGED <<pageVars, wordVars, frame, soundVars, late>>

\* Mutant: the word is cleared and the run goes on.
MTakeReset ==
  /\ Moves("resetting", "publish") /\ RESET' = 0
  /\ UNCHANGED <<pageVars, PAUSED, owed, frame, soundVars, late>>

\* The word is cleared, then "__reset__" unwinds the run.
TakeReset ==
  /\ Moves("resetting", "boot") /\ RESET' = 0
  /\ UNCHANGED <<pageVars, PAUSED, owed, frame, soundVars, late>>

\* Mutant: power-on is published like any other frame.
MPublish ==
  /\ Moves("publish", "flush") /\ frame' = "later"
  /\ late' = IF PAUSED = 1 /\ late < 2 THEN late + 1 ELSE late
  /\ UNCHANGED <<pageVars, wordVars, soundVars>>

\* Frame 0 is power-on and not shown.
Publish ==
  /\ Moves("publish", "flush") /\ frame' = "later"
  /\ late' = IF frame = "later" /\ PAUSED = 1 /\ late < 2 THEN late + 1 ELSE late
  /\ UNCHANGED <<pageVars, wordVars, soundVars>>

\* The line is polled, then the edges of this frame are posted.
Flush ==
  /\ Moves("flush", "pace")
  /\ IF audioOn
       THEN LET line == board[IRQ]
                queue == IF line # soundLast[IRQ] THEN [soundQueue EXCEPT ![IRQ] = line] ELSE soundQueue
            IN  /\ soundLast' = [soundLast EXCEPT ![IRQ] = line]
                /\ sent' = [a \in Addr |-> IF queue[a] # Unset THEN queue[a] ELSE sent[a]]
       ELSE UNCHANGED <<soundLast, sent>>
  /\ soundQueue' = Nothing
  /\ UNCHANGED <<pageVars, wordVars, frame, audioOn, board, late>>

\* pace: two loads each time round.
PaceRunning ==
  /\ at = "pace" /\ at' = IF PAUSED = 1 THEN "paused" ELSE "run"
  /\ UNCHANGED <<pageVars, wordVars, frame, soundVars, late>>

\* Mutant: a reset does not end a pause.
MSleepOn == TRUE

\* The pause goes on.
sleepOn == RESET = 0

PacePaused ==
  /\ at = "paused" /\ at' = IF sleepOn THEN "pace" ELSE "run"
  /\ UNCHANGED <<pageVars, wordVars, frame, soundVars, late>>

-----------------------------------------------------------------------------
Page == StartEngine \/ SetupAudio \/ TogglePause \/ PressReset
Machine ==
  \/ \E addr \in Latch, value \in Value : WriteLatch(addr, value)
  \/ \E value \in Value : SetIrq(value)
  \/ Stops
Service ==
  \/ OnInit \/ OnAudio \/ Ready \/ Boot
  \/ Yield \/ ReadInputs \/ TakeReset \/ Publish \/ Flush \/ PaceRunning \/ PacePaused
Next == Page \/ Machine \/ Service

Spec == Init /\ [][Next]_vars

\* The worker's thread goes on, and a machine yields at every vblank (FrameEngine).
FairSpec == Spec /\ WF_vars(Service)

-----------------------------------------------------------------------------
TypeOK ==
  /\ setup \in {"loading", "early", "late"} /\ inbox \in Seq({"init", "audio"})
  /\ PAUSED \in {0, 1} /\ RESET \in {0, 1}
  /\ at \in {"none", "idle", "loading", "boot", "run", "read", "resetting", "publish", "flush",
             "pace", "paused"}
  /\ frame \in {"first", "later"} /\ audioOn \in BOOLEAN
  /\ board \in [Addr -> Value \cup {Unset}] /\ soundLast \in [Addr -> Value \cup {Unset}]
  /\ soundQueue \in [Addr -> Value \cup {Unset}] /\ sent \in [Addr -> Value \cup {Unset}]
  /\ owed \in BOOLEAN /\ late \in 0 .. 2

\* A reset pressed at any moment is still in the word, or its machine is about to boot: the
\* worker's load and store lose none.
NoResetLost == owed => RESET = 1 \/ at \in {"resetting", "boot"}

\* A paused game shows one more frame at most, the one it was in, whatever is reset or
\* stops in the meantime.
PauseFreezes == late < 2

\* With audio on, the page has been sent the value of every latch of this machine, and of
\* its line, at the end of every frame: an edge suppressed or dropped would be missing.
PageIsUpToDate == at \in {"pace", "paused"} /\ audioOn => sent = board

\* What makes them inductive.  A frame shown since the pause is behind the worker unless a
\* reset got it past the sleep, and then no other will be shown.
Frozen ==
  PAUSED = 1 /\ late > 0 =>
    \/ at \notin {"run", "read", "publish"}
    \/ RESET = 1 /\ at # "publish"
    \/ frame = "first"

\* While a machine runs with audio on, what is remembered of a latch is its value, and the
\* page has been sent it or it is queued.
Remembered ==
  audioOn /\ at \notin {"none", "idle", "loading", "boot"} =>
    /\ \A a \in Latch : soundLast[a] = board[a]
    /\ \A a \in Addr : soundLast[a] = IF soundQueue[a] # Unset THEN soundQueue[a] ELSE sent[a]
    /\ board[IRQ] # Unset

IInv == TypeOK /\ NoResetLost /\ PauseFreezes /\ Frozen /\ Remembered /\ PageIsUpToDate

\* Once there is a worker a reset comes, paused or not.
ResetComes == (owed /\ at # "none") ~> ~owed

\* "the worker may already be running; arm it now" (web/player.html): a session with sounds
\* to play has its worker's tap armed.
WorkerGetsArmed == (setup # "loading" /\ at # "none") ~> audioOn
=============================================================================
