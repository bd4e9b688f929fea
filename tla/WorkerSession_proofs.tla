------------------------ MODULE WorkerSession_proofs -------------------------
(***************************************************************************)
(* A browser session with any latches and any latch values: no reset is    *)
(* lost, a paused game freezes, and the page is kept up to date.           *)
(***************************************************************************)
EXTENDS WorkerSession, TLAPS, SequenceTheorems

USE AddressAssumption

Message == {"init", "audio"}
Latches == [Addr -> Value \cup {Unset}]

-----------------------------------------------------------------------------
\* Nothing is a table of latches, and so is a table with one of its values replaced.
LEMMA NothingType == Nothing \in Latches
  BY DEF Nothing, Latches

\* Before there is a worker nothing was sent, owed or remembered.
LEMMA InitIInv == Init => IInv
<1> SUFFICES ASSUME Init PROVE IInv
  OBVIOUS
<1>1. TypeOK
  <2>1. inbox \in Seq(Message)
    BY EmptySeq DEF Init
  <2>2. late \in 0 .. 2 /\ PAUSED \in {0, 1} /\ RESET \in {0, 1}
    BY DEF Init
  <2>3. audioOn \in BOOLEAN /\ owed \in BOOLEAN /\ at = "none"
    BY DEF Init
  <2>4. /\ board \in Latches /\ soundLast \in Latches /\ soundQueue \in Latches /\ sent \in Latches
        /\ setup = "loading" /\ frame = "first"
    BY NothingType DEF Init
  <2>5. QED
    BY <2>1, <2>2, <2>3, <2>4 DEF TypeOK, Latches, Message
<1>2. QED
  BY <1>1 DEF Init, IInv, NoResetLost, PauseFreezes, Frozen, Remembered, PageIsUpToDate

-----------------------------------------------------------------------------
(* The type, by the kind of step.                                          *)

\* The page's steps keep the type (startEngine, setupAudio, togglePause, the reset button).
LEMMA PageType ==
  ASSUME TypeOK, Page
  PROVE  TypeOK'
<1>1. CASE StartEngine
  <2>1. inbox' \in Seq(Message)
    <3>1. <<"init", "audio">> \in Seq(Message) /\ <<"init">> \in Seq(Message)
      BY DEF Message
    <3>2. inbox' \in {<<"init", "audio">>, <<"init">>}
      BY <1>1 DEF StartEngine
    <3>3. QED
      BY <3>1, <3>2
  <2>2. QED
    BY <1>1, <2>1 DEF StartEngine, TypeOK, wordVars, soundVars, Message
<1>2. CASE SetupAudio
  <2>1. inbox' \in Seq(Message)
    BY <1>2, AppendProperties DEF SetupAudio, TypeOK, Message
  <2>2. QED
    BY <1>2, <2>1 DEF SetupAudio, TypeOK, wordVars, soundVars, Message
<1>3. CASE TogglePause
  <2>1. PAUSED' \in {0, 1}
    BY <1>3 DEF TogglePause, TypeOK
  <2>2. QED
    BY <1>3, <2>1 DEF TogglePause, TypeOK, pageVars, soundVars
<1>4. CASE PressReset
  BY <1>4 DEF PressReset, TypeOK, pageVars, soundVars
<1>5. QED
  BY <1>1, <1>2, <1>3, <1>4 DEF Page

\* So do the machine's: a latch written, its line set, its stop.
LEMMA MachineType ==
  ASSUME TypeOK, Machine
  PROVE  TypeOK'
<1>1. ASSUME NEW addr \in Latch, NEW value \in Value, WriteLatch(addr, value)
      PROVE  TypeOK'
  <2>1. board' \in Latches
    BY <1>1 DEF WriteLatch, TypeOK, Latches
  <2>2. soundLast' \in Latches /\ soundQueue' \in Latches
    BY <1>1, <2>1 DEF WriteLatch, Emit, TypeOK, Latches
  <2>3. QED
    BY <1>1, <2>1, <2>2 DEF WriteLatch, TypeOK, pageVars, wordVars, Latches
<1>2. ASSUME NEW value \in Value, SetIrq(value)
      PROVE  TypeOK'
  <2>1. board' \in Latches
    BY <1>2 DEF SetIrq, TypeOK, Latches
  <2>2. QED
    BY <1>2, <2>1 DEF SetIrq, TypeOK, pageVars, wordVars, Latches
<1>3. CASE Stops
  BY <1>3 DEF Stops, Moves, TypeOK, pageVars, wordVars, soundVars
<1>4. QED
  BY <1>1, <1>2, <1>3 DEF Machine

\* So do the worker's: its messages, its boots and the service of a frame.
LEMMA ServiceType ==
  ASSUME TypeOK, Service
  PROVE  TypeOK'
<1>1. CASE OnInit \/ OnAudio
  <2>1. inbox' \in Seq(Message)
    <3>1. inbox # <<>> /\ inbox' = Tail(inbox) /\ inbox \in Seq(Message)
      BY <1>1 DEF OnInit, OnAudio, TypeOK, Message
    <3>2. QED
      BY <3>1, HeadTailProperties
  <2>2. soundLast' \in Latches /\ soundQueue' \in Latches /\ audioOn' \in BOOLEAN
    BY <1>1, NothingType DEF OnInit, OnAudio, TypeOK, Latches, soundVars
  <2>3. QED
    BY <1>1, <2>1, <2>2 DEF OnInit, OnAudio, KeepsPage, Moves, TypeOK, soundVars, Message, Latches
<1>2. CASE Ready
  BY <1>2 DEF Ready, Moves, KeepsPage, TypeOK, soundVars
<1>3. CASE Boot
  <2>1. board' \in Latches /\ soundLast' \in Latches /\ soundQueue' \in Latches /\ sent' \in Latches
    BY <1>3, NothingType DEF Boot, remembered, Latches
  <2>2. QED
    BY <1>3, <2>1 DEF Boot, Moves, TypeOK, pageVars, Latches
<1>4. CASE Publish
  <2>1. late' \in 0 .. 2
    BY <1>4 DEF Publish, TypeOK
  <2>2. QED
    BY <1>4, <2>1 DEF Publish, Moves, TypeOK, pageVars, wordVars, soundVars
<1>5. CASE Flush
  <2>1. soundLast' \in Latches /\ sent' \in Latches
    BY <1>5 DEF Flush, TypeOK, Latches
  <2>2. QED
    BY <1>5, <2>1, NothingType DEF Flush, Moves, TypeOK, pageVars, wordVars, Latches
<1>6. CASE TakeReset
  BY <1>6 DEF TakeReset, Moves, TypeOK, pageVars, soundVars
<1>7. CASE Yield \/ ReadInputs \/ PaceRunning \/ PacePaused
  <2>1. UNCHANGED <<pageVars, wordVars, frame, soundVars, late>>
    BY <1>7 DEF Yield, ReadInputs, PaceRunning, PacePaused
  <2>2. at' \in {"read", "resetting", "publish", "pace", "paused", "run"}
    BY <1>7 DEF Yield, ReadInputs, PaceRunning, PacePaused, Moves
  <2>3. QED
    BY <2>1, <2>2 DEF TypeOK, pageVars, wordVars, soundVars
<1>8. QED
  BY <1>1, <1>2, <1>3, <1>4, <1>5, <1>6, <1>7 DEF Service

\* Every step keeps the type.
LEMMA NextType == TypeOK /\ [Next]_vars => TypeOK'
<1>1. ASSUME TypeOK, UNCHANGED vars PROVE TypeOK'
  BY <1>1 DEF vars, pageVars, wordVars, soundVars, TypeOK
<1>2. QED
  BY <1>1, PageType, MachineType, ServiceType DEF Next

-----------------------------------------------------------------------------
(* Resets and pauses.                                                      *)

\* The worker clears the word on its way to a new machine, and nowhere else.
LEMMA NextReset == TypeOK /\ NoResetLost /\ [Next]_vars => NoResetLost'
<1> SUFFICES ASSUME TypeOK, NoResetLost, [Next]_vars PROVE NoResetLost'
  OBVIOUS
<1>1. CASE Page
  BY <1>1 DEF Page, StartEngine, SetupAudio, TogglePause, PressReset, NoResetLost, wordVars
<1>2. CASE Machine
  BY <1>2 DEF Machine, WriteLatch, SetIrq, Stops, Moves, NoResetLost, wordVars
<1>3. CASE Boot
  BY <1>3 DEF Boot, NoResetLost
<1>4. CASE TakeReset
  BY <1>4 DEF TakeReset, Moves, NoResetLost
<1>5. CASE ReadInputs
  BY <1>5 DEF ReadInputs, NoResetLost, wordVars
<1>6. CASE OnInit \/ OnAudio \/ Ready
  BY <1>6 DEF OnInit, OnAudio, Ready, Moves, NoResetLost
<1>7. CASE Yield \/ Publish \/ Flush \/ PaceRunning \/ PacePaused
  BY <1>7 DEF Yield, Publish, Flush, PaceRunning, PacePaused, Moves, NoResetLost, wordVars
<1>8. CASE UNCHANGED vars
  BY <1>8 DEF vars, wordVars, NoResetLost
<1>9. QED
  BY <1>1, <1>2, <1>3, <1>4, <1>5, <1>6, <1>7, <1>8 DEF Next, Service

\* A frame is shown only from "publish", which no paused game reaches a second time.
LEMMA NextFrozen == TypeOK /\ PauseFreezes /\ Frozen /\ [Next]_vars => PauseFreezes' /\ Frozen'
<1> SUFFICES ASSUME TypeOK, PauseFreezes, Frozen, [Next]_vars PROVE PauseFreezes' /\ Frozen'
  OBVIOUS
<1>1. CASE Page
  BY <1>1 DEF Page, StartEngine, SetupAudio, TogglePause, PressReset, PauseFreezes, Frozen, wordVars
<1>2. CASE Machine
  BY <1>2 DEF Machine, WriteLatch, SetIrq, Stops, Moves, PauseFreezes, Frozen, wordVars
<1>3. CASE OnInit \/ OnAudio \/ Ready \/ Boot \/ TakeReset
  BY <1>3 DEF OnInit, OnAudio, Ready, Boot, TakeReset, KeepsPage, Moves, PauseFreezes, Frozen, wordVars
<1>4. CASE Publish
  <2>1. late \in 0 .. 2 /\ late < 2
    BY DEF TypeOK, PauseFreezes
  <2>2. frame = "later" /\ PAUSED = 1 => late = 0
    BY <1>4, <2>1 DEF Publish, Moves, Frozen
  <2>3. late' < 2 /\ at' = "flush"
    BY <1>4, <2>1, <2>2 DEF Publish, Moves
  <2>4. QED
    BY <2>3 DEF PauseFreezes, Frozen
<1>5. CASE Flush \/ PaceRunning
  BY <1>5 DEF Flush, PaceRunning, Moves, PauseFreezes, Frozen, wordVars
<1>6. CASE Yield \/ ReadInputs
  BY <1>6 DEF Yield, ReadInputs, Moves, PauseFreezes, Frozen, wordVars
<1>7. CASE PacePaused
  BY <1>7 DEF PacePaused, sleepOn, TypeOK, PauseFreezes, Frozen, wordVars
<1>8. CASE UNCHANGED vars
  BY <1>8 DEF vars, wordVars, PauseFreezes, Frozen
<1>9. QED
  BY <1>1, <1>2, <1>3, <1>4, <1>5, <1>6, <1>7, <1>8 DEF Next, Service

-----------------------------------------------------------------------------
(* Sound.                                                                  *)

SoundInv == Remembered /\ PageIsUpToDate

\* A step that leaves the sound alone and takes no machine from its boot to its code.
LEMMA SilentKeeps ==
  ASSUME SoundInv, UNCHANGED soundVars,
         at' = at \/ at' \in {"none", "idle", "loading", "boot"}
         \/ (at \notin {"none", "idle", "loading", "boot"}
             /\ (at' \in {"pace", "paused"} => at \in {"pace", "paused"}))
  PROVE  SoundInv'
  BY DEF SoundInv, Remembered, PageIsUpToDate, soundVars

\* A latch write is remembered and queued, or suppressed because it is what was sent last.
LEMMA WriteKeeps ==
  ASSUME TypeOK, SoundInv, NEW addr \in Latch, NEW value \in Value, WriteLatch(addr, value)
  PROVE  SoundInv'
<1>1. /\ at = "run" /\ at' = "run" /\ audioOn' = audioOn /\ sent' = sent
      /\ board' = [board EXCEPT ![addr] = value]
  BY DEF WriteLatch
<1>2. board'[IRQ] = board[IRQ] /\ board'[addr] = value
  BY <1>1 DEF TypeOK, Addr
<1>3. CASE audioOn
  <2>1. ASSUME NEW a \in Addr, a # addr
        PROVE  board'[a] = board[a] /\ soundLast'[a] = soundLast[a] /\ soundQueue'[a] = soundQueue[a]
    BY <1>1, <1>3, <2>1 DEF WriteLatch, Emit, TypeOK
  <2>2. soundLast'[addr] = value
    BY <1>2, <1>3 DEF WriteLatch, Emit, TypeOK, Addr
  <2>3. soundQueue'[addr] = IF value # soundLast[addr] THEN value ELSE soundQueue[addr]
    BY <1>2, <1>3 DEF WriteLatch, Emit, TypeOK, Addr
  <2>4. value # Unset /\ addr \in Addr
    BY DEF Addr
  <2>5. Remembered
    BY DEF SoundInv
  <2>6. \A a \in Latch : soundLast'[a] = board'[a]
    BY <1>1, <1>2, <1>3, <2>1, <2>2, <2>5 DEF Remembered, Addr
  <2>7. \A a \in Addr : soundLast'[a] = IF soundQueue'[a] # Unset THEN soundQueue'[a] ELSE sent'[a]
    <3>1. TAKE a \in Addr
    <3>2. soundLast[a] = IF soundQueue[a] # Unset THEN soundQueue[a] ELSE sent[a]
      BY <1>1, <1>3, <2>5 DEF Remembered
    <3>3. CASE a = addr
      BY <1>1, <2>2, <2>3, <2>4, <3>2, <3>3
    <3>4. CASE a # addr
      BY <1>1, <2>1, <3>2, <3>4
    <3>5. QED
      BY <3>3, <3>4
  <2>8. board'[IRQ] # Unset
    BY <1>1, <1>2, <1>3, <2>5 DEF Remembered
  <2>9. QED
    BY <1>1, <2>6, <2>7, <2>8 DEF SoundInv, Remembered, PageIsUpToDate
<1>4. CASE ~audioOn
  BY <1>1, <1>4 DEF SoundInv, Remembered, PageIsUpToDate
<1>5. QED
  BY <1>3, <1>4

\* After the flush the page has been sent what is remembered, the line included.
LEMMA FlushKeeps ==
  ASSUME TypeOK, SoundInv, Flush
  PROVE  SoundInv'
<1>1. at = "flush" /\ at' = "pace" /\ UNCHANGED <<board, audioOn>> /\ soundQueue' = Nothing
  BY DEF Flush, Moves
<1>2. CASE audioOn
  <2>1. /\ \A a \in Latch : soundLast[a] = board[a]
        /\ \A a \in Addr : soundLast[a] = IF soundQueue[a] # Unset THEN soundQueue[a] ELSE sent[a]
        /\ board[IRQ] # Unset
    BY <1>1, <1>2 DEF SoundInv, Remembered
  <2> DEFINE queue == IF board[IRQ] # soundLast[IRQ]
                        THEN [soundQueue EXCEPT ![IRQ] = board[IRQ]] ELSE soundQueue
  <2>2. /\ soundLast' = [soundLast EXCEPT ![IRQ] = board[IRQ]]
        /\ sent' = [a \in Addr |-> IF queue[a] # Unset THEN queue[a] ELSE sent[a]]
    BY <1>2 DEF Flush
  <2>3. \A a \in Addr : soundLast'[a] = board[a]
    BY <2>1, <2>2 DEF TypeOK, Addr
  <2>4. \A a \in Addr : queue[a] = IF a = IRQ /\ board[IRQ] # soundLast[IRQ] THEN board[IRQ] ELSE soundQueue[a]
    BY DEF TypeOK, Addr
  <2>5. \A a \in Addr : sent'[a] = board[a]
    <3>1. TAKE a \in Addr
    <3>2. sent'[a] = IF queue[a] # Unset THEN queue[a] ELSE sent[a]
      BY <2>2
    <3>3. CASE a = IRQ /\ board[IRQ] # soundLast[IRQ]
      BY <2>1, <2>4, <3>2, <3>3
    <3>4. CASE ~(a = IRQ /\ board[IRQ] # soundLast[IRQ])
      <4>1. queue[a] = soundQueue[a]
        BY <2>4, <3>4
      <4>2. sent'[a] = soundLast[a]
        BY <2>1, <3>2, <4>1
      <4>3. soundLast[a] = board[a]
        BY <2>1, <3>4 DEF Addr
      <4>4. QED
        BY <4>2, <4>3
    <3>5. QED
      BY <3>3, <3>4
  <2>6. sent' = board' /\ board' = board
    <3>1. sent' = [a \in Addr |-> board[a]]
      BY <2>2, <2>5
    <3>2. board = [a \in Addr |-> board[a]]
      BY DEF TypeOK
    <3>3. QED
      BY <1>1, <3>1, <3>2
  <2>7. \A a \in Addr : soundQueue'[a] = Unset
    BY <1>1 DEF Nothing
  <2>8. Remembered'
    BY <1>1, <2>1, <2>3, <2>5, <2>7 DEF Remembered, Addr
  <2>9. QED
    BY <2>6, <2>8 DEF SoundInv, PageIsUpToDate
<1>3. CASE ~audioOn
  BY <1>1, <1>3 DEF SoundInv, Remembered, PageIsUpToDate
<1>4. QED
  BY <1>2, <1>3

\* Every step keeps what the page has been sent in line with what the worker remembers.
LEMMA NextSound == TypeOK /\ SoundInv /\ [Next]_vars => SoundInv'
<1> SUFFICES ASSUME TypeOK, SoundInv, [Next]_vars PROVE SoundInv'
  OBVIOUS
<1>1. CASE Page
  <2>1. UNCHANGED soundVars /\ (at' = at \/ at' = "idle")
    BY <1>1 DEF Page, StartEngine, SetupAudio, TogglePause, PressReset
  <2>2. QED
    BY <2>1, SilentKeeps
<1>2. ASSUME NEW addr \in Latch, NEW value \in Value, WriteLatch(addr, value)
      PROVE  SoundInv'
  BY <1>2, WriteKeeps
<1>3. ASSUME NEW value \in Value, SetIrq(value)
      PROVE  SoundInv'
  <2>1. /\ at = "run" /\ at' = "run" /\ UNCHANGED <<audioOn, soundLast, soundQueue, sent>>
        /\ board' = [board EXCEPT ![IRQ] = value]
    BY <1>3 DEF SetIrq
  <2>2. board'[IRQ] = value /\ value # Unset /\ (\A a \in Latch : board'[a] = board[a])
    BY <2>1 DEF TypeOK, Addr
  <2>3. Remembered'
    BY <2>1, <2>2 DEF SoundInv, Remembered
  <2>4. QED
    BY <2>1, <2>3 DEF SoundInv, PageIsUpToDate
<1>4. CASE Stops \/ OnInit \/ Ready \/ Yield \/ ReadInputs \/ TakeReset \/ Publish \/ PaceRunning \/ PacePaused
  <2>1. UNCHANGED soundVars
    BY <1>4 DEF Stops, OnInit, Ready, Yield, ReadInputs, TakeReset, Publish, PaceRunning, PacePaused
  <2>2. \/ at' \in {"none", "idle", "loading", "boot"}
        \/ /\ at \notin {"none", "idle", "loading", "boot"}
           /\ at' \in {"pace", "paused"} => at \in {"pace", "paused"}
    BY <1>4 DEF Stops, OnInit, Ready, Yield, ReadInputs, TakeReset, Publish, PaceRunning, PacePaused, Moves
  <2>3. QED
    BY <2>1, <2>2, SilentKeeps
<1>5. CASE OnAudio
  <2>1. at \in {"idle", "loading"} /\ at' = at
    BY <1>5 DEF OnAudio
  <2>2. QED
    BY <2>1 DEF SoundInv, Remembered, PageIsUpToDate
<1>6. CASE Boot
  <2>1. /\ at' = "run" /\ soundLast' = Nothing /\ soundQueue' = Nothing /\ sent' = Nothing
        /\ board' = [Nothing EXCEPT ![IRQ] = Idle]
    BY <1>6 DEF Boot, Moves, remembered
  <2>2. board'[IRQ] = Idle /\ Idle # Unset /\ (\A a \in Latch : board'[a] = Unset)
    BY <2>1 DEF Nothing, Addr
  <2>3. \A a \in Addr : Nothing[a] = Unset
    BY DEF Nothing
  <2>4. Remembered'
    BY <2>1, <2>2, <2>3 DEF Remembered, Addr
  <2>5. QED
    BY <2>1, <2>4 DEF SoundInv, PageIsUpToDate
<1>7. CASE Flush
  BY <1>7, FlushKeeps
<1>8. CASE UNCHANGED vars
  BY <1>8 DEF vars, soundVars, SoundInv, Remembered, PageIsUpToDate
<1>9. QED
  BY <1>1, <1>2, <1>3, <1>4, <1>5, <1>6, <1>7, <1>8 DEF Next, Machine, Service

-----------------------------------------------------------------------------
\* The inductive invariant of a session (web/worker.js, web/player.html).
THEOREM SessionInvariant == Spec => []IInv
<1>1. IInv /\ [Next]_vars => IInv'
  BY NextType, NextReset, NextFrozen, NextSound DEF IInv, SoundInv
<1>2. QED
  BY InitIInv, <1>1, PTL DEF Spec

\* No reset pressed is lost between the worker's load and its store of the word
\* (readInputsInto), whatever else the page and the machine do.
THEOREM ResetsAreKept == Spec => []NoResetLost
<1>1. IInv => NoResetLost
  BY DEF IInv
<1>2. QED
  BY <1>1, SessionInvariant, PTL

\* A paused game shows one more frame at most (pace).
THEOREM PausedGamesFreeze == Spec => []PauseFreezes
<1>1. IInv => PauseFreezes
  BY DEF IInv
<1>2. QED
  BY <1>1, SessionInvariant, PTL

\* The edges the worker posts leave nothing out (emitSound, flushSound, the reboot in run).
THEOREM PageHearsAll == Spec => []PageIsUpToDate
<1>1. IInv => PageIsUpToDate
  BY DEF IInv
<1>2. QED
  BY <1>1, SessionInvariant, PTL
=============================================================================
