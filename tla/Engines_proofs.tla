---------------------------- MODULE Engines_proofs ---------------------------
(***************************************************************************)
(* Every engine follows the frame contract, for every frame limit, budget  *)
(* and game; Tempest and Centipede get one pass a frame; the watchdog      *)
(* engine leaks one host frame for each restart.                           *)
(***************************************************************************)
EXTENDS Engines, Sequences, TLAPS

-----------------------------------------------------------------------------
(* The coroutine engine: no abandoned main loop is resumed, no warm         *)
(* restart is lost, every frame gets one NMI, and a busy-wait shows exactly *)
(* its frames.                                                              *)

\* Before frame 0 no NMI is owed and no main is asked for but Boot (runIdiomaticGame).
LEMMA InitIInv == Init => IInv
  BY MainAssumption, FramesAssumption
  DEF Init, IInv, TypeOK, RequestKept, OneNmiPerFrame, BusyFramesExact, ForegroundPaused,
      StopReasonHonest, Overrun, Points, Reasons

\* Whatever game code does, the request last made is the pending one or, when none is
\* pending, the main that runs; and the frames it declares are counted.
LEMMA GameRunsKeeps ==
  ASSUME IInv, GameRuns
  PROVE  /\ nextMain' \in Main \cup {NoMain} /\ wanted' \in Main
         /\ gen' = gen => RequestKept'
         /\ nextMain' = NoMain => nextMain = NoMain
         /\ declared' \in 0 .. MaxBusy /\ busyAsked' \in Nat
         /\ busyAsked' - declared' = busyAsked - declared
<1>1. /\ nextMain' \in Main \cup {NoMain} /\ wanted' \in Main
      /\ gen' = gen => RequestKept'
      /\ nextMain' = NoMain => nextMain = NoMain
  BY MainAssumption DEF IInv, TypeOK, GameRuns, AskOrNot, Ask, RequestKept
<1>2. /\ declared' \in 0 .. MaxBusy /\ busyAsked' \in Nat
      /\ busyAsked' - declared' = busyAsked - declared
  BY FramesAssumption DEF IInv, TypeOK, GameRuns, DeclareBusy
<1>3. QED
  BY <1>1, <1>2

\* Frames are accounted for wherever game code throws.
LEMMA ThrowKeepsFrames ==
  ASSUME IInv, Throw
  PROVE  BusyFramesExact' /\ OneNmiPerFrame' /\ Overrun'
<1>1. BusyFramesExact'
  BY GameRunsKeeps DEF IInv, TypeOK, BusyFramesExact, Throw, history
<1>2. OneNmiPerFrame' /\ Overrun'
  BY DEF IInv, OneNmiPerFrame, Overrun, Throw, Stopped, history
<1>3. QED
  BY <1>1, <1>2

\* A frame past the limit is never given an NMI.
LEMMA SampleKeepsLimit ==
  ASSUME IInv, Sample
  PROVE  Overrun'
<1>1. frame \in Nat /\ MaxFrames \in Nat
  BY FramesAssumption DEF IInv, TypeOK
<1>2. frame' = frame
  BY DEF Sample
<1>3. CASE frame >= MaxFrames
  <2>1. at' = "stopped"
    BY <1>3 DEF Sample, Stopped
  <2>2. QED
    BY <1>2, <2>1 DEF IInv, Overrun
<1>4. CASE frame < MaxFrames
  <2>1. ~(frame >= MaxFrames)
    BY <1>1, <1>4
  <2>2. at' = "nmi"
    BY <2>1, Zenon DEF Sample
  <2>3. frame' < MaxFrames
    BY <1>2, <1>4
  <2>4. QED
    BY <1>1, <1>2, <2>2, <2>3 DEF Overrun
<1>5. QED
  BY <1>1, <1>3, <1>4

\* Every step of the engine's loop keeps the inductive invariant.
LEMMA StepIInv == IInv /\ [Next]_vars => IInv'
<1> SUFFICES ASSUME IInv, [Next]_vars PROVE IInv'
  OBVIOUS
<1> USE FramesAssumption, MainAssumption
    DEF IInv, TypeOK, RequestKept, OneNmiPerFrame, BusyFramesExact, ForegroundPaused,
        StopReasonHonest, Overrun, Points, Reasons, game, history, Stopped
<1>1. CASE PowerOn
  BY <1>1 DEF PowerOn
<1>2. CASE Top
  BY <1>2 DEF Top
<1>3. CASE Yield
  BY <1>3, GameRunsKeeps DEF Yield
<1>4. CASE RestartMidFrame
  <2>1. GameRuns
    BY <1>4 DEF RestartMidFrame, GameRuns, AskOrNot
  <2>2. QED
    BY <1>4, <2>1, GameRunsKeeps DEF RestartMidFrame
<1>5. CASE Return
  <2>1. CASE nextMain' = NoMain
    BY <1>5, <2>1, GameRunsKeeps DEF Return
  <2>2. CASE nextMain' # NoMain
    BY <1>5, <2>2, GameRunsKeeps DEF Return
  <2>3. QED
    BY <2>1, <2>2
<1>6. CASE Throw
  <2>1. TypeOK'
    BY <1>6, GameRunsKeeps DEF Throw
  <2>2. RequestKept' /\ ForegroundPaused' /\ StopReasonHonest' /\ at' = "stopped"
    BY <1>6, GameRunsKeeps DEF Throw
  <2>3. QED
    BY <1>6, <2>1, <2>2, ThrowKeepsFrames
<1>7. CASE Sample
  <2>1. TypeOK' /\ RequestKept' /\ OneNmiPerFrame' /\ BusyFramesExact' /\ ForegroundPaused'
        /\ StopReasonHonest' /\ at' # "resume"
    BY <1>7 DEF Sample
  <2>2. QED
    BY <1>7, <2>1, SampleKeepsLimit
<1>8. CASE Nmi
  BY <1>8 DEF Nmi, AskOrNot, Ask
<1>9. CASE BusyFrame
  BY <1>9 DEF BusyFrame
<1>10. CASE BusyNmi
  BY <1>10, GameRunsKeeps DEF BusyNmi
<1>11. CASE BusyDone
  BY <1>11 DEF BusyDone
<1>12. CASE Finished \/ UNCHANGED vars
  BY <1>12 DEF Finished, vars, engine
<1>13. QED
  BY <1>1, <1>2, <1>3, <1>4, <1>5, <1>6, <1>7, <1>8, <1>9, <1>10, <1>11, <1>12
  DEF Next, Step

\* The engine's inductive invariant holds throughout every run.
THEOREM EngineInvariant == Spec => []IInv
  BY InitIInv, StepIInv, PTL DEF Spec

\* An abandoned main loop is never resumed, at any frame of any run.
THEOREM NeverResumesAbandoned == Spec => []NewestMainRuns
<1>1. IInv => NewestMainRuns
  BY DEF IInv, NewestMainRuns, RequestKept
<1>2. QED
  BY <1>1, EngineInvariant, PTL

\* Frames and NMIs alternate, busy-wait frames included.
THEOREM FramesAndNmisAlternate == Spec => []OneNmiPerFrame
<1>1. IInv => OneNmiPerFrame
  BY DEF IInv
<1>2. QED
  BY <1>1, EngineInvariant, PTL

\* No frame of a busy-wait is shown twice or skipped.
THEOREM BusyWaitsExact == Spec => []BusyFramesExact
<1>1. IInv => BusyFramesExact
  BY DEF IInv
<1>2. QED
  BY <1>1, EngineInvariant, PTL

\* A warm restart asked for is run or replaced, never dropped.
THEOREM RestartsAreKept == Spec => RestartNotLost
<1> DEFINE Kept == nextMain # NoMain => (nextMain' # NoMain \/ gen' = nextMain)
<1>1. IInv /\ [Next]_vars => [Kept]_vars
  <2> SUFFICES ASSUME IInv, Next, nextMain # NoMain, nextMain' = NoMain
               PROVE  gen' = nextMain
    OBVIOUS
  <2>1. ~GameRuns
    BY GameRunsKeeps
  <2>2. ~AskOrNot
    BY MainAssumption DEF AskOrNot, Ask
  <2>3. CASE Top
    BY <2>3 DEF Top
  <2>4. CASE RestartMidFrame
    BY <2>4, MainAssumption DEF RestartMidFrame, Ask
  <2>5. QED
    BY <2>1, <2>2, <2>3, <2>4
    DEF Next, Step, PowerOn, Yield, Return, Throw, Sample, Nmi, BusyFrame, BusyNmi, BusyDone,
        Finished, vars, game
<1>2. QED
  BY <1>1, EngineInvariant, PTL DEF Spec, RestartNotLost

-----------------------------------------------------------------------------
(* The interrupt engine.  Within a frame the heartbeat follows the slots.  *)

SlotsOf(g) == IF g = "centiped" THEN 4 ELSE 9

IrqInv ==
  /\ irqGame \in {"centiped", "tempest"}
  /\ irqAt \in {"powerOn", "resume", "sample", "irq", "stopped"} /\ irqStop # "hang"
  /\ irqFrame \in Nat /\ served \in Nat /\ updates \in Nat /\ beat \in Nat
  /\ slot \in 0 .. SlotsOf(irqGame)
  /\ irqAt = "powerOn" => irqFrame = 0 /\ updates = 0
  /\ irqAt \in {"powerOn", "resume"} =>
       /\ served = irqFrame /\ vblank = 0
       /\ irqFrame = 0 => beat = 0 /\ updates = 0
       /\ irqFrame > 0 => updates + 1 = irqFrame /\ beat = Irq!BeatsPerPass(irqGame)
  /\ irqAt \in {"sample", "irq"} => served + 1 = irqFrame /\ updates + 1 = irqFrame
  /\ irqAt = "sample" => beat = 0 /\ vblank = 0
  /\ irqAt = "irq" =>
       beat = IF irqGame = "tempest" THEN slot ELSE IF slot = 4 THEN 1 ELSE 0

\* The slots of the two games' manifests (irqVblank).
LEMMA Slots ==
  /\ \A g \in {"centiped", "tempest"} : Len(Irq!Levels(g)) = SlotsOf(g)
  /\ \A k \in 0 .. 3 : Irq!Levels("centiped")[k + 1] = IF k = 3 THEN 1 ELSE 0
<1>1. Irq!Levels("centiped") = <<0, 0, 0, 1>>
  BY DEF Irq!Levels
<1>2. Irq!Levels("tempest") = <<0, 0, 0, 0, 0, 0, 0, 0, 0>>
  BY DEF Irq!Levels
<1>3. /\ Len(Irq!Levels("centiped")) = 4
      /\ \A k \in 0 .. 3 : Irq!Levels("centiped")[k + 1] = IF k = 3 THEN 1 ELSE 0
  BY <1>1
<1>4. Len(Irq!Levels("tempest")) = 9
  BY <1>2
<1>5. QED
  BY <1>3, <1>4 DEF SlotsOf

\* One slot of a frame moves the heartbeat as the loop will need it.
LEMMA FireIrqKeeps == ASSUME IrqInv, Irq!FireIrq PROVE IrqInv'
<1>1. CASE irqGame = "centiped"
  <2>1. /\ irqAt = "irq" /\ slot \in 0 .. 3 /\ irqGame' = "centiped"
        /\ vblank' = IF slot = 3 THEN 1 ELSE 0
        /\ beat = 0
    BY <1>1, Slots DEF SlotsOf, IrqInv, Irq!FireIrq
  <2>2. /\ slot' = slot + 1 /\ beat' = (IF slot = 3 THEN 1 ELSE 0)
        /\ irqAt' = "irq" /\ irqStop' = irqStop
    BY <1>1, <2>1, Slots DEF SlotsOf, Irq!FireIrq, Irq!BeatLimit
  <2>3. QED
    BY <1>1, <2>1, <2>2, Slots DEF SlotsOf, IrqInv, Irq!FireIrq
<1>2. CASE irqGame = "tempest"
  <2>1. /\ irqAt = "irq" /\ slot \in 0 .. 8 /\ irqGame' = "tempest" /\ beat = slot
    BY <1>2, Slots DEF SlotsOf, IrqInv, Irq!FireIrq
  <2>2. /\ slot' = slot + 1 /\ beat' = beat + 1
        /\ irqAt' = "irq" /\ irqStop' = irqStop
    BY <1>2, <2>1 DEF Irq!FireIrq, Irq!BeatLimit
  <2>3. QED
    BY <1>2, <2>1, <2>2, Slots DEF SlotsOf, IrqInv, Irq!FireIrq
<1>3. QED
  BY <1>1, <1>2 DEF IrqInv

\* The sample of a frame goes on to its interrupts or ends the run at the limit.
LEMMA SampleEnds ==
  ASSUME Irq!Sample
  PROVE  \/ irqAt' = "irq" /\ slot' = 0 /\ irqStop' = irqStop
         \/ irqAt' = "stopped" /\ slot' = slot /\ irqStop' = "reached maxFrames"
  BY Zenon DEF Irq!Sample, Irq!Stopped

\* Every step of the interrupt engine keeps its invariant.
LEMMA IrqStep == ASSUME IrqInv, Irq!Next PROVE IrqInv'
<1>1. CASE Irq!PowerOn
  BY <1>1 DEF IrqInv, Irq!PowerOn, Irq!Stopped
<1>2. CASE Irq!Resume
  BY <1>2 DEF IrqInv, Irq!Resume, Irq!Pass, Irq!BeatsPerPass
<1>3. CASE Irq!Return \/ Irq!Throw
  BY <1>3 DEF IrqInv, Irq!Return, Irq!Throw, Irq!Stopped
<1>4. CASE Irq!Sample
  <2>1. /\ irqAt = "sample"
        /\ UNCHANGED <<irqGame, irqFrame, vblank, beat, served, updates>>
    BY <1>4 DEF Irq!Sample
  <2>2. CASE irqAt' = "irq" /\ slot' = 0 /\ irqStop' = irqStop
    BY <2>1, <2>2 DEF SlotsOf, IrqInv
  <2>3. CASE irqAt' = "stopped" /\ slot' = slot /\ irqStop' = "reached maxFrames"
    BY <2>1, <2>3 DEF SlotsOf, IrqInv
  <2>4. QED
    BY <1>4, <2>2, <2>3, SampleEnds
<1>5. CASE Irq!FireIrq
  BY <1>5, FireIrqKeeps
<1>6. CASE Irq!IrqsDone
  <2>1. slot = SlotsOf(irqGame)
    BY <1>6, Slots DEF IrqInv, Irq!IrqsDone
  <2>2. beat = Irq!BeatsPerPass(irqGame)
    BY <1>6, <2>1 DEF SlotsOf, IrqInv, Irq!IrqsDone, Irq!BeatsPerPass
  <2>3. QED
    BY <1>6, <2>2 DEF IrqInv, Irq!IrqsDone, SlotsOf
<1>7. QED
  BY <1>1, <1>2, <1>3, <1>4, <1>5, <1>6 DEF Irq!Next

\* ... and is a step of the contract, or none of its business.
LEMMA IrqContractStep ==
  ASSUME IrqInv, Irq!Next
  PROVE  [Irq!Contract!Next]_<<irqFrame, served, (irqAt = "stopped")>>
<1> USE DEF IrqInv, Irq!Contract!Next, Irq!Contract!Show, Irq!Contract!Serve, Irq!Contract!End,
            Irq!Stopped
<1>1. CASE Irq!PowerOn
  BY <1>1 DEF Irq!PowerOn
<1>2. CASE Irq!Resume
  BY <1>2 DEF Irq!Resume
<1>3. CASE Irq!Return \/ Irq!Throw
  BY <1>3 DEF Irq!Return, Irq!Throw
<1>4. CASE Irq!Sample
  BY <1>4, SampleEnds DEF Irq!Sample
<1>5. CASE Irq!FireIrq
  BY <1>5 DEF Irq!FireIrq
<1>6. CASE Irq!IrqsDone
  BY <1>6 DEF Irq!IrqsDone
<1>7. QED
  BY <1>1, <1>2, <1>3, <1>4, <1>5, <1>6 DEF Irq!Next

-----------------------------------------------------------------------------
(* The engine of the translated layer: inside a handler the guard is set.  *)

CycleFreeInv ==
  /\ cfRunning \in {"start", "main", "handler", "stopped"}
  /\ cfFrame \in Nat /\ cfNmis \in Nat /\ cfSampled \in BOOLEAN
  /\ steps \in Nat
  /\ cfRunning = "start" => cfFrame = 0 /\ cfNmis = 0 /\ ~cfSampled
  /\ cfRunning = "handler" => inNmi
  /\ cfRunning # "stopped" =>
       IF cfSampled THEN cfRunning = "main" /\ cfFrame = cfNmis + 1 ELSE cfFrame = cfNmis

\* Every step keeps it, and is a step of the contract or none of its business.
LEMMA CycleFreeStep ==
  ASSUME CycleFreeInv, CycleFree!Next
  PROVE  /\ CycleFreeInv'
         /\ [CycleFree!Contract!Next]_<<cfFrame, cfNmis, (cfRunning = "stopped")>>
<1> USE BudgetsAssumption DEF CycleFreeInv, CycleFree!Contract!Next, CycleFree!Contract!Show,
            CycleFree!Contract!Serve, CycleFree!Contract!End, CycleFree!Stopped, CycleFree!Runs
<1>1. CASE CycleFree!PowerOn
  BY <1>1 DEF CycleFree!PowerOn
<1>2. CASE CycleFree!SetMask
  BY <1>2 DEF CycleFree!SetMask
<1>3. CASE CycleFree!Step
  <2>1. steps' = steps + 1 /\ UNCHANGED <<cfFrame, cfSampled, cfNmis>> /\ ~cfSampled
        /\ cfRunning \in {"main", "handler"}
    BY <1>3 DEF CycleFree!Step
  <2>2. CASE cfRunning' = "stopped"
    BY <2>1, <2>2
  <2>3. CASE UNCHANGED <<cfRunning, inNmi>>
    BY <2>1, <2>3
  <2>4. QED
    BY <1>3, <2>2, <2>3, Zenon DEF CycleFree!Step
<1>4. CASE CycleFree!Boundary
  <2>1. steps' = steps + 1 /\ UNCHANGED cfNmis /\ ~cfSampled /\ cfRunning = "main"
    BY <1>4 DEF CycleFree!Boundary
  <2>2. CASE cfRunning' = "stopped" /\ UNCHANGED <<cfFrame, cfSampled>>
    BY <2>1, <2>2
  <2>3. CASE cfFrame' = cfFrame + 1 /\ cfSampled' = TRUE /\ UNCHANGED <<cfRunning, inNmi>>
    BY <2>1, <2>3
  <2>4. QED
    BY <1>4, <2>2, <2>3, Zenon DEF CycleFree!Boundary
<1>5. CASE CycleFree!Fire
  <2>1. cfSampled /\ cfSampled' = FALSE /\ cfRunning = "main" /\ UNCHANGED <<steps, cfFrame>>
    BY <1>5 DEF CycleFree!Fire
  <2>2. CASE cfRunning' = "stopped" /\ UNCHANGED cfNmis
    BY <2>1, <2>2
  <2>3. CASE cfRunning' = "handler" /\ inNmi' = TRUE /\ cfNmis' = cfNmis + 1
    <3>1. cfFrame = cfNmis + 1
      BY <2>1
    <3>2. CycleFreeInv'
      BY <2>1, <2>3, <3>1
    <3>3. CycleFree!Contract!Serve
      BY <2>1, <2>3, <3>1
    <3>4. QED
      BY <3>2, <3>3
  <2>4. QED
    BY <1>5, <2>2, <2>3, Zenon DEF CycleFree!Fire, CycleFree!Stopped
<1>6. CASE CycleFree!HandlerReturns \/ CycleFree!LongJump
  BY <1>6 DEF CycleFree!HandlerReturns, CycleFree!LongJump
<1>7. CASE CycleFree!Return \/ CycleFree!Throw
  BY <1>7 DEF CycleFree!Return, CycleFree!Throw
<1>8. QED
  BY <1>1, <1>2, <1>3, <1>4, <1>5, <1>6, <1>7 DEF CycleFree!Next

-----------------------------------------------------------------------------
(* The superseded engine of idiomatic games: what its host stack holds.    *)

WatchdogInv ==
  /\ wdRunning \in {"start", "main", "handler", "stopped"}
  /\ wdFrame \in Nat /\ wdNmis \in Nat /\ wdSampled \in BOOLEAN
  /\ depth \in Nat /\ restarts \in Nat /\ reads \in Nat
  /\ wdRunning = "start" => wdFrame = 0 /\ wdNmis = 0 /\ ~wdSampled
  /\ wdSampled => wdRunning = "main" /\ wdFrame = wdNmis + 1
  /\ ~wdSampled /\ wdRunning # "stopped" => wdFrame = wdNmis
  /\ HostStackIsRestarts

\* Every step keeps it, and is a step of the contract or none of its business.
LEMMA WatchdogStep ==
  ASSUME WatchdogInv, Watchdog!Next
  PROVE  /\ WatchdogInv'
         /\ [Watchdog!Contract!Next]_<<wdFrame, wdNmis, (wdRunning = "stopped")>>
<1> USE BudgetsAssumption, FramesAssumption DEF WatchdogInv, HostStackIsRestarts, Watchdog!HostStackIsRestarts,
            Watchdog!Contract!Next, Watchdog!Contract!Show,
            Watchdog!Contract!Serve, Watchdog!Contract!End, Watchdog!Stopped, Watchdog!Runs
<1>1. CASE Watchdog!PowerOn
  BY <1>1 DEF Watchdog!PowerOn
<1>2. CASE Watchdog!SetMask
  BY <1>2 DEF Watchdog!SetMask
<1>3. CASE Watchdog!Read
  <2>1. /\ reads' = reads + 1 /\ ~wdSampled /\ wdRunning \in {"main", "handler"}
        /\ UNCHANGED <<wdFrame, wdSampled, wdNmis, restarts>>
    BY <1>3 DEF Watchdog!Read
  <2>2. CASE wdRunning' = "stopped" /\ depth' = 0
    BY <2>1, <2>2
  <2>3. CASE UNCHANGED <<wdRunning, depth>>
    BY <2>1, <2>3
  <2>4. QED
    BY <1>3, <2>2, <2>3, Zenon DEF Watchdog!Read, Watchdog!Stopped
<1>4. CASE Watchdog!Kick
  <2>1. /\ ~wdSampled /\ wdRunning = "main" /\ UNCHANGED <<wdNmis, restarts>>
    BY <1>4 DEF Watchdog!Kick
  <2>2. CASE /\ wdRunning' = "stopped" /\ depth' = 0 /\ reads' = reads + 1
             /\ UNCHANGED <<wdFrame, wdSampled>>
    BY <2>1, <2>2
  <2>3. CASE /\ wdFrame' = wdFrame + 1 /\ wdSampled' = TRUE /\ reads' = 0
             /\ UNCHANGED <<wdRunning, depth>>
    BY <2>1, <2>3
  <2>4. QED
    BY <1>4, <2>2, <2>3, Zenon DEF Watchdog!Kick, Watchdog!Stopped
<1>5. CASE Watchdog!Fire
  <2>1. wdSampled /\ wdSampled' = FALSE /\ UNCHANGED <<reads, wdFrame, restarts>>
    BY <1>5 DEF Watchdog!Fire
  <2>2. CASE wdRunning' = "stopped" /\ depth' = 0 /\ UNCHANGED wdNmis
    BY <2>1, <2>2
  <2>3. CASE wdRunning' = "handler" /\ depth' = depth + 1 /\ wdNmis' = wdNmis + 1
    <3>1. wdRunning = "main" /\ wdFrame = wdNmis + 1
      BY <2>1
    <3>2. depth = restarts
      BY <3>1
    <3>3. HostStackIsRestarts'
      BY <2>1, <2>3, <3>2
    <3>4. WatchdogInv'
      <4>1. wdFrame' \in Nat /\ wdNmis' \in Nat /\ depth' \in Nat /\ restarts' \in Nat
            /\ reads' \in Nat
        BY <2>1, <2>3
      <4>2. wdFrame' = wdNmis'
        BY <2>1, <2>3, <3>1
      <4>3. QED
        BY <2>1, <2>3, <3>3, <4>1, <4>2
    <3>5. Watchdog!Contract!Serve
      BY <2>1, <2>3, <3>1
    <3>6. QED
      BY <3>4, <3>5
  <2>4. QED
    BY <1>5, <2>2, <2>3, Zenon DEF Watchdog!Fire, Watchdog!Stopped
<1>6. CASE Watchdog!HandlerReturns \/ Watchdog!LongJump
  BY <1>6 DEF Watchdog!HandlerReturns, Watchdog!LongJump
<1>7. CASE Watchdog!Return
  BY <1>7 DEF Watchdog!Return
<1>8. CASE Watchdog!Throw
  BY <1>8 DEF Watchdog!Throw
<1>9. QED
  BY <1>1, <1>2, <1>3, <1>4, <1>5, <1>6, <1>7, <1>8 DEF Watchdog!Next

-----------------------------------------------------------------------------
(* The engine of NMI games: its inductive invariant is FrameEngine's.      *)

\* A foreground frame, a busy-wait frame and their NMIs are steps of the contract.
LEMMA IdiomaticContractStep ==
  ASSUME IInv, Step
  PROVE  [Contract!Next]_<<frame, nmis, (at = "stopped")>>
<1> USE DEF IInv, TypeOK, OneNmiPerFrame, Contract!Next, Contract!Show, Contract!Serve,
            Contract!End, Stopped, history
<1>1. CASE PowerOn \/ Throw
  BY <1>1 DEF PowerOn, Throw
<1>2. CASE Top \/ RestartMidFrame \/ BusyDone
  BY <1>2 DEF Top, RestartMidFrame, BusyDone
<1>3. CASE Yield \/ BusyFrame
  BY <1>3 DEF Yield, BusyFrame
<1>4. CASE Return
  <2>1. at = "resume" /\ UNCHANGED <<frame, nmis>>
    BY <1>4 DEF Return
  <2>2. CASE at' = "stopped"
    BY <2>1, <2>2
  <2>3. CASE at' = "top"
    BY <2>1, <2>3
  <2>4. QED
    BY <1>4, <2>2, <2>3, Zenon DEF Return, Stopped
<1>5. CASE Sample
  <2>1. at = "sample" /\ UNCHANGED <<frame, nmis>>
    BY <1>5 DEF Sample, history
  <2>2. CASE at' = "stopped"
    BY <2>1, <2>2
  <2>3. CASE at' = "nmi"
    BY <2>1, <2>3
  <2>4. QED
    BY <1>5, <2>2, <2>3, Zenon DEF Sample, Stopped
<1>6. CASE Nmi \/ BusyNmi
  BY <1>6 DEF Nmi, BusyNmi
<1>7. QED
  BY <1>1, <1>2, <1>3, <1>4, <1>5, <1>6 DEF Step

-----------------------------------------------------------------------------
(* The four together.                                                      *)

EnginesInv == IInv /\ IrqInv /\ CycleFreeInv /\ WatchdogInv

\* Every engine starts by its contract.
LEMMA EnginesInitInv ==
  EnginesInit => /\ EnginesInv
                 /\ Contract!Init /\ Irq!Contract!Init
                 /\ CycleFree!Contract!Init /\ Watchdog!Contract!Init
<1> SUFFICES ASSUME EnginesInit
             PROVE  /\ EnginesInv
                    /\ Contract!Init /\ Irq!Contract!Init
                    /\ CycleFree!Contract!Init /\ Watchdog!Contract!Init
  OBVIOUS
<1>1. IInv /\ Contract!Init
  BY InitIInv DEF EnginesInit, Init, Contract!Init
<1>2. IrqInv /\ Irq!Contract!Init
  <2>1. Irq!Init
    BY DEF EnginesInit
  <2>2. 0 \in 0 .. SlotsOf(irqGame)
    BY DEF SlotsOf
  <2>3. QED
    BY <2>1, <2>2 DEF Irq!Init, Irq!Games, IrqInv, Irq!Contract!Init
<1>3. CycleFreeInv /\ CycleFree!Contract!Init
  BY DEF EnginesInit, CycleFree!Init, CycleFreeInv, CycleFree!Contract!Init
<1>4. WatchdogInv /\ Watchdog!Contract!Init
  <2>1. Watchdog!Init
    BY DEF EnginesInit
  <2>2. HostStackIsRestarts
    BY <2>1 DEF Watchdog!Init, HostStackIsRestarts, Watchdog!HostStackIsRestarts
  <2>3. QED
    BY <2>1, <2>2 DEF Watchdog!Init, WatchdogInv, Watchdog!Contract!Init
<1>5. QED
  BY <1>1, <1>2, <1>3, <1>4 DEF EnginesInv

ContractSteps ==
  /\ [Contract!Next]_<<frame, nmis, (at = "stopped")>>
  /\ [Irq!Contract!Next]_<<irqFrame, served, (irqAt = "stopped")>>
  /\ [CycleFree!Contract!Next]_<<cfFrame, cfNmis, (cfRunning = "stopped")>>
  /\ [Watchdog!Contract!Next]_<<wdFrame, wdNmis, (wdRunning = "stopped")>>

\* The engine that runs takes the step; the others stand still.
LEMMA EnginesStep ==
  EnginesInv /\ [EnginesNext]_enginesVars => EnginesInv' /\ ContractSteps
<1> SUFFICES ASSUME EnginesInv, [EnginesNext]_enginesVars PROVE EnginesInv' /\ ContractSteps
  OBVIOUS
<1>1. UNCHANGED vars => IInv' /\ [Contract!Next]_<<frame, nmis, (at = "stopped")>>
  BY StepIInv DEF EnginesInv, vars, engine, history
<1>2. UNCHANGED irqVars =>
        IrqInv' /\ [Irq!Contract!Next]_<<irqFrame, served, (irqAt = "stopped")>>
  BY DEF EnginesInv, irqVars, IrqInv
<1>3. UNCHANGED cfVars =>
        CycleFreeInv' /\ [CycleFree!Contract!Next]_<<cfFrame, cfNmis, (cfRunning = "stopped")>>
  BY DEF EnginesInv, cfVars, CycleFreeInv
<1>4. UNCHANGED wdVars =>
        WatchdogInv' /\ [Watchdog!Contract!Next]_<<wdFrame, wdNmis, (wdRunning = "stopped")>>
  BY DEF EnginesInv, wdVars, WatchdogInv, HostStackIsRestarts, Watchdog!HostStackIsRestarts
<1>5. CASE Idiomatic
  BY <1>2, <1>3, <1>4, <1>5, StepIInv, IdiomaticContractStep
  DEF Idiomatic, EnginesInv, ContractSteps, Next
<1>6. CASE IdiomaticIrq
  BY <1>1, <1>3, <1>4, <1>6, IrqStep, IrqContractStep DEF IdiomaticIrq, EnginesInv, ContractSteps
<1>7. CASE CycleFreeRun
  BY <1>1, <1>2, <1>4, <1>7, CycleFreeStep DEF CycleFreeRun, EnginesInv, ContractSteps
<1>8. CASE WatchdogRun
  BY <1>1, <1>2, <1>3, <1>8, WatchdogStep DEF WatchdogRun, EnginesInv, ContractSteps
<1>9. CASE UNCHANGED enginesVars
  BY <1>1, <1>2, <1>3, <1>4, <1>9 DEF enginesVars, EnginesInv, ContractSteps
<1>10. QED
  BY <1>5, <1>6, <1>7, <1>8, <1>9 DEF EnginesNext

\* The inductive invariants of the four engines hold throughout.
THEOREM EnginesInvariant == EnginesSpec => []EnginesInv
  BY EnginesInitInv, EnginesStep, PTL DEF EnginesSpec

\* Every engine is an implementation of the frame contract.
THEOREM EnginesFollowContract == EnginesSpec => FollowsContract
<1>1. EnginesInit => /\ Contract!Init /\ Irq!Contract!Init
                     /\ CycleFree!Contract!Init /\ Watchdog!Contract!Init
  BY EnginesInitInv
<1>2. EnginesInv /\ [EnginesNext]_enginesVars =>
        /\ [Contract!Next]_(Contract!vars)
        /\ [Irq!Contract!Next]_(Irq!Contract!vars)
        /\ [CycleFree!Contract!Next]_(CycleFree!Contract!vars)
        /\ [Watchdog!Contract!Next]_(Watchdog!Contract!vars)
  BY EnginesStep DEF ContractSteps, Contract!vars, Irq!Contract!vars, CycleFree!Contract!vars,
                     Watchdog!Contract!vars
<1>3. QED
  BY <1>1, <1>2, EnginesInvariant, PTL
  DEF EnginesSpec, FollowsContract, Contract!Spec, Irq!Contract!Spec, CycleFree!Contract!Spec,
      Watchdog!Contract!Spec

\* The heartbeat paces Tempest and Centipede exactly, for every frame limit.
THEOREM OnePassAFrame == EnginesSpec => []OnePassPerFrame
<1>1. EnginesInv => OnePassPerFrame
  BY DEF EnginesInv, IrqInv, OnePassPerFrame, Irq!OnePassPerFrame
<1>2. QED
  BY <1>1, EnginesInvariant, PTL

\* The leak of runWatchdogGame is what its warm restarts make it, whatever the budgets.
THEOREM WatchdogLeak == EnginesSpec => []HostStackIsRestarts
<1>1. EnginesInv => HostStackIsRestarts
  BY DEF EnginesInv, WatchdogInv
<1>2. QED
  BY <1>1, EnginesInvariant, PTL
=============================================================================
