------------------------------- MODULE Engines -------------------------------
(***************************************************************************)
(* The four engines of core/frame-stepped.js side by side.  A run uses one *)
(* of them, chosen by the game's manifest (worker.js) or by the tool that  *)
(* compares two machines; the others stay where they start.                *)
(***************************************************************************)
EXTENDS FrameEngine

CONSTANTS StepBudget,   \* runCycleFree's option stepBudget
          ReadBudget,   \* runWatchdogGame's option readBudget
          HostStack     \* handlers the host's stack can hold

ASSUME BudgetsAssumption ==
  StepBudget \in Nat /\ ReadBudget \in Nat \ {0} /\ HostStack \in Nat

VARIABLES chosen,
          irqGame, irqAt, irqFrame, slot, vblank, beat, irqStop, served, updates,
          cfRunning, inNmi, cfMask, steps, cfFrame, cfSampled, cfStop, cfNmis,
          wdRunning, depth, wdMask, reads, wdFrame, wdSampled, wdStop, wdNmis, restarts

Irq == INSTANCE IrqEngine WITH
  game <- irqGame, at <- irqAt, frame <- irqFrame, stop <- irqStop
CycleFree == INSTANCE CycleFreeEngine WITH
  running <- cfRunning, mask <- cfMask, frame <- cfFrame, sampled <- cfSampled,
  stop <- cfStop, nmis <- cfNmis
Watchdog == INSTANCE WatchdogEngine WITH
  running <- wdRunning, mask <- wdMask, frame <- wdFrame, sampled <- wdSampled,
  stop <- wdStop, nmis <- wdNmis

irqVars == <<irqGame, irqAt, irqFrame, slot, vblank, beat, irqStop, served, updates>>
cfVars == <<cfRunning, inNmi, cfMask, steps, cfFrame, cfSampled, cfStop, cfNmis>>
wdVars == <<wdRunning, depth, wdMask, reads, wdFrame, wdSampled, wdStop, wdNmis, restarts>>
enginesVars == <<chosen, vars, irqVars, cfVars, wdVars>>

EnginesInit ==
  /\ chosen \in {"idiomatic", "irq", "cycleFree", "watchdog"}
  /\ Init /\ Irq!Init /\ CycleFree!Init /\ Watchdog!Init

Idiomatic == chosen = "idiomatic" /\ Step /\ UNCHANGED <<chosen, irqVars, cfVars, wdVars>>
IdiomaticIrq == chosen = "irq" /\ Irq!Next /\ UNCHANGED <<chosen, vars, cfVars, wdVars>>
CycleFreeRun == chosen = "cycleFree" /\ CycleFree!Next /\ UNCHANGED <<chosen, vars, irqVars, wdVars>>
WatchdogRun == chosen = "watchdog" /\ Watchdog!Next /\ UNCHANGED <<chosen, vars, irqVars, cfVars>>

\* A run that has stopped.
Over == at = "stopped" \/ irqAt = "stopped" \/ cfRunning = "stopped" \/ wdRunning = "stopped"

EnginesNext ==
  \/ Idiomatic \/ IdiomaticIrq \/ CycleFreeRun \/ WatchdogRun
  \/ Over /\ UNCHANGED enginesVars

EnginesSpec == EnginesInit /\ [][EnginesNext]_enginesVars

\* The code that runs is synchronous: it does not stop between two steps.
EnginesFairSpec ==
  /\ EnginesSpec
  /\ WF_enginesVars(Idiomatic) /\ WF_enginesVars(IdiomaticIrq)
  /\ WF_enginesVars(chosen = "cycleFree" /\ CycleFree!Progress
                      /\ UNCHANGED <<chosen, vars, irqVars, wdVars>>)
  /\ WF_enginesVars(chosen = "watchdog" /\ Watchdog!Progress
                      /\ UNCHANGED <<chosen, vars, irqVars, cfVars>>)

-----------------------------------------------------------------------------
Contract ==
  INSTANCE FrameContract WITH shown <- frame, served <- nmis, over <- (at = "stopped")

\* Whichever engine runs, whatever the game asks for, throws or hands off: a frame is
\* sampled, then its interrupt runs, once, before the next one; only the frame a run ends
\* on may go without, and nothing is shown after the end.
FollowsContract ==
  /\ Contract!Spec /\ Irq!Contract!Spec
  /\ CycleFree!Contract!Spec /\ Watchdog!Contract!Spec

\* The interrupts of a frame wake the main loop of Tempest and Centipede for exactly one
\* pass: never a frame without one, and never a heartbeat that runs into the hang guard.
OnePassPerFrame == Irq!OnePassPerFrame

\* The leak of the superseded engine is one host frame for each warm restart, and no more.
HostStackIsRestarts == Watchdog!HostStackIsRestarts

\* A run with a frame limit ends: one the worker's engines drive unless the game restarts
\* for ever without a frame, and one of the two intercepting engines even if the game falls
\* into a loop that never reaches a boundary again, by its budget.
RunsEnd ==
  /\ chosen = "idiomatic" => EndsUnlessItOnlyRestarts
  /\ chosen = "irq" => <>(irqAt = "stopped")
  /\ chosen = "cycleFree" => CycleFree!Ends
  /\ chosen = "watchdog" => Watchdog!Ends
=============================================================================
