# TLA+ verification of arcade-js

arcade-js ports arcade games from their machine code to JavaScript. What a visitor runs is the
*idiomatic* layer of a game on a coroutine engine inside a Web Worker, with a page that shows the
frames, feeds the keys and the mouse, and plays the sound. This directory models the parts of that
whose correctness depends on the *order* of things: two threads around a shared ring of frames, four
engines that swap a running generator or intercept one, a ring of messages between interrupt
handlers and a main loop, coin boxes, two games in which two players share one set of live cells, a
worker steered by shared words and by messages, dispatchers that must remember which tune they
started, and dials whose motion is cut, counted and integrated on its way to a game.

Paths are relative to the repository. Line numbers of every definition are in `PROJECT.json`, `map`.

## 1. Inventory

| part | state | operations | what is hard | what makes it correct |
|---|---|---|---|---|
| Frame ring (`web/frame-ring.js`, `publishFrame`, `present`) | three slots, an Int32 counter, the page's snapshot | publish, snapshot with a second check, present | two threads, non-atomic copies, a stalled reader, the wrap | no torn frame; newer frames only; the last frame of a paused game is shown |
| The engines (`core/frame-stepped.js`) | generator or native call, `nextMain`, mask, budgets, frame counts | resume, sample, interrupt, busy-wait frame, restart, stop | restarts asked for from anywhere, exceptions, two frame limits, re-entrant boundaries, a host stack frame leaked per restart | one contract for all four: sample, then the interrupt, once; the newest main runs; busy-waits exact; a run ends |
| Heartbeats (`tempest/.../runMainFrameLoop.js`, `centiped/.../mainLoop.js`) | slot, vblank level, beat counter | interrupts of a frame, one pass | the game counts its interrupts, not the engine | one pass of the game a frame |
| Donkey Kong's scheduler (`enqueueTask`, `mainLoop`, `loc_02e3`, `perFrame`) | a ring of 32 two-byte slots, head, tail, `FRAME`, `FRAME_SEEN` | post, dispatch, release, wait, per-frame work, NMI | a full ring, several posts against one dispatch a frame, byte pointers and counters that wrap | a FIFO that drops only when full; bounded waits; no stranded message |
| Donkey Kong's coin box and start (`serviceCoinInput` ... `commitGameStart`) | latch, partial coins, credits, sub-states, ring, scores | coin, credit, attract steps, start, reset | held coins, the cap in BCD, starts while the ring is full | each coin counts once; credits exact; a game starts from zero |
| Donkey Kong's turns (`dispatchInGameSubstate` and its 24 sub-states) | lives, board, cutscene and bonus flags, live and in two records; scores; timers | restore, play, die, save, swap, game over, name entry | block copies at different sub-states, points that arrive late, timers inherited from the last sub-state | nobody gains or loses a life, a board, points or a turn |
| Space Invaders (`games/invaders/idiomatic`) | credits, coin latch, gates of the interrupts, each player's page, work RAM, one score packet | the flows of the main program, two interrupts that drop them, coin, tilt | an interrupt starts another flow at any yield; work RAM is re-seeded between players | coins count once; a credit gets its screen; ships, fleets and turns stay with their player; points wait no longer than to the first pass of the next turn |
| Packed BCD (`core/bcd.js`, `spendCredit`, `bcdAdd`) | none | add, subtract, increment, decrement | half carries | decimal results |
| Worker (`web/worker.js`) | latches seen, edges queued, `live`, `audioOn` | init, audio, boot, frame, reset, pause | page and worker interleave on two words; messages to a loop that never yields | no reset lost; a pause holds; the page knows every latch |
| Page audio (`core/audio.js`, `setupAudio` of `web/player.html`) | context, decoded samples, voices, background, bed, bits, mute | play, stop, evict, gesture, decode, latch, trigger, strobe, fade, port write, mute | autoplay rules, a voice cap, mute while tunes change, timers that stop a voice later | one tune; one effect on a board with one sound CPU, and at most one left over by the mute button; effects never take a tune; one-shots finish |
| Page input (`web/player.html`, `web/worker.js`) | input words, keys held, pulse timers, the motion word | key, repeat, lost release, pulse, pointer, sample | timers, releases the page never hears, sampling once a frame, an exchange and a clamp | no bit stuck; no press nobody made |
| Dials (`boards/tempest/io.js`, `boards/centiped/io.js` and the routines that read them) | 4-bit counters, accumulators, filters, positions | move, interrupt, pass | two widths of counter, several interrupts a frame, half pixels | the player moves as the hand does |
| Layout, ROM table, ROM intake (`web/romzip.js`, `web/romstore.js`, `web/index.html`) | a cache | unzip, hash, store | I/O failures | not modelled |
| CPU helpers, boards, translated layers (`core/cpu`, `boards`, `games/*/translated`) | registers, memory, video | instructions | byte arithmetic | not modelled: tested routine by routine against MAME |
| The other seven games | each its own state machine | | as the two games' | not modelled |
| Tools and gates (`tools`, `hooks`) | files | | | not modelled |

How they interact. The page creates the shared memory and the worker; it writes `C_PAUSED`,
`C_RESET`, the input words and the motion word, and posts `init` and `audio`. The worker boots a
machine and gives the engine `serviceIdiomaticFrame`, which the engine calls back at every yield of
the game's main generator, before the interrupt. The service takes a reset (by throwing through the
engine), samples the input words and exchanges the motion for zero, publishes the frame into the
ring, posts the sound edges and paces or pauses. Donkey Kong's main generator dispatches one message
of its task ring a frame, and its NMI handler posts messages and runs the handler of `GAME_STATE`;
Space Invaders' two interrupts set `nextMain`, on which the engine drops the running flow. The page
plays the edges and shows the ring from its animation frames.

## 2. Modules

```
FrameDelivery <-refines- FrameRing          worker/page: frames

FrameContract <-refines- FrameEngine        runIdiomaticGame        \
              <-refines- IrqEngine          runIdiomaticIrqGame      | Engines
              <-refines- CycleFreeEngine    runCycleFree             |
              <-refines- WatchdogEngine     runWatchdogGame         /

TaskQueue     <-refines- TaskRing           Donkey Kong: scheduler
                         GameStart          Donkey Kong: power-on, attract, coins, start

TurnTaking    <-refines- PlayerTurns        Donkey Kong: lives and turns      \
              <-refines- InvadersGame       Space Invaders, power-on to over   | Games
                         Bcd                arithmetic of scores and credits  /

                         WorkerSession      worker/page: words, messages, sound edges

SamplePlayer  <-extends- LatchAudio         Donkey Kong               \
              <-extends- ClipAudio (twice)  strobed clips, music beds  | PageAudio
              <-extends- BitPortAudio       Space Invaders            /

                         InputWords         keys and buttons                  \
                         Spinner            Tempest    \  Pointer              | Inputs
                         Trackball          Centipede  /                      /
```

`Engines`, `Games`, `PageAudio` and `Inputs` compose modules that answer the same question. Their
parts share no variable, or are alternatives that a manifest chooses between, so a behaviour follows
one of them (`chosen`, `model`, `device`, `game`) and the others stay where they start. The parts
that do share state are one state machine: each dispatcher with the sample player; the pointer, the
worker's exchange, the board's counter and the interrupts of `Pointer`; the score queue of
`PlayerTurns`, whose waiting time is `TaskRing`'s `WaitsAtMostTheRing`.

Each run has an `MC` module that instantiates a specification for TLC and, where theorems are
proved, a `_proofs` module that extends it. Mutants (definitions whose name starts with M and whose
comment says *Mutant*) are plausible bugs used to test that a property can fail; they are never part
of a specification.

* **FrameRing.** A frame is identified by the counter it was written under. Both copies
  (`fb.set`, `snap.set`) move pieces in any order, one a step, so the threads interleave inside
  them. `undisturbed` is the second check of `snapshotFrame`, `Bumped` the Int32 store, wrap
  included; `UptimeSpec`, the specification, is the life of the ring until that wrap.
  `FrameDelivery` is the abstract promise; the mapping takes `counter` for `published`.
* **FrameContract** is what `worker.js` and the golden comparisons rely on in every engine: a frame
  is sampled, then its interrupt runs, once, before the next; a run ends once.
* **FrameEngine.** The loop of `runIdiomaticGame`, one action between two points where game code
  runs. The game is the environment: wherever its code runs (`GameRuns`) it may ask for a warm
  restart, declare busy-wait frames, hand off, return or throw. Restart by exception and by return
  are separate actions; `Throw` stands for every other exception, at each place one can arise,
  `onFrame`'s among them. History variables count NMIs, yields and busy-wait frames.
* **IrqEngine.** `runIdiomaticIrqGame` with the heartbeats of Tempest (nine interrupts, a main loop
  that sleeps until the count is reached) and Centipede (four, and the vblank level that lets the
  pass begin), so that "a frame's interrupts are one pass" is a property and not an assumption.
* **CycleFreeEngine.** Boundaries are steps to a poll PC, unmasked and outside every handler
  (`inNmi`); a handler that jumps away leaves the guard set, and the step budget ends the run.
* **WatchdogEngine.** Boundaries are intercepted at reads of the watchdog. Code runs natively, so a
  warm restart *calls* the reset vector from the handler: `depth` is the host's stack, and no step
  takes a frame off it.
* **TaskRing.** Slots are indices (the code's byte offset from `TASK_RING`, halved); a slot is free
  when bit 7 of its opcode is set. Every opcode posted in the source is below 0x80 and only NMI code
  posts, only the main loop dispatches. The port dispatches *one* message a pass and one pass a
  frame (`mainLoop.js` yields after each), so the turn alternates. `TaskQueue` is what a poster may
  assume; the mapping reads the occupied slots from the head.
* **GameStart.** `GAME_STATE` 0, 1 and 2 in full, 3 as far as the next start depends on it. A
  message is a draw (no effect here), points, or the reset of a player's score. A score is zero or
  not. Only the low three bits of `FRAME` matter (`readStartButtonSelector` draws on one frame in
  eight and reads no button then). Holds on `SUBSTATE_TIMER` last 32 frames or more except the two
  frames after the colour animation, whose successor does not depend on the ring.
* **TurnTaking** is what two players at one cabinet agree on, whatever the machine does between:
  each has so many lives and one extra life at most; only the player whose turn it is plays, is
  given a life and loses one; the turn then goes to the other, if that one has a life left; a game
  is over when nobody has, or with a tilt. A landing (Space Invaders) takes all lives at once. The
  mapping counts the life at play with those in reserve, so taking a ship from the reserve is a
  stutter, and reads whose turn it is from who died last, never from the cell the code swaps: that
  the swap agrees with it is what the refinement shows.
* **PlayerTurns.** Every sub-state of `GAME_STATE` 3 (9 has no handler). A block is the eight bytes
  at `LIVES` reduced to lives, cutscene due, bonus had, board. `SUBSTATE_TIMER` is `one` (expires at
  the next tick), `zero` (a tick wraps it to 255) or `long`; a long hold outlasts the ring, which is
  the guard `settled`. `bonusDue` and `AddToScore` happen in the main pass and know only
  `CURRENT_PLAYER` and the live block, as in the code.
* **InvadersGame.** `flow` names the flow by the loop it yields from, and an action is what the
  coroutine does from one yield to the next; the mid-screen and the vblank interrupt follow. An
  interrupt never resumes the program: it sets `nextMain`, and the engine drops the coroutine.
  `CREDIT_SCREEN_SHOWN`, `TILT_RESET_ACTIVE`, `GAME_ACTIVE`, `GAME_IN_PROGRESS` and
  `WARM_RESTART_SUPPRESS` are the gates between them. Work RAM is split as `seedWorkRamImage` sees
  it: what it resets, and the rest. A score is the level of its high byte, a wave the aliens left,
  the fleet's coordinate the rows it has come down; what a shot hits is a choice.
* **Bcd.** A byte is a byte; `daaByte` is translated bit for bit. The state walks over all pairs.
* **WorkerSession.** The frame service in the order of `serviceIdiomaticFrame`, with the load and
  the store of the reset word, and the loads of `pace()`, as separate steps. A machine writes
  latches and its interrupt line at will. `soundQueue` and `sent` keep the last value of each
  address: a page that applies the edges in order ends there. The messages `init` and `audio` are
  taken only where the worker is in its event loop: before `run()` reaches its frame loop.
* **SamplePlayer and the dispatchers.** Voices in insertion order as in `VoiceRegistry`. `play` has
  no effect unless the context runs and the sample is decoded; recordings are decoded together,
  synthesised effects are never waiting. `LatchAudio` is Donkey Kong's; `ClipAudio` is instantiated
  with a control port (`Strobed`, Frogger) and without (`Beds`: Pooyan, Time Pilot, The Pit), and
  has the timers that fade a bed; `BitPortAudio` is Space Invaders'. Events come in any order, since
  after a reboot any edge may come (WorkerSession).
* **InputWords.** Keys on the bits of a word, with the browser's repeats, releases that go to
  another window, pause, the pulsed buttons with their timers, and the frame that samples the word.
* **Pointer, Spinner, Trackball.** A pointer move is clamped and added to the motion word; the
  worker exchanges the word for zero, clamps again and moves the board's counter; the game's
  interrupts read the counter's low bits, filter and integrate; the pass turns the integral into the
  movement of Tempest's blaster or Centipede's player, byte for byte. `hand` and `heard` (history)
  are what the hand did and what the game took it for.

## 3. What TLC checks

| run | module / cfg | states | shows |
|---|---|---|---|
| frame_ring | MCFrameRing / FrameRing | 5.9 k | no torn frame, refinement of FrameDelivery, every frame shown or overtaken |
| engines | MCEngines / Engines | 8.0 k | each of the four engines refines FrameContract; the newest main runs, restarts are kept, busy-waits exact; one pass a frame; the host stack grows by restarts only; runs end |
| task_ring | MCTaskRing / TaskRing | 20 k | bounded FIFO (refinement of TaskQueue), bounded waits |
| game_start | MCGameStart / GameStart | 811 k | coins once, credits exact, zero score if the resets were queued |
| game_start_full_ring | GameStartFullRing | | **violated**: with the real sizes, the reset of a score is dropped and a game starts from the old score |
| games | MCGames / Games | 445 k | both games: refinement of TurnTaking; lives and ships, boards and fleets stay with their player; queued points reach the player who made them in Donkey Kong, and in Space Invaders the first pass of a turn settles what the last one left; what a turn needs to end is armed; coins count once and a credit gets its screen; a player whose turn has come plays, a game with everybody out is over; sums in BCD are decimal |
| worker_session | MCWorkerSession / WorkerSession | 4 k | resets kept, pauses hold, the page up to date, resets come |
| worker_session_arm | WorkerSessionArm | | **violated**: a worker in its frame loop never hears that audio is ready |
| page_audio | MCPageAudio / PageAudio | 74 k | three dispatchers: no stray tune, one effect of a sound CPU (and at most one forgotten at a switch-on), the cap spares the tunes, one-shots finish |
| page_audio_mute | PageAudioMute | | **violated**: two tunes after muting and unmuting across a change of board |
| inputs | MCInputs / Inputs | 7.8 M | no bit stuck, no press nobody made; the motion of a frame reaches the game with its sign and, while slow, its amount; ends and half pixels |
| inputs_reversal | InputsReversal | | **violated**: a fast roll of Centipede's ball to the left moves the player to the right |

Type invariants and the inductive invariants are not in the runs: they are proved (section 4).

**Bounds, and why they are enough.**

* *FrameRing*: two pieces are the least that can be torn; seven publications go twice round three
  slots with a reader stalled anywhere between, and the second check looks two publications back.
* *Engines*: three mains (a boot, two loops) tell the running, the pending and the latest request
  apart; `MaxFrames` 4 and busy-waits of two frames put the limit before, inside and after a wait;
  `StepBudget` 9, `ReadBudget` 3 and `HostStack` 3 let a run end by each of them and also by its
  frame limit. The interrupts of a frame are the real nine and four.
* *TaskRing*: three slots and up to four posts an NMI fill, drop and wrap within a frame; three
  values of `FRAME` wrap within a few. The proofs cover every size.
* *GameStart*: 10 slots under an 8-frame animation of two posts keep the ratio that fills the real
  ring; two coins a credit and a cap of two are reached and refused with six coins. `DemoPosts`
  bounds what a frame of the demo posts. The violation run has the real 32 and 96.
* *Games*. Donkey Kong: three lives and two boards a player are enough for a death before, between
  and after boards and for either player to outlive the other; two queued points cover points on
  both sides of a swap. Space Invaders: one starting ship and the extra ship, waves of one alien, a
  fleet one row above the ground, one score threshold, a cap of two credits; coins, tilts and games
  are unbounded, so a coin falls into every flow and every gate. Packed BCD is exhaustive.
* *WorkerSession*: latches do not interact, so one tapped and one polled address with two values;
  resets, pauses and machines are unbounded.
* *PageAudio*: two tunes (beds) are needed to change one for the other, a cap of four is reached by a
  tune and three effects, and two fades at once (`MaxFades`) let a bed come back, and go again,
  before its last fade has ended. The code's cap is 32.
* *Inputs*: three keys on two bits (two keys of one bit), one pulsed button, a pulse of seven frames
  (120 ms at 60 Hz) with two pulses outstanding. Motions are small ones both ways, which add up, and
  one that no byte holds (-4, 3, -200); two moves a frame on Tempest and one on Centipede. The
  interrupts are the real nine and four.

**Fairness.** FrameRing: the page, because `present` reschedules itself; nothing of the worker.
Engines: weak fairness of the engine that runs, since it is synchronous code that does not stop; for
the intercepting engines only of what the engine or its budget does, the game may loop for ever.
WorkerSession: the worker's thread goes on and a machine yields; nothing of the user. Games: frames
go on (weak); a wait ends, because it counts frames (Donkey Kong's holds, Space Invaders'
`FRAME_DELAY_TIMER`), what is queued is dispatched although draws come between, and a ship that was
hit goes on exploding. These take *strong* fairness because counting is abstracted away: they are
enabled again in every frame. No coin, button, tilt or hit is in a fairness condition: a player may
play for ever.

**Deadlock** is checked in all runs; a stopped engine stutters explicitly.

## 4. What the proofs show

For all values of the constants (pieces, slots, messages, mains, limits, budgets, coinage, latches,
lives, ships, waves, tunes, effects, voices, ports, keys, buttons, motions), every safety and every
action property of the runs, and every refinement:

* `FrameRing_proofs`: `NeverATornFrame`, `RingDelivers`. The invariant needs to say more than the
  canvas is whole: the two newest slots are whole (`RecentSlotsWhole`), what has been copied is
  clean *as long as the second check would still pass* (`CopyIsClean`), and counters are met in
  order. Three consecutive frames have three slots (`SlotsDiffer`), so the worker's writes miss both
  recent ones; when it moves on, a copy of the slot it may now enter fails the check.
* `Engines_proofs`: `NeverResumesAbandoned`, `RestartsAreKept`, `FramesAndNmisAlternate`,
  `BusyWaitsExact` of FrameEngine. The invariant relates the main asked for last to `nextMain` and
  the generator (`RequestKept`), and accounts frames by the engine's position (`Overrun` is what
  bounds the frame a run may end on: one past the limit when a busy-wait was cut). Of all four
  engines: `EnginesFollowContract` (the refinement), `OnePassAFrame`, `WatchdogLeak`. What each
  engine has sampled and not yet served is a function of where it stands; a heartbeat's beats are
  those of its slots.
* `TaskRing_proofs`: `NeverStranded`, `WaitIsBounded`, `WaitsOnce`, and `RingIsQueue`, the refinement
  of TaskQueue. `RingShape` says the occupied slots are those from head to tail, with the full and
  the empty ring both at equal pointers; waiting time plus distance from the head stays below the
  ring's size. For the refinement the run is counted (`Sized`): a dispatch takes one slot off it and
  moves the others up, a post that finds the tail free adds the slot the next message is read from.
* `GameStart_proofs`: `CoinsCount`, `CreditsAreExact`, `StartNeedsCredit`, `StartsFromZero`. The latch
  is the complement of the coin line, no coin counts before the switches are decoded, and credits
  stay below cap plus one award, so that neither BCD operation wraps; the task ring plays no part in
  that. A player who has earned nothing has a zero score or a reset still in the ring
  (`ResetPending`): posts go behind what waits, and only a dispatch takes a message away.
* `Games_proofs`: `LivesKept`, `TurnAbout`, `FieldKept`, `TurnsCanEnd`, `PointsSettled`,
  `OverWhenAllOut`, `EveryCoinCounts`, `BytesAreDecimal`.
  * `KongInv`, for Donkey Kong. The accounts say, for each sub-state, whether a block is live or
    saved, so that a life is in one place. Turns alternate because deaths are level before the first
    player's turn and the first is one ahead before the second's, and a bonus life is had at most
    once: the first player outlives the second by one turn at most, and a player who is asked for is
    never out. For `TurnAbout`, the refinement of TurnTaking, a step that leaves the saved blocks,
    the deaths and who is at play is a stutter (`KongStutter`), and each of the five handlers that
    do not is one lemma: the start, the bonus life, the loss of a life, the end of the game, and
    what enters or leaves a board. Points wait only while their player plays: every hold between a
    death and the swap is a long one, and the queue drains in less. Timers (`Timers`) are what makes
    the holds long.
  * `CabInv`, for Space Invaders. A press no interrupt has looked at yet comes with a tilt, which no
    start outruns (`Unseen`): that is why no press is lost between two flows. The gates say in which
    flows the interrupts move the field; what asked for a flow still holds when the flow starts; a
    pass empties the packet, so that between two passes of a turn it holds the active player's saucer
    bonus or nothing (`Packet`; what a dropped flow leaves in it is section 5's); the fleet in
    work RAM is the active player's from the seed to the save; `WARM_RESTART_SUPPRESS` is on from a
    landing to the next seed only. `Turnover` is what the refinement of TurnTaking needs beyond
    that: a game over is asked for only with no ship in reserve, a new round only from the loop, and
    a landing ends the turn of whoever had it. A turn ends in an interrupt (`CabLoses`) or by a
    landing (`CabLands`), both by `CabTurnEnds`; the flow that then strikes a player out ends the
    game exactly if nobody is left (`CabPlayerOut`), and a tilt may cut in anywhere (`CabTilts`).
  * Bytes: each of the three routines is worked out per digit (`PackedDigits`, `Sums`,
    `Differences`, `CoinSums`). Two nibbles and a carry make at most 19, and the correction of either
    nibble takes it back below ten with the carry the next one needs.
* `PageAudio_proofs`: `EveryTuneIsAccounted`, `OneEffectPlays`, `EveryTuneSurvives`,
  `EveryOneShotFinishes`, from `AudioInvariant`.
  * The registry is a sequence of any length. Whatever the player does to it is a thinning (`only`:
    the voices at a set of places, in order), a voice appended, or both, so the invariants have one
    form, `Arranged`: each voice is good, and so is each pair, the older first. That is kept by any
    thinning, and an append needs only the pairs with the new voice. Pairs say what a count cannot:
    two loops of the latch are not both heard, a held bed is alone, and of
    two effects the older was started while the sound was off and the younger was not.
  * `AudioInv` has such an arrangement per dispatcher. A loop is heard only while its dispatcher
    remembers it; what was started while muted stays exempt (`quiet`) and is not held to it.
  * A port write is a loop over bits, proved bit by bit (`BitByBit`): between two bits the invariant
    holds with the bits already done taken as new and the others as old (`HeardBitFits`).
  * The cap. An evicted voice is a one-shot while there is one. The latch has only one loop that
    counts; the beds appended at a change are alone; the loops of the ports are different bits, so
    fewer than the cap (`LoopsFit`, with `CapAssumption`), and the oldest of a full registry is
    therefore no loop.
  * One-shots. The thinning to one-shots of an appended registry is the thinning of the old one with
    at most one voice more (`OneShotsOfAppend`), because there is one way to number a set of places
    in order (`OneOrder`).
* `WorkerSession_proofs`: `ResetsAreKept`, `PausedGamesFreeze`, `PageHearsAll`. `Frozen` tells where
  the worker can be once a frame has been shown in a pause; `Remembered` says that while a machine
  runs, what is remembered of a latch is its value and has been sent or is queued.
* `Inputs_proofs`: `NoBitSticks`, `NoPhantomPress`, `KnobFollows`, `BlasterStops`, `SlowBall`,
  `HalfPixelsKept`. For the words, a bit that is set is in the last sample or was pressed since, or
  has a key down or a timer outstanding. For the dials, the motion of a frame exists once: in the
  difference of two nibbles before the frame's first interrupt, in the accumulator after it, and the
  other interrupts find no difference. A nibble's difference is the motion as long as that is
  between -7 and 7: Tempest's board cuts it to that, which is why the sign always follows there, and
  Centipede's does not, which is why only the slow ball does.

Assumptions are the named `ASSUME`s of the modules: nonempty sets, positive sizes, 1 to 254 lives
(`LivesAssumption`: the cell is a byte and a bonus life must fit), a cap of credits that two digits
hold (`CreditAssumption`), and in Donkey Kong one whose last award still fits them
(`CoinageAssumption`; the code's cap is 90 and an award at most 5), integer motions
(`PointerAssumption`), pulses of natural length (`WordsAssumption`).

Of the page's sound: no name is both a tune that loops and one that is stopped for another reason
(`NamesAssumption`, what the sound maps of the manifests satisfy), a port's bits are listed once, and
there are fewer loops on a port than voices (`PortAssumption`, `CapAssumption`; the code's cap is 32,
Space Invaders has one loop).

`UptimeSpec` is a premise of the frame-ring theorems. The counter is an Int32 (`web/worker.js:76`):
after 2^31 - 1 frames, 414 days of one session, it wraps, the distance that `snapshotFrame` tests is
negative and passes, and a page stalled across the wrap would show pieces of two frames.

Three things the proofs found in the models. Two guards of `ToggleMute` in `ClipAudio` overlapped (a
mute with no bed selected), where TLC takes the first and a proof may not. `OneShotsFinish` had
asked for room for a whole port where a latch write needs room for one voice. And the assumption on
names had asked for more disjointness than any proof needs.

Induction over lengths is by the least counterexample (`Least`, `Induction`, from the library's fact
that `<` on the naturals is well founded), stated for sets, since the library's induction theorems
take an operator the provers cannot instantiate.

**Model-checked only.** Liveness (`EveryFrameShownOrOvertaken`, `RunsEnd`, `ResetComes`,
`CreditsGetTheirScreen`, `GamesGoOn`): the proof system does not reason about fairness and ENABLED
here. What bounds the waits of the task ring is a safety property and proved (`WaitIsBounded`).

## 5. Disagreements with the code's own words

1. `games/centiped/idiomatic/accumulateTrackballAndReturnFromIrq.js:23` says the integrator
   "filters out spurious reversals", and `boards/tempest/io.js:187` clamps the same kind of counter
   so that rotation is "never reversed". `boards/centiped/io.js:170` has no clamp: nine counts to
   the left in a frame read as seven to the right, and unless the last committed delta was negative
   the filter passes them.
2. `games/dkong/contrib/computerarcheology/Code.md:1284` "it is the reset that happens when a game
   starts": a START during the colour animation finds the ring full, and the reset is dropped.
3. `web/player.html:681` "the worker may already be running; arm it now": it cannot hear it.
4. `web/player.html:602` "exactly one may sound at a time": not after a board change while muted.
5. `web/player.html:691` "one sound CPU, so we model ONE VOICE: a new command stops the one before
   it": not if the one before it was started while the sound was off. Line 832 forgets it at the
   switch-on ("stopAll() killed it", which holds for switching off), it becomes audible, and the next
   command plays beside it.

The first four have a run each with the shortest such behaviour. The corresponding positive
properties (`SlowBallIsExact`, `ZeroWhenQueued`, `audioOn` in `PageIsUpToDate`, `quiet` in
`NoStrayTune`, `Forgotten` in `OneEffectOneLeftover`) say what holds instead: of the fifth, that there
is never more than one effect too many.

Behaviours a reader of the code might not expect, which the models contain and no document denies:

* A run of `runIdiomaticGame` with a limit may report one frame past it, when the limit cuts a
  busy-wait (`Overrun`).
* In Space Invaders the points of a saucer awarded in the frame a turn ends, or of a kill during
  `invasionReset`'s wait, stay in the packet and are added in the next player's turn or the next
  game, as are those of a saucer the demo hits; a kill right after a saucer overwrites the one-slot
  packet. `OnlyOwnPointsWait` of InvadersGame bounds this: the first pass of a turn pays what was
  left, and from then on only the player's own saucer bonus waits. The extra ship is not awarded when the last ship is lost between a wave
  and the next. `tiltReset` must clear `CREDIT_SCREEN_SHOWN`: attract animations stop while there
  are credits, and nothing else would bring the credit screen back.
* A key held for the bit of a pulsed button is released when the pulse ends; a key pressed and
  released between two samples is not seen.
* A background written before the context runs is remembered as playing and stays silent; a bed
  started while muted goes on beside the bed that unmuting starts, and nobody stops it.

## 6. Not modelled, and simplifications

* *Games.* What a frame of gameplay computes: outcomes are choices (points or none; a death, a board
  or a wave won, a shot that hits, a fleet that lands, or none). PlayerTurns takes the resets of a
  start as queued; GameStart has the other case. Left out of Space Invaders: the high score, the
  wrap of a score, the round counter, shields, drawing, the demo but for its ship and its saucer's
  bonus, which bit of the port a switch is on. Left out of Donkey Kong: its sound driver, drawing,
  DMA, DIP switches beyond coinage and lives.
* *The other seven games* have several hundred routines each and their own state machines. They use
  the engines, the worker, the page, the dispatchers and the arithmetic modelled here.
* *Inputs.* Tempest's auto-aim in attract mode and locked blaster, Centipede's frames that skip
  `loc_2ace`, its second axis and joystick, fractional `movementX`, and the wrap of the motion word,
  which the worker empties every frame.
* *Worker.* `makeLive` (the cycle-driven seams), module loading, errors of `run()`.
* *Page.* The synth dispatcher, gain ramps, `unload`, `dispose`, decoder fall-backs, layout.
* *CPU helpers, boards* other than the two dials, *translated layers, ROM intake, server, tools*: see
  `components` in `PROJECT.json`.

The mapped lines are a small share of the repository's, and will stay so: of its 345 thousand lines
most are routine-by-routine translations of nine games' machine code, tables of names and generated
registries. They are sequential byte arithmetic, are compared with an emulator instruction by
instruction, and a model of them would be a second translation. The modelled files are those in
which an order of events nobody wrote a test for can go wrong.

## 7. What is left

1. *Games.* The turns of Frogger and Pooyan, whose players share cells as here, and the credits and
   warm restarts of The Pit, would join `Games`.
2. *Audio.* The synth dispatcher beside the other three, and WorkerSession's edges as the events of
   PageAudio: which of them a reboot can send narrows what each dispatcher must stand.
3. *Proofs.* The composition of FrameRing with the worker's publication (`Publish` of WorkerSession
   as the writer of the ring), so that the frame a paused page shows is the one the pause froze.
