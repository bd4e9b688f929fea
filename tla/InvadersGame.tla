---------------------------- MODULE InvadersGame ----------------------------
(***************************************************************************)
(* Space Invaders from power-on to game over (games/invaders/idiomatic).   *)
(* One coroutine is the main program; a frame is its run from one yield to *)
(* the next, then the mid-screen interrupt, then the vblank interrupt.  The*)
(* interrupts never resume the main program: they set nextMain, and the    *)
(* engine (FrameEngine) drops the coroutine for that flow.  Coins, credits,*)
(* tilt, the death of a ship and the landing of the fleet all meet there.  *)
(*                                                                         *)
(* flow is the flow the coroutine is in, by the loop it yields from; the   *)
(* steps between two yields keep turn = "main", so no interrupt comes      *)
(* between them.  A wait on FRAME_DELAY_TIMER may end at any frame.  Work  *)
(* RAM is split as seedWorkRamImage sees it: what it resets, and the rest. *)
(* A score is the level its high byte reaches, a wave the aliens left of   *)
(* it, and the fleet's reference coordinate the rows it has come down.     *)
(***************************************************************************)
EXTENDS Integers

CONSTANTS StartingShips,   \* readStartingShips: 3 .. 6
          CREDIT_CAP,      \* 99
          Wave,            \* bound: aliens of a wave (55 in the code)
          Bottom,          \* bound: rows the fleet comes down before it lands
          Threshold,       \* score level of the extra ship
          TopLevel         \* bound on the score level

VARIABLES turn, flow, nextMain, TASK_FLAGS,
          COIN_INPUT_LATCH, CREDIT_COUNT, CREDIT_SCREEN_SHOWN, TILT_RESET_ACTIVE,
          GAME_ACTIVE, GAME_IN_PROGRESS, TWO_PLAYER_GAME,
          player,        \* ACTIVE_PLAYER_PAGE: 0 for 0x21, 1 for 0x22
          alive,         \* the pair at loc_20e7: a player still in the game
          extra,         \* EXTRA_SHIP_AWARD_FLAG: the extra ship is still to be had
          ships,         \* PLAYER1_SHIP_COUNT, PLAYER2_SHIPS: ships in reserve
          aliens,        \* the alien grid in each player's page
          page,         \* the fleet coordinate in each player's page
          fleet,         \* the fleet coordinate in work RAM
          ship,          \* ready, hit (loc_2015 cleared) or exploding (the fleet stands)
          WARM_RESTART_SUPPRESS,
          score,
          packet,        \* the SCORE_ADD cells: whose points, and what for
          coin,          \* the coin switch
          \* History: credits paid for and not played yet, ships each player has put into
          \* play, where each player's fleet stands, who died last.
          paid, used, stands, died

Player == {0, 1}
Other(p) == 1 - p
Nobody == 2
Playing == IF TWO_PLAYER_GAME THEN Player ELSE {0}

Zero == [p \in Player |-> 0]
NoPacket == [by |-> Nobody, for |-> "nothing"]
Points(for) == [by |-> player, for |-> for]

coinVars == <<COIN_INPUT_LATCH, CREDIT_COUNT, coin, paid>>
gates == <<CREDIT_SCREEN_SHOWN, TILT_RESET_ACTIVE, GAME_ACTIVE, GAME_IN_PROGRESS>>
seats == <<TWO_PLAYER_GAME, player, alive, extra, ships, used, died>>
field == <<aliens, page, fleet, ship, WARM_RESTART_SUPPRESS, stands>>
points == <<score, packet>>
vars == <<turn, flow, nextMain, TASK_FLAGS, coinVars, gates, seats, field, points>>

\* The seats of no game.
Empty(in, bonus, reserve, played, last, grid, kept, place, level) ==
  /\ in = [p \in Player |-> FALSE] /\ bonus = in /\ last = Nobody
  /\ reserve = Zero /\ played = Zero /\ grid = Zero /\ kept = Zero /\ place = Zero /\ level = Zero

\* bootInit: the ROM's image of work RAM opens the gate and sets nothing else modelled here;
\* a first frame with the coin switch up has armed its latch.
Init ==
  /\ turn = "main" /\ flow = "attract" /\ nextMain = "none"
  /\ TASK_FLAGS = 0
  /\ COIN_INPUT_LATCH = 1 /\ CREDIT_COUNT = 0 /\ coin = "up"
  /\ paid = 0
  /\ CREDIT_SCREEN_SHOWN = FALSE /\ TILT_RESET_ACTIVE = FALSE
  /\ GAME_ACTIVE = TRUE /\ GAME_IN_PROGRESS = FALSE
  /\ TWO_PLAYER_GAME = FALSE /\ player = 0
  /\ Empty(alive, extra, ships, used, died, aliens, page, stands, score) /\ fleet = 0
  /\ ship = "ready" /\ WARM_RESTART_SUPPRESS = FALSE
  /\ packet = NoPacket

-----------------------------------------------------------------------------
(* The main program, from yield to yield.                                  *)

\* The engine has no flow to drop this one for.
Resumed(f) == turn = "main" /\ nextMain = "none" /\ flow = f
GoOn(f) == flow' = f /\ UNCHANGED <<turn, nextMain>>
Yield(f) == flow' = f /\ turn' = "mid" /\ UNCHANGED nextMain

\* A wait that goes on.
Waits == {"attract", "demo", "splash", "handoff", "banner", "handover", "teardown", "tiltBanner"}
WaitOn ==
  /\ \E f \in Waits : Resumed(f) /\ Yield(f)
  /\ UNCHANGED <<TASK_FLAGS, coinVars, gates, seats, field, points>>

\* The engine starts the flow an interrupt asked for.  Nothing clears the packet.
Restart ==
  /\ turn = "main" /\ nextMain # "none"
  /\ flow' = nextMain /\ nextMain' = "none" /\ UNCHANGED turn
  /\ UNCHANGED <<TASK_FLAGS, coinVars, gates, seats, field, points>>

\* Mutant: the image leaves the restart switch of the last invasion.
MSeeded(p) ==
  /\ player' = p /\ fleet' = 0 /\ ship' = "ready"
  /\ UNCHANGED WARM_RESTART_SUPPRESS /\ CREDIT_SCREEN_SHOWN' = FALSE /\ TILT_RESET_ACTIVE' = FALSE

\* seedWorkRamImage, and the page its callers put back.
Seeded(p) ==
  /\ player' = p /\ fleet' = 0 /\ ship' = "ready" /\ WARM_RESTART_SUPPRESS' = FALSE
  /\ CREDIT_SCREEN_SHOWN' = FALSE /\ TILT_RESET_ACTIVE' = FALSE

NewWave(p) ==
  /\ aliens' = [aliens EXCEPT ![p] = Wave]
  /\ stands' = [stands EXCEPT ![p] = 0]

\* Every other round of screens holds animations that vblank's attract task has to finish,
\* and it stops while there is a credit; the round without leads to the one with.
AnimationDone == CREDIT_COUNT = 0

\* decrementShipsAndDrawReadout: the active player spends a ship, if one is in reserve.
Spent(reserve) == [reserve EXCEPT ![player] = IF @ = 0 THEN 0 ELSE @ - 1]

\* runAttractCycle from its screens to the demo, whose reserve is seeded once.
DemoBegins ==
  /\ Resumed("attract") /\ AnimationDone /\ Yield("demo")
  /\ TASK_FLAGS' = 1
  /\ ships' = IF ships[0] = 0 THEN Spent([ships EXCEPT ![0] = StartingShips]) ELSE ships
  /\ Seeded(0) /\ NewWave(0)
  /\ UNCHANGED <<coinVars, GAME_ACTIVE, GAME_IN_PROGRESS,
                 TWO_PLAYER_GAME, alive, extra, used, died, page, points>>

\* The demo ends with its ship hit; finishAttractCycle.
DemoEnds ==
  /\ Resumed("demo") /\ AnimationDone /\ Yield("attract")
  /\ TASK_FLAGS' = 0
  /\ UNCHANGED <<coinVars, gates, seats, field, points>>

\* creditScreen, which drawCreditReadout closes the gate for.
CreditScreen ==
  /\ Resumed("creditScreen") /\ GoOn("prompt")
  /\ CREDIT_SCREEN_SHOWN' = TRUE /\ GAME_ACTIVE' = FALSE
  /\ UNCHANGED <<TASK_FLAGS, coinVars, TILT_RESET_ACTIVE, GAME_IN_PROGRESS, seats, field, points>>

\* One credit offers no game for two.
Offered(buttons) == IF CREDIT_COUNT = 1 THEN buttons \ {"start2"} ELSE buttons

PromptWaits(buttons) ==
  /\ Resumed("prompt") /\ Offered(buttons) = {} /\ Yield("prompt")
  /\ UNCHANGED <<TASK_FLAGS, coinVars, gates, seats, field, points>>

\* startGameFlow: the credits go by a decimal sum of 98 or 99.
StartGame(buttons) ==
  LET two == "start2" \in Offered(buttons)
  IN  /\ Resumed("prompt") /\ Offered(buttons) # {} /\ Yield("splash")
      /\ TWO_PLAYER_GAME' = two
      /\ CREDIT_COUNT' = (CREDIT_COUNT + (IF two THEN 98 ELSE 99)) % 100
      /\ paid' = paid - (IF two THEN 2 ELSE 1)
      /\ score' = Zero /\ UNCHANGED packet
      /\ GAME_ACTIVE' = FALSE /\ GAME_IN_PROGRESS' = TRUE
      /\ alive' = [p \in Player |-> TRUE] /\ extra' = [p \in Player |-> TRUE]
      /\ ships' = [p \in Player |-> IF p = 0 THEN StartingShips - 1 ELSE StartingShips]
      /\ used' = [p \in Player |-> IF p = 0 THEN 1 ELSE 0] /\ died' = Nobody
      /\ aliens' = [p \in Player |-> Wave] /\ stands' = Zero /\ page' = Zero
      /\ Seeded(0)
      /\ UNCHANGED <<TASK_FLAGS, COIN_INPUT_LATCH, coin>>

\* Mutant: the fleet is not loaded from the player's page.
MReloaded == fleet

\* loadReferenceAlienState.
reloaded == page[player]

\* startRoundFlow after its splash, restoreShieldsAndEnterRound, enterRoundWithFieldReload.
SplashEnds ==
  /\ Resumed("splash") /\ GoOn("loop")
  /\ TASK_FLAGS' = 0 /\ GAME_ACTIVE' = TRUE /\ fleet' = reloaded
  /\ UNCHANGED <<coinVars, CREDIT_SCREEN_SHOWN, TILT_RESET_ACTIVE,
                 GAME_IN_PROGRESS, seats, aliens, page, ship, WARM_RESTART_SUPPRESS,
                 stands, points>>

\* resolvePlayerShotHit: the shot may hit an alien, which the pass takes off the grid.
Shot == {"miss"} \cup {hit \in {"hit"} : aliens[player] > 0}
ShotAt(shot) == aliens' = [aliens EXCEPT ![player] = IF shot = "hit" THEN @ - 1 ELSE @]
Queued(shot) == IF shot = "hit" THEN Points("kill") ELSE packet

\* Mutant: the score is added before the shot is resolved, as what waited.
MPassOver(queued) ==
  [adds |-> packet, leaves |-> IF queued = packet THEN NoPacket ELSE queued]

\* applyPendingScoreAdd comes after resolvePlayerShotHit: a kill is paid in its own pass.
passOver(queued) == [adds |-> queued, leaves |-> NoPacket]

Levels(level) == {level} \cup {l \in {level + 1} : l <= TopLevel}
Credit(adds) ==
  IF adds = NoPacket THEN UNCHANGED score
  ELSE \E l \in Levels(score[player]) : score' = [score EXCEPT ![player] = l]

\* awardExtraShip.
extraDue == extra[player] /\ score'[player] >= Threshold

\* A pass of mainLoop: to the next wave, or by way of the extra ship to the yield.
LoopPass ==
  /\ Resumed("loop")
  /\ \E shot \in Shot :
       LET pass == passOver(Queued(shot))
       IN  ShotAt(shot) /\ Credit(pass.adds) /\ packet' = pass.leaves
  /\ IF aliens'[player] = 0
       THEN Yield("handoff") /\ UNCHANGED <<ships, extra>>
       ELSE /\ Yield("loop")
            /\ ships' = [ships EXCEPT ![player] = IF extraDue THEN @ + 1 ELSE @]
            /\ extra' = [extra EXCEPT ![player] = @ /\ ~extraDue]
  /\ UNCHANGED <<TASK_FLAGS, coinVars, gates, TWO_PLAYER_GAME, player, alive, used, died,
                 page, fleet, ship, WARM_RESTART_SUPPRESS, stands>>

\* waitNextRoundArm, then advanceToNextRound: the same player's next wave.
HandoffEnds ==
  /\ Resumed("handoff") /\ ship = "ready" /\ GoOn("loop")
  /\ Seeded(player) /\ NewWave(player) /\ page' = [page EXCEPT ![player] = 0]
  /\ UNCHANGED <<TASK_FLAGS, coinVars, GAME_ACTIVE, GAME_IN_PROGRESS,
                 TWO_PLAYER_GAME, alive, extra, ships, used, died, points>>

\* gameOverFlow: the player is out (the high score is left out).
GameOver ==
  /\ Resumed("gameOver") /\ Yield(IF TWO_PLAYER_GAME THEN "banner" ELSE "teardown")
  /\ alive' = [alive EXCEPT ![player] = FALSE]
  /\ UNCHANGED <<TASK_FLAGS, coinVars, gates, TWO_PLAYER_GAME, player, extra, ships, used, died,
                 field, points>>

\* Mutant: asks for the flag of the player who is out.
MNextUp == alive[player]

\* ... and the other one plays on, if still in the game.
nextUp == alive[Other(player)]
BannerEnds ==
  /\ Resumed("banner")
  /\ IF nextUp THEN GoOn("newRound") ELSE Yield("teardown")
  /\ UNCHANGED <<TASK_FLAGS, coinVars, gates, seats, field, points>>

\* newRoundFlow: the field of the player who leaves goes to their page before work RAM is
\* seeded for the one who comes.
NewRound ==
  /\ Resumed("newRound") /\ Yield("handover")
  /\ page' = [page EXCEPT ![player] = fleet]
  /\ Seeded(Other(player))
  /\ UNCHANGED <<TASK_FLAGS, coinVars, GAME_ACTIVE, GAME_IN_PROGRESS, TWO_PLAYER_GAME,
                 alive, extra, ships, used, died, aliens, stands, points>>

\* A ship is put into play.
TakeShip ==
  /\ ships' = Spent(ships)
  /\ used' = [used EXCEPT ![player] = @ + 1]

HandoverEnds ==
  /\ Resumed("handover") /\ Yield("splash") /\ TakeShip
  /\ UNCHANGED <<TASK_FLAGS, coinVars, gates, TWO_PLAYER_GAME, player, alive, extra, died,
                 field, points>>

\* doJFlow: the same player's next ship, on the field as it is.
DoJ ==
  /\ Resumed("doJ") /\ GoOn("loop") /\ TakeShip
  /\ GAME_ACTIVE' = TRUE
  /\ UNCHANGED <<TASK_FLAGS, coinVars, CREDIT_SCREEN_SHOWN, TILT_RESET_ACTIVE, GAME_IN_PROGRESS,
                 TWO_PLAYER_GAME, player, alive, extra, died, field, points>>

\* invasionReset: the ship is lost, and no restart but this one ends the turn.
Invasion ==
  /\ Resumed("invasion") /\ GoOn("lastStand")
  /\ WARM_RESTART_SUPPRESS' = TRUE /\ ship' = "hit"
  /\ UNCHANGED <<TASK_FLAGS, coinVars, gates, seats, aliens, page, fleet, stands, points>>

\* ... while the shot may still hit; then the game is over, whatever is in reserve.
LastStand ==
  /\ Resumed("lastStand")
  /\ \E shot \in Shot : ShotAt(shot) /\ packet' = Queued(shot)
  /\ IF ship = "ready"
       THEN GoOn("gameOver") /\ GAME_ACTIVE' = FALSE /\ died' = player
       ELSE Yield("lastStand") /\ UNCHANGED <<GAME_ACTIVE, died>>
  /\ UNCHANGED <<TASK_FLAGS, coinVars, CREDIT_SCREEN_SHOWN, TILT_RESET_ACTIVE, GAME_IN_PROGRESS,
                 TWO_PLAYER_GAME, player, alive, extra, ships, used, page, fleet, ship, WARM_RESTART_SUPPRESS, stands, score>>

\* returnToAttractFlow, to finishAttractCycle.  The seats are dead until the next start
\* writes them: they are taken to be empty again.
TeardownEnds ==
  /\ Resumed("teardown") /\ Yield("attract")
  /\ GAME_IN_PROGRESS' = FALSE /\ GAME_ACTIVE' = TRUE /\ TASK_FLAGS' = 0
  /\ Empty(alive', extra', ships', used', died', aliens', page', stands', score')
  /\ UNCHANGED <<coinVars, CREDIT_SCREEN_SHOWN, TILT_RESET_ACTIVE, TWO_PLAYER_GAME,
                 player, fleet, ship, WARM_RESTART_SUPPRESS, packet>>

\* tiltReset.
Tilt ==
  /\ Resumed("tilt") /\ Yield("tiltBanner")
  /\ TILT_RESET_ACTIVE' = TRUE /\ GAME_ACTIVE' = FALSE
  /\ UNCHANGED <<TASK_FLAGS, coinVars, CREDIT_SCREEN_SHOWN, GAME_IN_PROGRESS, seats,
                 field, points>>

\* Mutant: the credit screen counts as shown.
MShownAfterTilt == CREDIT_SCREEN_SHOWN

shownAfterTilt == FALSE
TiltEnds ==
  /\ Resumed("tiltBanner") /\ Yield("teardown")
  /\ TILT_RESET_ACTIVE' = FALSE /\ CREDIT_SCREEN_SHOWN' = shownAfterTilt
  /\ UNCHANGED <<TASK_FLAGS, coinVars, GAME_ACTIVE, GAME_IN_PROGRESS, seats, field, points>>

-----------------------------------------------------------------------------
(* The interrupts.                                                         *)

\* stepAlienShot: a shot may reach the ship.
ShotsFall == ship' \in {ship} \cup {hit \in {"hit"} : ship = "ready"}

\* awardSaucerScore, in whichever half of the screen the saucer is.
SaucerScores == packet' \in {packet, Points("saucer")}

\* A landing is held back by the one under way.
lands == ~WARM_RESTART_SUPPRESS

\* pickNextMarchingAlien: the fleet stands while the ship explodes or an alien is on the way.
FleetMarches ==
  \/ UNCHANGED <<fleet, stands, nextMain>>
  \/ /\ ship # "exploding" /\ aliens[player] > 0 /\ fleet < Bottom
     /\ fleet' = fleet + 1 /\ stands' = [stands EXCEPT ![player] = fleet + 1]
     /\ UNCHANGED nextMain
  \/ /\ ship # "exploding" /\ aliens[player] > 0 /\ fleet = Bottom /\ lands
     /\ nextMain' = "invasion"
     /\ UNCHANGED <<fleet, stands>>

\* idiomaticMidNmi in a game; in attract mode what it moves is the demo's, but for the packet.
DemoRuns == GAME_ACTIVE /\ ~GAME_IN_PROGRESS /\ TASK_FLAGS = 1
MidScreen ==
  /\ turn = "mid" /\ turn' = "vblank"
  /\ IF GAME_ACTIVE /\ GAME_IN_PROGRESS
       THEN ShotsFall /\ FleetMarches /\ SaucerScores
       ELSE /\ UNCHANGED <<ship, fleet, stands, nextMain>>
            /\ IF DemoRuns THEN SaucerScores ELSE UNCHANGED packet
  /\ UNCHANGED <<flow, TASK_FLAGS, coinVars, gates, seats, aliens, page,
                 WARM_RESTART_SUPPRESS, score>>

\* The switch stays down, and up, until an interrupt has looked at it.
Seen == COIN_INPUT_LATCH = (IF coin = "up" THEN 1 ELSE 0)
CoinSwitch ==
  /\ coin' \in {coin} \cup {c \in {"up", "down"} : Seen}
  /\ paid' = IF coin = "up" /\ coin' = "down" /\ paid < CREDIT_CAP THEN paid + 1 ELSE paid

\* armCreditOnCoinPress.
CoinService ==
  /\ COIN_INPUT_LATCH' = IF coin' = "up" THEN 1 ELSE 0
  /\ IF coin' = "down" /\ COIN_INPUT_LATCH = 1
            /\ CREDIT_COUNT # CREDIT_CAP
       THEN CREDIT_COUNT' = (CREDIT_COUNT + 1) % 100
       ELSE UNCHANGED CREDIT_COUNT

Vblank == turn = "vblank" /\ turn' = "main" /\ CoinSwitch /\ UNCHANGED <<flow, TASK_FLAGS>>

\* checkTiltInput: the rest of the interrupt is left out.
TiltSwitch ==
  /\ Vblank /\ ~TILT_RESET_ACTIVE
  /\ nextMain' = "tilt"
  /\ UNCHANGED <<COIN_INPUT_LATCH, CREDIT_COUNT, gates, seats, field, points>>

\* Mutant: coins are served behind the gate.
MServed == IF GAME_ACTIVE THEN CoinService ELSE UNCHANGED <<COIN_INPUT_LATCH, CREDIT_COUNT>>

served == CoinService
Serviced == Vblank /\ served /\ UNCHANGED <<CREDIT_SCREEN_SHOWN, TILT_RESET_ACTIVE, GAME_IN_PROGRESS>>

\* No game, and no credit to be shown.
VblankAttract ==
  /\ Serviced
  /\ ~GAME_ACTIVE \/ (~GAME_IN_PROGRESS /\ (CREDIT_COUNT' = 0 \/ CREDIT_SCREEN_SHOWN))
  /\ IF DemoRuns /\ CREDIT_COUNT' = 0 THEN SaucerScores ELSE UNCHANGED packet
  /\ UNCHANGED <<nextMain, GAME_ACTIVE, seats, field, score>>

\* A credit ends attract mode.
ShowCredit ==
  /\ Serviced /\ GAME_ACTIVE /\ ~GAME_IN_PROGRESS
  /\ CREDIT_COUNT' # 0 /\ ~CREDIT_SCREEN_SHOWN /\ nextMain' = "creditScreen"
  /\ UNCHANGED <<GAME_ACTIVE, seats, field, points>>

InGame == GAME_ACTIVE /\ GAME_IN_PROGRESS

\* serviceVblankObjects: the ship before the others, whose turn does not come if a flow is
\* asked for.
VblankField ==
  /\ Serviced /\ InGame
  /\ \/ ship' = ship
     \/ ship = "ready" /\ nextMain = "none" /\ ship' = "hit"
     \/ ship = "hit" /\ ship' = "exploding"
     \/ ship = "exploding" /\ WARM_RESTART_SUPPRESS /\ ship' = "ready"
  /\ IF nextMain = "none" THEN SaucerScores ELSE UNCHANGED packet
  /\ UNCHANGED <<nextMain, GAME_ACTIVE, seats, aliens, page, fleet, WARM_RESTART_SUPPRESS,
                 stands, score>>

\* Where playerShipHandler leads when the explosion is over.
afterDeath ==
  CASE ships[player] = 0 -> "gameOver"
    [] ships[player] > 0 /\ TWO_PLAYER_GAME /\ alive[Other(player)] -> "newRound"
    [] OTHER -> "doJ"

ShipLost ==
  /\ Serviced /\ InGame /\ ship = "exploding" /\ ~WARM_RESTART_SUPPRESS
  /\ ship' = "ready" /\ GAME_ACTIVE' = FALSE /\ nextMain' = afterDeath
  /\ died' = player
  /\ UNCHANGED <<TWO_PLAYER_GAME, player, alive, extra, ships, used, aliens, page, fleet,
                 WARM_RESTART_SUPPRESS, stands, points>>

-----------------------------------------------------------------------------
WaitEnds ==
  \/ DemoBegins \/ DemoEnds \/ SplashEnds \/ HandoffEnds \/ BannerEnds \/ HandoverEnds
  \/ TeardownEnds \/ TiltEnds
Buttons == SUBSET {"start1", "start2"}
Main ==
  \/ WaitOn \/ WaitEnds \/ Restart \/ CreditScreen \/ LoopPass \/ GameOver \/ NewRound \/ DoJ
  \/ Invasion \/ LastStand \/ Tilt
  \/ \E buttons \in Buttons : PromptWaits(buttons) \/ StartGame(buttons)
Next == Main \/ MidScreen \/ TiltSwitch \/ VblankAttract \/ ShowCredit \/ VblankField \/ ShipLost

Spec == Init /\ [][Next]_vars

\* Frames go on, no wait is endless, and a ship that is hit explodes and burns out (none need
\* be hit).
ShipMoves == ShipLost \/ (VblankField /\ ship # "ready" /\ ship' # ship)
Fairness == WF_vars(Next) /\ SF_vars(WaitEnds) /\ SF_vars(ShipMoves)
FairSpec == Spec /\ Fairness

-----------------------------------------------------------------------------
Level == 0 .. TopLevel
TypeOK ==
  /\ turn \in {"main", "mid", "vblank"}
  /\ flow \in Waits \cup {"prompt", "loop", "lastStand", "creditScreen", "gameOver", "newRound",
                          "doJ", "invasion", "tilt"}
  /\ nextMain \in {"none", "creditScreen", "gameOver", "newRound", "doJ", "invasion", "tilt"}
  /\ TASK_FLAGS \in {0, 1}
  /\ COIN_INPUT_LATCH \in {0, 1} /\ CREDIT_COUNT \in 0 .. 99
  /\ coin \in {"up", "down"}
  /\ paid \in Int
  /\ {CREDIT_SCREEN_SHOWN, TILT_RESET_ACTIVE, GAME_ACTIVE, GAME_IN_PROGRESS,
      TWO_PLAYER_GAME, WARM_RESTART_SUPPRESS} \subseteq BOOLEAN
  /\ player \in Player /\ died \in Player \cup {Nobody}
  /\ alive \in [Player -> BOOLEAN] /\ extra \in [Player -> BOOLEAN]
  /\ ships \in [Player -> Nat] /\ used \in [Player -> Nat]
  /\ aliens \in [Player -> 0 .. Wave] /\ page \in [Player -> 0 .. Bottom]
  /\ fleet \in 0 .. Bottom /\ stands \in [Player -> 0 .. Bottom]
  /\ ship \in {"ready", "hit", "exploding"}
  /\ score \in [Player -> Level]
  /\ packet \in [by : Player \cup {Nobody}, for : {"nothing", "kill", "saucer"}]

\* Every press of the coin switch is a credit or is refused at the cap, in whatever flow it
\* falls and whatever flow an interrupt starts in that very frame; credits go only by games.
CoinsCounted ==
  /\ ~(coin = "down" /\ ~Seen) => CREDIT_COUNT = paid
  /\ CREDIT_COUNT <= CREDIT_CAP

\* Ships in reserve and ships put into play add up to the switches and one extra ship, and
\* a player is out only with none left, or with the fleet on the ground.
ShipsAccounted ==
  GAME_IN_PROGRESS => \A p \in Playing :
    /\ ships[p] + used[p] = StartingShips + (IF extra[p] THEN 0 ELSE 1)
    /\ ~alive[p] => ships[p] = 0 \/ stands[p] = Bottom

\* No player is out with the extra ship earned and not had, but one who lost the last ship
\* between a cleared wave and the next.
ExtraShipHad ==
  GAME_IN_PROGRESS => \A p \in Playing :
    ~alive[p] /\ score[p] >= Threshold => ~extra[p] \/ aliens[p] = 0

\* A game is on until it is torn down; the ship at play was taken from the reserve.
tilted == nextMain = "tilt" \/ flow \in {"tilt", "tiltBanner"}
inPlay == GAME_IN_PROGRESS /\ ~tilted /\ flow # "teardown"
due ==
  IF died = Nobody THEN 0
  ELSE IF TWO_PLAYER_GAME /\ alive[Other(died)] THEN Other(died) ELSE died
taken(p) ==
  /\ p = player /\ nextMain \in {"none", "invasion"}
  /\ flow \in {"splash", "loop", "handoff", "invasion", "lastStand"}
out(p) == ~alive[p] \/ (p = player /\ flow = "gameOver")
shipsLeft ==
  [p \in Player |-> IF ~inPlay \/ p \notin Playing \/ out(p) THEN 0
                    ELSE ships[p] + (IF taken(p) THEN 1 ELSE 0)]

\* The players take turns, however an interrupt or the landing ended the last one: only the one
\* whose turn it is plays, is given a ship and loses one.
Taking == INSTANCE TurnTaking WITH
  Lives <- StartingShips, Landings <- TRUE, Tilts <- TRUE,
  game <- IF tilted THEN "tilted" ELSE IF inPlay THEN "on" ELSE "off", left <- shipsLeft,
  had <- {p \in Playing : inPlay /\ ~extra[p]},
  turn <- IF inPlay THEN due ELSE 0,
  plays <- IF inPlay /\ GAME_ACTIVE THEN player ELSE Nobody

\* Each player meets the fleet where they left it, though both fleets march through the
\* same cells of work RAM.
OwnFleet == flow \in {"loop", "handoff", "lastStand"} => fleet = stands[player]

\* The switch that keeps a landing from being armed twice is off whenever a round is played:
\* else no ship lost and no fleet landed would ever end it.
RestartsArmed == flow = "loop" => ~WARM_RESTART_SUPPRESS

\* The packet does not say whose points it holds, and nothing clears it when a flow is dropped:
\* the bonus of a saucer hit in a turn's last frame (or in the demo) and a kill while the fleet
\* lands are paid to whoever plays next.  That is settled by the first pass of the next turn:
\* from then on what waits between two passes is a bonus of the player who plays, and a kill
\* never waits.
OnlyOwnPointsWait ==
  flow = "handoff" \/ (flow = "loop" /\ turn # "main") =>
    packet \in {NoPacket, [by |-> player, for |-> "saucer"]}

\* A credit is offered a game, whoever's game was on, unless the cabinet is tilted (again).
CreditsGetTheirScreen ==
  (CREDIT_COUNT > 0 /\ ~GAME_IN_PROGRESS) ~> flow \in {"prompt", "tilt"}

\* The one whose turn it is gets to play, unless the cabinet is tilted.
Due(p) ==
  /\ GAME_IN_PROGRESS /\ TWO_PLAYER_GAME /\ flow \notin {"tiltBanner", "teardown"}
  /\ died = Other(p) /\ player = Other(p) /\ alive[p]
Plays(p) == flow = "tilt" \/ (flow = "loop" /\ player = p)
NextTurnComes == \A p \in Player : Due(p) ~> Plays(p)

\* A game that is over, or tilted, gives way to attract mode.
AllOut == GAME_IN_PROGRESS /\ \A p \in Playing : ~alive[p]
Ended == ~GAME_IN_PROGRESS \/ flow = "tilt"
GameEnds == AllOut ~> Ended
=============================================================================
