---------------------------- MODULE PlayerTurns -----------------------------
(***************************************************************************)
(* Donkey Kong's game of one or two players (games/dkong/idiomatic):       *)
(* GAME_STATE 3, the sub-state machine dispatchInGameSubstate runs once a  *)
(* frame, from commitGameStart to enterAttractMode.  The players take turns*)
(* by swapping an 8-byte block (lives, opening cutscene due, bonus life    *)
(* had, board) between the live cells and their context records; points    *)
(* and bonus lives reach a player by way of the task ring and the main     *)
(* pass, which know only CURRENT_PLAYER and the live block.                *)
(*                                                                         *)
(* A frame is a main pass, then the handler.  SUBSTATE_TIMER is "one"      *)
(* (expires at the next tick), "zero" (a tick wraps it to 255) or "long":  *)
(* a hold outlasts the ring (TaskRing), so it may expire once the main     *)
(* loop has had a pass with nothing queued.  The starts are GameStart's.   *)
(***************************************************************************)
EXTENDS Naturals, Sequences

CONSTANTS DipLives,     \* DIP_LIVES: 3 .. 6
          MaxBoards,    \* bound on the boards a player clears
          MaxPosts      \* bound on the points queued

ASSUME LivesAssumption == DipLives \in 1 .. 254
ASSUME BoundsAssumption == MaxBoards \in Nat /\ MaxPosts \in Nat

VARIABLES turn, GAME_STATE, GAME_SUBSTATE, SUBSTATE_TIMER,
          TWO_PLAYER_GAME, ACTIVE_PLAYER_INDEX, CURRENT_PLAYER,
          live,       \* the block at LIVES
          context,    \* P1_CONTEXT, P2_CONTEXT
          score,      \* whether P1_SCORE, P2_SCORE are at the bonus threshold
          pending,    \* resets and points queued, oldest first
          settled,    \* the last main pass found nothing queued
          tags,       \* the players whose high-score records await their names
          \* History: deaths, boards cleared and cutscenes seen by each player, who died last.
          deaths, cleared, intros, died

Player == {0, 1}
Other(p) == 1 - p
Nobody == 2
flow == <<GAME_STATE, GAME_SUBSTATE, SUBSTATE_TIMER>>
players == <<TWO_PLAYER_GAME, ACTIVE_PLAYER_INDEX, CURRENT_PLAYER>>
points == <<score, pending, settled>>
history == <<deaths, cleared, intros, died>>
vars == <<turn, flow, players, live, context, points, tags, history>>

\* The context template: the cutscene is due, the bonus life is not had, the first board.
Seeded == [lives |-> DipLives, intro |-> TRUE, bonus |-> FALSE, board |-> 0]
Empty == [lives |-> 0, intro |-> FALSE, bonus |-> FALSE, board |-> 0]

\* Power-on: attract mode, with the score template's placeholder in the scores.
Init ==
  /\ turn = "main" /\ GAME_STATE = 1 /\ GAME_SUBSTATE = 0 /\ SUBSTATE_TIMER = "zero"
  /\ TWO_PLAYER_GAME = FALSE /\ ACTIVE_PLAYER_INDEX = 0 /\ CURRENT_PLAYER = 0
  /\ live = [Empty EXCEPT !.lives = 1] /\ context = [p \in Player |-> Empty]
  /\ score = [p \in Player |-> "high"] /\ pending = <<>> /\ settled = TRUE
  /\ tags = {}
  /\ deaths = [p \in Player |-> 0] /\ cleared = [p \in Player |-> 0]
  /\ intros = [p \in Player |-> 0] /\ died = Nobody

-----------------------------------------------------------------------------
(* The main pass.                                                          *)

MainPass == turn = "main" /\ turn' = "nmi" /\ UNCHANGED <<flow, players, context, tags, history>>

\* A message that only draws.
DrawTask == MainPass /\ settled' = FALSE /\ UNCHANGED <<live, score, pending>>

Dispatch(op) ==
  /\ MainPass /\ pending # <<>> /\ Head(pending).op = op
  /\ pending' = Tail(pending) /\ settled' = FALSE
  /\ UNCHANGED live

ResetScore == Dispatch("reset") /\ score' = [score EXCEPT ![Head(pending).by] = "low"]

\* addToScoreTask: to the counter of CURRENT_PLAYER, which may reach the threshold.
AddToScore ==
  /\ Dispatch("points")
  /\ \/ score' = [score EXCEPT ![CURRENT_PLAYER] = "high"]
     \/ UNCHANGED score

\* Mutant: the bonus life is had again after every death.
MBonusDue == score[CURRENT_PLAYER] = "high" /\ (~live.bonus \/ live.lives = 1)

\* awardBonusLifeAtThreshold, in every pass with nothing to dispatch: once per player.
bonusDue == ~live.bonus /\ score[CURRENT_PLAYER] = "high"

IdlePass ==
  /\ MainPass /\ pending = <<>> /\ settled' = TRUE
  /\ live' = IF bonusDue THEN [live EXCEPT !.lives = @ + 1, !.bonus = TRUE] ELSE live
  /\ UNCHANGED <<score, pending>>

-----------------------------------------------------------------------------
(* The handlers, by sub-state.                                             *)

Frame(substate) ==
  turn = "nmi" /\ turn' = "main" /\ GAME_STATE = 3 /\ GAME_SUBSTATE = substate

GoTo(substate, timer) == GAME_SUBSTATE' = substate /\ SUBSTATE_TIMER' = timer /\ UNCHANGED GAME_STATE
Go(substate) == GoTo(substate, SUBSTATE_TIMER)
Keep == UNCHANGED <<points, tags, history>>

\* tickSubstateTimer.
Ticking == {6, 8, 10, 11, 13, 16, 17, 20}
Expired == SUBSTATE_TIMER = "one" \/ (SUBSTATE_TIMER = "long" /\ settled)
Tick ==
  /\ \E substate \in Ticking : Frame(substate)
  /\ SUBSTATE_TIMER # "one" /\ SUBSTATE_TIMER' = "long"
  /\ UNCHANGED <<GAME_STATE, GAME_SUBSTATE, players, live, context>> /\ Keep

\* 0: configureFlipScreenAndSelectSubstate.
SelectSubstate ==
  /\ Frame(0) /\ Go(IF ACTIVE_PLAYER_INDEX = 0 THEN 1 ELSE 3)
  /\ UNCHANGED <<players, live, context>> /\ Keep

restored(p) == context[p]

\* 1, 3: restorePlayer1Context, restorePlayer2Context.
Restore(p) ==
  /\ Frame(IF p = 0 THEN 1 ELSE 3)
  /\ live' = restored(p)
  /\ IF p = 1 THEN GoTo(4, "long") ELSE IF TWO_PLAYER_GAME THEN GoTo(2, "long") ELSE GoTo(5, "one")
  /\ UNCHANGED <<players, context>> /\ Keep

\* 2, 4: armTwoPlayerBoardSetup, loc_0a1b; 5: composeScreenAndAdvanceSubstate.
ComposeScreen ==
  /\ \E substate \in {2, 4, 5} : Frame(substate) /\ Go(IF substate = 5 THEN 6 ELSE 5)
  /\ UNCHANGED <<players, live, context>> /\ Keep

\* 6: clearScreenAndSelectIntro.
SelectIntro ==
  /\ Frame(6) /\ Expired
  /\ GoTo(IF live.intro THEN 7 ELSE 8, "one")
  /\ UNCHANGED <<players, live, context>> /\ Keep

\* 7: the opening cutscene, which ends with one tick on the timer.
Intro ==
  /\ Frame(7)
  /\ \/ GoTo(8, "one") /\ intros' = [intros EXCEPT ![ACTIVE_PLAYER_INDEX] = @ + 1]
     \/ UNCHANGED <<flow, intros>>
  /\ UNCHANGED <<players, live, context, points, tags, deaths, cleared, died>>

afterHowHigh == 10

\* 8, 10, 11: buildHowHighScreen, buildBoardWhenTimerExpires, seedMarioActorRecord.
BuildBoard ==
  /\ Expired
  /\ \/ Frame(8) /\ GoTo(afterHowHigh, "long")
     \/ Frame(10) /\ GoTo(11, "long")
     \/ Frame(11) /\ GoTo(12, "zero")
  /\ UNCHANGED <<players, live, context>> /\ Keep

Scored == [op |-> "points", by |-> ACTIVE_PLAYER_INDEX]
Scores == IF Len(pending) < MaxPosts THEN Append(pending, Scored) ELSE pending

\* 12: runGameplayFrame may queue points, and goes on, kills Mario or wins the board.
Gameplay ==
  /\ Frame(12)
  /\ pending' \in {pending, Scores}
  /\ \/ UNCHANGED flow
     \/ GoTo(13, "long")
     \/ cleared[ACTIVE_PLAYER_INDEX] < MaxBoards /\ Go(22)
  /\ UNCHANGED <<players, live, context, score, settled, tags, history>>

\* 22: the board-cleared interlude and its hold; the remaining bonus is queued as points.
Interlude ==
  /\ Frame(22)
  /\ \/ /\ settled
        /\ live' = [live EXCEPT !.board = @ + 1]
        /\ cleared' = [cleared EXCEPT ![ACTIVE_PLAYER_INDEX] = @ + 1]
        /\ pending' = Append(pending, Scored)
        /\ GoTo(8, "long")
     \/ UNCHANGED <<flow, live, cleared, pending>>
  /\ UNCHANGED <<players, context, score, settled, tags, deaths, intros, died>>

\* The tick that left SUBSTATE_TIMER at 0 is made good by a 1.
rearmed == "one"

\* Mutant: the death sequence does not hold.
MDeathOver == TRUE

\* 13: three phases of the death animation, each a hold, the last to the player's own handler.
deathOver == Expired
Death ==
  /\ Frame(13) /\ deathOver
  /\ GoTo(14 + ACTIVE_PLAYER_INDEX, rearmed)
  /\ UNCHANGED <<players, live, context>> /\ Keep

\* Mutant: the second player's death asks for a two-player game, which it always is in.
MAfterLoss(p, lives) ==
  IF lives = 0 THEN 16 + p ELSE IF TWO_PLAYER_GAME THEN 23 ELSE 8

\* Where a death leads: out of the game, to the other player, or back to the same one.
afterLoss(p, lives) ==
  CASE lives = 0 -> 16 + p
    [] lives # 0 /\ p = 0 -> IF TWO_PLAYER_GAME THEN 23 ELSE 8
    [] lives # 0 /\ p = 1 -> IF context[0].lives # 0 THEN 23 ELSE 8

saved(block) == [block EXCEPT !.intro = FALSE, !.lives = (block.lives + 255) % 256]

\* loc_13ca ranks a score: its record is tagged if it enters the table, and may push the
\* other player's out.
Ranked(p) == {tags, tags \cup {p}, {p}}

\* 14, 15: losePlayer1Life, loc_1344.
LoseLife(p) ==
  /\ Frame(14 + p)
  /\ live' = saved(live) /\ context' = [context EXCEPT ![p] = saved(live)]
  /\ deaths' = [deaths EXCEPT ![p] = @ + 1] /\ died' = p
  /\ LET lives == saved(live).lives IN
       /\ GoTo(afterLoss(p, lives), IF lives = 0 THEN "long" ELSE SUBSTATE_TIMER)
       /\ IF lives = 0 THEN tags' \in Ranked(p) ELSE UNCHANGED tags
  /\ UNCHANGED <<players, points, cleared, intros>>

\* Mutant: a player's end ends the game.
MAfterGameOver(p) == 20

afterGameOver(p) == IF context[Other(p)].lives # 0 THEN 23 ELSE 20

\* 16, 17: loc_138f, loc_13a1.
PlayerOut(p) ==
  /\ Frame(16 + p) /\ Expired
  /\ GoTo(afterGameOver(p), rearmed)
  /\ UNCHANGED <<players, live, context>> /\ Keep

\* 23: clearScreenAndSelectSubstate; 18, 19: loc_13aa, selectPlayer1Context.
SelectPhase ==
  /\ Frame(23) /\ Go(18 + ACTIVE_PLAYER_INDEX)
  /\ UNCHANGED <<players, live, context>> /\ Keep

SelectPlayer(p) ==
  /\ Frame(19 - p) /\ Go(0)
  /\ CURRENT_PLAYER' = p /\ ACTIVE_PLAYER_INDEX' = p
  /\ UNCHANGED <<TWO_PLAYER_GAME, live, context>> /\ Keep

\* 20: selectPlayerScreenOrAttract, with the first player's name before the second's.
EnterName(p) ==
  /\ Frame(20) /\ Expired /\ p \in tags /\ (p = 1 => 0 \notin tags)
  /\ CURRENT_PLAYER' = p /\ ACTIVE_PLAYER_INDEX' = p
  /\ GoTo(21, "zero")
  /\ UNCHANGED <<TWO_PLAYER_GAME, live, context>> /\ Keep

EnterAttractMode ==
  /\ Frame(20) /\ Expired /\ tags = {}
  /\ CURRENT_PLAYER' = 0 /\ ACTIVE_PLAYER_INDEX' = 0
  /\ GAME_STATE' = 1 /\ GAME_SUBSTATE' = 0 /\ SUBSTATE_TIMER' = "zero"
  /\ UNCHANGED <<TWO_PLAYER_GAME, live, context>> /\ Keep

nameDone(p) == tags \ {p}

\* 21: runBonusItemValueDisplay, until the name is confirmed or its time is up.
NameEntry ==
  /\ Frame(21)
  /\ \/ GoTo(20, "long") /\ tags' = nameDone(ACTIVE_PLAYER_INDEX)
     \/ GoTo(21, "one") /\ UNCHANGED tags
  /\ UNCHANGED <<players, live, context, points, history>>

\* Attract mode runs the demo on the live block.
AttractFrame ==
  /\ turn = "nmi" /\ turn' = "main" /\ GAME_STATE = 1
  /\ live' = [live EXCEPT !.lives = 1]
  /\ UNCHANGED <<flow, players, context>> /\ Keep

seededContexts(two) == [p \in Player |-> IF p = 0 \/ two THEN Seeded ELSE Empty]

\* commitGameStart: resets go first in the ring (GameStart).
CommitGameStart(two) ==
  /\ turn = "nmi" /\ turn' = "main" /\ GAME_STATE = 1
  /\ GAME_STATE' = 3 /\ GAME_SUBSTATE' = 0 /\ UNCHANGED <<SUBSTATE_TIMER, CURRENT_PLAYER, live, score>>
  /\ TWO_PLAYER_GAME' = two /\ ACTIVE_PLAYER_INDEX' = 0
  /\ context' = seededContexts(two)
  /\ pending' = [i \in 1 .. (IF two THEN 2 ELSE 1) |->
                   [op |-> "reset", by |-> IF two /\ i = 1 THEN 1 ELSE 0]]
  /\ settled' = FALSE /\ tags' = tags
  /\ deaths' = [p \in Player |-> 0] /\ cleared' = [p \in Player |-> 0]
  /\ intros' = [p \in Player |-> 0] /\ died' = Nobody

-----------------------------------------------------------------------------
Handlers ==
  \/ SelectSubstate \/ ComposeScreen \/ SelectIntro \/ Intro \/ BuildBoard
  \/ Gameplay \/ Interlude \/ Death \/ SelectPhase \/ EnterAttractMode \/ NameEntry
  \/ \E p \in Player : \/ Restore(p) \/ LoseLife(p) \/ PlayerOut(p)
                       \/ SelectPlayer(p) \/ EnterName(p)
Next ==
  \/ DrawTask \/ ResetScore \/ AddToScore \/ IdlePass
  \/ Tick \/ Handlers
  \/ AttractFrame \/ \E two \in BOOLEAN : CommitGameStart(two)

Spec == Init /\ [][Next]_vars

\* What counting frames down leads to: a hold, the cutscene, the interlude, the name entry end.
Wait ==
  \/ SelectIntro \/ BuildBoard \/ Death \/ EnterAttractMode
  \/ \E p \in Player : PlayerOut(p) \/ EnterName(p)
  \/ (Intro \/ Interlude \/ NameEntry) /\ GAME_SUBSTATE' # GAME_SUBSTATE

\* The engine runs frame after frame; no wait is endless, and what queues between draws is
\* dispatched.
Fairness ==
  WF_vars(Next) /\ SF_vars(ResetScore \/ AddToScore \/ IdlePass) /\ SF_vars(Wait)
FairSpec == Spec /\ Fairness

-----------------------------------------------------------------------------
Block == [lives : 0 .. 255, intro : BOOLEAN, bonus : BOOLEAN, board : Nat]
TypeOK ==
  /\ turn \in {"main", "nmi"} /\ GAME_STATE \in {1, 3}
  /\ GAME_SUBSTATE \in 0 .. 23 \ {9} /\ SUBSTATE_TIMER \in {"zero", "one", "long"}
  /\ TWO_PLAYER_GAME \in BOOLEAN /\ ACTIVE_PLAYER_INDEX \in Player /\ CURRENT_PLAYER \in Player
  /\ live \in Block /\ context \in [Player -> Block]
  /\ score \in [Player -> {"low", "high"}] /\ settled \in BOOLEAN
  /\ pending \in Seq([op : {"reset", "points"}, by : Player]) /\ tags \subseteq Player
  /\ deaths \in [Player -> Nat] /\ cleared \in [Player -> Nat] /\ intros \in [Player -> Nat]
  /\ died \in Player \cup {Nobody}

InGame(p) == GAME_STATE = 3 /\ (p = 0 \/ TWO_PLAYER_GAME)

\* The block a player's account is kept in: the live cells from the restore to the save.
Between(p) == p = ACTIVE_PLAYER_INDEX /\ GAME_SUBSTATE \in {2, 4} \cup 5 .. 15 \cup {22}
block(p) == IF Between(p) THEN live ELSE context[p]

\* Swapping blocks and awarding on whatever block is live loses nobody a life and gives
\* nobody one: lives left and deaths add up to the DIP setting and one bonus life.
LivesAccounted ==
  \A p \in Player : InGame(p) =>
    block(p).lives + deaths[p] = DipLives + (IF block(p).bonus THEN 1 ELSE 0)

\* The bonus life is earned in this game, by the player who gets it, and no player is out who
\* had it coming: at the end of a player's game it was had if and only if the score is there.
BonusEarned ==
  \A p \in Player : InGame(p) /\ block(p).lives = 0 =>
    deaths[p] = DipLives + (IF score[p] = "high" THEN 1 ELSE 0)

\* Each player resumes on the board they left, after the cutscene and only one of it.
OwnBoard ==
  GAME_STATE = 3 /\ GAME_SUBSTATE = 12 =>
    /\ live.board = cleared[ACTIVE_PLAYER_INDEX]
    /\ intros[ACTIVE_PLAYER_INDEX] = 1

\* Whose turn the deaths make it, and how far each player's account goes.
due ==
  IF died = Nobody THEN 0 ELSE IF context[Other(died)].lives # 0 THEN Other(died) ELSE died
livesLeft == [p \in Player |-> IF InGame(p) THEN block(p).lives ELSE 0]
bonusHad == {p \in Player : InGame(p) /\ block(p).bonus}
atPlay == GAME_STATE = 3 /\ GAME_SUBSTATE \in 12 .. 15

\* The players take turns: only the one whose turn it is plays, gains a life and loses one.
Taking == INSTANCE TurnTaking WITH
  Lives <- DipLives, Landings <- FALSE, Tilts <- FALSE,
  game <- IF GAME_STATE = 3 THEN "on" ELSE "off", left <- livesLeft, had <- bonusHad,
  turn <- IF GAME_STATE = 3 THEN due ELSE 0,
  plays <- IF atPlay THEN ACTIVE_PLAYER_INDEX ELSE Nobody

\* Points go to the player who scored them, though the task ring does not say whose they are.
PointsToTheScorer == [][AddToScore => Head(pending).by = CURRENT_PLAYER]_vars

\* A hold is armed before its sub-state ticks it: a tick from zero would wrap to 255 and the
\* game stand still for four seconds.
HoldsArmed == GAME_STATE = 3 /\ GAME_SUBSTATE \in Ticking => SUBSTATE_TIMER # "zero"

\* The game ends when all its players are out, with every high score named.
EndsWhenAllOut ==
  [][GAME_STATE = 3 /\ GAME_STATE' = 1 =>
       /\ \A p \in Player : InGame(p) => context[p].lives = 0
       /\ tags = {}]_vars

\* A player whose turn has come gets to play, whatever became of the other.
Due(p) ==
  /\ GAME_STATE = 3 /\ died = Other(p) /\ context[p].lives # 0 /\ ACTIVE_PLAYER_INDEX = Other(p)
Plays(p) == GAME_STATE = 3 /\ GAME_SUBSTATE = 12 /\ ACTIVE_PLAYER_INDEX = p
NextTurnComes == \A p \in Player : Due(p) ~> Plays(p)

\* With everybody out the machine returns to attract mode, through the name entries.
AllOut == GAME_STATE = 3 /\ \A p \in Player : context[p].lives = 0
GameEnds == AllOut ~> GAME_STATE = 1
=============================================================================
