----------------------------- MODULE GameStart ------------------------------
(***************************************************************************)
(* Donkey Kong from power-on to the start of a game (games/dkong/idiomatic)*)
(* with the coin slot: GAME_STATE 0 (powerOnInit), 1 (runAttractState), 2  *)
(* (dispatchCreditedSubstate), and 3, the game, of which this module keeps *)
(* what the next start depends on: that points are earned and that it ends *)
(* (the turns of a game are PlayerTurns).                                  *)
(*                                                                         *)
(* A frame is a main pass, then the NMI: serviceCoinInput and the handler  *)
(* of the current state.  The main pass dispatches one message of the task *)
(* ring (TaskRing); a draw changes nothing modelled here, opcode 1 resets  *)
(* a score.  A packed-BCD byte is the number it reads (Bcd).  A hold on    *)
(* SUBSTATE_TIMER lasts longer than the ring takes to drain, so one may    *)
(* expire once the ring has drained of all but this frame's coin.          *)
(***************************************************************************)
EXTENDS Integers, Sequences

CONSTANTS Slots,           \* messages the task ring holds: 32
          AnimFrames,      \* ARM_FRAMES of loc_07cb: 96
          CoinsPerCredit,  \* DIP_COINS_PER_CREDIT
          CreditsPerCoin,  \* DIP_CREDITS_PER_COIN
          CreditCap,       \* CREDIT_CAP: 90
          DemoPosts,       \* bound on the messages a demo frame posts
          MaxCoins         \* bound on the coins ever inserted

ASSUME RingAssumption == Slots \in Nat \ {0} /\ AnimFrames \in Nat \ {0} /\ DemoPosts \in Nat
ASSUME CoinageAssumption ==
  /\ CoinsPerCredit \in 1 .. 255 /\ CreditsPerCoin \in Nat \ {0} /\ MaxCoins \in Nat
  /\ CreditCap \in Nat \ {0} /\ CreditCap + CreditsPerCoin <= 100

VARIABLES turn,                                  \* whose code runs next
          GAME_STATE, GAME_SUBSTATE, ATTRACT, TWO_PLAYER_GAME,
          FRAME,                                 \* its low three bits
          PALETTE_ANIM_TIMER,
          ring,                                  \* queued messages, oldest first
          score,                                 \* P1_SCORE, P2_SCORE: zero or not
          COIN_EDGE, COINS_PARTIAL, CREDITS,
          line,                                  \* IN2 bit 7 as the last NMI saw it: a coin or none
          \* History: coins inserted, how often they made up a credit award, the awards
          \* refused at the cap, credits spent; the players of the game who have earned
          \* nothing yet, and whether the resets of their scores were queued.
          coins, awards, refused, spent, scoreless, resetsQueued

coinVars == <<COIN_EDGE, COINS_PARTIAL, line, coins, awards, refused>>
attractVars == <<ATTRACT, PALETTE_ANIM_TIMER>>
gameVars == <<TWO_PLAYER_GAME, score, scoreless, resetsQueued>>
creditVars == <<CREDITS, spent>>
vars == <<turn, GAME_STATE, GAME_SUBSTATE, FRAME, ring, coinVars, creditVars, attractVars, gameVars>>

Player == {0, 1}
Draw == [op |-> "draw", arg |-> 0]          \* any message that only draws
Points == [op |-> "points", arg |-> 0]      \* opcode 0: points for the current player
Reset(p) == [op |-> "reset", arg |-> p]     \* opcode 1 with player p
Message == {Draw, Points} \cup {Reset(p) : p \in Player}
Playing == IF TWO_PLAYER_GAME THEN {0, 1} ELSE {0}

Draws(n) == [i \in 1 .. n |-> Draw]

\* enqueueTask, message by message: a full ring drops what does not fit.
Posted(msgs) == SubSeq(ring \o msgs, 1, IF Len(ring \o msgs) < Slots THEN Len(ring \o msgs) ELSE Slots)

\* boot: RAM is wiped, the coin latch with it; the coin line may be held.
Init ==
  /\ turn = "main" /\ FRAME = 0 /\ ring = <<>>
  /\ GAME_STATE = 0 /\ GAME_SUBSTATE = 0 /\ ATTRACT = 0 /\ TWO_PLAYER_GAME = FALSE
  /\ PALETTE_ANIM_TIMER = 0
  /\ score = [p \in Player |-> "zero"]
  /\ COIN_EDGE = 0 /\ COINS_PARTIAL = 0 /\ CREDITS = 0 /\ line = 1
  /\ coins = 0 /\ awards = 0 /\ refused = 0 /\ spent = 0 /\ scoreless = {} /\ resetsQueued = TRUE

-----------------------------------------------------------------------------
(* The main pass.                                                          *)

Dispatch ==
  /\ turn = "main" /\ ring # <<>>
  /\ ring' = Tail(ring) /\ turn' = "coin"
  /\ UNCHANGED <<GAME_STATE, GAME_SUBSTATE, FRAME, coinVars, creditVars, attractVars,
                 TWO_PLAYER_GAME, resetsQueued>>

DispatchDraw == Dispatch /\ Head(ring) = Draw /\ UNCHANGED <<score, scoreless>>

\* resetScoreCounter.
DispatchReset(p) ==
  /\ Dispatch /\ Head(ring) = Reset(p)
  /\ score' = [score EXCEPT ![p] = "zero"] /\ UNCHANGED scoreless

\* addToScoreTask: to the player whose turn it is.
DispatchPoints(p) ==
  /\ Dispatch /\ Head(ring) = Points /\ p \in Playing
  /\ score' = [score EXCEPT ![p] = "other"] /\ scoreless' = scoreless \ {p}

IdlePass ==
  /\ turn = "main" /\ ring = <<>> /\ turn' = "coin"
  /\ UNCHANGED <<GAME_STATE, GAME_SUBSTATE, FRAME, ring, coinVars, creditVars, attractVars, gameVars>>

-----------------------------------------------------------------------------
(* The NMI: FRAME steps down, then serviceCoinInput.                       *)

NmiBegins ==
  /\ turn = "coin" /\ turn' = "game"
  /\ FRAME' = (FRAME - 1) % 8
  /\ UNCHANGED <<GAME_STATE, GAME_SUBSTATE, spent, attractVars, gameVars>>

NoCoin ==
  /\ NmiBegins
  /\ line' = 0 /\ COIN_EDGE' = 1
  /\ UNCHANGED <<COINS_PARTIAL, coins, awards, refused, CREDITS, ring>>

\* Mutant: a coin that is still held counts again.
MCoinAccepted == COIN_EDGE = 1 \/ line = 1

\* The latch: a coin counts once, and one held since power-on not at all.
CoinAccepted == COIN_EDGE = 1

CoinHeld ==
  /\ NmiBegins /\ (line = 1 \/ coins < MaxCoins)
  /\ ~CoinAccepted
  /\ line' = 1 /\ coins' = IF line = 1 THEN coins ELSE coins + 1
  /\ UNCHANGED <<COIN_EDGE, COINS_PARTIAL, awards, refused, CREDITS, ring>>

\* powerOnInit has not decoded the switches before the end of the first NMI.
coinsPerCredit == IF GAME_STATE = 0 THEN 0 ELSE CoinsPerCredit

\* Mutant: the cap is not tested.
MCredited(credits) == (credits + CreditsPerCoin) % 100

\* bcdAdd of one credit award, refused at the cap.
Credited(credits) ==
  IF credits >= CreditCap THEN credits ELSE (credits + CreditsPerCoin) % 100

CoinCounts ==
  /\ NmiBegins /\ (line = 1 \/ coins < MaxCoins)
  /\ CoinAccepted
  /\ line' = 1 /\ coins' = IF line = 1 THEN coins ELSE coins + 1
  /\ COIN_EDGE' = 0
  /\ IF COINS_PARTIAL + 1 = coinsPerCredit
       THEN /\ COINS_PARTIAL' = 0
            /\ CREDITS' = Credited(CREDITS)
            /\ awards' = awards + 1
            /\ IF CREDITS >= CreditCap
                 THEN refused' = refused + 1 /\ UNCHANGED ring
                 ELSE ring' = Posted(Draws(1)) /\ UNCHANGED refused
       ELSE /\ COINS_PARTIAL' = (COINS_PARTIAL + 1) % 256
            /\ UNCHANGED <<awards, refused, CREDITS, ring>>

CoinService == NoCoin \/ CoinHeld \/ CoinCounts

-----------------------------------------------------------------------------
(* The handler of the current state.                                       *)

NmiEnds == turn = "game" /\ turn' = "main" /\ UNCHANGED <<FRAME, coinVars>>

GoTo(state, substate) == GAME_STATE' = state /\ GAME_SUBSTATE' = substate

PowerOnInit ==
  /\ NmiEnds /\ GAME_STATE = 0
  /\ GoTo(1, 0) /\ ATTRACT' = 1
  /\ score' = [p \in Player |-> "other"]        \* the placeholder of the score template
  /\ ring' = Posted(Draws(3))
  /\ UNCHANGED <<PALETTE_ANIM_TIMER, creditVars, TWO_PLAYER_GAME, scoreless, resetsQueued>>

\* runAttractState finds a credit.
CreditSeen ==
  /\ NmiEnds /\ GAME_STATE = 1 /\ CREDITS # 0
  /\ GoTo(2, 0)
  /\ UNCHANGED <<ring, creditVars, attractVars, gameVars>>

Attract(substate) ==
  /\ NmiEnds /\ GAME_STATE = 1 /\ CREDITS = 0 /\ GAME_SUBSTATE = substate
  /\ UNCHANGED <<creditVars, ATTRACT, gameVars>>

TitleScreen ==
  /\ Attract(0) /\ GoTo(1, 1)
  /\ ring' = Posted(Draws(9))
  /\ UNCHANGED PALETTE_ANIM_TIMER

\* A timed gate: the demo's board (1), its Mario (2), its death animation (4) and the pause
\* before the title (7).
HoldGoesOn ==
  /\ \E substate \in {1, 2, 4, 7} : Attract(substate)
  /\ UNCHANGED <<GAME_STATE, GAME_SUBSTATE, ring, PALETTE_ANIM_TIMER>>

HoldExpires(substate, next, posts) ==
  /\ Attract(substate) /\ ring \in {<<>>, <<Draw>>}
  /\ GoTo(1, next)
  /\ ring' = Posted(Draws(posts))
  /\ UNCHANGED PALETTE_ANIM_TIMER

\* The demo plays by the game's own code until its Mario dies.
DemoFrame ==
  /\ Attract(3)
  /\ GAME_SUBSTATE' \in {3, 4} /\ UNCHANGED <<GAME_STATE, PALETTE_ANIM_TIMER>>
  /\ \E n \in 0 .. DemoPosts : ring' = Posted(Draws(n))

ClearScreen == Attract(5) /\ GoTo(1, 6) /\ UNCHANGED <<ring, PALETTE_ANIM_TIMER>>

\* loc_07cb: two messages in every frame of the colour animation.
animTimer == IF PALETTE_ANIM_TIMER = 0 THEN AnimFrames ELSE PALETTE_ANIM_TIMER - 1
ColourAnimation ==
  /\ Attract(6)
  /\ PALETTE_ANIM_TIMER' = animTimer
  /\ IF animTimer = 0
       THEN GoTo(1, 7) /\ UNCHANGED ring
       ELSE UNCHANGED <<GAME_STATE, GAME_SUBSTATE>> /\ ring' = Posted(Draws(2))

AttractStep ==
  \/ TitleScreen \/ HoldGoesOn \/ DemoFrame \/ ClearScreen \/ ColourAnimation
  \/ HoldExpires(1, 2, 1) \/ HoldExpires(2, 3, 1) \/ HoldExpires(4, 5, 0) \/ HoldExpires(7, 0, 0)

EnterCreditScreen ==
  /\ NmiEnds /\ GAME_STATE = 2 /\ GAME_SUBSTATE = 0
  /\ GoTo(2, 1) /\ ATTRACT' = 0
  /\ ring' = Posted(Draws(8))
  /\ UNCHANGED <<creditVars, PALETTE_ANIM_TIMER, gameVars>>

\* readStartButtonSelector: a frame that draws the prompt reads no button, and START2 needs
\* more than one credit.
Selected(buttons) ==
  IF FRAME = 0 THEN {} ELSE IF CREDITS = 1 THEN buttons \cap {"START1"} ELSE buttons

AwaitStart(buttons) ==
  /\ NmiEnds /\ GAME_STATE = 2 /\ GAME_SUBSTATE = 1
  /\ Selected(buttons) \notin {{"START1"}, {"START2"}}
  /\ UNCHANGED <<GAME_STATE, GAME_SUBSTATE, ring, creditVars, attractVars, gameVars>>

\* Mutant: the second player's reset is forgotten.
MStartTasks(two) == IF two THEN <<Draw, Draw, Reset(0)>> ELSE <<Draw, Reset(0)>>

\* A credit line for each credit spent, a reset for each player.
startTasks(two) ==
  IF two THEN <<Draw, Draw, Reset(1), Reset(0)>> ELSE <<Draw, Reset(0)>>

\* commitGameStart: spend, seed the players' records, queue the resets of their scores.
Commit(two) ==
  LET players == IF two THEN {0, 1} ELSE {0}
      posts == startTasks(two)
  IN  /\ CREDITS' = (CREDITS - (IF two THEN 2 ELSE 1)) % 100
      /\ spent' = spent + (IF two THEN 2 ELSE 1)
      /\ TWO_PLAYER_GAME' = two
      /\ GoTo(3, 0)
      /\ ring' = Posted(posts)
      /\ scoreless' = players
      /\ resetsQueued' = (Len(ring) + Len(posts) <= Slots)
      /\ UNCHANGED <<attractVars, score>>

CommitGameStart(buttons) ==
  /\ NmiEnds /\ GAME_STATE = 2 /\ GAME_SUBSTATE = 1
  /\ \/ Selected(buttons) = {"START1"} /\ Commit(FALSE)
     \/ Selected(buttons) = {"START2"} /\ Commit(TRUE)

\* The game, after the holds that open it: a frame of it, with points for a hit or without.
PlayFrame ==
  /\ NmiEnds /\ GAME_STATE = 3
  /\ \/ UNCHANGED ring
     \/ Len(ring) <= 1 /\ ring' = Posted(<<Points>>)
  /\ UNCHANGED <<GAME_STATE, GAME_SUBSTATE, creditVars, attractVars, gameVars>>

\* The game ends after holds that drain the ring of its points: what is left draws.
EnterAttractMode ==
  /\ NmiEnds /\ GAME_STATE = 3 /\ \A i \in DOMAIN ring : ring[i] = Draw
  /\ GoTo(1, 0) /\ ATTRACT' = 1
  /\ scoreless' = {} /\ resetsQueued' = TRUE
  /\ UNCHANGED <<ring, creditVars, PALETTE_ANIM_TIMER, TWO_PLAYER_GAME, score>>

-----------------------------------------------------------------------------
MainPass ==
  IdlePass \/ DispatchDraw \/ \E p \in Player : DispatchReset(p) \/ DispatchPoints(p)
Handler ==
  \/ PowerOnInit \/ CreditSeen \/ AttractStep \/ EnterCreditScreen
  \/ \E buttons \in SUBSET {"START1", "START2"} : AwaitStart(buttons) \/ CommitGameStart(buttons)
  \/ PlayFrame \/ EnterAttractMode
Next == MainPass \/ CoinService \/ Handler

Spec == Init /\ [][Next]_vars

-----------------------------------------------------------------------------
CoinTypeOK ==
  /\ turn \in {"main", "coin", "game"} /\ GAME_STATE \in 0 .. 3
  /\ COIN_EDGE \in {0, 1} /\ line \in {0, 1}
  /\ COINS_PARTIAL \in 0 .. 255 /\ CREDITS \in 0 .. 99
  /\ coins \in Nat /\ awards \in Nat /\ refused \in Nat /\ spent \in Nat

TypeOK ==
  /\ CoinTypeOK
  /\ FRAME \in 0 .. 7
  /\ GAME_SUBSTATE \in (IF GAME_STATE = 1 THEN 0 .. 7 ELSE IF GAME_STATE = 2 THEN {0, 1} ELSE {0})
  /\ ATTRACT \in {0, 1} /\ TWO_PLAYER_GAME \in BOOLEAN /\ PALETTE_ANIM_TIMER \in 0 .. AnimFrames
  /\ ring \in Seq(Message) /\ Len(ring) <= Slots
  /\ score \in [Player -> {"zero", "other"}]
  /\ scoreless \subseteq Player /\ resetsQueued \in BOOLEAN

\* Every coin inserted after power-on counts once, however long it is held: those not yet
\* made up into an award wait in COINS_PARTIAL, which never runs past its limit (it would
\* have to wrap to meet it again).
CoinsCountOnce ==
  /\ coins = CoinsPerCredit * awards + COINS_PARTIAL
  /\ COINS_PARTIAL < CoinsPerCredit

\* The credits on the screen are those paid for less those played for, by way of the BCD
\* byte, the cap and two decrements: the byte wraps neither up nor down.
CreditsPaidFor == CREDITS + spent = CreditsPerCoin * (awards - refused)

\* The start screen is up only while there is a credit to start with.
CreditWaits == GAME_STATE = 2 => CREDITS > 0

\* What makes them inductive: the latch is the complement of the line, and no coin counts
\* before the switches are decoded.
LatchFollowsLine ==
  /\ COIN_EDGE = 1 - line
  /\ GAME_STATE = 0 /\ turn # "game" => line = 1
  /\ CREDITS < CreditCap + CreditsPerCoin /\ refused <= awards

CoinBox == CoinsCountOnce /\ CreditsPaidFor /\ CreditWaits /\ LatchFollowsLine
IInv == TypeOK /\ CoinBox

\* A game starts from nothing: a player who has earned no points has none, once the main
\* loop has worked off what the start queued.
StartsAtZero(p) ==
  GAME_STATE = 3 /\ ring = <<>> /\ p \in scoreless => score[p] = "zero"

\* ... provided the ring had room for the resets.
ZeroWhenQueued == resetsQueued => \A p \in Player : StartsAtZero(p)

\* "... it is the reset that happens when a game starts" (contrib/computerarcheology/Code.md).
NewGameStartsAtZero == \A p \in Player : StartsAtZero(p)
=============================================================================
