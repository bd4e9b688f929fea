----------------------------- MODULE Games_proofs -----------------------------
(***************************************************************************)
(* The two games keep their accounts for every setting of the switches:    *)
(* nobody loses or is given a life, a ship, a field, a turn or a point, and*)
(* every coin is a credit.                                                 *)
(***************************************************************************)
EXTENDS Games, Integers, Sequences, TLAPS

-----------------------------------------------------------------------------
(* Donkey Kong.  A player's turn is the sub-states from the selection to   *)
(* the loss of the life; the live block is theirs from the restore on.     *)

InTurn == GAME_SUBSTATE \in 0 .. 8 \cup 10 .. 15 \cup {22}
Lost == GAME_SUBSTATE \in 16 .. 19 \cup {23}

AnyBlock == [lives : Nat, intro : BOOLEAN, bonus : BOOLEAN, board : Nat]
Message == [op : {"reset", "points"}, by : Player]

KongTypes ==
  /\ turn \in {"main", "nmi"} /\ GAME_STATE \in {1, 3}
  /\ GAME_SUBSTATE \in 0 .. 23 \ {9} /\ SUBSTATE_TIMER \in {"zero", "one", "long"}
  /\ TWO_PLAYER_GAME \in BOOLEAN /\ ACTIVE_PLAYER_INDEX \in Player
  /\ CURRENT_PLAYER = ACTIVE_PLAYER_INDEX
  /\ live \in AnyBlock /\ context \in [Player -> AnyBlock]
  /\ score \in [Player -> {"low", "high"}] /\ settled \in BOOLEAN
  /\ pending \in Seq(Message) /\ tags \subseteq Player
  /\ deaths \in [Player -> Nat] /\ cleared \in [Player -> Nat] /\ intros \in [Player -> Nat]
  /\ died \in Player \cup {Nobody}

\* Who plays, and which handlers are whose.
Seats ==
  /\ GAME_STATE = 1 => ACTIVE_PLAYER_INDEX = 0 /\ tags = {}
  /\ GAME_STATE = 3 =>
       /\ ~TWO_PLAYER_GAME =>
            ACTIVE_PLAYER_INDEX = 0 /\ context[1].lives = 0 /\ tags \subseteq {0}
       /\ GAME_SUBSTATE \in {1, 2, 14, 16, 18} => ACTIVE_PLAYER_INDEX = 0
       /\ GAME_SUBSTATE \in {3, 4, 15, 17, 19} => ACTIVE_PLAYER_INDEX = 1

\* A timer is armed on the way to the hold that ticks it.
Timers ==
  GAME_STATE = 3 =>
    /\ GAME_SUBSTATE \in Ticking \cup {2, 4, 5, 14, 15} => SUBSTATE_TIMER # "zero"
    /\ GAME_SUBSTATE = 13 => SUBSTATE_TIMER = "long"

One(condition) == IF condition THEN 1 ELSE 0

\* Lives, boards and cutscenes of the block each player's account is kept in.
Accounts ==
  \A p \in Player : InGame(p) =>
    /\ block(p).lives + deaths[p] = DipLives + One(block(p).bonus)
    /\ block(p).board = cleared[p]
    /\ Between(p) => block(p).lives > 0

Cutscenes ==
  \A p \in Player : InGame(p) =>
    /\ ~Between(p) \/ GAME_SUBSTATE \in {2, 4, 5, 6} =>
         intros[p] = One(~block(p).intro)
    /\ Between(p) /\ GAME_SUBSTATE = 7 => intros[p] = 0
    /\ Between(p) /\ GAME_SUBSTATE \notin {2, 4, 5, 6, 7} => intros[p] = 1

\* A block to be restored has a life; a game with a life left is not over.
Survivors ==
  GAME_STATE = 3 =>
    /\ GAME_SUBSTATE \in {0, 1, 3} => context[ACTIVE_PLAYER_INDEX].lives > 0
    /\ GAME_SUBSTATE \in {16, 17} => context[ACTIVE_PLAYER_INDEX].lives = 0
    /\ GAME_SUBSTATE \in {18, 19, 23} =>
         TWO_PLAYER_GAME /\ context[Other(ACTIVE_PLAYER_INDEX)].lives > 0
    /\ GAME_SUBSTATE \in {20, 21} => \A p \in Player : context[p].lives = 0

\* Turn about: while the first player is in the game the deaths are level before the first
\* player's turn and one ahead before the second's.  As nobody has more than one bonus life,
\* the first player never outlives the second by more than one turn.
Turns ==
  GAME_STATE = 3 =>
    /\ InTurn => ACTIVE_PLAYER_INDEX =
         IF died = Nobody THEN 0 ELSE IF context[Other(died)].lives # 0 THEN Other(died) ELSE died
    /\ Lost => died = ACTIVE_PLAYER_INDEX
    /\ TWO_PLAYER_GAME /\ InTurn =>
         /\ ACTIVE_PLAYER_INDEX = 0 => deaths[0] = deaths[1]
         /\ ACTIVE_PLAYER_INDEX = 1 /\ context[0].lives > 0 => deaths[0] = deaths[1] + 1
    /\ TWO_PLAYER_GAME /\ Lost =>
         /\ ACTIVE_PLAYER_INDEX = 0 => deaths[0] = deaths[1] + 1
         /\ ACTIVE_PLAYER_INDEX = 1 /\ context[0].lives > 0 => deaths[0] = deaths[1]

\* Points wait in the queue only while the player who made them is at play, and none wait
\* when the life is taken.
NoneDue == pending = <<>> /\ (live.bonus \/ score[ACTIVE_PLAYER_INDEX] = "low")
Queue ==
  /\ \A i \in DOMAIN pending : pending[i].op = "points" =>
       /\ GAME_STATE = 3 /\ GAME_SUBSTATE \in {8, 10, 11, 12, 13, 22}
       /\ pending[i].by = ACTIVE_PLAYER_INDEX
  /\ \A i \in DOMAIN pending : pending[i].op = "reset" =>
       \A p \in Player : InGame(p) => ~block(p).bonus
  /\ turn = "nmi" /\ settled => NoneDue
  /\ GAME_STATE = 3 /\ GAME_SUBSTATE \in {14, 15} => NoneDue

\* The bonus life goes with the score, at once or by the end of the turn.
BonusHad ==
  \A p \in Player : InGame(p) =>
    /\ block(p).bonus => score[p] = "high"
    /\ ~Between(p) /\ deaths[p] > 0 /\ score[p] = "high" => block(p).bonus

KongInv ==
  KongTypes /\ Seats /\ Timers /\ Accounts /\ Cutscenes /\ Survivors /\ Turns /\ Queue /\ BonusHad

-----------------------------------------------------------------------------
(* Facts about the queue and the blocks.                                   *)

\* The oldest message and the rest.
LEMMA FirstMessage ==
  ASSUME KongTypes, pending # <<>>
  PROVE  /\ Head(pending) \in Message /\ Tail(pending) \in Seq(Message)
         /\ 1 \in DOMAIN pending /\ Head(pending) = pending[1]
         /\ \A i \in DOMAIN Tail(pending) :
              i + 1 \in DOMAIN pending /\ Tail(pending)[i] = pending[i + 1]
<1>1. pending \in Seq(Message)
  BY DEF KongTypes
<1> HIDE DEF Message
<1>2. QED
  BY <1>1

\* The queue with one message more.
LEMMA NextMessage ==
  ASSUME KongTypes, NEW m \in Message
  PROVE  /\ Append(pending, m) \in Seq(Message)
         /\ \A i \in DOMAIN Append(pending, m) :
              \/ i \in DOMAIN pending /\ Append(pending, m)[i] = pending[i]
              \/ Append(pending, m)[i] = m
<1>1. pending \in Seq(Message)
  BY DEF KongTypes
<1> HIDE DEF Message
<1>2. QED
  BY <1>1

\* The queue with, or without, one score more.
LEMMA Queued ==
  ASSUME KongTypes, pending' \in {pending, Append(pending, Scored)}
  PROVE  /\ pending' \in Seq(Message)
         /\ \A i \in DOMAIN pending' :
              \/ i \in DOMAIN pending /\ pending'[i] = pending[i]
              \/ pending'[i] = Scored
<1>1. Scored \in Message
  BY DEF KongTypes, Scored, Message
<1>2. pending \in Seq(Message)
  BY DEF KongTypes
<1>3. QED
  BY <1>1, <1>2, NextMessage

\* What becomes of a block of lives that is awarded one more ...
LEMMA Awarded ==
  ASSUME NEW b \in AnyBlock, NEW a, a = [b EXCEPT !.lives = @ + 1, !.bonus = TRUE]
  PROVE  /\ a \in AnyBlock
         /\ a.lives = b.lives + 1 /\ a.intro = b.intro /\ a.bonus = TRUE /\ a.board = b.board
<1> DEFINE c == [b EXCEPT !.lives = @ + 1]
<1>1. c \in AnyBlock /\ a = [c EXCEPT !.bonus = TRUE]
  BY DEF AnyBlock
<1>2. a.lives = b.lives + 1 /\ a.intro = b.intro /\ a.bonus = TRUE /\ a.board = b.board
  BY DEF AnyBlock
<1> HIDE DEF c
<1>3. a \in AnyBlock
  BY <1>1 DEF AnyBlock
<1>4. QED
  BY <1>2, <1>3

\* ... of a board cleared.
LEMMA BoardCleared ==
  ASSUME NEW b \in AnyBlock, NEW a, a = [b EXCEPT !.board = @ + 1]
  PROVE  /\ a \in AnyBlock
         /\ a.lives = b.lives /\ a.intro = b.intro /\ a.bonus = b.bonus
         /\ a.board = b.board + 1
BY DEF AnyBlock

\* ... of a life lost: no borrow, as there is one to lose.
LEMMA Saved ==
  ASSUME NEW b \in AnyBlock, b.lives \in 1 .. 255
  PROVE  /\ saved(b) \in AnyBlock
         /\ saved(b).lives = b.lives - 1 /\ saved(b).intro = FALSE
         /\ saved(b).bonus = b.bonus /\ saved(b).board = b.board
<1>1. \A n \in 1 .. 255 : (n + 255) % 256 = n - 1
  OBVIOUS
<1> DEFINE c == [b EXCEPT !.intro = FALSE]
<1>2. c \in AnyBlock /\ saved(b) = [c EXCEPT !.lives = (b.lives + 255) % 256]
  BY DEF AnyBlock, saved
<1>3. /\ saved(b).lives = (b.lives + 255) % 256 /\ saved(b).intro = FALSE
      /\ saved(b).bonus = b.bonus /\ saved(b).board = b.board
  BY DEF AnyBlock, saved
<1> HIDE DEF c
<1>4. saved(b) \in AnyBlock
  BY <1>1, <1>2 DEF AnyBlock
<1>5. QED
  BY <1>1, <1>3, <1>4

\* A block a life is taken from has one, and no more than a byte holds.
LEMMA LifeToLose ==
  ASSUME KongInv, NEW p \in Player, LoseLife(p)
  PROVE  /\ live \in AnyBlock /\ live.lives \in 1 .. 255
         /\ p = ACTIVE_PLAYER_INDEX /\ InGame(p) /\ Between(p) /\ NoneDue
         /\ live.lives + deaths[p] = DipLives + One(live.bonus)
<1>1. /\ GAME_STATE = 3 /\ GAME_SUBSTATE = 14 + p /\ p = ACTIVE_PLAYER_INDEX
      /\ InGame(p) /\ Between(p) /\ live \in AnyBlock /\ deaths[p] \in Nat
  BY DEF KongInv, KongTypes, Seats, LoseLife, Frame, Player, InGame, Between
<1>2. live.lives > 0 /\ live.lives + deaths[p] = DipLives + One(live.bonus)
  BY <1>1 DEF KongInv, Accounts, block
<1>3. live.lives \in Nat
  BY <1>1 DEF AnyBlock
<1>4. live.lives <= 255
  BY <1>1, <1>2, <1>3, LivesAssumption DEF One
<1>5. NoneDue
  BY <1>1 DEF KongInv, Queue, Player
<1>6. QED
  BY <1>1, <1>2, <1>3, <1>4, <1>5

\* The loss of a life, by its parts.
LifeLost(p) ==
  /\ live \in AnyBlock /\ live.lives \in 1 .. 255
  /\ p = ACTIVE_PLAYER_INDEX /\ InGame(p) /\ Between(p) /\ NoneDue
  /\ live.lives + deaths[p] = DipLives + One(live.bonus)
  /\ live' \in AnyBlock /\ context' = [context EXCEPT ![p] = live']
  /\ live'.lives = live.lives - 1 /\ live'.intro = FALSE
  /\ live'.bonus = live.bonus /\ live'.board = live.board
  /\ turn' = "main" /\ GAME_STATE = 3 /\ GAME_STATE' = 3 /\ GAME_SUBSTATE = 14 + p
  /\ GAME_SUBSTATE' = afterLoss(p, live'.lives)
  /\ SUBSTATE_TIMER' = IF live'.lives = 0 THEN "long" ELSE SUBSTATE_TIMER
  /\ tags' \in IF live'.lives = 0 THEN Ranked(p) ELSE {tags}
  /\ deaths' = [deaths EXCEPT ![p] = @ + 1] /\ died' = p
  /\ UNCHANGED <<players, points, cleared, intros>>

\* ... which are what losePlayer1Life and loc_1344 do.
LEMMA Loss == ASSUME KongInv, NEW p \in Player, LoseLife(p) PROVE LifeLost(p)
<1>1. live' = saved(live)
  BY DEF LoseLife
<1>2. /\ live' \in AnyBlock /\ live'.lives = live.lives - 1 /\ live'.intro = FALSE
      /\ live'.bonus = live.bonus /\ live'.board = live.board
  BY <1>1, LifeToLose, Saved
<1>3. QED
  BY <1>1, <1>2, LifeToLose DEF LifeLost, LoseLife, Frame, GoTo

\* The name entry, by its parts.
Naming ==
  /\ turn' = "main" /\ GAME_STATE = 3 /\ GAME_STATE' = 3 /\ GAME_SUBSTATE = 21
  /\ GAME_SUBSTATE' \in {20, 21} /\ SUBSTATE_TIMER' \in {"one", "long"}
  /\ tags' \subseteq tags /\ UNCHANGED <<players, live, context, points, history>>

\* ... which are what the name entry does.
LEMMA Named ==
  ASSUME NameEntry
  PROVE  Naming
BY DEF Naming, NameEntry, nameDone, Frame, GoTo

\* Dispatch, by its parts.
MessageGone(op) ==
  /\ turn' = "nmi" /\ settled' = FALSE /\ UNCHANGED <<flow, players, context, tags, history, live>>
  /\ 1 \in DOMAIN pending /\ Head(pending) = pending[1] /\ pending[1].op = op
  /\ pending[1].by \in Player
  /\ pending' \in Seq(Message)
  /\ \A i \in DOMAIN pending' :
       i + 1 \in DOMAIN pending /\ pending'[i] = pending[i + 1]

\* ... whatever the message.
LEMMA Dispatched ==
  ASSUME KongTypes, NEW op, Dispatch(op)
  PROVE  MessageGone(op)
<1>1. pending # <<>> /\ pending' = Tail(pending) /\ Head(pending).op = op
  BY DEF Dispatch
<1>2. Head(pending).by \in Player
  BY <1>1, FirstMessage DEF Message
<1>3. QED
  BY <1>1, <1>2, FirstMessage DEF MessageGone, Dispatch, MainPass

\* An idle pass, by its parts: the block keeps all but the lives and the bonus it is given.
BonusGiven ==
  /\ turn' = "nmi" /\ settled' = TRUE /\ pending = <<>>
  /\ UNCHANGED <<flow, players, context, tags, history, score, pending>>
  /\ live' \in AnyBlock /\ live'.intro = live.intro /\ live'.board = live.board
  /\ live'.lives + One(live.bonus) = live.lives + One(live'.bonus)
  /\ live'.lives >= live.lives
  /\ live.bonus => live'.bonus
  /\ live'.bonus \/ score[CURRENT_PLAYER] = "low"
  /\ live'.bonus => live.bonus \/ score[CURRENT_PLAYER] = "high"

\* ... whether or not the bonus is due.
LEMMA Awarding ==
  ASSUME KongTypes, IdlePass
  PROVE  BonusGiven
<1>1. live \in AnyBlock /\ live.lives \in Nat /\ live.bonus \in BOOLEAN
  BY DEF KongTypes, AnyBlock
<1>2. CASE bonusDue
  <2>1. live' = [live EXCEPT !.lives = @ + 1, !.bonus = TRUE]
    BY <1>2 DEF IdlePass
  <2>2. /\ live' \in AnyBlock /\ live'.lives = live.lives + 1
        /\ live'.intro = live.intro /\ live'.bonus = TRUE /\ live'.board = live.board
    BY <1>1, <2>1, Awarded
  <2>3. ~live.bonus /\ score[CURRENT_PLAYER] = "high"
    BY <1>2 DEF bonusDue
  <2>4. QED
    BY <1>1, <2>2, <2>3 DEF BonusGiven, IdlePass, MainPass, One
<1>3. CASE ~bonusDue
  <2>1. live' = live
    BY <1>3 DEF IdlePass
  <2>2. score[CURRENT_PLAYER] \in {"low", "high"}
    BY DEF KongTypes
  <2>3. QED
    BY <1>1, <1>3, <2>1, <2>2 DEF BonusGiven, IdlePass, MainPass, bonusDue, One
<1>4. QED
  BY <1>2, <1>3

\* The interlude, by its parts.
BoardOver ==
  /\ turn' = "main" /\ GAME_STATE = 3 /\ GAME_STATE' = 3 /\ GAME_SUBSTATE = 22
  /\ GAME_SUBSTATE' \in {8, 22} /\ (GAME_SUBSTATE' = 8 => SUBSTATE_TIMER' = "long")
  /\ SUBSTATE_TIMER' \in {SUBSTATE_TIMER, "long"}
  /\ pending' \in {pending, Append(pending, Scored)}
  /\ live' \in AnyBlock /\ live'.lives = live.lives /\ live'.intro = live.intro
  /\ live'.bonus = live.bonus
  /\ live'.board + cleared[ACTIVE_PLAYER_INDEX] = live.board + cleared'[ACTIVE_PLAYER_INDEX]
  /\ cleared' \in [Player -> Nat]
  /\ \A p \in Player : p # ACTIVE_PLAYER_INDEX => cleared'[p] = cleared[p]
  /\ UNCHANGED <<players, context, score, settled, tags, deaths, intros, died>>

\* ... whether or not it is over.
LEMMA Interval ==
  ASSUME KongTypes, Interlude
  PROVE  BoardOver
<1>1. /\ live \in AnyBlock /\ live.board \in Nat /\ cleared \in [Player -> Nat]
      /\ ACTIVE_PLAYER_INDEX \in Player /\ GAME_STATE = 3 /\ GAME_SUBSTATE = 22
      /\ turn' = "main" /\ UNCHANGED <<players, context, score, settled, tags, deaths, intros, died>>
  BY DEF KongTypes, AnyBlock, Interlude, Frame
<1>2. CASE UNCHANGED <<flow, live, cleared, pending>>
  BY <1>1, <1>2 DEF BoardOver, flow
<1>3. CASE /\ live' = [live EXCEPT !.board = @ + 1]
           /\ cleared' = [cleared EXCEPT ![ACTIVE_PLAYER_INDEX] = @ + 1]
           /\ pending' = Append(pending, Scored) /\ GoTo(8, "long")
  <2>1. /\ live' \in AnyBlock /\ live'.lives = live.lives /\ live'.intro = live.intro
        /\ live'.bonus = live.bonus /\ live'.board = live.board + 1
    BY <1>1, <1>3, BoardCleared
  <2>2. /\ cleared'[ACTIVE_PLAYER_INDEX] = cleared[ACTIVE_PLAYER_INDEX] + 1
        /\ cleared[ACTIVE_PLAYER_INDEX] \in Nat /\ cleared' \in [Player -> Nat]
        /\ \A p \in Player : p # ACTIVE_PLAYER_INDEX => cleared'[p] = cleared[p]
    BY <1>1, <1>3
  <2>3. live'.board + cleared[ACTIVE_PLAYER_INDEX] = live.board + cleared'[ACTIVE_PLAYER_INDEX]
    BY <1>1, <2>1, <2>2
  <2>4. /\ GAME_STATE' = 3 /\ GAME_SUBSTATE' = 8 /\ SUBSTATE_TIMER' = "long"
        /\ pending' \in {pending, Append(pending, Scored)}
    BY <1>1, <1>3 DEF GoTo
  <2>5. QED
    BY <1>1, <2>1, <2>2, <2>3, <2>4 DEF BoardOver
<1>4. QED
  BY <1>2, <1>3 DEF Interlude

-----------------------------------------------------------------------------
(* Every step keeps the invariant, conjunct by conjunct.                   *)

\* Types; the scores and blocks follow the player at play.
LEMMA KongTypesKept == ASSUME KongInv, Next PROVE KongTypes'
<1> USE DEF KongInv, MainPass, Frame, Go, GoTo, Expired, Player, Other, Nobody, players, flow,
    points, history, Keep, Ticking, KongTypes
<1>1. CASE DrawTask
  BY <1>1 DEF DrawTask
<1>2. CASE ResetScore
  <2>1. MessageGone("reset") /\ score' = [score EXCEPT ![pending[1].by] = "low"]
    BY <1>2, Dispatched DEF ResetScore, MessageGone
  <2>2. score' \in [Player -> {"low", "high"}]
    BY <2>1 DEF MessageGone
  <2>3. pending' \in Seq(Message) /\ turn' = "nmi" /\ settled' = FALSE
        /\ UNCHANGED <<flow, players, context, tags, history, live>>
    BY <2>1 DEF MessageGone
  <2>4. QED
    BY <2>2, <2>3
<1>3. CASE AddToScore
  <2>1. MessageGone("points") /\ score' \in {score, [score EXCEPT ![CURRENT_PLAYER] = "high"]}
    BY <1>3, Dispatched DEF AddToScore, MessageGone
  <2>2. score' \in [Player -> {"low", "high"}]
    BY <2>1
  <2>3. pending' \in Seq(Message) /\ turn' = "nmi" /\ settled' = FALSE
        /\ UNCHANGED <<flow, players, context, tags, history, live>>
    BY <2>1 DEF MessageGone
  <2>4. QED
    BY <2>2, <2>3
<1>4. CASE IdlePass
  <2>1. BonusGiven
    BY <1>4, Awarding
  <2>2. QED
    BY <2>1 DEF BonusGiven
<1>5. CASE Tick
  BY <1>5 DEF Tick
<1>6. CASE SelectSubstate
  BY <1>6 DEF SelectSubstate
<1>7. CASE ComposeScreen
  BY <1>7 DEF ComposeScreen
<1>8. CASE SelectIntro
  BY <1>8 DEF SelectIntro
<1>9. CASE Intro
  BY <1>9 DEF Intro
<1>10. CASE BuildBoard
  BY <1>10 DEF BuildBoard, afterHowHigh
<1>11. CASE Gameplay
  <2>1. pending' \in Seq(Message)
    BY <1>11, Queued DEF Gameplay, Scores
  <2>2. QED
    BY <1>11, <2>1 DEF Gameplay, Frame, GoTo, Go
<1>12. CASE Interlude
  <2>1. pending' \in Seq(Message)
    BY <1>12, Interval, Queued DEF BoardOver
  <2>2. BoardOver
    BY <1>12, Interval
  <2>3. QED
    BY <2>1, <2>2 DEF BoardOver
<1>13. CASE Death
  BY <1>13 DEF Death, deathOver, rearmed
<1>14. CASE SelectPhase
  BY <1>14 DEF SelectPhase
<1>15. CASE EnterAttractMode
  BY <1>15 DEF EnterAttractMode
<1>16. CASE NameEntry
  <2>1. Naming
    BY <1>16, Named
  <2>2. QED
    BY <2>1 DEF Naming
<1>17. CASE AttractFrame
  BY <1>17 DEF AttractFrame
<1>18. ASSUME NEW two \in BOOLEAN, CommitGameStart(two) PROVE KongTypes'
  <2>1. context' \in [Player -> AnyBlock]
    BY <1>18, LivesAssumption DEF CommitGameStart, seededContexts, Seeded, Empty, AnyBlock
  <2>2. pending' \in Seq(Message)
    <3>1. CASE two
      BY <1>18, <3>1 DEF CommitGameStart, Message
    <3>2. CASE ~two
      BY <1>18, <3>2 DEF CommitGameStart, Message
    <3>3. QED
      BY <3>1, <3>2
  <2>3. /\ deaths' \in [Player -> Nat] /\ cleared' \in [Player -> Nat] /\ intros' \in [Player -> Nat]
        /\ score' \in [Player -> {"low", "high"}]
    BY <1>18 DEF CommitGameStart
  <2>4. /\ turn' = "main" /\ GAME_STATE' = 3 /\ GAME_SUBSTATE' = 0 /\ SUBSTATE_TIMER' = SUBSTATE_TIMER
        /\ TWO_PLAYER_GAME' = two /\ ACTIVE_PLAYER_INDEX' = 0 /\ CURRENT_PLAYER' = CURRENT_PLAYER
        /\ live' = live /\ settled' = FALSE /\ tags' = tags /\ died' = Nobody
        /\ GAME_STATE = 1
    BY <1>18 DEF CommitGameStart
  <2>5. CURRENT_PLAYER = 0
    BY <2>4 DEF Seats
  <2>6. /\ TWO_PLAYER_GAME' \in BOOLEAN /\ live' \in AnyBlock /\ settled' \in BOOLEAN
        /\ tags' \subseteq Player /\ died' \in Player \cup {Nobody}
        /\ SUBSTATE_TIMER' \in {"zero", "one", "long"}
    BY <2>4
  <2>7. QED
    BY <2>1, <2>2, <2>3, <2>4, <2>5, <2>6
<1>19. ASSUME NEW p \in Player, Restore(p) PROVE KongTypes'
  BY <1>19 DEF Restore, restored
<1>20. ASSUME NEW p \in Player, LoseLife(p) PROVE KongTypes'
  <2>1. LifeLost(p)
    BY <1>20, Loss
  <2>2. GAME_SUBSTATE' \in 0 .. 23 \ {9}
    BY <2>1 DEF LifeLost, afterLoss
  <2>3. tags' \subseteq Player
    BY <2>1 DEF LifeLost, Ranked
  <2>4. context' \in [Player -> AnyBlock]
    BY <2>1 DEF LifeLost
  <2>5. QED
    BY <2>1, <2>2, <2>3, <2>4 DEF LifeLost
<1>21. ASSUME NEW p \in Player, PlayerOut(p) PROVE KongTypes'
  BY <1>21 DEF PlayerOut, afterGameOver, rearmed
<1>22. ASSUME NEW p \in Player, SelectPlayer(p) PROVE KongTypes'
  BY <1>22 DEF SelectPlayer
<1>23. ASSUME NEW p \in Player, EnterName(p) PROVE KongTypes'
  BY <1>23 DEF EnterName
<1>24. QED
  BY <1>1, <1>2, <1>3, <1>4, <1>5, <1>6, <1>7, <1>8, <1>9, <1>10, <1>11, <1>12, <1>13, <1>14,
      <1>15, <1>16, <1>17, <1>18, <1>19, <1>20, <1>21, <1>22, <1>23 DEF Next, Handlers

\* Who is at play.
LEMMA SeatsKept == ASSUME KongInv, Next PROVE Seats'
<1> USE DEF KongInv, MainPass, Frame, Go, GoTo, Expired, Player, Other, Nobody, players, flow,
    points, history, Keep, Ticking, Seats
<1>1. CASE DrawTask
  BY <1>1 DEF DrawTask, KongTypes, Player
<1>2. CASE ResetScore
  BY <1>2 DEF ResetScore, Dispatch, KongTypes, Player
<1>3. CASE AddToScore
  BY <1>3 DEF AddToScore, Dispatch, KongTypes, Player
<1>4. CASE IdlePass
  BY <1>4 DEF IdlePass, bonusDue, KongTypes, Player
<1>5. CASE Tick
  BY <1>5 DEF Tick, KongTypes, Player
<1>6. CASE SelectSubstate
  BY <1>6 DEF SelectSubstate, KongTypes, Player
<1>7. CASE ComposeScreen
  BY <1>7 DEF ComposeScreen, KongTypes, Player
<1>8. CASE SelectIntro
  BY <1>8 DEF SelectIntro, KongTypes, Player
<1>9. CASE Intro
  BY SMTT(30), <1>9 DEF Intro, KongTypes, Player
<1>10. CASE BuildBoard
  BY SMTT(30), <1>10 DEF BuildBoard, afterHowHigh, KongTypes, Player
<1>11. CASE Gameplay
  BY SMTT(30), <1>11 DEF Gameplay, KongTypes, Player
<1>12. CASE Interlude
  BY SMTT(30), <1>12 DEF Interlude, KongTypes, Player
<1>13. CASE Death
  BY <1>13 DEF Death, deathOver, rearmed, KongTypes, Player
<1>14. CASE SelectPhase
  BY <1>14 DEF SelectPhase, KongTypes, Player
<1>15. CASE EnterAttractMode
  BY <1>15 DEF EnterAttractMode, KongTypes, Player
<1>16. CASE NameEntry
  <2>1. Naming
    BY <1>16, Named
  <2>2. QED
    BY <2>1 DEF Naming, KongTypes
<1>17. CASE AttractFrame
  BY <1>17 DEF AttractFrame, KongTypes, Player
<1>18. ASSUME NEW two \in BOOLEAN, CommitGameStart(two) PROVE Seats'
  BY <1>18 DEF CommitGameStart, seededContexts, Seeded, Empty, KongTypes, Player
<1>19. ASSUME NEW p \in Player, Restore(p) PROVE Seats'
  BY <1>19 DEF Restore, restored, KongTypes, Player
<1>20. ASSUME NEW p \in Player, LoseLife(p) PROVE Seats'
  <2>1. LifeLost(p)
    BY <1>20, Loss
  <2>2. tags' \in {tags, tags \cup {p}, {p}} /\ p = ACTIVE_PLAYER_INDEX
    BY <2>1 DEF LifeLost, Ranked
  <2>3. CASE p = 0
    BY <2>1, <2>2, <2>3 DEF LifeLost, afterLoss, KongTypes
  <2>4. CASE p = 1
    BY <2>1, <2>2, <2>4 DEF LifeLost, afterLoss, KongTypes
  <2>5. QED
    BY <2>3, <2>4
<1>21. ASSUME NEW p \in Player, PlayerOut(p) PROVE Seats'
  BY <1>21 DEF PlayerOut, afterGameOver, rearmed, KongTypes, Player
<1>22. ASSUME NEW p \in Player, SelectPlayer(p) PROVE Seats'
  <2>1. CASE p = 0
    BY <1>22, <2>1 DEF SelectPlayer, Frame, Go, GoTo, KongTypes
  <2>2. CASE p = 1
    BY <1>22, <2>2 DEF SelectPlayer, Frame, Go, GoTo, KongTypes, Survivors
  <2>3. QED
    BY <2>1, <2>2
<1>23. ASSUME NEW p \in Player, EnterName(p) PROVE Seats'
  BY <1>23 DEF EnterName, KongTypes, Player
<1>24. QED
  BY <1>1, <1>2, <1>3, <1>4, <1>5, <1>6, <1>7, <1>8, <1>9, <1>10, <1>11, <1>12, <1>13, <1>14,
      <1>15, <1>16, <1>17, <1>18, <1>19, <1>20, <1>21, <1>22, <1>23 DEF Next, Handlers

\* Every way into a ticking sub-state arms its timer.
LEMMA TimersKept == ASSUME KongInv, Next PROVE Timers'
<1> USE DEF KongInv, MainPass, Frame, Go, GoTo, Expired, Player, Other, Nobody, players, flow,
    points, history, Keep, Ticking, Timers
<1>1. CASE DrawTask
  BY <1>1 DEF DrawTask, KongTypes
<1>2. CASE ResetScore
  BY <1>2 DEF ResetScore, Dispatch, KongTypes
<1>3. CASE AddToScore
  BY <1>3 DEF AddToScore, Dispatch, KongTypes
<1>4. CASE IdlePass
  BY <1>4 DEF IdlePass, bonusDue, KongTypes
<1>5. CASE Tick
  BY <1>5 DEF Tick, KongTypes
<1>6. CASE SelectSubstate
  BY <1>6 DEF SelectSubstate, KongTypes
<1>7. CASE ComposeScreen
  BY <1>7 DEF ComposeScreen, KongTypes
<1>8. CASE SelectIntro
  BY <1>8 DEF SelectIntro, KongTypes
<1>9. CASE Intro
  BY SMTT(30), <1>9 DEF Intro, KongTypes
<1>10. CASE BuildBoard
  BY SMTT(30), <1>10 DEF BuildBoard, afterHowHigh, KongTypes
<1>11. CASE Gameplay
  <2>1. \/ GAME_STATE' = GAME_STATE /\ GAME_SUBSTATE' = GAME_SUBSTATE /\ SUBSTATE_TIMER' = SUBSTATE_TIMER
        \/ GAME_STATE' = GAME_STATE /\ GAME_SUBSTATE' = 13 /\ SUBSTATE_TIMER' = "long"
        \/ GAME_STATE' = GAME_STATE /\ GAME_SUBSTATE' = 22
    BY <1>11, Zenon DEF Gameplay
  <2>2. QED
    BY <2>1
<1>12. CASE Interlude
  <2>1. BoardOver
    BY <1>12, Interval
  <2>2. QED
    BY <2>1 DEF BoardOver, KongTypes
<1>13. CASE Death
  BY <1>13 DEF Death, deathOver, rearmed, KongTypes
<1>14. CASE SelectPhase
  BY <1>14 DEF SelectPhase, KongTypes
<1>15. CASE EnterAttractMode
  BY <1>15 DEF EnterAttractMode, KongTypes
<1>16. CASE NameEntry
  <2>1. Naming
    BY <1>16, Named
  <2>2. QED
    BY <2>1 DEF Naming, KongTypes
<1>17. CASE AttractFrame
  BY <1>17 DEF AttractFrame, KongTypes
<1>18. ASSUME NEW two \in BOOLEAN, CommitGameStart(two) PROVE Timers'
  BY <1>18 DEF CommitGameStart, seededContexts, Seeded, Empty, KongTypes
<1>19. ASSUME NEW p \in Player, Restore(p) PROVE Timers'
  BY <1>19 DEF Restore, restored, KongTypes
<1>20. ASSUME NEW p \in Player, LoseLife(p) PROVE Timers'
  <2>1. LifeLost(p)
    BY <1>20, Loss
  <2>2. CASE live'.lives = 0
    BY <2>1, <2>2 DEF LifeLost, afterLoss
  <2>3. CASE live'.lives # 0
    BY <2>1, <2>3 DEF LifeLost, afterLoss
  <2>4. QED
    BY <2>2, <2>3
<1>21. ASSUME NEW p \in Player, PlayerOut(p) PROVE Timers'
  BY <1>21 DEF PlayerOut, afterGameOver, rearmed, KongTypes
<1>22. ASSUME NEW p \in Player, SelectPlayer(p) PROVE Timers'
  BY <1>22 DEF SelectPlayer, KongTypes
<1>23. ASSUME NEW p \in Player, EnterName(p) PROVE Timers'
  BY <1>23 DEF EnterName, KongTypes
<1>24. QED
  BY <1>1, <1>2, <1>3, <1>4, <1>5, <1>6, <1>7, <1>8, <1>9, <1>10, <1>11, <1>12, <1>13, <1>14,
      <1>15, <1>16, <1>17, <1>18, <1>19, <1>20, <1>21, <1>22, <1>23 DEF Next, Handlers

\* Only the save and the award change lives, and both by one.
LEMMA AccountsKept == ASSUME KongInv, Next PROVE Accounts'
<1> USE DEF KongInv, MainPass, Frame, Go, GoTo, Expired, Player, Other, Nobody, players, flow,
    points, history, Keep, Ticking, Accounts, InGame, Between, block
<1>1. CASE DrawTask
  BY <1>1 DEF DrawTask, KongTypes
<1>2. CASE ResetScore
  BY <1>2 DEF ResetScore, Dispatch, KongTypes
<1>3. CASE AddToScore
  BY <1>3 DEF AddToScore, Dispatch, KongTypes
<1>4. CASE IdlePass
  <2>1. BonusGiven
    BY <1>4, Awarding
  <2>2. QED
    BY SMTT(30), <2>1 DEF BonusGiven, KongTypes, One
<1>5. CASE Tick
  BY <1>5 DEF Tick, KongTypes
<1>6. CASE SelectSubstate
  BY <1>6 DEF SelectSubstate, KongTypes
<1>7. CASE ComposeScreen
  BY <1>7 DEF ComposeScreen, KongTypes
<1>8. CASE SelectIntro
  BY <1>8 DEF SelectIntro, KongTypes
<1>9. CASE Intro
  BY <1>9 DEF Intro, KongTypes
<1>10. CASE BuildBoard
  BY <1>10 DEF BuildBoard, afterHowHigh, KongTypes
<1>11. CASE Gameplay
  BY <1>11 DEF Gameplay, KongTypes
<1>12. CASE Interlude
  <2>1. BoardOver
    BY <1>12, Interval
  <2>2. live.board \in Nat /\ live'.board \in Nat
    BY <2>1 DEF BoardOver, KongTypes, AnyBlock
  <2>3. QED
    BY SMTT(30), <2>1, <2>2 DEF BoardOver, KongTypes
<1>13. CASE Death
  BY <1>13 DEF Death, deathOver, rearmed, KongTypes
<1>14. CASE SelectPhase
  BY <1>14 DEF SelectPhase, KongTypes
<1>15. CASE EnterAttractMode
  BY <1>15 DEF EnterAttractMode, KongTypes
<1>16. CASE NameEntry
  <2>1. Naming
    BY <1>16, Named
  <2>2. QED
    BY <2>1 DEF Naming, KongTypes
<1>17. CASE AttractFrame
  BY <1>17 DEF AttractFrame, KongTypes
<1>18. ASSUME NEW two \in BOOLEAN, CommitGameStart(two) PROVE Accounts'
  BY <1>18 DEF CommitGameStart, seededContexts, Seeded, Empty, One
<1>19. ASSUME NEW p \in Player, Restore(p) PROVE Accounts'
  BY <1>19 DEF Restore, restored, KongTypes, Survivors, Seats
<1>20. ASSUME NEW p \in Player, LoseLife(p) PROVE Accounts'
  <2>1. LifeLost(p)
    BY <1>20, Loss
  <2>2. SUFFICES ASSUME NEW q \in Player, InGame(q)'
                 PROVE  /\ block(q)'.lives + deaths'[q] = DipLives + One(block(q)'.bonus)
                        /\ block(q)'.board = cleared'[q]
                        /\ Between(q)' => block(q)'.lives > 0
    OBVIOUS
  <2>3. CASE q = p
    <3>1. block(q)' = live' /\ block(q) = live /\ InGame(q)
      BY <2>1, <2>3 DEF LifeLost, KongTypes
    <3>2. Between(q)' => live'.lives > 0
      BY <2>1, <2>3 DEF LifeLost, afterLoss, AnyBlock
    <3>3. deaths'[q] = deaths[q] + 1 /\ deaths[q] \in Nat /\ cleared'[q] = cleared[q]
      BY <2>1, <2>3 DEF LifeLost, KongTypes
    <3>4. live.lives \in Nat /\ One(live.bonus) \in Nat /\ DipLives \in Nat
      BY <2>1, LivesAssumption DEF LifeLost, One
    <3>5. live.board = cleared[q]
      BY <3>1
    <3>6. /\ live'.lives + deaths'[q] = DipLives + One(live'.bonus)
          /\ live'.board = cleared'[q]
      <4> HIDE DEF Accounts
      <4>1. QED
        BY <2>1, <2>3, <3>3, <3>4, <3>5 DEF LifeLost
    <3>7. QED
      BY <3>1, <3>2, <3>6
  <2>4. CASE q # p
    <3>1. /\ block(q)' = context[q] /\ block(q) = context[q] /\ InGame(q) /\ ~Between(q)'
          /\ deaths'[q] = deaths[q] /\ cleared'[q] = cleared[q]
      BY <2>1, <2>2, <2>4 DEF LifeLost, KongTypes
    <3>2. QED
      BY <3>1
  <2>5. QED
    BY <2>3, <2>4
<1>21. ASSUME NEW p \in Player, PlayerOut(p) PROVE Accounts'
  BY <1>21 DEF PlayerOut, afterGameOver, rearmed, KongTypes
<1>22. ASSUME NEW p \in Player, SelectPlayer(p) PROVE Accounts'
  BY <1>22 DEF SelectPlayer, KongTypes
<1>23. ASSUME NEW p \in Player, EnterName(p) PROVE Accounts'
  BY <1>23 DEF EnterName, KongTypes
<1>24. QED
  BY <1>1, <1>2, <1>3, <1>4, <1>5, <1>6, <1>7, <1>8, <1>9, <1>10, <1>11, <1>12, <1>13, <1>14,
      <1>15, <1>16, <1>17, <1>18, <1>19, <1>20, <1>21, <1>22, <1>23 DEF Next, Handlers

\* The cutscene is due until it is seen.
LEMMA CutscenesKept == ASSUME KongInv, Next PROVE Cutscenes'
<1> USE DEF KongInv, MainPass, Frame, Go, GoTo, Expired, Player, Other, Nobody, players, flow,
    points, history, Keep, Ticking, Cutscenes, InGame, Between, block, One
<1>1. CASE DrawTask
  BY <1>1 DEF DrawTask, KongTypes, Seats
<1>2. CASE ResetScore
  BY <1>2 DEF ResetScore, Dispatch, KongTypes, Seats
<1>3. CASE AddToScore
  BY <1>3 DEF AddToScore, Dispatch, KongTypes, Seats
<1>4. CASE IdlePass
  <2>1. BonusGiven
    BY <1>4, Awarding
  <2>2. QED
    BY <2>1 DEF BonusGiven, KongTypes
<1>5. CASE Tick
  BY <1>5 DEF Tick, KongTypes, Seats
<1>6. CASE SelectSubstate
  BY <1>6 DEF SelectSubstate, KongTypes, Seats
<1>7. CASE ComposeScreen
  BY <1>7 DEF ComposeScreen, KongTypes, Seats
<1>8. CASE SelectIntro
  BY <1>8 DEF SelectIntro, KongTypes, Seats
<1>9. CASE Intro
  BY <1>9 DEF Intro, KongTypes, Seats
<1>10. CASE BuildBoard
  BY SMTT(30), <1>10 DEF BuildBoard, afterHowHigh, KongTypes, Seats
<1>11. CASE Gameplay
  BY <1>11 DEF Gameplay, KongTypes, Seats
<1>12. CASE Interlude
  <2>1. BoardOver
    BY <1>12, Interval
  <2>2. QED
    BY <2>1 DEF BoardOver, KongTypes
<1>13. CASE Death
  BY <1>13 DEF Death, deathOver, rearmed, KongTypes, Seats
<1>14. CASE SelectPhase
  BY <1>14 DEF SelectPhase, KongTypes, Seats
<1>15. CASE EnterAttractMode
  BY <1>15 DEF EnterAttractMode, KongTypes, Seats
<1>16. CASE NameEntry
  <2>1. Naming
    BY <1>16, Named
  <2>2. QED
    BY <2>1 DEF Naming, KongTypes
<1>17. CASE AttractFrame
  BY <1>17 DEF AttractFrame, KongTypes, Seats
<1>18. ASSUME NEW two \in BOOLEAN, CommitGameStart(two) PROVE Cutscenes'
  BY <1>18 DEF CommitGameStart, seededContexts, Seeded, Empty, KongTypes, Seats
<1>19. ASSUME NEW p \in Player, Restore(p) PROVE Cutscenes'
  BY <1>19 DEF Restore, restored, KongTypes, Seats
<1>20. ASSUME NEW p \in Player, LoseLife(p) PROVE Cutscenes'
  <2>1. LifeLost(p)
    BY <1>20, Loss
  <2>2. /\ intros[p] = 1 /\ live'.intro = FALSE /\ p = ACTIVE_PLAYER_INDEX
        /\ GAME_SUBSTATE' \notin {2, 4, 5, 6, 7}
    BY <2>1 DEF LifeLost, afterLoss
  <2>3. QED
    BY <2>1, <2>2 DEF LifeLost, KongTypes
<1>21. ASSUME NEW p \in Player, PlayerOut(p) PROVE Cutscenes'
  BY <1>21 DEF PlayerOut, afterGameOver, rearmed, KongTypes, Seats
<1>22. ASSUME NEW p \in Player, SelectPlayer(p) PROVE Cutscenes'
  BY <1>22 DEF SelectPlayer, KongTypes, Seats
<1>23. ASSUME NEW p \in Player, EnterName(p) PROVE Cutscenes'
  BY <1>23 DEF EnterName, KongTypes, Seats
<1>24. QED
  BY <1>1, <1>2, <1>3, <1>4, <1>5, <1>6, <1>7, <1>8, <1>9, <1>10, <1>11, <1>12, <1>13, <1>14,
      <1>15, <1>16, <1>17, <1>18, <1>19, <1>20, <1>21, <1>22, <1>23 DEF Next, Handlers

\* The selection goes by the lives left.
LEMMA SurvivorsKept == ASSUME KongInv, Next PROVE Survivors'
<1> USE DEF KongInv, MainPass, Frame, Go, GoTo, Expired, Player, Other, Nobody, players, flow,
    points, history, Keep, Ticking, Survivors
<1>1. CASE DrawTask
  BY <1>1 DEF DrawTask, KongTypes
<1>2. CASE ResetScore
  BY <1>2 DEF ResetScore, Dispatch, KongTypes
<1>3. CASE AddToScore
  BY <1>3 DEF AddToScore, Dispatch, KongTypes
<1>4. CASE IdlePass
  <2>1. BonusGiven
    BY <1>4, Awarding
  <2>2. QED
    BY <2>1 DEF BonusGiven, KongTypes
<1>5. CASE Tick
  BY <1>5 DEF Tick, KongTypes
<1>6. CASE SelectSubstate
  BY <1>6 DEF SelectSubstate, KongTypes
<1>7. CASE ComposeScreen
  BY <1>7 DEF ComposeScreen, KongTypes
<1>8. CASE SelectIntro
  BY <1>8 DEF SelectIntro, KongTypes
<1>9. CASE Intro
  BY SMTT(30), <1>9 DEF Intro, KongTypes
<1>10. CASE BuildBoard
  BY SMTT(30), <1>10 DEF BuildBoard, afterHowHigh, KongTypes
<1>11. CASE Gameplay
  BY SMTT(30), <1>11 DEF Gameplay, KongTypes
<1>12. CASE Interlude
  <2>1. BoardOver
    BY <1>12, Interval
  <2>2. QED
    BY <2>1 DEF BoardOver, KongTypes
<1>13. CASE Death
  BY <1>13 DEF Death, deathOver, rearmed, KongTypes
<1>14. CASE SelectPhase
  BY <1>14 DEF SelectPhase, KongTypes, Seats
<1>15. CASE EnterAttractMode
  BY <1>15 DEF EnterAttractMode, KongTypes
<1>16. CASE NameEntry
  <2>1. Naming
    BY <1>16, Named
  <2>2. QED
    BY <2>1 DEF Naming, KongTypes
<1>17. CASE AttractFrame
  BY <1>17 DEF AttractFrame, KongTypes
<1>18. ASSUME NEW two \in BOOLEAN, CommitGameStart(two) PROVE Survivors'
  BY <1>18, LivesAssumption DEF CommitGameStart, seededContexts, Seeded
<1>19. ASSUME NEW p \in Player, Restore(p) PROVE Survivors'
  BY SMTT(30), <1>19 DEF Restore, restored, KongTypes
<1>20. ASSUME NEW p \in Player, LoseLife(p) PROVE Survivors'
  <2>1. LifeLost(p)
    BY <1>20, Loss
  <2>2. /\ p = ACTIVE_PLAYER_INDEX /\ UNCHANGED <<TWO_PLAYER_GAME, ACTIVE_PLAYER_INDEX>>
        /\ GAME_STATE = 3 /\ GAME_SUBSTATE = 14 + p /\ live'.lives \in Nat
        /\ context'[Other(p)] = context[Other(p)] /\ context'[p] = live'
        /\ GAME_SUBSTATE' = afterLoss(p, live'.lives)
    BY <2>1 DEF LifeLost, KongTypes, AnyBlock
  <2>3. CASE live'.lives = 0
    BY <2>2, <2>3 DEF afterLoss
  <2>4. CASE live'.lives # 0 /\ p = 0 /\ TWO_PLAYER_GAME
    <3>1. deaths[0] = deaths[1] /\ deaths[0] \in Nat /\ deaths[1] \in Nat
      BY <2>2, <2>4 DEF Turns, InTurn, KongTypes
    <3>2. live.lives + deaths[0] = DipLives + One(live.bonus) /\ live.lives > 1
      BY <2>1, <2>4 DEF LifeLost, AnyBlock
    <3>3. context[1].lives + deaths[1] = DipLives + One(context[1].bonus)
      BY <2>2, <2>4 DEF Accounts, InGame, Between, block
    <3>4. context[1].lives \in Nat /\ live.lives \in Nat
      BY DEF KongTypes, AnyBlock
    <3>5. context[1].lives > 0
      <4> HIDE DEF KongInv
      <4>1. QED
        BY <3>1, <3>2, <3>3, <3>4, LivesAssumption DEF One
    <3>6. QED
      BY <2>2, <2>4, <3>5 DEF afterLoss
  <2>5. CASE live'.lives # 0 /\ p = 0 /\ ~TWO_PLAYER_GAME
    BY <2>2, <2>5 DEF afterLoss
  <2>6. CASE live'.lives # 0 /\ p = 1
    BY <2>2, <2>6 DEF afterLoss, Seats, KongTypes, AnyBlock
  <2>7. QED
    BY <2>3, <2>4, <2>5, <2>6
<1>21. ASSUME NEW p \in Player, PlayerOut(p) PROVE Survivors'
  <2>1. CASE p = 0
    BY <1>21, <2>1 DEF PlayerOut, Frame, GoTo, afterGameOver, KongTypes, Seats, AnyBlock
  <2>2. CASE p = 1
    BY <1>21, <2>2 DEF PlayerOut, Frame, GoTo, afterGameOver, KongTypes, Seats, AnyBlock
  <2>3. QED
    BY <2>1, <2>2
<1>22. ASSUME NEW p \in Player, SelectPlayer(p) PROVE Survivors'
  BY <1>22 DEF SelectPlayer, KongTypes, Seats
<1>23. ASSUME NEW p \in Player, EnterName(p) PROVE Survivors'
  BY <1>23 DEF EnterName, KongTypes
<1>24. QED
  BY <1>1, <1>2, <1>3, <1>4, <1>5, <1>6, <1>7, <1>8, <1>9, <1>10, <1>11, <1>12, <1>13, <1>14,
      <1>15, <1>16, <1>17, <1>18, <1>19, <1>20, <1>21, <1>22, <1>23 DEF Next, Handlers

\* The turns go about; the loss of a life moves them on.
LEMMA TurnsKept == ASSUME KongInv, Next PROVE Turns'
<1> USE DEF KongInv, MainPass, Frame, Go, GoTo, Expired, Player, Other, Nobody, players, flow,
    points, history, Keep, Ticking, Turns, InTurn, Lost
<1>1. CASE DrawTask
  BY <1>1 DEF DrawTask, KongTypes
<1>2. CASE ResetScore
  BY <1>2 DEF ResetScore, Dispatch, KongTypes
<1>3. CASE AddToScore
  BY <1>3 DEF AddToScore, Dispatch, KongTypes
<1>4. CASE IdlePass
  <2>1. BonusGiven
    BY <1>4, Awarding
  <2>2. QED
    BY <2>1 DEF BonusGiven, KongTypes
<1>5. CASE Tick
  BY <1>5 DEF Tick, KongTypes
<1>6. CASE SelectSubstate
  BY <1>6 DEF SelectSubstate, KongTypes
<1>7. CASE ComposeScreen
  BY <1>7 DEF ComposeScreen, KongTypes
<1>8. CASE SelectIntro
  BY <1>8 DEF SelectIntro, KongTypes
<1>9. CASE Intro
  BY <1>9 DEF Intro, KongTypes
<1>10. CASE BuildBoard
  BY SMTT(30), <1>10 DEF BuildBoard, afterHowHigh, KongTypes
<1>11. CASE Gameplay
  BY SMTT(30), <1>11 DEF Gameplay, KongTypes
<1>12. CASE Interlude
  <2>1. BoardOver
    BY <1>12, Interval
  <2>2. QED
    BY <2>1 DEF BoardOver, KongTypes
<1>13. CASE Death
  BY <1>13 DEF Death, deathOver, rearmed, KongTypes
<1>14. CASE SelectPhase
  BY <1>14 DEF SelectPhase, KongTypes
<1>15. CASE EnterAttractMode
  BY <1>15 DEF EnterAttractMode, KongTypes
<1>16. CASE NameEntry
  <2>1. Naming
    BY <1>16, Named
  <2>2. QED
    BY <2>1 DEF Naming, KongTypes
<1>17. CASE AttractFrame
  BY <1>17 DEF AttractFrame, KongTypes
<1>18. ASSUME NEW two \in BOOLEAN, CommitGameStart(two) PROVE Turns'
  BY <1>18 DEF CommitGameStart, seededContexts, Seeded, Empty, KongTypes
<1>19. ASSUME NEW p \in Player, Restore(p) PROVE Turns'
  BY <1>19 DEF Restore, restored, KongTypes
<1>20. ASSUME NEW p \in Player, LoseLife(p) PROVE Turns'
  <2>1. LifeLost(p)
    BY <1>20, Loss
  <2>2. /\ p = ACTIVE_PLAYER_INDEX /\ UNCHANGED <<TWO_PLAYER_GAME, ACTIVE_PLAYER_INDEX>>
        /\ GAME_STATE = 3 /\ InTurn /\ died' = p
        /\ deaths' = [deaths EXCEPT ![p] = @ + 1] /\ deaths \in [Player -> Nat]
        /\ context'[Other(p)] = context[Other(p)] /\ GAME_SUBSTATE = 14 + p
        /\ GAME_SUBSTATE' = afterLoss(p, live'.lives) /\ context'[p] = live'
    BY <2>1 DEF LifeLost, KongTypes
  <2>3. CASE p = 0
    BY <2>2, <2>3 DEF afterLoss, Seats
  <2>4. CASE p = 1
    BY SMTT(30), <2>2, <2>4 DEF afterLoss, Seats, KongTypes, AnyBlock
  <2>5. QED
    BY <2>3, <2>4
<1>21. ASSUME NEW p \in Player, PlayerOut(p) PROVE Turns'
  BY <1>21 DEF PlayerOut, afterGameOver, rearmed, KongTypes
<1>22. ASSUME NEW p \in Player, SelectPlayer(p) PROVE Turns'
  <2>1. CASE p = 0
    BY <1>22, <2>1 DEF SelectPlayer, Frame, Go, GoTo, KongTypes, Seats, Survivors
  <2>2. CASE p = 1
    BY <1>22, <2>2 DEF SelectPlayer, Frame, Go, GoTo, KongTypes, Seats, Survivors
  <2>3. QED
    BY <2>1, <2>2
<1>23. ASSUME NEW p \in Player, EnterName(p) PROVE Turns'
  BY <1>23 DEF EnterName, KongTypes
<1>24. QED
  BY <1>1, <1>2, <1>3, <1>4, <1>5, <1>6, <1>7, <1>8, <1>9, <1>10, <1>11, <1>12, <1>13, <1>14,
      <1>15, <1>16, <1>17, <1>18, <1>19, <1>20, <1>21, <1>22, <1>23 DEF Next, Handlers

\* The bonus life is had with the score.
LEMMA BonusHadKept == ASSUME KongInv, Next PROVE BonusHad'
<1> USE DEF KongInv, MainPass, Frame, Go, GoTo, Expired, Player, Other, Nobody, players, flow,
    points, history, Keep, Ticking, BonusHad, InGame, Between, block
<1>1. CASE DrawTask
  BY <1>1 DEF DrawTask, KongTypes, Seats, Survivors
<1>2. CASE ResetScore
  <2>1. MessageGone("reset") /\ score' = [score EXCEPT ![pending[1].by] = "low"]
    BY <1>2, Dispatched DEF ResetScore, MessageGone
  <2>2. /\ \A p \in Player : InGame(p) => ~block(p).bonus
        /\ \A p \in Player : score'[p] = "high" => score[p] = "high"
        /\ UNCHANGED <<flow, players, context, history, live>>
    BY <2>1 DEF MessageGone, Queue, KongTypes
  <2>3. QED
    BY <2>2 DEF KongTypes
<1>3. CASE AddToScore
  <2>1. MessageGone("points") /\ score' \in {score, [score EXCEPT ![CURRENT_PLAYER] = "high"]}
    BY <1>3, Dispatched DEF AddToScore, MessageGone
  <2>2. Between(CURRENT_PLAYER)
    BY <2>1 DEF MessageGone, Queue, KongTypes
  <2>3. /\ \A p \in Player : score[p] = "high" => score'[p] = "high"
        /\ \A p \in Player : p # CURRENT_PLAYER => score'[p] = score[p]
        /\ UNCHANGED <<flow, players, context, history, live>>
    BY <2>1 DEF MessageGone, KongTypes
  <2>4. QED
    BY <2>2, <2>3 DEF KongTypes
<1>4. CASE IdlePass
  <2>1. BonusGiven
    BY <1>4, Awarding
  <2>2. QED
    BY <2>1 DEF BonusGiven, KongTypes
<1>5. CASE Tick
  BY <1>5 DEF Tick, KongTypes, Seats, Survivors
<1>6. CASE SelectSubstate
  BY <1>6 DEF SelectSubstate, KongTypes, Seats, Survivors
<1>7. CASE ComposeScreen
  BY <1>7 DEF ComposeScreen, KongTypes, Seats, Survivors
<1>8. CASE SelectIntro
  BY <1>8 DEF SelectIntro, KongTypes, Seats, Survivors
<1>9. CASE Intro
  BY <1>9 DEF Intro, KongTypes, Seats, Survivors
<1>10. CASE BuildBoard
  BY <1>10 DEF BuildBoard, afterHowHigh, KongTypes, Seats, Survivors
<1>11. CASE Gameplay
  BY <1>11 DEF Gameplay, KongTypes, Seats, Survivors
<1>12. CASE Interlude
  <2>1. BoardOver
    BY <1>12, Interval
  <2>2. QED
    BY <2>1 DEF BoardOver, KongTypes
<1>13. CASE Death
  BY <1>13 DEF Death, deathOver, rearmed, KongTypes, Seats, Survivors
<1>14. CASE SelectPhase
  BY <1>14 DEF SelectPhase, KongTypes, Seats, Survivors
<1>15. CASE EnterAttractMode
  BY <1>15 DEF EnterAttractMode, KongTypes, Seats, Survivors
<1>16. CASE NameEntry
  <2>1. Naming
    BY <1>16, Named
  <2>2. QED
    BY <2>1 DEF Naming, KongTypes
<1>17. CASE AttractFrame
  BY <1>17 DEF AttractFrame, KongTypes, Seats, Survivors
<1>18. ASSUME NEW two \in BOOLEAN, CommitGameStart(two) PROVE BonusHad'
  BY <1>18 DEF CommitGameStart, seededContexts, Seeded, Empty, KongTypes, Seats, Survivors
<1>19. ASSUME NEW p \in Player, Restore(p) PROVE BonusHad'
  BY <1>19 DEF Restore, restored, KongTypes, Seats, Survivors
<1>20. ASSUME NEW p \in Player, LoseLife(p) PROVE BonusHad'
  <2>1. LifeLost(p)
    BY <1>20, Loss
  <2>2. SUFFICES ASSUME NEW q \in Player, InGame(q)'
                 PROVE  /\ block(q)'.bonus => score'[q] = "high"
                        /\ ~Between(q)' /\ deaths'[q] > 0 /\ score'[q] = "high"
                              => block(q)'.bonus
    OBVIOUS
  <2>3. CASE q = p
    <3>1. /\ block(q)' = live' /\ block(q) = live /\ InGame(q) /\ live'.bonus = live.bonus
          /\ score' = score
      BY <2>1, <2>3 DEF LifeLost, KongTypes
    <3>2. live.bonus \/ score[q] = "low"
      BY <2>1, <2>3 DEF LifeLost, NoneDue
    <3>3. QED
      BY <2>3, <3>1, <3>2
  <2>4. CASE q # p
    <3>1. /\ block(q)' = context[q] /\ block(q) = context[q] /\ InGame(q) /\ ~Between(q)
          /\ deaths'[q] = deaths[q] /\ score' = score
      BY <2>1, <2>2, <2>4 DEF LifeLost, KongTypes
    <3>2. QED
      BY <3>1
  <2>5. QED
    BY <2>3, <2>4
<1>21. ASSUME NEW p \in Player, PlayerOut(p) PROVE BonusHad'
  BY <1>21 DEF PlayerOut, afterGameOver, rearmed, KongTypes, Seats, Survivors
<1>22. ASSUME NEW p \in Player, SelectPlayer(p) PROVE BonusHad'
  BY <1>22 DEF SelectPlayer, KongTypes, Seats, Survivors
<1>23. ASSUME NEW p \in Player, EnterName(p) PROVE BonusHad'
  BY <1>23 DEF EnterName, KongTypes, Seats, Survivors
<1>24. QED
  BY <1>1, <1>2, <1>3, <1>4, <1>5, <1>6, <1>7, <1>8, <1>9, <1>10, <1>11, <1>12, <1>13, <1>14,
      <1>15, <1>16, <1>17, <1>18, <1>19, <1>20, <1>21, <1>22, <1>23 DEF Next, Handlers

\* Points wait only while their player is at play: the death hold outlasts them.
LEMMA QueueKept == ASSUME KongInv, Next PROVE Queue'
<1> USE DEF KongInv, MainPass, Frame, Go, GoTo, Expired, Player, Other, Nobody, players, flow,
    points, history, Keep, Ticking, Queue, InGame, Between, block, NoneDue
<1>1. CASE DrawTask
  BY <1>1 DEF DrawTask, KongTypes, Seats, Timers
<1>2. CASE ResetScore
  <2>1. MessageGone("reset")
    BY <1>2, Dispatched DEF ResetScore
  <2>2. /\ \A i \in DOMAIN pending' : i + 1 \in DOMAIN pending /\ pending'[i] = pending[i + 1]
        /\ pending # <<>> /\ turn' = "nmi" /\ settled' = FALSE
        /\ UNCHANGED <<flow, players, context, live>>
    BY <2>1, <1>2 DEF MessageGone, ResetScore, Dispatch
  <2>3. ~(GAME_STATE = 3 /\ GAME_SUBSTATE \in {14, 15})
    BY <2>2
  <2>4. QED
    BY <2>2, <2>3
<1>3. CASE AddToScore
  <2>1. MessageGone("points")
    BY <1>3, Dispatched DEF AddToScore
  <2>2. /\ \A i \in DOMAIN pending' : i + 1 \in DOMAIN pending /\ pending'[i] = pending[i + 1]
        /\ pending # <<>> /\ turn' = "nmi" /\ settled' = FALSE
        /\ UNCHANGED <<flow, players, context, live>>
    BY <2>1, <1>3 DEF MessageGone, AddToScore, Dispatch
  <2>3. ~(GAME_STATE = 3 /\ GAME_SUBSTATE \in {14, 15})
    BY <2>2
  <2>4. QED
    BY <2>2, <2>3
<1>4. CASE IdlePass
  <2>1. BonusGiven
    BY <1>4, Awarding
  <2>2. QED
    BY <2>1 DEF BonusGiven, KongTypes
<1>5. CASE Tick
  BY <1>5 DEF Tick, KongTypes, Seats, Timers
<1>6. CASE SelectSubstate
  BY <1>6 DEF SelectSubstate, KongTypes, Seats, Timers
<1>7. CASE ComposeScreen
  BY <1>7 DEF ComposeScreen, KongTypes, Seats, Timers
<1>8. CASE SelectIntro
  BY <1>8 DEF SelectIntro, KongTypes, Seats, Timers
<1>9. CASE Intro
  BY <1>9 DEF Intro, KongTypes, Seats, Timers
<1>10. CASE BuildBoard
  BY <1>10 DEF BuildBoard, afterHowHigh, KongTypes, Seats, Timers
<1>11. CASE Gameplay
  <2>1. \A i \in DOMAIN pending' :
          \/ i \in DOMAIN pending /\ pending'[i] = pending[i]
          \/ pending'[i] = Scored
    BY <1>11, Queued DEF Gameplay, Scores
  <2>2. QED
    BY <1>11, <2>1 DEF Gameplay, Frame, GoTo, Go, Scored
<1>12. CASE Interlude
  <2>1. \A i \in DOMAIN pending' :
          \/ i \in DOMAIN pending /\ pending'[i] = pending[i]
          \/ pending'[i] = Scored
    BY <1>12, Interval, Queued DEF BoardOver
  <2>2. BoardOver
    BY <1>12, Interval
  <2>3. QED
    BY <2>1, <2>2 DEF BoardOver, Scored, KongTypes
<1>13. CASE Death
  BY <1>13 DEF Death, deathOver, rearmed, KongTypes, Seats, Timers
<1>14. CASE SelectPhase
  BY <1>14 DEF SelectPhase, KongTypes, Seats, Timers
<1>15. CASE EnterAttractMode
  BY <1>15 DEF EnterAttractMode, KongTypes, Seats, Timers
<1>16. CASE NameEntry
  <2>1. /\ turn' = "main" /\ GAME_STATE = 3 /\ GAME_SUBSTATE = 21 /\ GAME_SUBSTATE' \in {20, 21}
        /\ UNCHANGED <<pending, live, context, GAME_STATE, TWO_PLAYER_GAME, ACTIVE_PLAYER_INDEX>>
    BY <1>16, Named DEF Naming
  <2>2. QED
    BY <2>1
<1>17. CASE AttractFrame
  BY <1>17 DEF AttractFrame, KongTypes, Seats, Timers
<1>18. ASSUME NEW two \in BOOLEAN, CommitGameStart(two) PROVE Queue'
  <2>1. \A i \in DOMAIN pending' : pending'[i].op = "reset"
    BY <1>18 DEF CommitGameStart
  <2>2. QED
    BY <1>18, <2>1 DEF CommitGameStart, seededContexts, Seeded, Empty
<1>19. ASSUME NEW p \in Player, Restore(p) PROVE Queue'
  BY <1>19 DEF Restore, restored, KongTypes, Seats, Timers
<1>20. ASSUME NEW p \in Player, LoseLife(p) PROVE Queue'
  <2>1. LifeLost(p)
    BY <1>20, Loss
  <2>2. pending' = <<>> /\ turn' = "main" /\ GAME_SUBSTATE' \notin {14, 15}
    BY <2>1 DEF LifeLost, NoneDue, afterLoss
  <2>3. QED
    BY <2>2
<1>21. ASSUME NEW p \in Player, PlayerOut(p) PROVE Queue'
  BY <1>21 DEF PlayerOut, afterGameOver, rearmed, KongTypes, Seats, Timers
<1>22. ASSUME NEW p \in Player, SelectPlayer(p) PROVE Queue'
  BY <1>22 DEF SelectPlayer, KongTypes, Seats, Timers
<1>23. ASSUME NEW p \in Player, EnterName(p) PROVE Queue'
  BY <1>23 DEF EnterName, KongTypes, Seats, Timers
<1>24. QED
  BY <1>1, <1>2, <1>3, <1>4, <1>5, <1>6, <1>7, <1>8, <1>9, <1>10, <1>11, <1>12, <1>13, <1>14,
      <1>15, <1>16, <1>17, <1>18, <1>19, <1>20, <1>21, <1>22, <1>23 DEF Next, Handlers

-----------------------------------------------------------------------------
(* Space Invaders.                                                         *)

Flows == {"attract", "demo", "splash", "handoff", "banner", "handover", "teardown", "tiltBanner",
          "prompt", "loop", "lastStand", "creditScreen", "gameOver", "newRound", "doJ",
          "invasion", "tilt"}

CabTypes ==
  /\ cabTurn \in {"main", "mid", "vblank"} /\ cabFlow \in Flows
  /\ nextMain \in {"none", "creditScreen", "gameOver", "newRound", "doJ", "invasion", "tilt"}
  /\ COIN_INPUT_LATCH \in {0, 1} /\ coin \in {"up", "down"} /\ CREDIT_COUNT \in 0 .. CREDIT_CAP
  /\ {CREDIT_SCREEN_SHOWN, TILT_RESET_ACTIVE, GAME_ACTIVE, GAME_IN_PROGRESS, cabTwo,
      WARM_RESTART_SUPPRESS} \subseteq BOOLEAN
  /\ player \in Player /\ cabDied \in Player \cup {Nobody}
  /\ alive \in [Player -> BOOLEAN] /\ extra \in [Player -> BOOLEAN]
  /\ ships \in [Player -> Nat] /\ used \in [Player -> Nat]
  /\ aliens \in [Player -> Nat] /\ page \in [Player -> Nat] /\ stands \in [Player -> Nat]
  /\ fleet \in Nat /\ ship \in {"ready", "hit", "exploding"}
  /\ cabScore \in [Player -> Nat]
  /\ packet \in [by : Player \cup {Nobody}, for : {"nothing", "kill", "saucer"}]

\* A press no interrupt has looked at yet comes with a tilt, which no start outruns.
Unseen == coin = "down" /\ COIN_INPUT_LATCH = 1
Coins ==
  /\ ~Unseen => CREDIT_COUNT = paid
  /\ Unseen =>
       /\ paid = CREDIT_COUNT + One(CREDIT_COUNT < CREDIT_CAP)
       /\ nextMain = "tilt" \/ (nextMain = "none" /\ cabFlow = "tilt")
            \/ (cabFlow = "tiltBanner" /\ cabTurn # "main" /\ TILT_RESET_ACTIVE)
  /\ "creditScreen" \in {cabFlow, nextMain} \/ cabFlow = "prompt" => CREDIT_COUNT > 0

\* The flows of a game; interrupts move the field in three of them.
OfGame == {"splash", "handoff", "banner", "handover", "loop", "lastStand", "gameOver", "newRound",
           "doJ", "invasion"}
Gates ==
  /\ cabFlow \in OfGame => GAME_IN_PROGRESS
  /\ nextMain \in {"gameOver", "newRound", "doJ", "invasion"} => GAME_IN_PROGRESS
  /\ nextMain \in {"gameOver", "newRound", "doJ"} => ~GAME_ACTIVE
  /\ GAME_IN_PROGRESS => cabFlow \in OfGame \cup {"tilt", "tiltBanner", "teardown"}
  /\ GAME_IN_PROGRESS /\ GAME_ACTIVE => cabFlow \in {"loop", "handoff", "lastStand", "invasion", "tilt"}
  /\ cabFlow \in {"invasion", "tilt"} => cabTurn = "main"
  /\ cabTurn = "mid" => nextMain = "none"
  /\ nextMain = "creditScreen" => ~GAME_IN_PROGRESS

\* The restart switch.
Switch ==
  /\ cabFlow \in {"loop", "splash", "handoff", "handover", "doJ"} => ~WARM_RESTART_SUPPRESS
  /\ nextMain \in {"doJ", "newRound", "gameOver", "invasion"} => ~WARM_RESTART_SUPPRESS
  /\ cabFlow = "lastStand" => WARM_RESTART_SUPPRESS

\* Where the flow an interrupt asked for takes its player.
Asked(f) == f = nextMain \/ (nextMain = "none" /\ f = cabFlow)
Outcome ==
  /\ Asked("doJ") => /\ ships[player] > 0 /\ alive[player] /\ cabDied = player
                     /\ ~(cabTwo /\ alive[Other(player)]) /\ fleet = stands[player]
  /\ Asked("newRound") => /\ cabTwo /\ alive[Other(player)] /\ cabDied = player
                          /\ alive[player] => ships[player] > 0 /\ fleet = stands[player]
  /\ Asked("gameOver") => /\ cabDied = player /\ alive[player]
                          /\ ships[player] = 0 \/ stands[player] = Bottom
  /\ Asked("invasion") => alive[player] /\ fleet = Bottom /\ stands[player] = Bottom
  /\ nextMain = "none" /\ cabFlow = "banner" => cabTwo /\ cabDied = player /\ ~alive[player]
  /\ nextMain = "none" /\ cabFlow = "lastStand" => stands[player] = Bottom
  /\ cabFlow = "handover" => ships[player] > 0

Fleet ==
  /\ cabFlow \in {"loop", "handoff", "lastStand"} => fleet = stands[player]
  /\ cabFlow \in {"splash", "handover"} => page[player] = stands[player]
  /\ fleet <= Bottom /\ \A p \in Player : stands[p] <= Bottom

Ships ==
  GAME_IN_PROGRESS =>
    /\ cabFlow \in {"loop", "handoff", "lastStand", "handover", "splash"} => alive[player]
    /\ alive[Other(player)] => page[Other(player)] = stands[Other(player)]
    /\ cabTwo /\ alive[Other(player)] => ships[Other(player)] > 0
    /\ Invaders!ShipsAccounted
    /\ \A p \in Player : cabScore[p] >= Threshold /\ extra[p] =>
         \/ aliens[p] = 0
         \/ p = player /\ cabFlow = "loop" /\ cabTurn = "main" /\ nextMain = "none"

Rounds ==
  cabFlow \in {"loop", "handoff", "splash", "handover"} /\ nextMain \in {"none", "invasion"} =>
    player = IF cabDied = Nobody THEN 0
             ELSE IF cabTwo /\ alive[Other(cabDied)] THEN Other(cabDied) ELSE cabDied

\* How one turn gives way to the next: what an interrupt asks for, the ship it finds in
\* reserve, and whose turn a landing ends.
Turnover ==
  /\ cabTurn = "vblank" => nextMain \in {"none", "invasion"}
  /\ nextMain \in {"gameOver", "newRound", "doJ", "invasion"} => cabFlow \in {"loop", "handoff"}
  /\ nextMain = "gameOver" => ships[player] = 0
  /\ cabFlow \in {"loop", "handoff", "invasion", "lastStand"} /\ nextMain \in {"none", "invasion"} =>
       GAME_ACTIVE
  /\ cabFlow \in {"invasion", "lastStand"} => player = Invaders!due
  /\ GAME_IN_PROGRESS /\ ~cabTwo => player = 0

Packet ==
  cabFlow = "handoff" \/ (cabFlow = "loop" /\ cabTurn # "main") =>
    packet \in {[by |-> Nobody, for |-> "nothing"], [by |-> player, for |-> "saucer"]}

CabInv ==
  CabTypes /\ Coins /\ Gates /\ Switch /\ Outcome /\ Fleet /\ Ships /\ Rounds /\ Turnover /\ Packet

-----------------------------------------------------------------------------
(* What a pass of the loop does; every step keeps the invariant.           *)

\* A shot takes one alien of the active player off, or none.
LEMMA AliensShot ==
  ASSUME CabTypes, NEW shot \in Invaders!Shot, Invaders!ShotAt(shot)
  PROVE  /\ aliens' \in [Player -> Nat]
         /\ \A p \in Player : p # player => aliens'[p] = aliens[p]
<1>1. CASE shot = "hit"
  <2>1. aliens[player] > 0 /\ aliens \in [Player -> Nat] /\ player \in Player
    BY <1>1 DEF Invaders!Shot, CabTypes
  <2>2. aliens' = [aliens EXCEPT ![player] = aliens[player] - 1]
    BY <1>1, <2>1 DEF Invaders!ShotAt
  <2>3. QED
    BY <2>1, <2>2
<1>2. CASE shot # "hit"
  <2>1. aliens' = [aliens EXCEPT ![player] = aliens[player]]
    BY <1>2 DEF Invaders!ShotAt, CabTypes
  <2>2. QED
    BY <2>1 DEF CabTypes
<1>3. QED
  BY <1>1, <1>2

\* Points go to the active player.
LEMMA Credited ==
  ASSUME CabTypes, NEW adds, Invaders!Credit(adds)
  PROVE  /\ cabScore' \in [Player -> Nat]
         /\ \A p \in Player : p # player => cabScore'[p] = cabScore[p]
BY DEF CabTypes, Invaders!Credit, Invaders!Levels

\* A pass of the loop, by its parts.
Passed ==
  /\ cabFlow = "loop" /\ cabFlow' \in {"loop", "handoff"} /\ cabTurn' = "mid"
  /\ aliens' \in [Player -> Nat] /\ cabScore' \in [Player -> Nat]
  /\ ships' \in [Player -> Nat] /\ extra' \in [Player -> BOOLEAN]
  /\ packet' = [by |-> Nobody, for |-> "nothing"]
  /\ \A p \in Player : p # player =>
       /\ aliens'[p] = aliens[p] /\ cabScore'[p] = cabScore[p]
       /\ ships'[p] = ships[p] /\ extra'[p] = extra[p]
  /\ ships'[player] + One(extra'[player]) = ships[player] + One(extra[player])
  /\ aliens'[player] = 0 \/ ~(extra'[player] /\ cabScore'[player] >= Threshold)
  /\ UNCHANGED <<nextMain, COIN_INPUT_LATCH, CREDIT_COUNT, coin, paid, CREDIT_SCREEN_SHOWN,
                 TILT_RESET_ACTIVE, GAME_ACTIVE, GAME_IN_PROGRESS, cabTwo, player, alive, used,
                 cabDied, page, fleet, ship, WARM_RESTART_SUPPRESS, stands>>

\* ... whichever way it goes.
LEMMA Pass == ASSUME CabTypes, Invaders!LoopPass PROVE Passed
<1>1. PICK shot \in Invaders!Shot :
        /\ Invaders!ShotAt(shot)
        /\ Invaders!Credit(Invaders!passOver(Invaders!Queued(shot)).adds)
        /\ packet' = Invaders!passOver(Invaders!Queued(shot)).leaves
  BY DEF Invaders!LoopPass
<1>2. packet' = [by |-> Nobody, for |-> "nothing"]
  BY <1>1 DEF Invaders!passOver, Invaders!NoPacket, Nobody, Invaders!Nobody
<1>3. /\ aliens' \in [Player -> Nat]
      /\ \A p \in Player : p # player => aliens'[p] = aliens[p]
  BY <1>1, AliensShot
<1>4. /\ cabScore' \in [Player -> Nat]
      /\ \A p \in Player : p # player => cabScore'[p] = cabScore[p]
  BY <1>1, Credited
<1>5. /\ player \in Player /\ ships \in [Player -> Nat] /\ extra \in [Player -> BOOLEAN]
      /\ ships[player] \in Nat
  BY DEF CabTypes
<1>6. /\ cabFlow = "loop" /\ cabFlow' \in {"loop", "handoff"} /\ cabTurn' = "mid"
      /\ UNCHANGED <<nextMain, COIN_INPUT_LATCH, CREDIT_COUNT, coin, paid, CREDIT_SCREEN_SHOWN,
                 TILT_RESET_ACTIVE, GAME_ACTIVE, GAME_IN_PROGRESS, cabTwo, player, alive, used,
                 cabDied, page, fleet, ship, WARM_RESTART_SUPPRESS, stands>>
  BY DEF Invaders!LoopPass, Invaders!Resumed, Invaders!Yield, Invaders!coinVars, Invaders!gates
<1>7. CASE aliens'[player] = 0
  <2>1. UNCHANGED <<ships, extra>>
    BY <1>7 DEF Invaders!LoopPass
  <2>2. QED
    BY <1>2, <1>3, <1>4, <1>5, <1>6, <1>7, <2>1 DEF Passed
<1>8. CASE aliens'[player] # 0 /\ Invaders!extraDue
  <2>1. /\ ships' = [ships EXCEPT ![player] = ships[player] + 1]
        /\ extra' = [extra EXCEPT ![player] = FALSE] /\ extra[player]
    BY <1>5, <1>8 DEF Invaders!LoopPass, Invaders!extraDue
  <2>2. ships'[player] + One(extra'[player]) = ships[player] + One(extra[player])
    BY <1>5, <2>1 DEF One
  <2>3. /\ ships' \in [Player -> Nat] /\ extra' \in [Player -> BOOLEAN] /\ ~extra'[player]
        /\ \A p \in Player : p # player => ships'[p] = ships[p] /\ extra'[p] = extra[p]
    BY <1>5, <2>1
  <2>4. QED
    BY <1>2, <1>3, <1>4, <1>6, <2>2, <2>3 DEF Passed
<1>9. CASE aliens'[player] # 0 /\ ~Invaders!extraDue
  <2>1. ships' = ships /\ extra' = extra
    BY ZenonT(40), <1>5, <1>9 DEF Invaders!LoopPass
  <2>2. ~(extra'[player] /\ cabScore'[player] >= Threshold)
    BY <1>6, <1>9, <2>1 DEF Invaders!extraDue
  <2>3. QED
    BY <1>2, <1>3, <1>4, <1>5, <1>6, <2>1, <2>2 DEF Passed
<1>10. QED
  BY <1>7, <1>8, <1>9

\* Types; a start finds the credits it takes.
LEMMA CabTypesKept == ASSUME CabInv, Invaders!Next PROVE CabTypes'
<1> USE ShipsAssumption, CreditAssumption, FieldAssumption DEF CabInv, Player, Other, Nobody,
    Invaders!Player, Invaders!Other, Invaders!Nobody, Invaders!coinVars, Invaders!gates,
    Invaders!seats, Invaders!field, Invaders!points, Invaders!Resumed, Invaders!GoOn,
    Invaders!Yield, Invaders!Vblank, Invaders!Serviced, Invaders!Seeded, Invaders!InGame,
    CabTypes, Flows
<1>1. CASE Invaders!WaitOn
  BY <1>1 DEF Invaders!WaitOn, Invaders!Waits
<1>2. CASE Invaders!DemoBegins
  <2>1. ships' \in [Player -> Nat]
    <3>1. CASE ships[0] = 0
      <4>1. [ships EXCEPT ![0] = StartingShips] \in [Player -> Nat]
        BY DEF CabTypes
      <4>2. ships' = Invaders!Spent([ships EXCEPT ![0] = StartingShips])
        BY <1>2, <3>1 DEF Invaders!DemoBegins
      <4>3. QED
        BY <4>1, <4>2 DEF Invaders!Spent, CabTypes
    <3>2. CASE ships[0] # 0
      BY <1>2, <3>2 DEF Invaders!DemoBegins, CabTypes
    <3>3. QED
      BY <3>1, <3>2
  <2>2. aliens' \in [Player -> Nat] /\ stands' \in [Player -> Nat]
    BY <1>2 DEF Invaders!DemoBegins, Invaders!NewWave, CabTypes
  <2>3. QED
    BY <1>2, <2>1, <2>2 DEF Invaders!DemoBegins, Invaders!Resumed, Invaders!Yield,
        Invaders!Seeded
<1>3. CASE Invaders!DemoEnds
  BY <1>3 DEF Invaders!DemoEnds
<1>4. CASE Invaders!SplashEnds
  BY <1>4 DEF Invaders!SplashEnds, Invaders!reloaded
<1>5. CASE Invaders!HandoffEnds
  BY <1>5 DEF Invaders!HandoffEnds, Invaders!NewWave
<1>6. CASE Invaders!BannerEnds
  BY <1>6 DEF Invaders!BannerEnds, Invaders!nextUp
<1>7. CASE Invaders!HandoverEnds
  BY <1>7 DEF Invaders!HandoverEnds, Invaders!TakeShip, Invaders!Spent
<1>8. CASE Invaders!TeardownEnds
  BY <1>8 DEF Invaders!TeardownEnds, Invaders!Empty, Invaders!Zero
<1>9. CASE Invaders!TiltEnds
  BY <1>9 DEF Invaders!TiltEnds, Invaders!shownAfterTilt
<1>10. CASE Invaders!Restart
  BY <1>10 DEF Invaders!Restart
<1>11. CASE Invaders!CreditScreen
  BY <1>11 DEF Invaders!CreditScreen
<1>12. CASE Invaders!LoopPass
  <2>1. Passed
    BY <1>12, Pass
  <2>2. QED
    BY <2>1 DEF Passed
<1>13. CASE Invaders!GameOver
  BY <1>13 DEF Invaders!GameOver
<1>14. CASE Invaders!NewRound
  <2>1. page' \in [Player -> Nat] /\ player' \in Player
    BY <1>14 DEF Invaders!NewRound, Invaders!Seeded
  <2>2. QED
    BY <1>14, <2>1 DEF Invaders!NewRound, Invaders!Resumed, Invaders!Yield, Invaders!Seeded
<1>15. CASE Invaders!DoJ
  BY <1>15 DEF Invaders!DoJ, Invaders!TakeShip, Invaders!Spent
<1>16. CASE Invaders!Invasion
  BY <1>16 DEF Invaders!Invasion
<1>17. CASE Invaders!LastStand
  <2>1. PICK shot \in Invaders!Shot :
          Invaders!ShotAt(shot) /\ packet' = Invaders!Queued(shot)
    BY <1>17 DEF Invaders!LastStand
  <2>2. packet' \in [by : Player \cup {Nobody}, for : {"nothing", "kill", "saucer"}]
    BY <2>1 DEF Invaders!Queued, Invaders!Points
  <2>3. aliens' \in [Player -> Nat]
    BY <2>1, AliensShot
  <2>4. QED
    BY <1>17, <2>2, <2>3 DEF Invaders!LastStand, Invaders!Resumed, Invaders!GoOn, Invaders!Yield
<1>18. CASE Invaders!Tilt
  BY <1>18 DEF Invaders!Tilt
<1>19. ASSUME NEW buttons \in Invaders!Buttons, Invaders!PromptWaits(buttons) PROVE CabTypes'
  BY <1>19 DEF Invaders!PromptWaits
<1>20. ASSUME NEW buttons \in Invaders!Buttons, Invaders!StartGame(buttons) PROVE CabTypes'
  <2>1. CREDIT_COUNT' \in 0 .. CREDIT_CAP
    <3>1. CREDIT_COUNT \in 1 .. CREDIT_CAP /\ CREDIT_CAP \in 2 .. 99
      BY <1>20 DEF Invaders!StartGame, Invaders!Resumed, Coins
    <3>2. CASE "start2" \in Invaders!Offered(buttons)
      <4>1. CREDIT_COUNT # 1
        BY <3>2 DEF Invaders!Offered
      <4>2. CREDIT_COUNT' = (CREDIT_COUNT + 98) % 100
        BY <1>20, <3>2 DEF Invaders!StartGame
      <4>3. QED
        BY <3>1, <4>1, <4>2
    <3>3. CASE "start2" \notin Invaders!Offered(buttons)
      <4>1. CREDIT_COUNT' = (CREDIT_COUNT + 99) % 100
        BY <1>20, <3>3 DEF Invaders!StartGame
      <4>2. QED
        BY <3>1, <4>1
    <3>4. QED
      BY <3>2, <3>3
  <2>2. /\ alive' \in [Player -> BOOLEAN] /\ extra' \in [Player -> BOOLEAN]
        /\ ships' \in [Player -> Nat] /\ used' \in [Player -> Nat] /\ cabScore' \in [Player -> Nat]
        /\ aliens' \in [Player -> Nat] /\ page' \in [Player -> Nat] /\ stands' \in [Player -> Nat]
    BY <1>20 DEF Invaders!StartGame, Invaders!Zero
  <2>3. cabTwo' \in BOOLEAN
    BY <1>20 DEF Invaders!StartGame
  <2>4. QED
    BY <1>20, <2>1, <2>2, <2>3 DEF Invaders!StartGame, Invaders!Resumed, Invaders!Yield,
        Invaders!Seeded
<1>21. CASE Invaders!MidScreen
  BY <1>21 DEF Invaders!MidScreen, Invaders!ShotsFall, Invaders!FleetMarches, Invaders!lands,
      Invaders!SaucerScores, Invaders!Points
<1>22. CASE Invaders!TiltSwitch
  BY <1>22 DEF Invaders!TiltSwitch, Invaders!CoinSwitch, Invaders!Seen
<1>23. CASE Invaders!VblankAttract
  <2>1. packet' \in [by : Player \cup {Nobody}, for : {"nothing", "kill", "saucer"}]
    BY <1>23 DEF Invaders!VblankAttract, Invaders!SaucerScores, Invaders!Points
  <2>2. COIN_INPUT_LATCH' \in {0, 1} /\ coin' \in {"up", "down"} /\ CREDIT_COUNT' \in 0 .. CREDIT_CAP
    BY <1>23 DEF Invaders!VblankAttract, Invaders!CoinSwitch, Invaders!Seen, Invaders!served,
        Invaders!CoinService
  <2>3. QED
    BY <1>23, <2>1, <2>2 DEF Invaders!VblankAttract
<1>24. CASE Invaders!ShowCredit
  BY <1>24 DEF Invaders!ShowCredit, Invaders!CoinSwitch, Invaders!Seen, Invaders!served,
      Invaders!CoinService
<1>25. CASE Invaders!VblankField
  BY <1>25 DEF Invaders!VblankField, Invaders!CoinSwitch, Invaders!Seen, Invaders!served,
      Invaders!CoinService, Invaders!SaucerScores, Invaders!Points
<1>26. CASE Invaders!ShipLost
  <2>1. nextMain' \in {"gameOver", "newRound", "doJ"}
    BY <1>26 DEF Invaders!ShipLost, Invaders!afterDeath
  <2>2. COIN_INPUT_LATCH' \in {0, 1} /\ coin' \in {"up", "down"} /\ CREDIT_COUNT' \in 0 .. CREDIT_CAP
    BY <1>26 DEF Invaders!ShipLost, Invaders!Serviced, Invaders!Vblank, Invaders!CoinSwitch,
        Invaders!Seen, Invaders!served, Invaders!CoinService
  <2>3. QED
    BY ZenonT(40), <1>26, <2>1, <2>2 DEF Invaders!ShipLost, Invaders!Serviced, Invaders!Vblank
<1>27. QED
  BY <1>1, <1>2, <1>3, <1>4, <1>5, <1>6, <1>7, <1>8, <1>9, <1>10, <1>11, <1>12, <1>13, <1>14,
      <1>15, <1>16, <1>17, <1>18, <1>19, <1>20, <1>21, <1>22, <1>23, <1>24, <1>25, <1>26 DEF
      Invaders!Next, Invaders!Main, Invaders!WaitEnds

\* A press is served or waits behind a tilt.
LEMMA CoinsKept == ASSUME CabInv, Invaders!Next PROVE Coins'
<1> USE ShipsAssumption, CreditAssumption, FieldAssumption DEF CabInv, Player, Other, Nobody,
    Invaders!Player, Invaders!Other, Invaders!Nobody, Invaders!coinVars, Invaders!gates,
    Invaders!seats, Invaders!field, Invaders!points, Invaders!Resumed, Invaders!GoOn,
    Invaders!Yield, Invaders!Vblank, Invaders!Serviced, Invaders!Seeded, Invaders!InGame, Coins,
    Unseen, One
<1>1. CASE Invaders!WaitOn
  BY <1>1 DEF Invaders!WaitOn, Invaders!Waits, CabTypes, Gates, OfGame
<1>2. CASE Invaders!DemoBegins
  BY <1>2 DEF Invaders!DemoBegins, CabTypes, Gates, OfGame
<1>3. CASE Invaders!DemoEnds
  BY <1>3 DEF Invaders!DemoEnds, CabTypes, Gates, OfGame
<1>4. CASE Invaders!SplashEnds
  BY <1>4 DEF Invaders!SplashEnds, CabTypes, Gates, OfGame
<1>5. CASE Invaders!HandoffEnds
  BY <1>5 DEF Invaders!HandoffEnds, CabTypes, Gates, OfGame
<1>6. CASE Invaders!BannerEnds
  BY <1>6 DEF Invaders!BannerEnds, Invaders!nextUp, CabTypes, Gates, OfGame
<1>7. CASE Invaders!HandoverEnds
  BY <1>7 DEF Invaders!HandoverEnds, CabTypes, Gates, OfGame
<1>8. CASE Invaders!TeardownEnds
  BY <1>8 DEF Invaders!TeardownEnds, Invaders!Empty, CabTypes, Gates, OfGame
<1>9. CASE Invaders!TiltEnds
  BY <1>9 DEF Invaders!TiltEnds, Invaders!shownAfterTilt, CabTypes, Gates, OfGame
<1>10. CASE Invaders!Restart
  BY <1>10 DEF Invaders!Restart, CabTypes, Gates, OfGame
<1>11. CASE Invaders!CreditScreen
  BY <1>11 DEF Invaders!CreditScreen, CabTypes, Gates, OfGame
<1>12. CASE Invaders!LoopPass
  BY <1>12 DEF Invaders!LoopPass, Invaders!extraDue, CabTypes, Gates, OfGame
<1>13. CASE Invaders!GameOver
  BY <1>13 DEF Invaders!GameOver, CabTypes, Gates, OfGame
<1>14. CASE Invaders!NewRound
  BY <1>14 DEF Invaders!NewRound, CabTypes, Gates, OfGame
<1>15. CASE Invaders!DoJ
  BY <1>15 DEF Invaders!DoJ, CabTypes, Gates, OfGame
<1>16. CASE Invaders!Invasion
  BY <1>16 DEF Invaders!Invasion, CabTypes, Gates, OfGame
<1>17. CASE Invaders!LastStand
  BY <1>17 DEF Invaders!LastStand, CabTypes, Gates, OfGame
<1>18. CASE Invaders!Tilt
  BY <1>18 DEF Invaders!Tilt, CabTypes, Gates, OfGame
<1>19. ASSUME NEW buttons \in Invaders!Buttons, Invaders!PromptWaits(buttons) PROVE Coins'
  BY <1>19 DEF Invaders!PromptWaits, Invaders!Offered, CabTypes, Gates, OfGame
<1>20. ASSUME NEW buttons \in Invaders!Buttons, Invaders!StartGame(buttons) PROVE Coins'
  BY <1>20 DEF Invaders!StartGame, Invaders!Offered, CabTypes, Gates, OfGame
<1>21. CASE Invaders!MidScreen
  BY <1>21 DEF Invaders!MidScreen, Invaders!FleetMarches, Invaders!lands, CabTypes, Gates,
      OfGame
<1>22. CASE Invaders!TiltSwitch
  BY <1>22 DEF Invaders!TiltSwitch, Invaders!CoinSwitch, Invaders!Seen, CabTypes, Gates, OfGame
<1>23. CASE Invaders!VblankAttract
  BY <1>23 DEF Invaders!VblankAttract, Invaders!CoinSwitch, Invaders!Seen, Invaders!served,
      Invaders!CoinService, CabTypes, Gates, OfGame
<1>24. CASE Invaders!ShowCredit
  BY <1>24 DEF Invaders!ShowCredit, Invaders!CoinSwitch, Invaders!Seen, Invaders!served,
      Invaders!CoinService, CabTypes, Gates, OfGame
<1>25. CASE Invaders!VblankField
  BY <1>25 DEF Invaders!VblankField, Invaders!CoinSwitch, Invaders!Seen, Invaders!served,
      Invaders!CoinService, CabTypes, Gates, OfGame
<1>26. CASE Invaders!ShipLost
  BY <1>26 DEF Invaders!ShipLost, Invaders!CoinSwitch, Invaders!Seen, Invaders!served,
      Invaders!CoinService, Invaders!afterDeath, CabTypes, Gates, OfGame
<1>27. QED
  BY <1>1, <1>2, <1>3, <1>4, <1>5, <1>6, <1>7, <1>8, <1>9, <1>10, <1>11, <1>12, <1>13, <1>14,
      <1>15, <1>16, <1>17, <1>18, <1>19, <1>20, <1>21, <1>22, <1>23, <1>24, <1>25, <1>26 DEF
      Invaders!Next, Invaders!Main, Invaders!WaitEnds

\* The flows in which the interrupts move the field.
LEMMA GatesKept == ASSUME CabInv, Invaders!Next PROVE Gates'
<1> USE ShipsAssumption, CreditAssumption, FieldAssumption DEF CabInv, Player, Other, Nobody,
    Invaders!Player, Invaders!Other, Invaders!Nobody, Invaders!coinVars, Invaders!gates,
    Invaders!seats, Invaders!field, Invaders!points, Invaders!Resumed, Invaders!GoOn,
    Invaders!Yield, Invaders!Vblank, Invaders!Serviced, Invaders!Seeded, Invaders!InGame, Gates,
    OfGame
<1>1. CASE Invaders!WaitOn
  BY <1>1 DEF Invaders!WaitOn, Invaders!Waits, CabTypes
<1>2. CASE Invaders!DemoBegins
  BY <1>2 DEF Invaders!DemoBegins, CabTypes
<1>3. CASE Invaders!DemoEnds
  BY <1>3 DEF Invaders!DemoEnds, CabTypes
<1>4. CASE Invaders!SplashEnds
  BY <1>4 DEF Invaders!SplashEnds, CabTypes
<1>5. CASE Invaders!HandoffEnds
  BY <1>5 DEF Invaders!HandoffEnds, CabTypes
<1>6. CASE Invaders!BannerEnds
  BY <1>6 DEF Invaders!BannerEnds, Invaders!nextUp, CabTypes
<1>7. CASE Invaders!HandoverEnds
  BY <1>7 DEF Invaders!HandoverEnds, CabTypes
<1>8. CASE Invaders!TeardownEnds
  BY <1>8 DEF Invaders!TeardownEnds, Invaders!Empty, CabTypes
<1>9. CASE Invaders!TiltEnds
  BY <1>9 DEF Invaders!TiltEnds, Invaders!shownAfterTilt, CabTypes
<1>10. CASE Invaders!Restart
  BY <1>10 DEF Invaders!Restart, CabTypes
<1>11. CASE Invaders!CreditScreen
  BY <1>11 DEF Invaders!CreditScreen, CabTypes
<1>12. CASE Invaders!LoopPass
  BY <1>12 DEF Invaders!LoopPass, Invaders!extraDue, CabTypes
<1>13. CASE Invaders!GameOver
  BY <1>13 DEF Invaders!GameOver, CabTypes
<1>14. CASE Invaders!NewRound
  BY <1>14 DEF Invaders!NewRound, CabTypes
<1>15. CASE Invaders!DoJ
  BY <1>15 DEF Invaders!DoJ, CabTypes
<1>16. CASE Invaders!Invasion
  BY <1>16 DEF Invaders!Invasion, CabTypes
<1>17. CASE Invaders!LastStand
  BY <1>17 DEF Invaders!LastStand, CabTypes
<1>18. CASE Invaders!Tilt
  BY <1>18 DEF Invaders!Tilt, CabTypes
<1>19. ASSUME NEW buttons \in Invaders!Buttons, Invaders!PromptWaits(buttons) PROVE Gates'
  BY <1>19 DEF Invaders!PromptWaits, CabTypes
<1>20. ASSUME NEW buttons \in Invaders!Buttons, Invaders!StartGame(buttons) PROVE Gates'
  BY <1>20 DEF Invaders!StartGame, CabTypes
<1>21. CASE Invaders!MidScreen
  BY <1>21 DEF Invaders!MidScreen, Invaders!FleetMarches, Invaders!lands, CabTypes
<1>22. CASE Invaders!TiltSwitch
  BY <1>22 DEF Invaders!TiltSwitch, CabTypes
<1>23. CASE Invaders!VblankAttract
  BY <1>23 DEF Invaders!VblankAttract, CabTypes
<1>24. CASE Invaders!ShowCredit
  BY <1>24 DEF Invaders!ShowCredit, CabTypes
<1>25. CASE Invaders!VblankField
  BY <1>25 DEF Invaders!VblankField, CabTypes
<1>26. CASE Invaders!ShipLost
  BY <1>26 DEF Invaders!ShipLost, Invaders!afterDeath, CabTypes
<1>27. QED
  BY <1>1, <1>2, <1>3, <1>4, <1>5, <1>6, <1>7, <1>8, <1>9, <1>10, <1>11, <1>12, <1>13, <1>14,
      <1>15, <1>16, <1>17, <1>18, <1>19, <1>20, <1>21, <1>22, <1>23, <1>24, <1>25, <1>26 DEF
      Invaders!Next, Invaders!Main, Invaders!WaitEnds

\* The restart switch is on from a landing to the next seed.
LEMMA SwitchKept == ASSUME CabInv, Invaders!Next PROVE Switch'
<1> USE ShipsAssumption, CreditAssumption, FieldAssumption DEF CabInv, Player, Other, Nobody,
    Invaders!Player, Invaders!Other, Invaders!Nobody, Invaders!coinVars, Invaders!gates,
    Invaders!seats, Invaders!field, Invaders!points, Invaders!Resumed, Invaders!GoOn,
    Invaders!Yield, Invaders!Vblank, Invaders!Serviced, Invaders!Seeded, Invaders!InGame, Switch
<1>1. CASE Invaders!WaitOn
  BY <1>1 DEF Invaders!WaitOn, Invaders!Waits, CabTypes, Gates, OfGame
<1>2. CASE Invaders!DemoBegins
  BY <1>2 DEF Invaders!DemoBegins, CabTypes, Gates, OfGame
<1>3. CASE Invaders!DemoEnds
  BY <1>3 DEF Invaders!DemoEnds, CabTypes, Gates, OfGame
<1>4. CASE Invaders!SplashEnds
  BY <1>4 DEF Invaders!SplashEnds, CabTypes, Gates, OfGame
<1>5. CASE Invaders!HandoffEnds
  BY <1>5 DEF Invaders!HandoffEnds, CabTypes, Gates, OfGame
<1>6. CASE Invaders!BannerEnds
  BY <1>6 DEF Invaders!BannerEnds, Invaders!nextUp, CabTypes, Gates, OfGame
<1>7. CASE Invaders!HandoverEnds
  BY <1>7 DEF Invaders!HandoverEnds, CabTypes, Gates, OfGame
<1>8. CASE Invaders!TeardownEnds
  BY <1>8 DEF Invaders!TeardownEnds, Invaders!Empty, CabTypes, Gates, OfGame
<1>9. CASE Invaders!TiltEnds
  BY <1>9 DEF Invaders!TiltEnds, Invaders!shownAfterTilt, CabTypes, Gates, OfGame
<1>10. CASE Invaders!Restart
  BY <1>10 DEF Invaders!Restart, CabTypes, Gates, OfGame
<1>11. CASE Invaders!CreditScreen
  BY <1>11 DEF Invaders!CreditScreen, CabTypes, Gates, OfGame
<1>12. CASE Invaders!LoopPass
  BY <1>12 DEF Invaders!LoopPass, Invaders!extraDue, CabTypes, Gates, OfGame
<1>13. CASE Invaders!GameOver
  BY <1>13 DEF Invaders!GameOver, CabTypes, Gates, OfGame
<1>14. CASE Invaders!NewRound
  BY <1>14 DEF Invaders!NewRound, CabTypes, Gates, OfGame
<1>15. CASE Invaders!DoJ
  BY <1>15 DEF Invaders!DoJ, CabTypes, Gates, OfGame
<1>16. CASE Invaders!Invasion
  BY <1>16 DEF Invaders!Invasion, CabTypes, Gates, OfGame
<1>17. CASE Invaders!LastStand
  BY <1>17 DEF Invaders!LastStand, CabTypes, Gates, OfGame
<1>18. CASE Invaders!Tilt
  BY <1>18 DEF Invaders!Tilt, CabTypes, Gates, OfGame
<1>19. ASSUME NEW buttons \in Invaders!Buttons, Invaders!PromptWaits(buttons) PROVE Switch'
  BY <1>19 DEF Invaders!PromptWaits, CabTypes, Gates, OfGame
<1>20. ASSUME NEW buttons \in Invaders!Buttons, Invaders!StartGame(buttons) PROVE Switch'
  BY <1>20 DEF Invaders!StartGame, CabTypes, Gates, OfGame
<1>21. CASE Invaders!MidScreen
  BY <1>21 DEF Invaders!MidScreen, Invaders!FleetMarches, Invaders!lands, CabTypes, Gates,
      OfGame
<1>22. CASE Invaders!TiltSwitch
  BY <1>22 DEF Invaders!TiltSwitch, CabTypes, Gates, OfGame
<1>23. CASE Invaders!VblankAttract
  BY <1>23 DEF Invaders!VblankAttract, CabTypes, Gates, OfGame
<1>24. CASE Invaders!ShowCredit
  BY <1>24 DEF Invaders!ShowCredit, CabTypes, Gates, OfGame
<1>25. CASE Invaders!VblankField
  BY <1>25 DEF Invaders!VblankField, CabTypes, Gates, OfGame
<1>26. CASE Invaders!ShipLost
  BY <1>26 DEF Invaders!ShipLost, Invaders!afterDeath, CabTypes, Gates, OfGame
<1>27. QED
  BY <1>1, <1>2, <1>3, <1>4, <1>5, <1>6, <1>7, <1>8, <1>9, <1>10, <1>11, <1>12, <1>13, <1>14,
      <1>15, <1>16, <1>17, <1>18, <1>19, <1>20, <1>21, <1>22, <1>23, <1>24, <1>25, <1>26 DEF
      Invaders!Next, Invaders!Main, Invaders!WaitEnds

\* What asked for a flow still holds when it starts.
LEMMA OutcomeKept == ASSUME CabInv, Invaders!Next PROVE Outcome'
<1> USE ShipsAssumption, CreditAssumption, FieldAssumption DEF CabInv, Player, Other, Nobody,
    Invaders!Player, Invaders!Other, Invaders!Nobody, Invaders!coinVars, Invaders!gates,
    Invaders!seats, Invaders!field, Invaders!points, Invaders!Resumed, Invaders!GoOn,
    Invaders!Yield, Invaders!Vblank, Invaders!Serviced, Invaders!Seeded, Invaders!InGame,
    Outcome, Asked
<1>1. CASE Invaders!WaitOn
  BY <1>1 DEF Invaders!WaitOn, Invaders!Waits, CabTypes, Fleet, Ships, Gates, OfGame
<1>2. CASE Invaders!DemoBegins
  BY <1>2 DEF Invaders!DemoBegins, Invaders!NewWave, CabTypes, Fleet, Ships, Gates, OfGame
<1>3. CASE Invaders!DemoEnds
  BY <1>3 DEF Invaders!DemoEnds, CabTypes, Fleet, Ships, Gates, OfGame
<1>4. CASE Invaders!SplashEnds
  BY <1>4 DEF Invaders!SplashEnds, Invaders!reloaded, CabTypes, Fleet, Ships, Gates, OfGame
<1>5. CASE Invaders!HandoffEnds
  BY <1>5 DEF Invaders!HandoffEnds, Invaders!NewWave, CabTypes, Fleet, Ships, Gates, OfGame
<1>6. CASE Invaders!BannerEnds
  BY <1>6 DEF Invaders!BannerEnds, Invaders!nextUp, CabTypes, Fleet, Ships, Gates, OfGame
<1>7. CASE Invaders!HandoverEnds
  BY <1>7 DEF Invaders!HandoverEnds, Invaders!TakeShip, Invaders!Spent, CabTypes, Fleet, Ships, Gates, OfGame
<1>8. CASE Invaders!TeardownEnds
  BY <1>8 DEF Invaders!TeardownEnds, Invaders!Empty, Invaders!Zero, CabTypes, Fleet, Ships,
      Gates, OfGame
<1>9. CASE Invaders!TiltEnds
  BY <1>9 DEF Invaders!TiltEnds, Invaders!shownAfterTilt, CabTypes, Fleet, Ships, Gates, OfGame
<1>10. CASE Invaders!Restart
  BY <1>10 DEF Invaders!Restart, CabTypes, Fleet, Ships, Gates, OfGame
<1>11. CASE Invaders!CreditScreen
  BY <1>11 DEF Invaders!CreditScreen, CabTypes, Fleet, Ships, Gates, OfGame
<1>12. CASE Invaders!LoopPass
  BY <1>12 DEF Invaders!LoopPass, Invaders!Shot, Invaders!NoPacket, Invaders!ShotAt,
      Invaders!extraDue, CabTypes, Fleet, Ships, Gates, OfGame
<1>13. CASE Invaders!GameOver
  BY <1>13 DEF Invaders!GameOver, CabTypes, Fleet, Ships, Gates, OfGame
<1>14. CASE Invaders!NewRound
  BY <1>14 DEF Invaders!NewRound, CabTypes, Fleet, Ships, Gates, OfGame
<1>15. CASE Invaders!DoJ
  BY <1>15 DEF Invaders!DoJ, Invaders!TakeShip, Invaders!Spent, CabTypes, Fleet, Ships, Gates, OfGame
<1>16. CASE Invaders!Invasion
  BY <1>16 DEF Invaders!Invasion, CabTypes, Fleet, Ships, Gates, OfGame
<1>17. CASE Invaders!LastStand
  BY <1>17 DEF Invaders!LastStand, Invaders!Shot, Invaders!ShotAt, CabTypes, Fleet, Ships,
      Gates, OfGame
<1>18. CASE Invaders!Tilt
  BY <1>18 DEF Invaders!Tilt, CabTypes, Fleet, Ships, Gates, OfGame
<1>19. ASSUME NEW buttons \in Invaders!Buttons, Invaders!PromptWaits(buttons) PROVE Outcome'
  BY <1>19 DEF Invaders!PromptWaits, CabTypes, Fleet, Ships, Gates, OfGame
<1>20. ASSUME NEW buttons \in Invaders!Buttons, Invaders!StartGame(buttons) PROVE Outcome'
  BY <1>20 DEF Invaders!StartGame, Invaders!Zero, CabTypes, Fleet, Ships, Gates, OfGame
<1>21. CASE Invaders!MidScreen
  BY <1>21 DEF Invaders!MidScreen, Invaders!ShotsFall, Invaders!FleetMarches, Invaders!lands,
      CabTypes, Fleet, Ships, Gates, OfGame
<1>22. CASE Invaders!TiltSwitch
  BY <1>22 DEF Invaders!TiltSwitch, CabTypes, Fleet, Ships, Gates, OfGame
<1>23. CASE Invaders!VblankAttract
  BY <1>23 DEF Invaders!VblankAttract, CabTypes, Fleet, Ships, Gates, OfGame
<1>24. CASE Invaders!ShowCredit
  BY <1>24 DEF Invaders!ShowCredit, CabTypes, Fleet, Ships, Gates, OfGame
<1>25. CASE Invaders!VblankField
  BY <1>25 DEF Invaders!VblankField, CabTypes, Fleet, Ships, Gates, OfGame
<1>26. CASE Invaders!ShipLost
  BY <1>26 DEF Invaders!ShipLost, Invaders!afterDeath, CabTypes, Fleet, Ships, Gates, OfGame
<1>27. QED
  BY <1>1, <1>2, <1>3, <1>4, <1>5, <1>6, <1>7, <1>8, <1>9, <1>10, <1>11, <1>12, <1>13, <1>14,
      <1>15, <1>16, <1>17, <1>18, <1>19, <1>20, <1>21, <1>22, <1>23, <1>24, <1>25, <1>26 DEF
      Invaders!Next, Invaders!Main, Invaders!WaitEnds

\* The fleet in work RAM is the one of the player at play.
LEMMA FleetKept == ASSUME CabInv, Invaders!Next PROVE Fleet'
<1> USE ShipsAssumption, CreditAssumption, FieldAssumption DEF CabInv, Player, Other, Nobody,
    Invaders!Player, Invaders!Other, Invaders!Nobody, Invaders!coinVars, Invaders!gates,
    Invaders!seats, Invaders!field, Invaders!points, Invaders!Resumed, Invaders!GoOn,
    Invaders!Yield, Invaders!Vblank, Invaders!Serviced, Invaders!Seeded, Invaders!InGame, Fleet
<1>1. CASE Invaders!WaitOn
  BY <1>1 DEF Invaders!WaitOn, Invaders!Waits, CabTypes, Outcome, Asked, Ships, Gates, OfGame
<1>2. CASE Invaders!DemoBegins
  BY <1>2 DEF Invaders!DemoBegins, Invaders!NewWave, CabTypes, Outcome, Asked, Ships, Gates,
      OfGame
<1>3. CASE Invaders!DemoEnds
  BY <1>3 DEF Invaders!DemoEnds, CabTypes, Outcome, Asked, Ships, Gates, OfGame
<1>4. CASE Invaders!SplashEnds
  BY <1>4 DEF Invaders!SplashEnds, Invaders!reloaded, CabTypes, Outcome, Asked, Ships, Gates,
      OfGame
<1>5. CASE Invaders!HandoffEnds
  BY <1>5 DEF Invaders!HandoffEnds, Invaders!NewWave, CabTypes, Outcome, Asked, Ships, Gates,
      OfGame
<1>6. CASE Invaders!BannerEnds
  BY <1>6 DEF Invaders!BannerEnds, Invaders!nextUp, CabTypes, Outcome, Asked, Ships, Gates,
      OfGame
<1>7. CASE Invaders!HandoverEnds
  BY <1>7 DEF Invaders!HandoverEnds, Invaders!TakeShip, Invaders!Spent, CabTypes, Outcome, Asked, Ships, Gates,
      OfGame
<1>8. CASE Invaders!TeardownEnds
  BY <1>8 DEF Invaders!TeardownEnds, Invaders!Empty, Invaders!Zero, CabTypes, Outcome, Asked,
      Ships, Gates, OfGame
<1>9. CASE Invaders!TiltEnds
  BY <1>9 DEF Invaders!TiltEnds, Invaders!shownAfterTilt, CabTypes, Outcome, Asked, Ships,
      Gates, OfGame
<1>10. CASE Invaders!Restart
  BY <1>10 DEF Invaders!Restart, CabTypes, Outcome, Asked, Ships, Gates, OfGame
<1>11. CASE Invaders!CreditScreen
  BY <1>11 DEF Invaders!CreditScreen, CabTypes, Outcome, Asked, Ships, Gates, OfGame
<1>12. CASE Invaders!LoopPass
  BY <1>12 DEF Invaders!LoopPass, Invaders!Shot, Invaders!NoPacket, Invaders!ShotAt,
      Invaders!extraDue, CabTypes, Outcome, Asked, Ships, Gates, OfGame
<1>13. CASE Invaders!GameOver
  BY <1>13 DEF Invaders!GameOver, CabTypes, Outcome, Asked, Ships, Gates, OfGame
<1>14. CASE Invaders!NewRound
  BY <1>14 DEF Invaders!NewRound, CabTypes, Outcome, Asked, Ships, Gates, OfGame
<1>15. CASE Invaders!DoJ
  BY <1>15 DEF Invaders!DoJ, Invaders!TakeShip, Invaders!Spent, CabTypes, Outcome, Asked, Ships, Gates, OfGame
<1>16. CASE Invaders!Invasion
  BY <1>16 DEF Invaders!Invasion, CabTypes, Outcome, Asked, Ships, Gates, OfGame
<1>17. CASE Invaders!LastStand
  BY <1>17 DEF Invaders!LastStand, Invaders!Shot, Invaders!ShotAt, CabTypes, Outcome, Asked,
      Ships, Gates, OfGame
<1>18. CASE Invaders!Tilt
  BY <1>18 DEF Invaders!Tilt, CabTypes, Outcome, Asked, Ships, Gates, OfGame
<1>19. ASSUME NEW buttons \in Invaders!Buttons, Invaders!PromptWaits(buttons) PROVE Fleet'
  BY <1>19 DEF Invaders!PromptWaits, CabTypes, Outcome, Asked, Ships, Gates, OfGame
<1>20. ASSUME NEW buttons \in Invaders!Buttons, Invaders!StartGame(buttons) PROVE Fleet'
  BY <1>20 DEF Invaders!StartGame, Invaders!Zero, CabTypes, Outcome, Asked, Ships, Gates, OfGame
<1>21. CASE Invaders!MidScreen
  BY <1>21 DEF Invaders!MidScreen, Invaders!ShotsFall, Invaders!FleetMarches, Invaders!lands,
      CabTypes, Outcome, Asked, Ships, Gates, OfGame
<1>22. CASE Invaders!TiltSwitch
  BY <1>22 DEF Invaders!TiltSwitch, CabTypes, Outcome, Asked, Ships, Gates, OfGame
<1>23. CASE Invaders!VblankAttract
  BY <1>23 DEF Invaders!VblankAttract, CabTypes, Outcome, Asked, Ships, Gates, OfGame
<1>24. CASE Invaders!ShowCredit
  BY <1>24 DEF Invaders!ShowCredit, CabTypes, Outcome, Asked, Ships, Gates, OfGame
<1>25. CASE Invaders!VblankField
  BY <1>25 DEF Invaders!VblankField, CabTypes, Outcome, Asked, Ships, Gates, OfGame
<1>26. CASE Invaders!ShipLost
  BY <1>26 DEF Invaders!ShipLost, Invaders!afterDeath, CabTypes, Outcome, Asked, Ships, Gates,
      OfGame
<1>27. QED
  BY <1>1, <1>2, <1>3, <1>4, <1>5, <1>6, <1>7, <1>8, <1>9, <1>10, <1>11, <1>12, <1>13, <1>14,
      <1>15, <1>16, <1>17, <1>18, <1>19, <1>20, <1>21, <1>22, <1>23, <1>24, <1>25, <1>26 DEF
      Invaders!Next, Invaders!Main, Invaders!WaitEnds

\* Ships taken and awarded, and the extra ship.
LEMMA ShipsKept == ASSUME CabInv, Invaders!Next PROVE Ships'
<1> USE ShipsAssumption, CreditAssumption, FieldAssumption DEF CabInv, Player, Other, Nobody,
    Invaders!Player, Invaders!Other, Invaders!Nobody, Invaders!coinVars, Invaders!gates,
    Invaders!seats, Invaders!field, Invaders!points, Invaders!Resumed, Invaders!GoOn,
    Invaders!Yield, Invaders!Vblank, Invaders!Serviced, Invaders!Seeded, Invaders!InGame, Ships,
    Invaders!ShipsAccounted, Invaders!Playing
<1>1. CASE Invaders!WaitOn
  BY <1>1 DEF Invaders!WaitOn, Invaders!Waits, CabTypes, Outcome, Asked, Gates, OfGame, Fleet
<1>2. CASE Invaders!DemoBegins
  BY <1>2 DEF Invaders!DemoBegins, Invaders!NewWave, CabTypes, Outcome, Asked, Gates, OfGame,
      Fleet
<1>3. CASE Invaders!DemoEnds
  BY <1>3 DEF Invaders!DemoEnds, CabTypes, Outcome, Asked, Gates, OfGame, Fleet
<1>4. CASE Invaders!SplashEnds
  BY <1>4 DEF Invaders!SplashEnds, Invaders!reloaded, CabTypes, Outcome, Asked, Gates, OfGame,
      Fleet
<1>5. CASE Invaders!HandoffEnds
  BY <1>5 DEF Invaders!HandoffEnds, Invaders!NewWave, CabTypes, Outcome, Asked, Gates, OfGame,
      Fleet
<1>6. CASE Invaders!BannerEnds
  BY <1>6 DEF Invaders!BannerEnds, Invaders!nextUp, CabTypes, Outcome, Asked, Gates, OfGame,
      Fleet
<1>7. CASE Invaders!HandoverEnds
  BY <1>7 DEF Invaders!HandoverEnds, Invaders!TakeShip, Invaders!Spent, CabTypes, Outcome, Asked, Gates,
      OfGame, Fleet
<1>8. CASE Invaders!TeardownEnds
  BY <1>8 DEF Invaders!TeardownEnds, Invaders!Empty, Invaders!Zero, CabTypes, Outcome, Asked,
      Gates, OfGame, Fleet
<1>9. CASE Invaders!TiltEnds
  BY <1>9 DEF Invaders!TiltEnds, Invaders!shownAfterTilt, CabTypes, Outcome, Asked, Gates,
      OfGame, Fleet
<1>10. CASE Invaders!Restart
  BY <1>10 DEF Invaders!Restart, CabTypes, Outcome, Asked, Gates, OfGame, Fleet
<1>11. CASE Invaders!CreditScreen
  BY <1>11 DEF Invaders!CreditScreen, CabTypes, Outcome, Asked, Gates, OfGame, Fleet
<1>12. CASE Invaders!LoopPass
  <2>1. Passed
    BY <1>12, Pass
  <2>2. ASSUME NEW p \in Player, GAME_IN_PROGRESS, cabScore'[p] >= Threshold, extra'[p]
        PROVE  aliens'[p] = 0
    <3>1. CASE p = player
      BY <2>1, <2>2, <3>1 DEF Passed
    <3>2. CASE p # player
      BY <2>1, <2>2, <3>2 DEF Passed
    <3>3. QED
      BY <3>1, <3>2
  <2>3. ASSUME NEW p \in Player, GAME_IN_PROGRESS, cabTwo \/ p = 0
        PROVE  /\ ships'[p] + used[p] = StartingShips + (IF extra'[p] THEN 0 ELSE 1)
               /\ ~alive[p] => ships'[p] = 0 \/ stands[p] = Bottom
    <3>1. CASE p = player
      <4>1. alive[p]
        BY <2>1, <2>3, <3>1 DEF Passed
      <4>2. ships[p] + used[p] = StartingShips + (IF extra[p] THEN 0 ELSE 1)
        BY <2>3
      <4>3. ships'[p] + One(extra'[p]) = ships[p] + One(extra[p])
        BY <2>1, <3>1 DEF Passed
      <4>4. /\ ships'[p] \in Nat /\ ships[p] \in Nat /\ used[p] \in Nat
            /\ extra[p] \in BOOLEAN /\ extra'[p] \in BOOLEAN
        BY <2>1 DEF Passed, CabTypes
      <4>5. QED
        <5> HIDE DEF CabInv, Ships
        <5>1. QED
          BY <4>1, <4>2, <4>3, <4>4 DEF One
    <3>2. CASE p # player
      BY <2>1, <2>3, <3>2 DEF Passed, CabTypes
    <3>3. QED
      BY <3>1, <3>2
  <2>4. QED
    BY <2>1, <2>2, <2>3 DEF Passed, CabTypes
<1>13. CASE Invaders!GameOver
  BY <1>13 DEF Invaders!GameOver, CabTypes, Outcome, Asked, Gates, OfGame, Fleet
<1>14. CASE Invaders!NewRound
  BY <1>14 DEF Invaders!NewRound, CabTypes, Outcome, Asked, Gates, OfGame, Fleet
<1>15. CASE Invaders!DoJ
  BY <1>15 DEF Invaders!DoJ, Invaders!TakeShip, Invaders!Spent, CabTypes, Outcome, Asked, Gates, OfGame, Fleet
<1>16. CASE Invaders!Invasion
  BY <1>16 DEF Invaders!Invasion, CabTypes, Outcome, Asked, Gates, OfGame, Fleet
<1>17. CASE Invaders!LastStand
  BY <1>17 DEF Invaders!LastStand, Invaders!Shot, Invaders!ShotAt, CabTypes, Outcome, Asked,
      Gates, OfGame, Fleet
<1>18. CASE Invaders!Tilt
  BY <1>18 DEF Invaders!Tilt, CabTypes, Outcome, Asked, Gates, OfGame, Fleet
<1>19. ASSUME NEW buttons \in Invaders!Buttons, Invaders!PromptWaits(buttons) PROVE Ships'
  BY <1>19 DEF Invaders!PromptWaits, CabTypes, Outcome, Asked, Gates, OfGame, Fleet
<1>20. ASSUME NEW buttons \in Invaders!Buttons, Invaders!StartGame(buttons) PROVE Ships'
  BY <1>20 DEF Invaders!StartGame, Invaders!Zero, CabTypes, Outcome, Asked, Gates, OfGame, Fleet
<1>21. CASE Invaders!MidScreen
  BY <1>21 DEF Invaders!MidScreen, Invaders!ShotsFall, Invaders!FleetMarches, Invaders!lands,
      CabTypes, Outcome, Asked, Gates, OfGame, Fleet
<1>22. CASE Invaders!TiltSwitch
  BY <1>22 DEF Invaders!TiltSwitch, CabTypes, Outcome, Asked, Gates, OfGame, Fleet
<1>23. CASE Invaders!VblankAttract
  BY <1>23 DEF Invaders!VblankAttract, CabTypes, Outcome, Asked, Gates, OfGame, Fleet
<1>24. CASE Invaders!ShowCredit
  BY <1>24 DEF Invaders!ShowCredit, CabTypes, Outcome, Asked, Gates, OfGame, Fleet
<1>25. CASE Invaders!VblankField
  BY <1>25 DEF Invaders!VblankField, CabTypes, Outcome, Asked, Gates, OfGame, Fleet
<1>26. CASE Invaders!ShipLost
  BY <1>26 DEF Invaders!ShipLost, Invaders!afterDeath, CabTypes, Outcome, Asked, Gates, OfGame,
      Fleet
<1>27. QED
  BY <1>1, <1>2, <1>3, <1>4, <1>5, <1>6, <1>7, <1>8, <1>9, <1>10, <1>11, <1>12, <1>13, <1>14,
      <1>15, <1>16, <1>17, <1>18, <1>19, <1>20, <1>21, <1>22, <1>23, <1>24, <1>25, <1>26 DEF
      Invaders!Next, Invaders!Main, Invaders!WaitEnds

\* The turns go about.
LEMMA RoundsKept == ASSUME CabInv, Invaders!Next PROVE Rounds'
<1> USE ShipsAssumption, CreditAssumption, FieldAssumption DEF CabInv, Player, Other, Nobody,
    Invaders!Player, Invaders!Other, Invaders!Nobody, Invaders!coinVars, Invaders!gates,
    Invaders!seats, Invaders!field, Invaders!points, Invaders!Resumed, Invaders!GoOn,
    Invaders!Yield, Invaders!Vblank, Invaders!Serviced, Invaders!Seeded, Invaders!InGame, Rounds
<1>1. CASE Invaders!WaitOn
  BY <1>1 DEF Invaders!WaitOn, Invaders!Waits, CabTypes, Gates, OfGame, Outcome, Asked, Ships
<1>2. CASE Invaders!DemoBegins
  BY <1>2 DEF Invaders!DemoBegins, Invaders!NewWave, CabTypes, Gates, OfGame, Outcome, Asked,
      Ships
<1>3. CASE Invaders!DemoEnds
  BY <1>3 DEF Invaders!DemoEnds, CabTypes, Gates, OfGame, Outcome, Asked, Ships
<1>4. CASE Invaders!SplashEnds
  BY <1>4 DEF Invaders!SplashEnds, Invaders!reloaded, CabTypes, Gates, OfGame, Outcome, Asked,
      Ships
<1>5. CASE Invaders!HandoffEnds
  BY <1>5 DEF Invaders!HandoffEnds, Invaders!NewWave, CabTypes, Gates, OfGame, Outcome, Asked,
      Ships
<1>6. CASE Invaders!BannerEnds
  BY <1>6 DEF Invaders!BannerEnds, Invaders!nextUp, CabTypes, Gates, OfGame, Outcome, Asked,
      Ships
<1>7. CASE Invaders!HandoverEnds
  BY <1>7 DEF Invaders!HandoverEnds, Invaders!TakeShip, Invaders!Spent, CabTypes, Gates, OfGame, Outcome,
      Asked, Ships
<1>8. CASE Invaders!TeardownEnds
  BY <1>8 DEF Invaders!TeardownEnds, Invaders!Empty, Invaders!Zero, CabTypes, Gates, OfGame,
      Outcome, Asked, Ships
<1>9. CASE Invaders!TiltEnds
  BY <1>9 DEF Invaders!TiltEnds, Invaders!shownAfterTilt, CabTypes, Gates, OfGame, Outcome,
      Asked, Ships
<1>10. CASE Invaders!Restart
  BY <1>10 DEF Invaders!Restart, CabTypes, Gates, OfGame, Outcome, Asked, Ships
<1>11. CASE Invaders!CreditScreen
  BY <1>11 DEF Invaders!CreditScreen, CabTypes, Gates, OfGame, Outcome, Asked, Ships
<1>12. CASE Invaders!LoopPass
  BY <1>12 DEF Invaders!LoopPass, Invaders!Shot, Invaders!NoPacket, Invaders!ShotAt,
      Invaders!extraDue, CabTypes, Gates, OfGame, Outcome, Asked, Ships
<1>13. CASE Invaders!GameOver
  BY <1>13 DEF Invaders!GameOver, CabTypes, Gates, OfGame, Outcome, Asked, Ships
<1>14. CASE Invaders!NewRound
  BY <1>14 DEF Invaders!NewRound, CabTypes, Gates, OfGame, Outcome, Asked, Ships
<1>15. CASE Invaders!DoJ
  BY <1>15 DEF Invaders!DoJ, Invaders!TakeShip, Invaders!Spent, CabTypes, Gates, OfGame, Outcome, Asked, Ships
<1>16. CASE Invaders!Invasion
  BY <1>16 DEF Invaders!Invasion, CabTypes, Gates, OfGame, Outcome, Asked, Ships
<1>17. CASE Invaders!LastStand
  BY <1>17 DEF Invaders!LastStand, Invaders!Shot, Invaders!ShotAt, CabTypes, Gates, OfGame,
      Outcome, Asked, Ships
<1>18. CASE Invaders!Tilt
  BY <1>18 DEF Invaders!Tilt, CabTypes, Gates, OfGame, Outcome, Asked, Ships
<1>19. ASSUME NEW buttons \in Invaders!Buttons, Invaders!PromptWaits(buttons) PROVE Rounds'
  BY <1>19 DEF Invaders!PromptWaits, CabTypes, Gates, OfGame, Outcome, Asked, Ships
<1>20. ASSUME NEW buttons \in Invaders!Buttons, Invaders!StartGame(buttons) PROVE Rounds'
  BY <1>20 DEF Invaders!StartGame, Invaders!Zero, CabTypes, Gates, OfGame, Outcome, Asked, Ships
<1>21. CASE Invaders!MidScreen
  BY <1>21 DEF Invaders!MidScreen, Invaders!ShotsFall, Invaders!FleetMarches, Invaders!lands,
      CabTypes, Gates, OfGame, Outcome, Asked, Ships
<1>22. CASE Invaders!TiltSwitch
  BY <1>22 DEF Invaders!TiltSwitch, CabTypes, Gates, OfGame, Outcome, Asked, Ships
<1>23. CASE Invaders!VblankAttract
  BY <1>23 DEF Invaders!VblankAttract, CabTypes, Gates, OfGame, Outcome, Asked, Ships
<1>24. CASE Invaders!ShowCredit
  BY <1>24 DEF Invaders!ShowCredit, CabTypes, Gates, OfGame, Outcome, Asked, Ships
<1>25. CASE Invaders!VblankField
  BY <1>25 DEF Invaders!VblankField, CabTypes, Gates, OfGame, Outcome, Asked, Ships
<1>26. CASE Invaders!ShipLost
  BY <1>26 DEF Invaders!ShipLost, Invaders!afterDeath, CabTypes, Gates, OfGame, Outcome, Asked,
      Ships
<1>27. QED
  BY <1>1, <1>2, <1>3, <1>4, <1>5, <1>6, <1>7, <1>8, <1>9, <1>10, <1>11, <1>12, <1>13, <1>14,
      <1>15, <1>16, <1>17, <1>18, <1>19, <1>20, <1>21, <1>22, <1>23, <1>24, <1>25, <1>26 DEF
      Invaders!Next, Invaders!Main, Invaders!WaitEnds

\* The ship was lost in play, with nothing else asked for.
LEMMA TurnoverKept == ASSUME CabInv, Invaders!Next PROVE Turnover'
<1> USE ShipsAssumption, CreditAssumption, FieldAssumption DEF CabInv, Player, Other, Nobody,
    Invaders!Player, Invaders!Other, Invaders!Nobody, Invaders!coinVars, Invaders!gates,
    Invaders!seats, Invaders!field, Invaders!points, Invaders!Resumed, Invaders!GoOn,
    Invaders!Yield, Invaders!Vblank, Invaders!Serviced, Invaders!Seeded, Invaders!InGame,
    Invaders!due, Turnover
<1>1. CASE Invaders!WaitOn
  BY <1>1 DEF Invaders!WaitOn, Invaders!Waits, CabTypes, Gates, OfGame, Outcome, Asked, Rounds, Switch
<1>2. CASE Invaders!DemoBegins
  BY <1>2 DEF Invaders!DemoBegins, Invaders!NewWave, CabTypes, Gates, OfGame, Outcome, Asked,
      Rounds, Switch
<1>3. CASE Invaders!DemoEnds
  BY <1>3 DEF Invaders!DemoEnds, CabTypes, Gates, OfGame, Outcome, Asked, Rounds, Switch
<1>4. CASE Invaders!SplashEnds
  BY <1>4 DEF Invaders!SplashEnds, Invaders!reloaded, CabTypes, Gates, OfGame, Outcome, Asked,
      Rounds, Switch
<1>5. CASE Invaders!HandoffEnds
  BY <1>5 DEF Invaders!HandoffEnds, Invaders!NewWave, CabTypes, Gates, OfGame, Outcome, Asked,
      Rounds, Switch
<1>6. CASE Invaders!BannerEnds
  BY <1>6 DEF Invaders!BannerEnds, Invaders!nextUp, CabTypes, Gates, OfGame, Outcome, Asked,
      Rounds, Switch
<1>7. CASE Invaders!HandoverEnds
  BY <1>7 DEF Invaders!HandoverEnds, Invaders!TakeShip, Invaders!Spent, CabTypes, Gates, OfGame, Outcome,
      Asked, Rounds, Switch
<1>8. CASE Invaders!TeardownEnds
  BY <1>8 DEF Invaders!TeardownEnds, Invaders!Empty, Invaders!Zero, CabTypes, Gates, OfGame,
      Outcome, Asked, Rounds, Switch
<1>9. CASE Invaders!TiltEnds
  BY <1>9 DEF Invaders!TiltEnds, Invaders!shownAfterTilt, CabTypes, Gates, OfGame, Outcome,
      Asked, Rounds, Switch
<1>10. CASE Invaders!Restart
  BY <1>10 DEF Invaders!Restart, CabTypes, Gates, OfGame, Outcome, Asked, Rounds, Switch
<1>11. CASE Invaders!CreditScreen
  BY <1>11 DEF Invaders!CreditScreen, CabTypes, Gates, OfGame, Outcome, Asked, Rounds, Switch
<1>12. CASE Invaders!LoopPass
  BY <1>12 DEF Invaders!LoopPass, Invaders!Shot, Invaders!NoPacket, Invaders!ShotAt,
      Invaders!extraDue, CabTypes, Gates, OfGame, Outcome, Asked, Rounds, Switch
<1>13. CASE Invaders!GameOver
  BY <1>13 DEF Invaders!GameOver, CabTypes, Gates, OfGame, Outcome, Asked, Rounds, Switch
<1>14. CASE Invaders!NewRound
  BY <1>14 DEF Invaders!NewRound, CabTypes, Gates, OfGame, Outcome, Asked, Rounds, Switch
<1>15. CASE Invaders!DoJ
  BY <1>15 DEF Invaders!DoJ, Invaders!TakeShip, Invaders!Spent, CabTypes, Gates, OfGame, Outcome, Asked, Rounds, Switch
<1>16. CASE Invaders!Invasion
  BY <1>16 DEF Invaders!Invasion, CabTypes, Gates, OfGame, Outcome, Asked, Rounds, Switch
<1>17. CASE Invaders!LastStand
  BY <1>17 DEF Invaders!LastStand, Invaders!Shot, Invaders!ShotAt, CabTypes, Gates, OfGame,
      Outcome, Asked, Rounds, Switch
<1>18. CASE Invaders!Tilt
  BY <1>18 DEF Invaders!Tilt, CabTypes, Gates, OfGame, Outcome, Asked, Rounds, Switch
<1>19. ASSUME NEW buttons \in Invaders!Buttons, Invaders!PromptWaits(buttons) PROVE Turnover'
  BY <1>19 DEF Invaders!PromptWaits, CabTypes, Gates, OfGame, Outcome, Asked, Rounds, Switch
<1>20. ASSUME NEW buttons \in Invaders!Buttons, Invaders!StartGame(buttons) PROVE Turnover'
  BY <1>20 DEF Invaders!StartGame, Invaders!Zero, CabTypes, Gates, OfGame, Outcome, Asked, Rounds, Switch
<1>21. CASE Invaders!MidScreen
  BY <1>21 DEF Invaders!MidScreen, Invaders!ShotsFall, Invaders!FleetMarches, Invaders!lands,
      CabTypes, Gates, OfGame, Outcome, Asked, Rounds, Switch
<1>22. CASE Invaders!TiltSwitch
  BY <1>22 DEF Invaders!TiltSwitch, CabTypes, Gates, OfGame, Outcome, Asked, Rounds, Switch
<1>23. CASE Invaders!VblankAttract
  BY <1>23 DEF Invaders!VblankAttract, CabTypes, Gates, OfGame, Outcome, Asked, Rounds, Switch
<1>24. CASE Invaders!ShowCredit
  BY <1>24 DEF Invaders!ShowCredit, CabTypes, Gates, OfGame, Outcome, Asked, Rounds, Switch
<1>25. CASE Invaders!VblankField
  BY <1>25 DEF Invaders!VblankField, CabTypes, Gates, OfGame, Outcome, Asked, Rounds, Switch
<1>26. CASE Invaders!ShipLost
  BY <1>26 DEF Invaders!ShipLost, Invaders!afterDeath, CabTypes, Gates, OfGame, Outcome, Asked,
      Rounds, Switch
<1>27. QED
  BY <1>1, <1>2, <1>3, <1>4, <1>5, <1>6, <1>7, <1>8, <1>9, <1>10, <1>11, <1>12, <1>13, <1>14,
      <1>15, <1>16, <1>17, <1>18, <1>19, <1>20, <1>21, <1>22, <1>23, <1>24, <1>25, <1>26 DEF
      Invaders!Next, Invaders!Main, Invaders!WaitEnds

\* A pass empties the packet, and between two passes only the player who plays hits a saucer.
LEMMA PacketKept == ASSUME CabInv, Invaders!Next PROVE Packet'
<1> USE ShipsAssumption, CreditAssumption, FieldAssumption DEF CabInv, Player, Other, Nobody,
    Invaders!Player, Invaders!Other, Invaders!Nobody, Invaders!coinVars, Invaders!gates,
    Invaders!seats, Invaders!field, Invaders!points, Invaders!Resumed, Invaders!GoOn,
    Invaders!Yield, Invaders!Vblank, Invaders!Serviced, Invaders!Seeded, Invaders!InGame, Packet
<1>1. CASE Invaders!WaitOn
  BY <1>1 DEF Invaders!WaitOn, Invaders!Waits, CabTypes, Gates, OfGame
<1>2. CASE Invaders!DemoBegins
  BY <1>2 DEF Invaders!DemoBegins, Invaders!NewWave, CabTypes, Gates, OfGame
<1>3. CASE Invaders!DemoEnds
  BY <1>3 DEF Invaders!DemoEnds, CabTypes, Gates, OfGame
<1>4. CASE Invaders!SplashEnds
  BY <1>4 DEF Invaders!SplashEnds, Invaders!reloaded, CabTypes, Gates, OfGame
<1>5. CASE Invaders!HandoffEnds
  BY <1>5 DEF Invaders!HandoffEnds, Invaders!NewWave, CabTypes, Gates, OfGame
<1>6. CASE Invaders!BannerEnds
  BY <1>6 DEF Invaders!BannerEnds, Invaders!nextUp, CabTypes, Gates, OfGame
<1>7. CASE Invaders!HandoverEnds
  BY <1>7 DEF Invaders!HandoverEnds, Invaders!TakeShip, Invaders!Spent, CabTypes, Gates, OfGame
<1>8. CASE Invaders!TeardownEnds
  BY <1>8 DEF Invaders!TeardownEnds, Invaders!Empty, Invaders!Zero, CabTypes, Gates, OfGame
<1>9. CASE Invaders!TiltEnds
  BY <1>9 DEF Invaders!TiltEnds, Invaders!shownAfterTilt, CabTypes, Gates, OfGame
<1>10. CASE Invaders!Restart
  BY <1>10 DEF Invaders!Restart, CabTypes, Gates, OfGame
<1>11. CASE Invaders!CreditScreen
  BY <1>11 DEF Invaders!CreditScreen, CabTypes, Gates, OfGame
<1>12. CASE Invaders!LoopPass
  BY <1>12 DEF Invaders!LoopPass, Invaders!Shot, Invaders!passOver, Invaders!NoPacket,
      Invaders!Queued, Invaders!Points, Invaders!ShotAt, Invaders!extraDue, CabTypes, Gates,
      OfGame
<1>13. CASE Invaders!GameOver
  BY <1>13 DEF Invaders!GameOver, CabTypes, Gates, OfGame
<1>14. CASE Invaders!NewRound
  BY <1>14 DEF Invaders!NewRound, CabTypes, Gates, OfGame
<1>15. CASE Invaders!DoJ
  BY <1>15 DEF Invaders!DoJ, Invaders!TakeShip, Invaders!Spent, CabTypes, Gates, OfGame
<1>16. CASE Invaders!Invasion
  BY <1>16 DEF Invaders!Invasion, CabTypes, Gates, OfGame
<1>17. CASE Invaders!LastStand
  BY <1>17 DEF Invaders!LastStand, Invaders!Shot, Invaders!ShotAt, Invaders!Queued,
      Invaders!Points, CabTypes, Gates, OfGame
<1>18. CASE Invaders!Tilt
  BY <1>18 DEF Invaders!Tilt, CabTypes, Gates, OfGame
<1>19. ASSUME NEW buttons \in Invaders!Buttons, Invaders!PromptWaits(buttons) PROVE Packet'
  BY <1>19 DEF Invaders!PromptWaits, CabTypes, Gates, OfGame
<1>20. ASSUME NEW buttons \in Invaders!Buttons, Invaders!StartGame(buttons) PROVE Packet'
  BY <1>20 DEF Invaders!StartGame, Invaders!Zero, CabTypes, Gates, OfGame
<1>21. CASE Invaders!MidScreen
  BY <1>21 DEF Invaders!MidScreen, Invaders!ShotsFall, Invaders!FleetMarches, Invaders!lands,
      Invaders!SaucerScores, Invaders!Points, CabTypes, Gates, OfGame
<1>22. CASE Invaders!TiltSwitch
  BY <1>22 DEF Invaders!TiltSwitch, CabTypes, Gates, OfGame
<1>23. CASE Invaders!VblankAttract
  BY <1>23 DEF Invaders!VblankAttract, Invaders!SaucerScores, Invaders!Points, CabTypes, Gates,
      OfGame
<1>24. CASE Invaders!ShowCredit
  BY <1>24 DEF Invaders!ShowCredit, CabTypes, Gates, OfGame
<1>25. CASE Invaders!VblankField
  BY <1>25 DEF Invaders!VblankField, Invaders!SaucerScores, Invaders!Points, CabTypes, Gates,
      OfGame
<1>26. CASE Invaders!ShipLost
  BY <1>26 DEF Invaders!ShipLost, Invaders!afterDeath, CabTypes, Gates, OfGame
<1>27. QED
  BY <1>1, <1>2, <1>3, <1>4, <1>5, <1>6, <1>7, <1>8, <1>9, <1>10, <1>11, <1>12, <1>13, <1>14,
      <1>15, <1>16, <1>17, <1>18, <1>19, <1>20, <1>21, <1>22, <1>23, <1>24, <1>25, <1>26 DEF
      Invaders!Next, Invaders!Main, Invaders!WaitEnds

-----------------------------------------------------------------------------
(* The invariants hold of every run, whichever game it is of.              *)

\* Power-on.
LEMMA KongInitially == Init => KongInv
BY DEF Init, KongInv, Empty, Player, Nobody, Ticking, KongTypes, AnyBlock, Seats, Timers,
       Accounts, Cutscenes, Survivors, Turns, InTurn, Lost, Queue, NoneDue, BonusHad, InGame,
       Between, block

\* Every step of Donkey Kong, and every step of another game.
LEMMA KongStep == KongInv /\ [Next]_vars => KongInv'
<1>1. ASSUME KongInv, Next PROVE KongInv'
  BY <1>1, KongTypesKept, SeatsKept, TimersKept, AccountsKept, CutscenesKept, SurvivorsKept,
     TurnsKept, BonusHadKept, QueueKept DEF KongInv
<1>2. ASSUME KongInv, UNCHANGED vars PROVE KongInv'
  BY <1>2 DEF vars, flow, players, points, history, KongInv, Player, KongTypes, Seats, Timers,
       Accounts, Cutscenes, Survivors, Turns, InTurn, Lost, Queue, NoneDue, BonusHad, InGame,
       Between, block
<1>3. QED
  BY <1>1, <1>2

\* Power-on.
LEMMA CabInitially == Invaders!Init => CabInv
<1> USE DEF Invaders!Init, Invaders!Empty, Invaders!Zero, Invaders!NoPacket, Player, Nobody,
            Invaders!Player, Invaders!Nobody
<1>1. Invaders!Init => CabTypes
  <2>1. 0 \in 0 .. CREDIT_CAP
    BY CreditAssumption
  <2>2. Invaders!Init =>
          /\ alive \in [Player -> BOOLEAN] /\ extra \in [Player -> BOOLEAN]
          /\ ships \in [Player -> Nat] /\ used \in [Player -> Nat] /\ aliens \in [Player -> Nat]
          /\ page \in [Player -> Nat] /\ stands \in [Player -> Nat] /\ cabScore \in [Player -> Nat]
          /\ packet \in [by : Player \cup {Nobody}, for : {"nothing", "kill", "saucer"}]
    OBVIOUS
  <2>3. Invaders!Init =>
          /\ cabTurn = "main" /\ cabFlow \in Flows /\ nextMain = "none"
          /\ COIN_INPUT_LATCH = 1 /\ coin = "up" /\ CREDIT_COUNT \in 0 .. CREDIT_CAP
          /\ player \in Player /\ cabDied \in Player \cup {Nobody}
          /\ fleet \in Nat /\ ship = "ready"
    BY <2>1 DEF Flows
  <2>4. Invaders!Init =>
          {CREDIT_SCREEN_SHOWN, TILT_RESET_ACTIVE, GAME_ACTIVE, GAME_IN_PROGRESS, cabTwo,
           WARM_RESTART_SUPPRESS} \subseteq BOOLEAN
    OBVIOUS
  <2>5. QED
    BY <2>2, <2>3, <2>4 DEF CabTypes
<1>2. Invaders!Init => Coins /\ Gates /\ Switch /\ Outcome
  BY DEF Coins, Unseen, Gates, OfGame, Switch, Outcome, Asked
<1>3. Invaders!Init => Fleet /\ Ships /\ Rounds /\ Turnover /\ Packet
  BY FieldAssumption DEF Fleet, Ships, Rounds, Turnover, Packet
<1>4. QED
  BY <1>1, <1>2, <1>3 DEF CabInv

\* Every step of Space Invaders, and every step of another game.
LEMMA CabKept == CabInv /\ [Invaders!Next]_cabVars => CabInv'
<1>1. ASSUME CabInv, Invaders!Next PROVE CabInv'
  BY <1>1, CabTypesKept, CoinsKept, GatesKept, SwitchKept, OutcomeKept, FleetKept, ShipsKept,
     RoundsKept, TurnoverKept, PacketKept DEF CabInv
<1>2. ASSUME CabInv, UNCHANGED cabVars PROVE CabInv'
  <2> USE DEF CabInv, cabVars
  <2>1. CabTypes' /\ Coins' /\ Gates' /\ Switch' /\ Outcome'
    BY <1>2 DEF CabTypes, Coins, Unseen, Gates, Switch, Outcome, Asked
  <2>2. Fleet' /\ Ships' /\ Rounds' /\ Turnover' /\ Packet'
    BY <1>2 DEF Fleet, Ships, Invaders!ShipsAccounted, Invaders!Playing, Rounds, Turnover, Packet,
        Invaders!due, Invaders!Nobody, Invaders!Other
  <2>3. QED
    BY <2>1, <2>2
<1>3. QED
  BY <1>1, <1>2

\* A step of one game is none of the other.
LEMMA OneGameAtATime == [GamesNext]_gamesVars => [Next]_vars /\ [Invaders!Next]_cabVars
BY DEF GamesNext, gamesVars, Kong, Cab

\* Both games keep their invariants: the accounts of games/dkong/idiomatic (lives, boards,
\* turns, queued points) and of games/invaders/idiomatic (coins, ships, fleets, restarts).
THEOREM GamesInvariant == GamesSpec => [](KongInv /\ CabInv)
<1>1. GamesInit => KongInv /\ CabInv
  BY KongInitially, CabInitially DEF GamesInit
<1>2. KongInv /\ CabInv /\ [GamesNext]_gamesVars => (KongInv /\ CabInv)'
  BY OneGameAtATime, KongStep, CabKept
<1>3. QED
  BY <1>1, <1>2, PTL DEF GamesSpec

-----------------------------------------------------------------------------
(* What follows.                                                           *)

\* Nobody loses or is given a life or a ship: losePlayer1Life, awardBonusLifeAtThreshold,
\* restorePlayer1Context; decrementShipsAndDrawReadout, awardExtraShip.
THEOREM LivesKept == GamesSpec => []LivesAddUp
<1>1. KongInv => LivesAccounted
  BY DEF KongInv, Accounts, LivesAccounted, One
<1>2. KongInv => BonusEarned
  <2> SUFFICES ASSUME KongInv, NEW p \in Player, InGame(p), block(p).lives = 0
               PROVE  deaths[p] = DipLives + (IF score[p] = "high" THEN 1 ELSE 0)
    BY DEF BonusEarned
  <2>1. deaths[p] = DipLives + One(block(p).bonus) /\ ~Between(p) /\ deaths[p] > 0
    <3>1. /\ 0 + deaths[p] = DipLives + One(block(p).bonus)
          /\ Between(p) => block(p).lives > 0
      BY DEF KongInv, Accounts
    <3>2. deaths[p] \in Nat
      BY DEF KongInv, KongTypes
    <3>3. QED
      BY <3>1, <3>2, LivesAssumption DEF One
  <2>2. block(p).bonus <=> score[p] = "high"
    BY <2>1 DEF KongInv, BonusHad
  <2>3. QED
    BY <2>1, <2>2 DEF One
<1>3. CabInv => Invaders!ShipsAccounted
  BY DEF CabInv, Ships, Invaders!ShipsAccounted
<1>4. CabInv => Invaders!ExtraShipHad
  BY DEF CabInv, Ships, Invaders!ExtraShipHad, Invaders!Playing, Invaders!Player, Player
<1>5. KongInv /\ CabInv => LivesAddUp
  BY <1>1, <1>2, <1>3, <1>4 DEF LivesAddUp
<1>6. QED
  BY <1>5, GamesInvariant, PTL

\* A player goes on where they left: the blocks losePlayer1Life saves and
\* restorePlayer1Context loads, the fleet newRoundFlow keeps and startRoundFlow loads.
THEOREM FieldKept == GamesSpec => []OwnField
<1>1. KongInv => OwnBoard
  <2> SUFFICES ASSUME KongInv, GAME_STATE = 3, GAME_SUBSTATE = 12
               PROVE  /\ live.board = cleared[ACTIVE_PLAYER_INDEX]
                      /\ intros[ACTIVE_PLAYER_INDEX] = 1
    BY DEF OwnBoard
  <2>1. /\ ACTIVE_PLAYER_INDEX \in Player /\ InGame(ACTIVE_PLAYER_INDEX)
        /\ Between(ACTIVE_PLAYER_INDEX)
    BY DEF KongInv, KongTypes, Seats, InGame, Between
  <2>2. QED
    BY <2>1 DEF KongInv, Accounts, Cutscenes, block
<1>2. CabInv => Invaders!OwnFleet
  BY DEF CabInv, Fleet, Invaders!OwnFleet
<1>3. KongInv /\ CabInv => OwnField
  BY <1>1, <1>2 DEF OwnField
<1>4. QED
  BY <1>3, GamesInvariant, PTL

\* What ends a turn is armed when it begins: the timers tickSubstateTimer counts down, and the
\* switch WARM_RESTART_SUPPRESS, which seedWorkRamImage clears.
THEOREM TurnsCanEnd == GamesSpec => []EndsArmed
<1>1. KongInv => HoldsArmed
  BY DEF KongInv, Timers, HoldsArmed
<1>2. CabInv => Invaders!RestartsArmed
  BY DEF CabInv, Switch, Invaders!RestartsArmed
<1>3. KongInv /\ CabInv => EndsArmed
  BY <1>1, <1>2 DEF EndsArmed
<1>4. QED
  BY <1>3, GamesInvariant, PTL

\* Every press is a credit or refused, for every cap: armCreditOnCoinPress and startGameFlow,
\* whatever flow idiomaticVblankNmi starts in between.
THEOREM EveryCoinCounts == GamesSpec => []CoinsCounted
<1>1. CabInv => CoinsCounted
  BY CreditAssumption DEF CabInv, CabTypes, Coins, Unseen, CoinsCounted, Invaders!CoinsCounted,
      Invaders!Seen
<1>2. QED
  BY <1>1, GamesInvariant, PTL

\* Points that waited are the player's to whom addToScoreTask adds them in Donkey Kong; in
\* Space Invaders applyPendingScoreAdd pays what an earlier turn left to the active player, but
\* from the first pass of a turn on only that player's own bonus waits between two passes.
THEOREM PointsSettled == GamesSpec => WaitingPoints
<1>1. KongInv /\ [GamesNext]_gamesVars => [AddToScore => Head(pending).by = CURRENT_PLAYER]_vars
  <2> SUFFICES ASSUME KongInv, AddToScore PROVE Head(pending).by = CURRENT_PLAYER
    OBVIOUS
  <2>1. MessageGone("points")
    BY Dispatched DEF AddToScore, KongInv
  <2>2. QED
    BY <2>1 DEF MessageGone, KongInv, Queue, KongTypes
<1>2. CabInv => Invaders!OnlyOwnPointsWait
  BY DEF CabInv, Packet, Invaders!OnlyOwnPointsWait, Invaders!NoPacket, Invaders!Nobody, Nobody
<1>3. QED
  BY <1>1, <1>2, GamesInvariant, PTL DEF GamesSpec, WaitingPoints, PointsToTheScorer

\* Only with everybody out and every name entered does the game end: the one way from GAME_STATE
\* 3 to 1 is enterAttractMode.
THEOREM OverWhenAllOut == GamesSpec => EndsWhenAllOut
<1> DEFINE Over == GAME_STATE = 3 /\ GAME_STATE' = 1
<1> DEFINE Fair == (\A p \in Player : InGame(p) => context[p].lives = 0) /\ tags = {}
<1>1. ASSUME KongInv, Next, Over PROVE Fair
  <2>1. EnterAttractMode
    BY <1>1 DEF Next, Handlers, DrawTask, ResetScore, AddToScore, Dispatch, IdlePass, MainPass,
        flow,
      Tick, SelectSubstate, ComposeScreen, SelectIntro, Intro, BuildBoard, Gameplay, Interlude, Death,
      SelectPhase, NameEntry, Restore, LoseLife, PlayerOut, SelectPlayer, EnterName, AttractFrame,
      CommitGameStart, Frame, Go, GoTo
  <2>2. QED
    BY <1>1, <2>1 DEF EnterAttractMode, Frame, KongInv, Survivors
<1>2. KongInv /\ [GamesNext]_gamesVars => [Over => Fair]_vars
  BY <1>1, OneGameAtATime
<1>3. QED
  BY <1>2, GamesInvariant, PTL DEF GamesSpec, EndsWhenAllOut

-----------------------------------------------------------------------------
(* Donkey Kong is a game of turns.                                         *)

KongGame == IF GAME_STATE = 3 THEN "on" ELSE "off"
KongTurn == IF GAME_STATE = 3 THEN due ELSE 0
KongPlays == IF atPlay THEN ACTIVE_PLAYER_INDEX ELSE Nobody
KongTable == <<KongGame, livesLeft, bonusHad, KongTurn, KongPlays>>

\* A step that leaves the saved blocks, the deaths and who is at play, and of a live account the
\* lives and the bonus, is none of the table's business.
LEMMA KongStutter ==
  ASSUME UNCHANGED <<GAME_STATE, TWO_PLAYER_GAME, context, died>>, UNCHANGED KongPlays,
         \A p \in Player : InGame(p) =>
           UNCHANGED <<block(p).lives, block(p).bonus>>
  PROVE  UNCHANGED KongTable
<1>1. \A p \in Player : InGame(p)' = InGame(p)
  BY DEF InGame
<1>2. UNCHANGED livesLeft
  BY <1>1 DEF livesLeft, Player
<1>3. UNCHANGED bonusHad
  BY <1>1 DEF bonusHad, Player
<1>4. UNCHANGED <<KongGame, KongTurn>>
  BY DEF KongGame, KongTurn, due, Other, Nobody
<1>5. QED
  BY <1>2, <1>3, <1>4 DEF KongTable

\* Whose account is where while a game is on; the player at play is the one whose turn it is.
LEMMA KongAccounts ==
  ASSUME KongInv, GAME_STATE = 3
  PROVE  /\ livesLeft \in [Player -> Nat]
         /\ \A p \in Player : livesLeft[p] = block(p).lives /\ (InGame(p) \/ livesLeft[p] = 0)
         /\ InTurn => KongTurn = ACTIVE_PLAYER_INDEX
         /\ ACTIVE_PLAYER_INDEX \in Player /\ InGame(ACTIVE_PLAYER_INDEX)
<1>1. /\ ACTIVE_PLAYER_INDEX \in Player /\ InGame(ACTIVE_PLAYER_INDEX)
      /\ \A p \in Player : InGame(p) \/ (p = 1 /\ ~Between(p) /\ context[p].lives = 0)
  BY DEF KongInv, KongTypes, Seats, InGame, Between, Player
<1>2. \A p \in Player : block(p).lives \in Nat
  BY DEF KongInv, KongTypes, AnyBlock, block
<1>3. \A p \in Player : livesLeft[p] = block(p).lives /\ (InGame(p) \/ livesLeft[p] = 0)
  BY <1>1 DEF livesLeft, block
<1>4. livesLeft \in [Player -> Nat]
  BY <1>2 DEF livesLeft
<1>5. InTurn => KongTurn = ACTIVE_PLAYER_INDEX
  BY DEF KongInv, Turns, KongTurn, due
<1>6. QED
  BY <1>1, <1>3, <1>4, <1>5

\* commitGameStart deals the lives out.
LEMMA KongStarts ==
  ASSUME KongInv, NEW two \in BOOLEAN, CommitGameStart(two)
  PROVE  Taking!Start(two)
<1>1. /\ GAME_STATE = 1 /\ GAME_STATE' = 3 /\ GAME_SUBSTATE' = 0 /\ TWO_PLAYER_GAME' = two
      /\ context' = [p \in Player |-> IF p = 0 \/ two THEN Seeded ELSE Empty] /\ died' = Nobody
  BY DEF CommitGameStart, seededContexts
<1>2. \A p \in Player : /\ ~Between(p)' /\ (InGame(p)' <=> p = 0 \/ two)
                        /\ InGame(p)' => block(p)' = Seeded
  BY <1>1 DEF Between, InGame, block
<1>3. livesLeft' = [p \in Player |-> IF p = 0 \/ two THEN DipLives ELSE 0]
  BY <1>2 DEF livesLeft, Seeded
<1>4. bonusHad' = {}
  BY <1>2 DEF bonusHad, Seeded
<1>5. due' = 0 /\ ~atPlay'
  BY <1>1 DEF due, atPlay
<1>6. QED
  BY <1>1, <1>3, <1>4, <1>5 DEF Taking!Start, Taking!Player, Taking!Nobody, Player, Nobody

\* enterAttractMode ends a game with nobody left.
LEMMA KongEnds ==
  ASSUME KongInv, EnterAttractMode
  PROVE  Taking!GameOver
<1>1. GAME_STATE = 3 /\ GAME_STATE' = 1 /\ GAME_SUBSTATE = 20
  BY DEF EnterAttractMode, Frame
<1>2. \A p \in Player : livesLeft[p] = 0
  BY <1>1, KongAccounts DEF KongInv, Survivors, Between, block
<1>3. livesLeft' = [p \in Player |-> 0] /\ bonusHad' = {} /\ ~atPlay'
  BY <1>1 DEF livesLeft, bonusHad, atPlay, InGame
<1>4. QED
  BY <1>1, <1>2, <1>3 DEF Taking!GameOver, Taking!NoGame, Taking!Player, Taking!Nobody, Player,
      Nobody

\* The bonus life of the main pass.
LEMMA KongGains ==
  ASSUME KongInv, IdlePass
  PROVE  Taking!ExtraLife \/ UNCHANGED KongTable
<1>1. BonusGiven
  BY Awarding DEF KongInv
<1>2. /\ UNCHANGED <<GAME_STATE, GAME_SUBSTATE, TWO_PLAYER_GAME, ACTIVE_PLAYER_INDEX, context,
                     died>>
      /\ UNCHANGED KongPlays
  BY <1>1 DEF BonusGiven, flow, players, history, KongPlays, atPlay
<1>3. \A p \in Player : InGame(p)' = InGame(p) /\ Between(p)' = Between(p)
  BY <1>2 DEF InGame, Between
<1>4. CASE live' = live
  BY <1>2, <1>4, KongStutter DEF block, Between
<1>5. CASE GAME_STATE # 3 \/ ~Between(ACTIVE_PLAYER_INDEX)
  <2>1. \A p \in Player : InGame(p) => UNCHANGED <<block(p).lives, block(p).bonus>>
    BY <1>2, <1>3, <1>5 DEF block, InGame, Between
  <2>2. QED
    BY <1>2, <2>1, KongStutter
<1>6. CASE live' # live /\ GAME_STATE = 3 /\ Between(ACTIVE_PLAYER_INDEX)
  <2>0. PICK a \in Player : a = ACTIVE_PLAYER_INDEX
    BY DEF KongInv, KongTypes
  <2>1. /\ live' = [live EXCEPT !.lives = @ + 1, !.bonus = TRUE] /\ ~live.bonus
        /\ live \in AnyBlock
    BY <1>6 DEF IdlePass, bonusDue, KongInv, KongTypes
  <2>2. live'.lives = live.lives + 1 /\ live'.bonus = TRUE /\ ~live.bonus
    BY <2>1, Awarded
  <2>3. a \in Player /\ KongTurn = a /\ InGame(a) /\ livesLeft \in [Player -> Nat]
    <3>1. GAME_SUBSTATE # 9
      BY DEF KongInv, KongTypes
    <3>2. InTurn
      BY <1>6, <3>1 DEF Between, InTurn
    <3>3. QED
      BY <1>6, <2>0, <3>2, KongAccounts
  <2>4. livesLeft[a] = live.lives /\ live.lives > 0 /\ a \notin bonusHad
    BY <1>6, <2>0, <2>2, <2>3 DEF livesLeft, block, bonusHad, KongInv, Accounts
  <2>5. livesLeft' = [livesLeft EXCEPT ![a] = @ + 1]
    <3>1. \A p \in Player : p # a => ~Between(p) /\ block(p)' = block(p)
      BY <1>2, <1>3, <2>0 DEF block, Between
    <3>2. (block(a).lives)' = block(a).lives + 1
      BY <1>2, <1>3, <1>6, <2>0, <2>2 DEF block
    <3>3. /\ livesLeft'[a] = livesLeft[a] + 1
          /\ \A p \in Player : p # a => livesLeft'[p] = livesLeft[p]
      BY <1>3, <2>3, <3>1, <3>2 DEF livesLeft
    <3>4. livesLeft' = [p \in Player |-> livesLeft'[p]]
      BY DEF livesLeft
    <3>5. QED
      BY <2>3, <3>3, <3>4
  <2>6. bonusHad' = bonusHad \cup {a}
    <3>1. \A p \in Player : p # a => ~Between(p) /\ block(p)' = block(p)
      BY <1>2, <1>3, <2>0 DEF block, Between
    <3>2. (block(a).bonus)' = TRUE
      BY <1>2, <1>3, <1>6, <2>0, <2>2 DEF block
    <3>3. a \in bonusHad' /\ bonusHad \subseteq Player /\ bonusHad' \subseteq Player
      BY <1>3, <2>3, <3>2 DEF bonusHad
    <3>4. \A p \in Player : p # a => (p \in bonusHad' <=> p \in bonusHad)
      BY <1>3, <3>1 DEF bonusHad
    <3>5. QED
      BY <3>3, <3>4
  <2>7. UNCHANGED <<KongGame, KongTurn, KongPlays>>
    BY <1>2 DEF KongGame, KongTurn, due
  <2>8. QED
    BY <1>6, <2>3, <2>4, <2>5, <2>6, <2>7 DEF Taking!ExtraLife, KongTurn, KongGame, KongPlays
<1>7. QED
  BY <1>4, <1>5, <1>6

\* losePlayer1Life and loc_1344 take a life from the one at play and hand over.
LEMMA KongLoses ==
  ASSUME KongInv, NEW p \in Player, LoseLife(p)
  PROVE  Taking!LoseLife
<1>1. /\ p = ACTIVE_PLAYER_INDEX /\ GAME_STATE = 3 /\ GAME_STATE' = 3 /\ GAME_SUBSTATE = 14 + p
      /\ GAME_SUBSTATE' \in {8, 16, 17, 23}
      /\ UNCHANGED <<TWO_PLAYER_GAME, ACTIVE_PLAYER_INDEX>> /\ died' = p
      /\ context' = [context EXCEPT ![p] = live'] /\ context \in [Player -> AnyBlock]
      /\ live' \in AnyBlock /\ live \in AnyBlock
      /\ live'.lives = live.lives - 1 /\ live'.bonus = live.bonus /\ live.lives > 0
  <2>1. LifeLost(p)
    BY Loss
  <2>2. /\ p = ACTIVE_PLAYER_INDEX /\ GAME_STATE = 3 /\ GAME_STATE' = 3 /\ GAME_SUBSTATE = 14 + p
        /\ GAME_SUBSTATE' = afterLoss(p, live'.lives) /\ died' = p
        /\ UNCHANGED <<TWO_PLAYER_GAME, ACTIVE_PLAYER_INDEX>>
    BY <2>1 DEF LifeLost, players
  <2>3. /\ context' = [context EXCEPT ![p] = live'] /\ live' \in AnyBlock /\ live \in AnyBlock
        /\ live'.lives = live.lives - 1 /\ live'.bonus = live.bonus /\ live.lives > 0
    BY <2>1 DEF LifeLost
  <2>4. context \in [Player -> AnyBlock]
    BY DEF KongInv, KongTypes
  <2>5. afterLoss(p, live'.lives) \in {8, 16, 17, 23}
    BY DEF afterLoss, Player
  <2>6. QED
    BY <2>2, <2>3, <2>4, <2>5
<1>2. /\ InGame(p) /\ Between(p) /\ atPlay /\ KongTurn = p /\ livesLeft \in [Player -> Nat]
      /\ ~atPlay'
  BY <1>1, KongAccounts DEF Between, InTurn, atPlay, Player
<1>3. Other(p) \in Player /\ Other(p) # p /\ \A q \in Player : q = p \/ q = Other(p)
  BY DEF Other, Player
<1>4. \A q \in Player : InGame(q)' = InGame(q)
  BY <1>1 DEF InGame
<1>5. context'[p] = live' /\ context'[Other(p)] = context[Other(p)]
  BY <1>1, <1>3
<1>6. /\ block(p) = live /\ block(p)' = live'
      /\ block(Other(p)) = context[Other(p)] /\ block(Other(p))' = context[Other(p)]
  BY <1>1, <1>2, <1>3, <1>5 DEF block, Between
<1>7. livesLeft' = [livesLeft EXCEPT ![p] = @ - 1] /\ livesLeft[p] > 0
  <2>1. /\ livesLeft'[p] = livesLeft[p] - 1 /\ livesLeft[p] > 0
        /\ livesLeft'[Other(p)] = livesLeft[Other(p)]
    BY <1>1, <1>2, <1>3, <1>4, <1>6 DEF livesLeft
  <2>2. livesLeft' = [q \in Player |-> livesLeft'[q]]
    BY DEF livesLeft
  <2>3. QED
    BY <1>2, <1>3, <2>1, <2>2
<1>8. bonusHad' = bonusHad
  <2>1. \A q \in Player : UNCHANGED (block(q).bonus)
    BY <1>1, <1>3, <1>6
  <2>2. QED
    BY <1>4, <2>1 DEF bonusHad
<1>9. KongTurn' = IF livesLeft[Other(p)] > 0 THEN Other(p) ELSE p
  <2>1. livesLeft[Other(p)] = context[Other(p)].lives /\ livesLeft[Other(p)] \in Nat
    BY <1>1, <1>2, <1>3, <1>6, KongAccounts
  <2>2. p # Nobody
    BY DEF Player, Nobody
  <2>3. due' = IF context[Other(p)].lives # 0 THEN Other(p) ELSE p
    BY <1>1, <1>5, <2>2 DEF due, Other
  <2>4. QED
    BY <1>1, <2>1, <2>3 DEF KongTurn
<1>10. /\ KongGame = "on" /\ KongGame' = "on" /\ KongPlays = p /\ KongPlays' = Nobody
  BY <1>1, <1>2 DEF KongGame, KongPlays
<1>11. QED
  BY <1>2, <1>7, <1>8, <1>9, <1>10 DEF Taking!LoseLife, Taking!TurnEnds, Taking!Other, Taking!Nobody,
      Other, Nobody, KongGame, KongTurn, KongPlays

\* A board begins, and is cleared.
LEMMA KongPlaysOn ==
  ASSUME KongInv, BuildBoard \/ Gameplay
  PROVE  Taking!Play \/ Taking!Rest \/ UNCHANGED KongTable
<1>1. /\ GAME_STATE = 3 /\ GAME_STATE' = 3
      /\ UNCHANGED <<TWO_PLAYER_GAME, ACTIVE_PLAYER_INDEX, live, context, died>>
      /\ \/ <<GAME_SUBSTATE, GAME_SUBSTATE'>> \in {<<8, 10>>, <<10, 11>>, <<12, 12>>, <<12, 13>>}
         \/ GAME_SUBSTATE = 11 /\ GAME_SUBSTATE' = 12
         \/ GAME_SUBSTATE = 12 /\ GAME_SUBSTATE' = 22
  BY SMTT(30) DEF BuildBoard, Gameplay, Frame, Go, GoTo, Keep, afterHowHigh, flow, players, history
<1>2. \A p \in Player : InGame(p) => UNCHANGED <<block(p).lives, block(p).bonus>>
  BY <1>1 DEF block, Between
<1>3. UNCHANGED <<KongGame, livesLeft, bonusHad, KongTurn>>
  <2>1. \A p \in Player : InGame(p)' = InGame(p)
    BY <1>1 DEF InGame
  <2>2. QED
    BY <1>1, <1>2, <2>1 DEF KongGame, livesLeft, bonusHad, KongTurn, due, Other
<1>4. CASE GAME_SUBSTATE = 11 /\ GAME_SUBSTATE' = 12
  <2> DEFINE a == ACTIVE_PLAYER_INDEX
  <2>1. a \in Player /\ KongTurn = a /\ livesLeft[a] = block(a).lives /\ InGame(a) /\ Between(a)
    BY <1>1, <1>4, KongAccounts DEF InTurn, Between
  <2>2. livesLeft[a] > 0
    BY <2>1 DEF KongInv, Accounts
  <2>3. KongPlays = Nobody /\ KongPlays' = a /\ KongGame = "on"
    BY <1>1, <1>4 DEF KongPlays, atPlay, KongGame
  <2>4. QED
    BY <1>3, <2>1, <2>2, <2>3 DEF Taking!Play, Taking!Nobody, Nobody, KongGame, KongTurn, KongPlays
<1>5. CASE GAME_SUBSTATE = 12 /\ GAME_SUBSTATE' = 22
  <2>1. KongPlays # Nobody /\ KongPlays' = Nobody
    BY <1>1, <1>5 DEF KongPlays, atPlay, KongInv, KongTypes, Player, Nobody
  <2>2. QED
    BY <1>3, <2>1 DEF Taking!Rest, Taking!Nobody, Nobody, KongGame, KongTurn, KongPlays
<1>6. CASE <<GAME_SUBSTATE, GAME_SUBSTATE'>> \in {<<8, 10>>, <<10, 11>>, <<12, 12>>, <<12, 13>>}
  <2>1. UNCHANGED KongPlays
    BY <1>1, <1>6 DEF KongPlays, atPlay
  <2>2. QED
    BY <1>1, <1>2, <2>1, KongStutter
<1>7. QED
  BY <1>1, <1>4, <1>5, <1>6

\* Every other step of the machine hands the block on, or is of no account.
LEMMA KongTakesTurns ==
  ASSUME KongInv, Next
  PROVE  [Taking!Next]_KongTable
<1> USE DEF MainPass, Frame, Go, GoTo, Keep, players, flow, points, history
<1>1. CASE DrawTask \/ ResetScore \/ AddToScore \/ Tick \/ SelectIntro \/ Intro
  <2>1. /\ UNCHANGED <<GAME_STATE, TWO_PLAYER_GAME, ACTIVE_PLAYER_INDEX, live, context, died>>
        /\ \/ UNCHANGED GAME_SUBSTATE
           \/ {GAME_SUBSTATE, GAME_SUBSTATE'} \subseteq 6 .. 8
    BY <1>1 DEF DrawTask, ResetScore, AddToScore, Dispatch, Tick, SelectIntro, Intro
  <2>2. UNCHANGED KongPlays /\ \A p \in Player : UNCHANGED (block(p))
    BY <2>1 DEF KongPlays, atPlay, block, Between
  <2>3. QED
    BY <2>1, <2>2, KongStutter
<1>2. CASE SelectSubstate \/ ComposeScreen \/ SelectPhase \/ Death
  <2>1. /\ UNCHANGED <<GAME_STATE, TWO_PLAYER_GAME, ACTIVE_PLAYER_INDEX, live, context, died>>
        /\ \/ {GAME_SUBSTATE, GAME_SUBSTATE'} \subseteq {0, 1, 3, 18, 19, 23}
           \/ {GAME_SUBSTATE, GAME_SUBSTATE'} \subseteq {2, 4, 5, 6}
           \/ {GAME_SUBSTATE, GAME_SUBSTATE'} \subseteq {13, 14, 15}
    <3>1. ACTIVE_PLAYER_INDEX \in {0, 1}
      BY DEF KongInv, KongTypes, Player
    <3>2. CASE SelectSubstate \/ SelectPhase
      BY <3>1, <3>2 DEF SelectSubstate, SelectPhase
    <3>3. CASE ComposeScreen
      BY <3>3 DEF ComposeScreen
    <3>4. CASE Death
      BY <3>1, <3>4 DEF Death
    <3>5. QED
      BY <1>2, <3>2, <3>3, <3>4
  <2>2. UNCHANGED KongPlays /\ \A p \in Player : UNCHANGED (block(p))
    BY <2>1 DEF KongPlays, atPlay, block, Between
  <2>3. QED
    BY <2>1, <2>2, KongStutter
<1>3. CASE IdlePass
  BY <1>3, KongGains DEF Taking!Next
<1>4. CASE BuildBoard \/ Gameplay
  BY <1>4, KongPlaysOn DEF Taking!Next
<1>5. CASE Interlude
  <2>1. BoardOver
    BY <1>5, Interval DEF KongInv
  <2>2. /\ UNCHANGED <<GAME_STATE, TWO_PLAYER_GAME, ACTIVE_PLAYER_INDEX, context, died>>
        /\ {GAME_SUBSTATE, GAME_SUBSTATE'} \subseteq {8, 22}
        /\ live'.lives = live.lives /\ live'.bonus = live.bonus
    BY <2>1 DEF BoardOver
  <2>3. UNCHANGED KongPlays
        /\ \A p \in Player : UNCHANGED <<block(p).lives, block(p).bonus>>
    BY <2>2 DEF KongPlays, atPlay, block, Between
  <2>4. QED
    BY <2>2, <2>3, KongStutter
<1>6. CASE EnterAttractMode
  BY <1>6, KongEnds DEF Taking!Next
<1>7. CASE NameEntry
  <2>1. Naming
    BY <1>7, Named
  <2>2. UNCHANGED KongPlays /\ \A p \in Player : UNCHANGED (block(p))
    BY <2>1 DEF Naming, KongPlays, atPlay, block, Between
  <2>3. QED
    BY <2>1, <2>2, KongStutter DEF Naming
<1>8. CASE AttractFrame
  <2>1. GAME_STATE = 1 /\ UNCHANGED <<flow, players, context, died>>
    BY <1>8 DEF AttractFrame
  <2>2. UNCHANGED KongPlays /\ \A p \in Player : ~InGame(p)
    BY <2>1 DEF KongPlays, atPlay, InGame
  <2>3. QED
    BY <2>1, <2>2, KongStutter
<1>9. ASSUME NEW two \in BOOLEAN, CommitGameStart(two) PROVE [Taking!Next]_KongTable
  BY <1>9, KongStarts DEF Taking!Next
<1>10. ASSUME NEW p \in Player, Restore(p) PROVE [Taking!Next]_KongTable
  <2>1. /\ UNCHANGED <<GAME_STATE, TWO_PLAYER_GAME, ACTIVE_PLAYER_INDEX, context, died>>
        /\ GAME_SUBSTATE \in {1, 3} /\ GAME_SUBSTATE' \in {2, 4, 5} /\ live' = context[p]
        /\ p = ACTIVE_PLAYER_INDEX
    BY <1>10 DEF Restore, restored, KongInv, Seats, KongTypes, Player
  <2>2. UNCHANGED KongPlays /\ \A q \in Player : UNCHANGED (block(q))
    BY <2>1 DEF KongPlays, atPlay, block, Between
  <2>3. QED
    BY <2>1, <2>2, KongStutter
<1>11. ASSUME NEW p \in Player, LoseLife(p) PROVE [Taking!Next]_KongTable
  BY <1>11, KongLoses DEF Taking!Next
<1>12. ASSUME NEW p \in Player, PlayerOut(p) \/ SelectPlayer(p) \/ EnterName(p)
       PROVE  [Taking!Next]_KongTable
  <2>1. /\ UNCHANGED <<GAME_STATE, TWO_PLAYER_GAME, context, died>>
        /\ {GAME_SUBSTATE, GAME_SUBSTATE'} \subseteq {0} \cup 16 .. 21 \cup {23}
    BY <1>12 DEF PlayerOut, afterGameOver, SelectPlayer, EnterName, Player
  <2>2. UNCHANGED KongPlays /\ \A q \in Player : UNCHANGED (block(q))
    BY <2>1 DEF KongPlays, atPlay, block, Between
  <2>3. QED
    BY <2>1, <2>2, KongStutter
<1>13. QED
  BY <1>1, <1>2, <1>3, <1>4, <1>5, <1>6, <1>7, <1>8, <1>9, <1>10, <1>11, <1>12 DEF Next, Handlers

-----------------------------------------------------------------------------
(* Space Invaders is the same game of turns.                               *)

CabGame == IF Invaders!tilted THEN "tilted" ELSE IF Invaders!inPlay THEN "on" ELSE "off"
CabHad == {p \in Invaders!Playing : Invaders!inPlay /\ ~extra[p]}
CabDue == IF Invaders!inPlay THEN Invaders!due ELSE 0
CabPlays == IF Invaders!inPlay /\ GAME_ACTIVE THEN player ELSE Invaders!Nobody
CabTable == <<CabGame, Invaders!shipsLeft, CabHad, CabDue, CabPlays>>

\* The ships of a player who is in the game.
InSeat(p) == p \in Invaders!Playing /\ ~Invaders!out(p)
reserve(p) == ships[p] + One(Invaders!taken(p))

\* With no game on the table is bare.
LEMMA Bare ==
  /\ ~Invaders!inPlay =>
       /\ Invaders!shipsLeft = [p \in Player |-> 0] /\ CabHad = {} /\ CabDue = 0
       /\ CabPlays = Nobody
  /\ ~Invaders!inPlay' =>
       /\ Invaders!shipsLeft' = [p \in Player |-> 0] /\ CabHad' = {} /\ CabDue' = 0
       /\ CabPlays' = Nobody
BY DEF Invaders!shipsLeft, CabHad, CabDue, CabPlays, Invaders!Player, Player, Invaders!Nobody,
       Nobody

\* With no game on before and after, the table stays bare, tilted or not.
LEMMA CabOff ==
  ASSUME ~Invaders!inPlay, ~Invaders!inPlay', Invaders!tilted' = Invaders!tilted
  PROVE  UNCHANGED CabTable
BY Bare DEF CabTable, CabGame

\* Within a game: a step that keeps the seats, the extra ships and who is at play, and of each
\* player's ships the sum of those in reserve and in play.
LEMMA CabStutter ==
  ASSUME Invaders!inPlay, Invaders!inPlay', UNCHANGED <<cabTwo, extra, CabDue, CabPlays>>,
         \A p \in Player : UNCHANGED <<InSeat(p)>> /\ (InSeat(p) => reserve(p)' = reserve(p))
  PROVE  UNCHANGED CabTable
<1>1. UNCHANGED Invaders!shipsLeft
  BY DEF Invaders!shipsLeft, InSeat, reserve, One, Invaders!Player, Player
<1>2. UNCHANGED CabHad
  BY DEF CabHad, Invaders!Playing
<1>3. UNCHANGED CabGame
  BY DEF CabGame, Invaders!inPlay
<1>4. QED
  BY <1>1, <1>2, <1>3 DEF CabTable

\* Whose ships are whose while a game is on; whoever is at play has the turn.
LEMMA CabAccounts ==
  ASSUME CabInv, Invaders!inPlay
  PROVE  /\ Invaders!shipsLeft \in [Player -> Nat]
         /\ \A p \in Player : Invaders!shipsLeft[p] = IF InSeat(p) THEN reserve(p) ELSE 0
         /\ InSeat(Other(player)) <=> cabTwo /\ alive[Other(player)]
         /\ InSeat(Other(player)) => Invaders!shipsLeft[Other(player)] > 0
         /\ player \in Invaders!Playing
<1>1. /\ \A p \in Player : Invaders!shipsLeft[p] = IF InSeat(p) THEN reserve(p) ELSE 0
      /\ Invaders!shipsLeft = [p \in Player |-> Invaders!shipsLeft[p]]
  BY DEF Invaders!shipsLeft, InSeat, reserve, One, Invaders!Player, Player
<1>2. \A p \in Player : reserve(p) \in Nat
  BY DEF reserve, One, CabInv, CabTypes
<1>3. /\ player \in Player /\ Other(player) \in Player /\ Other(player) # player
      /\ ~cabTwo => player = 0
  BY DEF CabInv, CabTypes, Turnover, Invaders!inPlay, Player, Other
<1>4. player \in Invaders!Playing
  BY <1>3 DEF Invaders!Playing, Invaders!Player, Player
<1>5. InSeat(Other(player)) <=> cabTwo /\ alive[Other(player)]
  BY <1>3 DEF InSeat, Invaders!Playing, Invaders!out, Invaders!Player, Player, Other
<1>6. InSeat(Other(player)) => reserve(Other(player)) > 0
  <2>1. cabTwo /\ alive[Other(player)] => ships[Other(player)] > 0
    BY DEF CabInv, Ships, Invaders!inPlay
  <2>2. ~Invaders!taken(Other(player)) /\ ships[Other(player)] \in Nat
    BY <1>3 DEF Invaders!taken, CabInv, CabTypes
  <2>3. QED
    BY <1>5, <2>1, <2>2 DEF reserve, One
<1>7. QED
  BY <1>1, <1>2, <1>3, <1>4, <1>5, <1>6

\* startGameFlow deals the ships out, the first player's first one into play.
LEMMA CabStarts ==
  ASSUME CabInv, NEW buttons \in Invaders!Buttons, Invaders!StartGame(buttons)
  PROVE  \E two \in BOOLEAN : Invaders!Taking!Start(two)
<1>0. PICK two \in BOOLEAN : two = ("start2" \in Invaders!Offered(buttons))
  <2>1. ("start2" \in Invaders!Offered(buttons)) \in BOOLEAN
    OBVIOUS
  <2>2. QED
    BY <2>1, Zenon
<1>1. /\ nextMain = "none" /\ cabFlow = "prompt" /\ nextMain' = "none" /\ cabFlow' = "splash"
      /\ cabTwo' = two /\ GAME_IN_PROGRESS' = TRUE /\ GAME_ACTIVE' = FALSE /\ player' = 0
      /\ alive' = [p \in Player |-> TRUE] /\ extra' = [p \in Player |-> TRUE]
      /\ ships' = [p \in Player |-> IF p = 0 THEN StartingShips - 1 ELSE StartingShips]
      /\ cabDied' = Nobody
  BY <1>0 DEF Invaders!StartGame, Invaders!Resumed, Invaders!Yield, Invaders!Seeded, Invaders!Player,
      Player, Invaders!Nobody, Nobody
<1>2. CabGame = "off" /\ CabGame' = "on"
  BY <1>1 DEF CabGame, Invaders!tilted, Invaders!inPlay, CabInv, Gates, OfGame
<1>3. Invaders!inPlay' /\ (Invaders!taken(0))' /\ ~(Invaders!taken(1))'
  BY <1>1 DEF Invaders!inPlay, Invaders!tilted, Invaders!taken
<1>4. Invaders!shipsLeft' = [p \in Player |-> IF p = 0 \/ two THEN StartingShips ELSE 0]
  <2>1. \A p \in Player : ~Invaders!out(p)' /\ (p \in Invaders!Playing' <=> p = 0 \/ two)
    BY <1>1 DEF Invaders!Playing, Invaders!out, Invaders!Player, Player
  <2>2. \A p \in Player : ships'[p] + (IF Invaders!taken(p)' THEN 1 ELSE 0) = StartingShips
    BY <1>1, <1>3, ShipsAssumption DEF Player
  <2>3. \A p \in Player : Invaders!shipsLeft'[p] = IF p = 0 \/ two THEN StartingShips ELSE 0
    BY <1>3, <2>1, <2>2 DEF Invaders!shipsLeft, Invaders!Player, Player
  <2>4. Invaders!shipsLeft' = [p \in Player |-> Invaders!shipsLeft'[p]]
    BY DEF Invaders!shipsLeft, Invaders!Player, Player
  <2>5. QED
    BY <2>3, <2>4
<1>5. CabHad' = {}
  BY <1>1 DEF CabHad, Invaders!Playing, Invaders!Player, Player
<1>6. CabDue' = 0 /\ CabPlays' = Nobody
  BY <1>1 DEF CabDue, CabPlays, Invaders!due, Invaders!Nobody, Nobody
<1>7. Invaders!Taking!Start(two)
  BY <1>2, <1>4, <1>5, <1>6 DEF Invaders!Taking!Start, Invaders!Taking!Player,
      Invaders!Taking!Nobody, Player, Nobody, CabGame, CabHad, CabDue, CabPlays
<1>8. QED
  BY <1>7

\* A ship goes into play, the player's first of a turn or the next.
LEMMA CabPlaysOn ==
  ASSUME CabInv, Invaders!SplashEnds \/ Invaders!DoJ
  PROVE  Invaders!Taking!Play
<1>1. /\ nextMain = "none" /\ cabFlow \in {"splash", "doJ"} /\ nextMain' = "none"
      /\ cabFlow' = "loop" /\ GAME_ACTIVE' = TRUE
      /\ UNCHANGED <<GAME_IN_PROGRESS, cabTwo, player, alive, extra, cabDied>>
      /\ IF cabFlow = "splash" THEN ships' = ships
           ELSE ships' = [ships EXCEPT ![player] = IF @ = 0 THEN 0 ELSE @ - 1]
  BY DEF Invaders!SplashEnds, Invaders!DoJ, Invaders!TakeShip, Invaders!Spent, Invaders!Resumed, Invaders!GoOn,
      Invaders!seats
<1>2. /\ Invaders!inPlay /\ Invaders!inPlay' /\ ~GAME_ACTIVE
      /\ CabGame = "on" /\ CabGame' = "on"
  BY <1>1 DEF CabGame, Invaders!inPlay, Invaders!tilted, CabInv, CabTypes, Gates, OfGame
<1>3. /\ player \in Player /\ ships \in [Player -> Nat] /\ alive[player]
      /\ cabFlow = "doJ" => ships[player] > 0
      /\ player = Invaders!due
  BY <1>1, <1>2 DEF CabInv, CabTypes, Ships, Outcome, Asked, Rounds, Invaders!due, Invaders!inPlay,
      Invaders!Nobody, Invaders!Other, Player, Nobody, Other
<1>4. \A p \in Player : InSeat(p)' = InSeat(p) /\ reserve(p)' = reserve(p)
  <2>1. \A p \in Player : InSeat(p)' = InSeat(p)
    BY <1>1 DEF InSeat, Invaders!Playing, Invaders!out
  <2>2. CASE cabFlow = "splash"
    BY <1>1, <2>1, <2>2 DEF reserve, Invaders!taken
  <2>3. CASE cabFlow = "doJ"
    <3>1. ships'[player] = ships[player] - 1 /\ ships[player] \in Nat
          /\ \A p \in Player : p # player => ships'[p] = ships[p]
      BY <1>1, <1>3, <2>3
    <3>2. Invaders!taken(player)' /\ ~Invaders!taken(player)
          /\ \A p \in Player : p # player => Invaders!taken(p)' = Invaders!taken(p)
      BY <1>1, <2>3 DEF Invaders!taken
    <3>3. reserve(player)' = reserve(player)
      BY <1>1, <3>1, <3>2 DEF reserve, One
    <3>4. QED
      BY <1>1, <2>1, <3>1, <3>2, <3>3 DEF reserve
  <2>4. QED
    BY <1>1, <2>2, <2>3
<1>5. UNCHANGED <<Invaders!shipsLeft, CabHad, CabDue>>
  <2>1. UNCHANGED Invaders!shipsLeft
    BY <1>2, <1>4 DEF Invaders!shipsLeft, InSeat, reserve, One, Invaders!Player, Player
  <2>2. UNCHANGED <<CabHad, CabDue>>
    BY <1>1, <1>2 DEF CabHad, CabDue, Invaders!due, Invaders!Playing, Invaders!Other
  <2>3. QED
    BY <2>1, <2>2
<1>6. Invaders!shipsLeft[player] > 0
  <2>1. InSeat(player)
    BY <1>1, <1>2, <1>3, CabAccounts DEF InSeat, Invaders!out
  <2>2. reserve(player) > 0
    BY <1>1, <1>3 DEF reserve, One, Invaders!taken
  <2>3. QED
    BY <1>2, <1>3, <2>1, <2>2, CabAccounts
<1>7. CabDue = player /\ CabPlays = Nobody /\ CabPlays' = player
  BY <1>1, <1>2, <1>3 DEF CabDue, CabPlays, Invaders!Nobody, Nobody
<1>8. QED
  BY <1>2, <1>5, <1>6, <1>7 DEF Invaders!Taking!Play, Invaders!Taking!Nobody, Nobody, CabGame,
      CabHad, CabDue, CabPlays

\* The extra ship of a pass of the loop.
LEMMA CabGains ==
  ASSUME CabInv, Invaders!LoopPass
  PROVE  Invaders!Taking!ExtraLife \/ UNCHANGED CabTable
<1>1. /\ nextMain = "none" /\ cabFlow = "loop" /\ nextMain' = "none"
      /\ cabFlow' \in {"loop", "handoff"}
      /\ UNCHANGED <<GAME_IN_PROGRESS, GAME_ACTIVE, cabTwo, player, alive, cabDied>>
      /\ ships' \in [Player -> Nat] /\ extra' \in [Player -> BOOLEAN]
      /\ \A p \in Player : p # player => ships'[p] = ships[p] /\ extra'[p] = extra[p]
      /\ ships'[player] + One(extra'[player]) = ships[player] + One(extra[player])
      /\ extra'[player] => extra[player]
  <2>1. Passed
    BY Pass DEF CabInv
  <2>2. extra'[player] => extra[player]
    BY DEF Invaders!LoopPass, CabInv, CabTypes
  <2>3. nextMain = "none"
    BY DEF Invaders!LoopPass, Invaders!Resumed
  <2>4. QED
    BY <2>1, <2>2, <2>3 DEF Passed
<1>2. /\ player \in Player /\ ships \in [Player -> Nat] /\ extra \in [Player -> BOOLEAN]
      /\ alive[player] /\ player = Invaders!due /\ GAME_ACTIVE /\ GAME_IN_PROGRESS
  BY <1>1 DEF CabInv, CabTypes, Gates, OfGame, Ships, Rounds, Turnover, Invaders!due,
      Invaders!Nobody, Invaders!Other, Nobody, Other
<1>3. Invaders!inPlay /\ Invaders!inPlay' /\ CabGame = "on" /\ CabGame' = "on"
  BY <1>1, <1>2 DEF CabGame, Invaders!inPlay, Invaders!tilted
<1>4. UNCHANGED <<CabDue, CabPlays>>
  BY <1>1, <1>3 DEF CabDue, CabPlays, Invaders!due, Invaders!Other
<1>5. \A p \in Player : InSeat(p)' = InSeat(p) /\ Invaders!taken(p)' = Invaders!taken(p)
  BY <1>1 DEF InSeat, Invaders!Playing, Invaders!out, Invaders!taken
<1>6. CASE extra'[player] = extra[player]
  <2>1. extra' = extra
    BY <1>1, <1>2, <1>6
  <2>2. \A p \in Player : ships'[p] = ships[p]
    BY <1>1, <1>2, <1>6 DEF One
  <2>3. QED
    BY <1>1, <1>3, <1>4, <1>5, <2>1, <2>2, CabStutter DEF reserve
<1>7. CASE extra'[player] # extra[player]
  <2>1. ~extra'[player] /\ extra[player] /\ ships'[player] = ships[player] + 1
    BY <1>1, <1>2, <1>7 DEF One
  <2>2. InSeat(player) /\ player \in Invaders!Playing
    BY <1>1, <1>2, <1>3, CabAccounts DEF InSeat, Invaders!out
  <2>3. /\ Invaders!shipsLeft \in [Player -> Nat]
        /\ \A p \in Player : Invaders!shipsLeft[p] = IF InSeat(p) THEN reserve(p) ELSE 0
    BY <1>3, CabAccounts
  <2>4. Invaders!shipsLeft' = [Invaders!shipsLeft EXCEPT ![player] = @ + 1]
    <3>1. \A p \in Player : Invaders!shipsLeft'[p] =
                              IF InSeat(p)' THEN ships'[p] + One(Invaders!taken(p)') ELSE 0
      BY <1>3 DEF Invaders!shipsLeft, InSeat, One, Invaders!Player, Player
    <3>2. /\ Invaders!shipsLeft'[player] = Invaders!shipsLeft[player] + 1
          /\ \A p \in Player : p # player => Invaders!shipsLeft'[p] = Invaders!shipsLeft[p]
      BY <1>1, <1>2, <1>5, <2>1, <2>2, <2>3, <3>1 DEF reserve, One
    <3>3. Invaders!shipsLeft' = [p \in Player |-> Invaders!shipsLeft'[p]]
      BY DEF Invaders!shipsLeft, Invaders!Player, Player
    <3>4. QED
      BY <1>2, <2>3, <3>2, <3>3
  <2>5. CabHad' = CabHad \cup {player} /\ player \notin CabHad
    BY <1>1, <1>3, <2>1, <2>2 DEF CabHad, Invaders!Playing, Invaders!Player, Player
  <2>6. Invaders!shipsLeft[player] > 0
    <3>1. Invaders!taken(player)
      BY <1>1 DEF Invaders!taken
    <3>2. QED
      BY <1>2, <2>2, <2>3, <3>1 DEF reserve, One
  <2>7. CabDue = player
    BY <1>2, <1>3 DEF CabDue
  <2>8. /\ CabGame = "on" /\ Invaders!shipsLeft[CabDue] > 0 /\ CabDue \notin CabHad
        /\ Invaders!shipsLeft' = [Invaders!shipsLeft EXCEPT ![CabDue] = @ + 1]
        /\ CabHad' = CabHad \cup {CabDue} /\ UNCHANGED <<CabGame, CabDue, CabPlays>>
    BY <1>3, <1>4, <2>4, <2>5, <2>6, <2>7
  <2>9. Invaders!Taking!ExtraLife
    BY <2>8, Zenon DEF Invaders!Taking!ExtraLife, CabGame, CabHad, CabDue, CabPlays
  <2>10. QED
    BY <2>9
<1>8. QED
  BY <1>6, <1>7

\* The turn of the player at play ends, with so many ships left.
LEMMA CabTurnEnds ==
  ASSUME CabInv, Invaders!inPlay, Invaders!inPlay', GAME_ACTIVE, ~GAME_ACTIVE',
         player = Invaders!due, InSeat(player), Invaders!taken(player), cabDied' = player,
         UNCHANGED <<cabTwo, player, alive, extra, ships>>, NEW left,
         left = IF InSeat(player)' THEN reserve(player)' ELSE 0
  PROVE  Invaders!Taking!TurnEnds(left)
<1>1. /\ player \in Player /\ Other(player) \in Player /\ Other(player) # player
      /\ \A p \in Player : p = player \/ p = Other(player)
      /\ player # Invaders!Nobody
  BY DEF CabInv, CabTypes, Player, Other, Invaders!Nobody
<1>2. /\ Invaders!shipsLeft \in [Player -> Nat] /\ Invaders!shipsLeft[player] > 0
      /\ Invaders!shipsLeft[Other(player)] > 0 <=> cabTwo /\ alive[Other(player)]
  <2>1. reserve(player) > 0
    BY <1>1 DEF reserve, One, CabInv, CabTypes
  <2>2. QED
    BY <1>1, <2>1, CabAccounts
<1>3. Invaders!shipsLeft' = [Invaders!shipsLeft EXCEPT ![player] = left]
  <2>1. Invaders!shipsLeft'[player] = left
    BY <1>1 DEF Invaders!shipsLeft, InSeat, reserve, One, Invaders!Player, Player
  <2>2. Invaders!shipsLeft'[Other(player)] = Invaders!shipsLeft[Other(player)]
    <3>1. InSeat(Other(player))' = InSeat(Other(player))
      BY <1>1 DEF InSeat, Invaders!Playing, Invaders!out, Other
    <3>2. ~Invaders!taken(Other(player)) /\ ~Invaders!taken(Other(player))'
      BY <1>1 DEF Invaders!taken, Other
    <3>3. QED
      BY <1>1, <3>1, <3>2 DEF Invaders!shipsLeft, InSeat, Invaders!Player, Player, Other
  <2>3. Invaders!shipsLeft' = [p \in Player |-> Invaders!shipsLeft'[p]]
    BY DEF Invaders!shipsLeft, Invaders!Player, Player
  <2>4. QED
    BY <1>1, <1>2, <2>1, <2>2, <2>3
<1>4. CabDue = player /\ CabDue' = IF Invaders!shipsLeft[Other(player)] > 0 THEN Other(player) ELSE player
  BY <1>1, <1>2 DEF CabDue, Invaders!due, Invaders!Other, Other
<1>5. CabPlays = player /\ CabPlays' = Nobody
  BY DEF CabPlays, Invaders!Nobody, Nobody
<1>6. UNCHANGED CabHad /\ CabGame = "on" /\ CabGame' = "on"
  BY DEF CabHad, CabGame, Invaders!Playing, Invaders!inPlay
<1>7. /\ CabGame = "on" /\ CabPlays = CabDue /\ Invaders!shipsLeft[CabDue] > 0
      /\ Invaders!shipsLeft' = [Invaders!shipsLeft EXCEPT ![CabDue] = left]
      /\ CabDue' = IF Invaders!shipsLeft[Other(CabDue)] > 0 THEN Other(CabDue) ELSE CabDue
      /\ CabPlays' = Nobody /\ UNCHANGED <<CabGame, CabHad>>
  BY <1>2, <1>3, <1>4, <1>5, <1>6
<1>8. QED
  BY <1>7, Zenon DEF Invaders!Taking!TurnEnds, Invaders!Taking!Other, Invaders!Taking!Nobody, Other,
      Nobody, CabGame, CabHad, CabDue, CabPlays

\* playerShipHandler: the ship in play is lost.
LEMMA CabLoses ==
  ASSUME CabInv, Invaders!ShipLost
  PROVE  Invaders!Taking!LoseLife
<1>1. /\ cabTurn = "vblank" /\ GAME_ACTIVE /\ GAME_IN_PROGRESS /\ ~WARM_RESTART_SUPPRESS
      /\ GAME_ACTIVE' = FALSE /\ nextMain' \in {"gameOver", "newRound", "doJ"} /\ cabDied' = player
      /\ UNCHANGED <<cabFlow, GAME_IN_PROGRESS, cabTwo, player, alive, extra, ships>>
  BY DEF Invaders!ShipLost, Invaders!Serviced, Invaders!Vblank, Invaders!InGame,
      Invaders!afterDeath
<1>2. cabFlow \in {"loop", "handoff"} /\ nextMain \in {"none", "invasion"}
  BY <1>1 DEF CabInv, Gates, Switch, Turnover
<1>3. Invaders!inPlay /\ Invaders!inPlay' /\ Invaders!taken(player) /\ ~Invaders!taken(player)'
  BY <1>1, <1>2 DEF Invaders!inPlay, Invaders!tilted, Invaders!taken
<1>4. alive[player] /\ player = Invaders!due
  BY <1>1, <1>2 DEF CabInv, Ships, Rounds, Invaders!due, Invaders!Nobody, Invaders!Other, Nobody,
      Other
<1>5. InSeat(player) /\ InSeat(player)'
  BY <1>1, <1>2, <1>3, <1>4, CabAccounts DEF InSeat, Invaders!out, Invaders!Playing
<1>6. /\ ships[player] \in Nat /\ reserve(player)' = ships[player]
      /\ Invaders!shipsLeft[player] = ships[player] + 1 /\ CabDue = player
  BY <1>1, <1>3, <1>4, <1>5, CabAccounts DEF reserve, One, CabInv, CabTypes, CabDue
<1>7. Invaders!shipsLeft[CabDue] - 1 = IF InSeat(player)' THEN reserve(player)' ELSE 0
  BY <1>5, <1>6
<1>8. Invaders!Taking!TurnEnds(Invaders!shipsLeft[CabDue] - 1)
  BY <1>1, <1>3, <1>4, <1>5, <1>7, CabTurnEnds
<1>9. QED
  BY <1>8, Zenon DEF Invaders!Taking!LoseLife, CabDue

\* The fleet has landed and the ship is gone: the player is out, or the pass goes on.
LEMMA CabLands ==
  ASSUME CabInv, Invaders!LastStand
  PROVE  Invaders!Taking!LoseAll \/ UNCHANGED CabTable
<1>1. /\ nextMain = "none" /\ cabFlow = "lastStand" /\ nextMain' = "none"
      /\ UNCHANGED <<GAME_IN_PROGRESS, cabTwo, player, alive, extra, ships>>
      /\ \/ cabFlow' = "gameOver" /\ GAME_ACTIVE' = FALSE /\ cabDied' = player
         \/ cabFlow' = "lastStand" /\ UNCHANGED <<GAME_ACTIVE, cabDied>>
  BY DEF Invaders!LastStand, Invaders!Resumed, Invaders!GoOn, Invaders!Yield
<1>2. GAME_IN_PROGRESS /\ GAME_ACTIVE /\ alive[player] /\ player = Invaders!due
  BY <1>1 DEF CabInv, Gates, OfGame, Ships, Turnover
<1>3. Invaders!inPlay /\ Invaders!inPlay'
  BY <1>1, <1>2 DEF Invaders!inPlay, Invaders!tilted
<1>4. CASE cabFlow' = "gameOver" /\ GAME_ACTIVE' = FALSE /\ cabDied' = player
  <2>1. InSeat(player) /\ Invaders!taken(player) /\ ~InSeat(player)'
    BY <1>1, <1>2, <1>3, <1>4, CabAccounts DEF InSeat, Invaders!out, Invaders!taken
  <2>2. Invaders!Taking!TurnEnds(0)
    BY <1>1, <1>2, <1>3, <1>4, <2>1, CabTurnEnds
  <2>3. QED
    BY <2>2 DEF Invaders!Taking!LoseAll
<1>5. CASE cabFlow' = "lastStand" /\ UNCHANGED <<GAME_ACTIVE, cabDied>>
  <2>1. UNCHANGED <<CabDue, CabPlays>>
    BY <1>1, <1>3, <1>5 DEF CabDue, CabPlays, Invaders!due, Invaders!Other
  <2>2. \A p \in Player : UNCHANGED <<InSeat(p), reserve(p)>>
    BY <1>1, <1>5 DEF InSeat, reserve, Invaders!Playing, Invaders!out, Invaders!taken
  <2>3. QED
    BY <1>1, <1>3, <2>1, <2>2, CabStutter
<1>6. QED
  BY <1>1, <1>4, <1>5

\* gameOverFlow, and its banner: over with everybody out, else the other plays on.
LEMMA CabPlayerOut ==
  ASSUME CabInv, Invaders!GameOver \/ Invaders!BannerEnds
  PROVE  Invaders!Taking!GameOver \/ UNCHANGED CabTable
<1>1. /\ nextMain = "none" /\ nextMain' = "none"
      /\ UNCHANGED <<GAME_ACTIVE, GAME_IN_PROGRESS, cabTwo, player, extra, ships, cabDied>>
      /\ \/ /\ cabFlow = "gameOver" /\ cabFlow' = IF cabTwo THEN "banner" ELSE "teardown"
            /\ alive' = [alive EXCEPT ![player] = FALSE]
         \/ /\ cabFlow = "banner"
            /\ cabFlow' = IF alive[Other(player)] THEN "newRound" ELSE "teardown"
            /\ alive' = alive
  BY DEF Invaders!GameOver, Invaders!BannerEnds, Invaders!Resumed, Invaders!Yield, Invaders!GoOn,
      Invaders!nextUp, Invaders!gates, Invaders!seats, Invaders!Other, Other
<1>2. /\ GAME_IN_PROGRESS /\ cabDied = player /\ (~cabTwo => player = 0)
      /\ cabFlow = "banner" => cabTwo /\ ~alive[player]
      /\ player \in Player /\ alive \in [Player -> BOOLEAN]
      /\ Other(player) \in Player /\ Other(player) # player
      /\ \A p \in Player : p = player \/ p = Other(player)
  BY <1>1 DEF CabInv, CabTypes, Gates, OfGame, Outcome, Asked, Turnover, Player, Other
<1>3. Invaders!inPlay /\ ~Invaders!tilted /\ ~Invaders!tilted'
  BY <1>1, <1>2 DEF Invaders!inPlay, Invaders!tilted
<1>4. ~InSeat(player)
  BY <1>1, <1>2 DEF InSeat, Invaders!out
<1>5. CASE cabFlow' = "teardown"
  <2>1. ~Invaders!inPlay'
    BY <1>5 DEF Invaders!inPlay
  <2>2. ~InSeat(Other(player))
    BY <1>1, <1>2, <1>3, <1>5, CabAccounts
  <2>3. \A p \in Player : Invaders!shipsLeft[p] = 0
    BY <1>2, <1>3, <1>4, <2>2, CabAccounts
  <2>4. CabGame = "on" /\ CabGame' = "off"
    BY <1>3, <2>1 DEF CabGame
  <2>5. Invaders!shipsLeft' = [p \in Player |-> 0] /\ CabHad' = {} /\ CabDue' = 0
        /\ CabPlays' = Nobody
    BY <2>1, Bare
  <2>6. Invaders!Taking!GameOver
    BY <2>3, <2>4, <2>5, Zenon DEF Invaders!Taking!GameOver, Invaders!Taking!NoGame,
        Invaders!Taking!Player, Invaders!Taking!Nobody, Player, Nobody, CabGame, CabHad, CabDue,
        CabPlays
  <2>7. QED
    BY <2>6
<1>6. CASE cabFlow' \in {"banner", "newRound"}
  <2>1. Invaders!inPlay'
    BY <1>1, <1>2, <1>6 DEF Invaders!inPlay, Invaders!tilted
  <2>2. alive'[Other(player)] = alive[Other(player)] /\ ~alive'[player]
    BY <1>1, <1>2
  <2>3. UNCHANGED <<CabDue, CabPlays>>
    BY <1>1, <1>2, <1>3, <2>1, <2>2 DEF CabDue, CabPlays, Invaders!due, Invaders!Other, Other
  <2>4. \A p \in Player : UNCHANGED <<InSeat(p)>> /\ (InSeat(p) => reserve(p)' = reserve(p))
    <3>1. ~InSeat(player)'
      BY <1>1, <2>2 DEF InSeat, Invaders!out
    <3>2. InSeat(Other(player))' = InSeat(Other(player))
      BY <1>1, <1>2, <2>2 DEF InSeat, Invaders!out, Invaders!Playing, Other
    <3>3. reserve(Other(player))' = reserve(Other(player))
      BY <1>1, <1>2 DEF reserve, Invaders!taken, Other
    <3>4. UNCHANGED <<InSeat(player), InSeat(Other(player))>>
      BY <1>4, <3>1, <3>2 DEF InSeat
    <3>5. QED
      BY <1>1, <1>2, <1>4, <3>3, <3>4 DEF Other
  <2>5. QED
    BY <1>1, <1>3, <2>1, <2>3, <2>4, CabStutter
<1>7. QED
  BY <1>1, <1>5, <1>6

\* The engine starts what an interrupt asked for: where it leads was settled with the ship.
LEMMA CabRestarts ==
  ASSUME CabInv, Invaders!Restart
  PROVE  Invaders!Taking!TiltEnds \/ UNCHANGED CabTable
<1>1. /\ nextMain # "none" /\ cabFlow' = nextMain /\ nextMain' = "none"
      /\ UNCHANGED <<GAME_ACTIVE, GAME_IN_PROGRESS, cabTwo, player, alive, extra, ships, cabDied>>
  BY DEF Invaders!Restart, Invaders!gates, Invaders!seats
<1>2. CASE nextMain = "tilt"
  <2>1. /\ Invaders!tilted /\ Invaders!tilted' /\ ~Invaders!inPlay /\ ~Invaders!inPlay'
    BY <1>1, <1>2 DEF Invaders!inPlay, Invaders!tilted
  <2>2. QED
    BY <2>1, CabOff
<1>3. CASE nextMain = "creditScreen"
  <2>1. ~Invaders!inPlay /\ ~Invaders!inPlay' /\ ~Invaders!tilted'
    BY <1>1, <1>3 DEF CabInv, Gates, Invaders!inPlay, Invaders!tilted
  <2>2. CASE ~Invaders!tilted
    BY <2>1, <2>2, CabOff DEF Invaders!tilted
  <2>3. CASE Invaders!tilted
    <3>1. CabGame = "tilted" /\ CabGame' = "off"
      BY <2>1, <2>3 DEF CabGame
    <3>2. QED
      BY <2>1, <3>1, Bare DEF Invaders!Taking!TiltEnds, Invaders!Taking!NoGame,
        Invaders!Taking!Player, Invaders!Taking!Nobody, Player, Nobody, CabGame, CabHad, CabDue,
        CabPlays
  <2>4. QED
    BY <2>2, <2>3
<1>4. CASE nextMain \in {"gameOver", "newRound", "doJ", "invasion"}
  <2>1. /\ cabFlow \in {"loop", "handoff"} /\ GAME_IN_PROGRESS
        /\ nextMain = "gameOver" => ships[player] = 0
    BY <1>4 DEF CabInv, Gates, Turnover
  <2>2. Invaders!inPlay /\ Invaders!inPlay'
    BY <1>1, <1>4, <2>1 DEF Invaders!inPlay, Invaders!tilted
  <2>3. UNCHANGED <<CabDue, CabPlays>>
    BY <1>1, <2>2 DEF CabDue, CabPlays, Invaders!due, Invaders!Other
  <2>4. \A p \in Player : Invaders!taken(p)' = Invaders!taken(p)
    BY <1>1, <1>4, <2>1 DEF Invaders!taken
  <2>5. CASE nextMain # "gameOver"
    <3>1. \A p \in Player : UNCHANGED <<InSeat(p), reserve(p)>>
      BY <1>1, <2>1, <2>4, <2>5 DEF InSeat, Invaders!out, Invaders!Playing, reserve
    <3>2. QED
      BY <1>1, <2>2, <2>3, <3>1, CabStutter
  <2>6. CASE nextMain = "gameOver"
    \* The player with no ship left is out at once.
    <3>1. \A p \in Player : Invaders!shipsLeft'[p] = Invaders!shipsLeft[p]
      <4>1. \A p \in Player : p # player => UNCHANGED <<InSeat(p), reserve(p)>>
        BY <1>1, <2>1, <2>4 DEF InSeat, Invaders!out, Invaders!Playing, reserve
      <4>2. /\ player \in Player /\ ~InSeat(player)' /\ reserve(player) = 0
        BY <1>1, <2>1, <2>6 DEF CabInv, CabTypes, InSeat, Invaders!out, reserve, Invaders!taken, One
      <4>3. QED
        BY <1>1, <2>2, <4>1, <4>2 DEF Invaders!shipsLeft, InSeat, reserve, One, Invaders!Player,
            Player
    <3>2. UNCHANGED Invaders!shipsLeft
      <4>1. /\ Invaders!shipsLeft = [p \in Player |-> Invaders!shipsLeft[p]]
            /\ Invaders!shipsLeft' = [p \in Player |-> Invaders!shipsLeft'[p]]
        BY DEF Invaders!shipsLeft, Invaders!Player, Player
      <4>2. QED
        BY <3>1, <4>1
    <3>3. UNCHANGED <<CabGame, CabHad>>
      BY <1>1, <2>2 DEF CabGame, CabHad, Invaders!Playing, Invaders!inPlay
    <3>4. QED
      BY <2>3, <3>2, <3>3 DEF CabTable
  <2>7. QED
    BY <2>5, <2>6
<1>5. QED
  BY <1>1, <1>2, <1>3, <1>4 DEF CabInv, CabTypes

\* What moves only the field is none of the table's business.
LEMMA CabRests ==
  ASSUME UNCHANGED <<cabFlow, GAME_ACTIVE, GAME_IN_PROGRESS, cabTwo, player, alive, extra, ships,
                     cabDied>>,
         nextMain' = nextMain \/ {nextMain, nextMain'} \subseteq {"none", "invasion"}
  PROVE  UNCHANGED CabTable
<1>1. Invaders!tilted' = Invaders!tilted /\ Invaders!inPlay' = Invaders!inPlay
  BY DEF Invaders!tilted, Invaders!inPlay
<1>2. CASE ~Invaders!inPlay
  BY <1>1, <1>2, CabOff
<1>3. CASE Invaders!inPlay
  <2>1. UNCHANGED <<CabDue, CabPlays>>
    BY <1>1 DEF CabDue, CabPlays, Invaders!due, Invaders!Other
  <2>2. \A p \in Player : UNCHANGED <<InSeat(p), reserve(p)>>
    BY DEF InSeat, reserve, Invaders!Playing, Invaders!out, Invaders!taken
  <2>3. QED
    BY <1>1, <1>3, <2>1, <2>2, CabStutter
<1>4. QED
  BY <1>2, <1>3

\* Nor is what one flow hands on to the next within a turn, or between two.
LEMMA CabHandsOn ==
  ASSUME CabInv,
         Invaders!HandoffEnds \/ Invaders!NewRound \/ Invaders!HandoverEnds \/ Invaders!Invasion
  PROVE  UNCHANGED CabTable
<1>1. /\ nextMain = "none" /\ nextMain' = "none"
      /\ UNCHANGED <<GAME_ACTIVE, GAME_IN_PROGRESS, cabTwo, alive, extra, cabDied>>
      /\ \/ /\ <<cabFlow, cabFlow'>> \in {<<"handoff", "loop">>, <<"invasion", "lastStand">>}
            /\ UNCHANGED <<player, ships>>
         \/ cabFlow = "newRound" /\ cabFlow' = "handover" /\ UNCHANGED ships
         \/ /\ cabFlow = "handover" /\ cabFlow' = "splash" /\ UNCHANGED player
            /\ ships' = [ships EXCEPT ![player] = IF @ = 0 THEN 0 ELSE @ - 1]
  BY DEF Invaders!HandoffEnds, Invaders!NewRound, Invaders!HandoverEnds, Invaders!Invasion,
      Invaders!TakeShip, Invaders!Spent, Invaders!Resumed, Invaders!Yield, Invaders!GoOn, Invaders!Seeded,
      Invaders!gates, Invaders!seats
<1>2. /\ Invaders!inPlay /\ Invaders!inPlay'
      /\ cabFlow \in {"newRound", "handover"} => ~GAME_ACTIVE
      /\ cabFlow = "handover" => ships[player] > 0
      /\ player \in Player /\ ships \in [Player -> Nat]
  BY <1>1 DEF CabInv, CabTypes, Gates, OfGame, Outcome, Invaders!inPlay, Invaders!tilted
<1>3. UNCHANGED <<CabDue, CabPlays>>
  BY <1>1, <1>2 DEF CabDue, CabPlays, Invaders!due, Invaders!Other
<1>4. \A p \in Player : UNCHANGED InSeat(p)
  BY <1>1 DEF InSeat, Invaders!Playing, Invaders!out
<1>5. \A p \in Player : reserve(p)' = reserve(p)
  <2>1. CASE cabFlow \in {"handoff", "invasion", "newRound"}
    BY <1>1, <2>1 DEF reserve, Invaders!taken
  <2>2. CASE cabFlow = "handover"
    <3>1. /\ ships'[player] = ships[player] - 1 /\ ships[player] \in Nat
          /\ \A p \in Player : p # player => ships'[p] = ships[p]
      BY <1>1, <1>2, <2>2
    <3>2. \A p \in Player : ~Invaders!taken(p) /\ (Invaders!taken(p)' <=> p = player)
      BY <1>1, <2>2 DEF Invaders!taken
    <3>3. \A p \in Player : reserve(p)' = ships'[p] + One(p = player) /\ reserve(p) = ships[p] + 0
      BY <3>2 DEF reserve, One
    <3>4. QED
      BY <1>2, <3>1, <3>3 DEF One
  <2>3. QED
    BY <1>1, <2>1, <2>2
<1>6. QED
  BY <1>1, <1>2, <1>3, <1>4, <1>5, CabStutter

\* A step with no game on before and after.
LEMMA CabIdles ==
  ASSUME CabInv, Invaders!DemoBegins \/ Invaders!DemoEnds \/ Invaders!CreditScreen
                   \/ Invaders!TeardownEnds \/ Invaders!Tilt
  PROVE  UNCHANGED CabTable
<1>1. /\ nextMain = "none" /\ nextMain' = "none"
      /\ \/ /\ <<cabFlow, cabFlow'>> \in {<<"attract", "demo">>, <<"demo", "attract">>,
                                           <<"creditScreen", "prompt">>}
            /\ UNCHANGED GAME_IN_PROGRESS
         \/ cabFlow = "teardown" /\ cabFlow' = "attract" /\ GAME_IN_PROGRESS' = FALSE
         \/ cabFlow = "tilt" /\ cabFlow' = "tiltBanner"
  BY DEF Invaders!DemoBegins, Invaders!DemoEnds, Invaders!CreditScreen, Invaders!TeardownEnds,
      Invaders!Tilt, Invaders!Resumed, Invaders!Yield, Invaders!GoOn, Invaders!gates
<1>2. ~Invaders!inPlay /\ ~Invaders!inPlay' /\ Invaders!tilted' = Invaders!tilted
  BY <1>1 DEF CabInv, Gates, OfGame, Invaders!inPlay, Invaders!tilted
<1>3. QED
  BY <1>2, CabOff

\* A tilt breaks off whatever is on, and ends with its banner: checkTiltInput, tiltReset.
LEMMA CabTilts ==
  ASSUME CabInv, Invaders!TiltSwitch \/ Invaders!TiltEnds
  PROVE  Invaders!Taking!Tilt \/ Invaders!Taking!TiltEnds \/ UNCHANGED CabTable
<1> USE Bare DEF Invaders!Taking!NoGame, Invaders!Taking!Player, Invaders!Taking!Nobody, Player,
        Nobody
<1>1. CASE Invaders!TiltSwitch
  <2>1. nextMain' = "tilt"
    BY <1>1 DEF Invaders!TiltSwitch
  <2>2. ~Invaders!inPlay' /\ CabGame' = "tilted"
    BY <2>1 DEF Invaders!inPlay, Invaders!tilted, CabGame
  <2>3. CASE CabGame = "tilted"
    <3>1. Invaders!tilted /\ Invaders!tilted' /\ ~Invaders!inPlay
      BY <2>1, <2>3 DEF CabGame, Invaders!inPlay, Invaders!tilted
    <3>2. QED
      BY <2>2, <3>1, CabOff
  <2>4. CASE CabGame # "tilted"
    BY <2>2, <2>4 DEF Invaders!Taking!Tilt, CabGame, CabHad, CabDue, CabPlays
  <2>5. QED
    BY <2>3, <2>4
<1>2. CASE Invaders!TiltEnds
  <2>1. cabFlow = "tiltBanner" /\ cabFlow' = "teardown" /\ nextMain' = "none"
    BY <1>2 DEF Invaders!TiltEnds, Invaders!Resumed, Invaders!Yield
  <2>2. ~Invaders!inPlay' /\ CabGame = "tilted" /\ CabGame' = "off"
    BY <2>1 DEF Invaders!inPlay, Invaders!tilted, CabGame
  <2>3. QED
    BY <2>2 DEF Invaders!Taking!TiltEnds, CabGame, CabHad, CabDue, CabPlays
<1>3. QED
  BY <1>1, <1>2

\* Every step of the flows and the interrupts.
LEMMA CabTakesTurns ==
  ASSUME CabInv, Invaders!Next
  PROVE  [Invaders!Taking!Next]_CabTable
<1>1. CASE Invaders!WaitOn \/ Invaders!MidScreen \/ Invaders!VblankAttract \/ Invaders!VblankField
             \/ \E buttons \in Invaders!Buttons : Invaders!PromptWaits(buttons)
  <2>1. /\ UNCHANGED <<cabFlow, GAME_ACTIVE, GAME_IN_PROGRESS, cabTwo, player, alive, extra, ships,
                       cabDied>>
        /\ nextMain' = nextMain \/ {nextMain, nextMain'} \subseteq {"none", "invasion"}
    BY <1>1 DEF Invaders!WaitOn, Invaders!MidScreen, Invaders!FleetMarches, Invaders!VblankAttract,
        Invaders!VblankField, Invaders!PromptWaits, Invaders!Resumed, Invaders!Yield,
        Invaders!Serviced, Invaders!Vblank, Invaders!gates, Invaders!seats, CabInv, Gates
  <2>2. QED
    BY <2>1, CabRests
<1>2. CASE Invaders!ShowCredit
  <2>1. ~GAME_IN_PROGRESS /\ GAME_IN_PROGRESS' = GAME_IN_PROGRESS /\ cabFlow' = cabFlow
        /\ nextMain # "tilt" /\ nextMain' # "tilt"
    BY <1>2 DEF Invaders!ShowCredit, Invaders!Serviced, Invaders!Vblank, CabInv, Turnover
  <2>2. ~Invaders!inPlay /\ ~Invaders!inPlay' /\ Invaders!tilted' = Invaders!tilted
    BY <2>1 DEF Invaders!inPlay, Invaders!tilted
  <2>3. QED
    BY <2>2, CabOff
<1>3. CASE Invaders!DemoBegins \/ Invaders!DemoEnds \/ Invaders!CreditScreen
             \/ Invaders!TeardownEnds \/ Invaders!Tilt
  BY <1>3, CabIdles
<1>4. CASE Invaders!HandoffEnds \/ Invaders!NewRound \/ Invaders!HandoverEnds \/ Invaders!Invasion
  BY <1>4, CabHandsOn
<1>5. CASE Invaders!SplashEnds \/ Invaders!DoJ
  BY <1>5, CabPlaysOn DEF Invaders!Taking!Next
<1>6. CASE Invaders!LoopPass
  BY <1>6, CabGains DEF Invaders!Taking!Next
<1>7. CASE Invaders!ShipLost
  BY <1>7, CabLoses DEF Invaders!Taking!Next
<1>8. CASE Invaders!LastStand
  BY <1>8, CabLands DEF Invaders!Taking!Next
<1>9. CASE Invaders!GameOver \/ Invaders!BannerEnds
  BY <1>9, CabPlayerOut DEF Invaders!Taking!Next
<1>10. CASE Invaders!Restart
  BY <1>10, CabRestarts DEF Invaders!Taking!Next
<1>11. CASE Invaders!TiltSwitch \/ Invaders!TiltEnds
  BY <1>11, CabTilts DEF Invaders!Taking!Next
<1>12. ASSUME NEW buttons \in Invaders!Buttons, Invaders!StartGame(buttons)
       PROVE  [Invaders!Taking!Next]_CabTable
  BY <1>12, CabStarts DEF Invaders!Taking!Next
<1>13. QED
  BY <1>1, <1>2, <1>3, <1>4, <1>5, <1>6, <1>7, <1>8, <1>9, <1>10, <1>11, <1>12 DEF Invaders!Next,
      Invaders!Main, Invaders!WaitEnds

\* Both games implement TurnTaking, for every number of lives and ships and whatever is queued,
\* awarded, asked for or tilted in between: commitGameStart to enterAttractMode, startGameFlow to
\* returnToAttractFlow.
THEOREM TurnAbout == GamesSpec => TakesTurns
<1>1. GamesInit => Taking!Init /\ Invaders!Taking!Init
  <2>1. Init => Taking!Init
    BY DEF Init, Taking!Init, Taking!NoGame, Taking!Player, Taking!Nobody, livesLeft, bonusHad,
        atPlay, InGame, Player, Nobody
  <2>2. Invaders!Init => ~Invaders!inPlay /\ CabGame = "off"
    BY DEF Invaders!Init, Invaders!inPlay, Invaders!tilted, CabGame
  <2>3. Invaders!Init => Invaders!Taking!Init
    BY <2>2, Bare DEF Invaders!Taking!Init, Invaders!Taking!NoGame, Invaders!Taking!Player,
        Invaders!Taking!Nobody, Player, Nobody, CabGame, CabHad, CabDue, CabPlays
  <2>4. QED
    BY <2>1, <2>3 DEF GamesInit
<1>2. KongInv /\ [GamesNext]_gamesVars => [Taking!Next]_(Taking!vars)
  <2>1. ASSUME KongInv, Next PROVE [Taking!Next]_(Taking!vars)
    BY <2>1, KongTakesTurns, Zenon DEF KongTable, Taking!vars, KongGame, KongTurn, KongPlays
  <2>2. ASSUME UNCHANGED vars PROVE UNCHANGED Taking!vars
    <3>1. UNCHANGED KongPlays
      BY <2>2 DEF KongPlays, atPlay, vars, flow, players
    <3>2. \A p \in Player : UNCHANGED <<block(p).lives, block(p).bonus>>
      BY <2>2 DEF block, Between, vars, flow, players
    <3>3. UNCHANGED KongTable
      BY <2>2, <3>1, <3>2, KongStutter DEF vars, flow, players, history
    <3>4. QED
      BY <3>3, Zenon DEF KongTable, Taking!vars, KongGame, KongTurn, KongPlays
  <2>3. QED
    BY <2>1, <2>2, OneGameAtATime
<1>3. CabInv /\ [GamesNext]_gamesVars => [Invaders!Taking!Next]_(Invaders!Taking!vars)
  <2>1. ASSUME CabInv, Invaders!Next PROVE [Invaders!Taking!Next]_(Invaders!Taking!vars)
    BY <2>1, CabTakesTurns, Zenon DEF CabTable, Invaders!Taking!vars, CabGame, CabHad, CabDue,
        CabPlays
  <2>2. ASSUME UNCHANGED cabVars PROVE UNCHANGED Invaders!Taking!vars
    <3>1. UNCHANGED CabTable
      BY <2>2, CabRests DEF cabVars
    <3>2. QED
      BY <3>1, Zenon DEF CabTable, Invaders!Taking!vars, CabGame, CabHad, CabDue, CabPlays
  <2>3. QED
    BY <2>1, <2>2, OneGameAtATime
<1>4. QED
  BY <1>1, <1>2, <1>3, GamesInvariant, PTL DEF GamesSpec, TakesTurns, Taking!Spec,
      Invaders!Taking!Spec

-----------------------------------------------------------------------------
(* Packed-BCD bytes.                                                       *)

\* Decimal!Digits of a byte, and a sum or difference of bytes as a byte.
LEMMA Nibbles ==
  /\ \A t \in Int, s \in 0 .. 15 : (16 * t + s) \div 16 = t /\ (16 * t + s) % 16 = s
  /\ \A r \in 0 .. 511 : r % 256 = IF r > 255 THEN r - 256 ELSE r
  /\ \A r \in -256 .. -1 : r % 256 = r + 256
  /\ \A t \in Int : (2 * t) % 2 = 0 /\ (2 * t + 1) % 2 = 1
<1>1. \A t \in Int, s \in 0 .. 15 : (16 * t + s) \div 16 = t /\ (16 * t + s) % 16 = s
  OBVIOUS
<1>2. \A r \in 0 .. 511 : r % 256 = IF r > 255 THEN r - 256 ELSE r
  OBVIOUS
<1>3. \A r \in -256 .. -1 : r % 256 = r + 256
  OBVIOUS
<1>4. \A t \in Int : (2 * t) % 2 = 0 /\ (2 * t + 1) % 2 = 1
  OBVIOUS
<1>5. QED
  BY <1>1, <1>2, <1>3, <1>4

LEMMA PackedDigits ==
  /\ \A t, u \in 0 .. 9 : 16 * t + u \in Decimal!Packed /\ Decimal!Digits(16 * t + u) = 10 * t + u
  /\ \A b \in Decimal!Packed : \E t, u \in 0 .. 9 : b = 16 * t + u
<1>1. \A t, u \in 0 .. 9 : 16 * t + u \in Decimal!Packed /\ Decimal!Digits(16 * t + u) = 10 * t + u
  BY Nibbles DEF Decimal!Packed, Decimal!Digits
<1>2. \A b \in Decimal!Packed : \E t, u \in 0 .. 9 : b = 16 * t + u
  BY DEF Decimal!Packed
<1>3. QED
  BY <1>1, <1>2

\* A sum: of the tens t and the units with the carry s.
LEMMA Sums ==
  ASSUME NEW a \in Decimal!Packed, NEW b \in Decimal!Packed, NEW c \in {0, 1}
  PROVE  /\ Decimal!SumIsDecimal(a, b, c) /\ Decimal!bcdAddByte(a, b, c).carry \in {0, 1}
         /\ Decimal!bcdAddByte(a, b, c).value \in Decimal!Packed
<1>1. PICK h \in 0 .. 9, l \in 0 .. 9 : a = 16 * h + l
  BY PackedDigits
<1>2. PICK g \in 0 .. 9, m \in 0 .. 9 : b = 16 * g + m
  BY PackedDigits
<1> DEFINE t == h + g
           s == l + m + c
           r == a + b + c
           k == IF s > 9 THEN 1 ELSE 0
           d == IF t + k > 9 THEN 1 ELSE 0
           res == r % 256
<1>3. /\ h \in 0 .. 9 /\ g \in 0 .. 9 /\ l \in 0 .. 9 /\ m \in 0 .. 9
      /\ t \in 0 .. 18 /\ s \in 0 .. 19 /\ r = 16 * t + s /\ t = h + g
      /\ k \in {0, 1} /\ d \in {0, 1}
      /\ (k = 1 <=> s > 9) /\ (d = 1 <=> t + k > 9)
  BY <1>1, <1>2
<1>4. /\ a \div 16 = h /\ b \div 16 = g
      /\ Decimal!Digits(a) = 10 * h + l /\ Decimal!Digits(b) = 10 * g + m
  BY <1>1, <1>2, Nibbles, PackedDigits
<1> HIDE DEF t, s, k, d
<1>5. res = IF r > 255 THEN r - 256 ELSE r
  BY <1>3, Nibbles
<1>6. \/ s < 16 /\ r <= 255 /\ res = 16 * t + s
      \/ s < 16 /\ r > 255 /\ res = 16 * (t - 16) + s
      \/ s >= 16 /\ r <= 255 /\ res = 16 * (t + 1) + (s - 16)
      \/ s >= 16 /\ r > 255 /\ res = 16 * (t - 15) + (s - 16)
  BY <1>3, <1>5
<1>7. /\ res \div 16 \in {IF s < 16 THEN t ELSE t + 1, IF s < 16 THEN t - 16 ELSE t - 15}
      /\ res % 16 = IF s < 16 THEN s ELSE s - 16
  BY <1>3, <1>6, Nibbles
<1>8. Decimal!halfCarried(a, b, res) <=> s >= 16
  <2>1. h + g + (res \div 16) \in
          {IF s < 16 THEN 2 * t ELSE 2 * t + 1, IF s < 16 THEN 2 * (t - 8) ELSE 2 * (t - 8) + 1}
    BY <1>3, <1>7
  <2>2. (h + g + (res \div 16)) % 2 = IF s < 16 THEN 0 ELSE 1
    BY <1>3, <2>1, Nibbles
  <2>3. QED
    BY <1>3, <1>4, <2>2 DEF Decimal!halfCarried
<1>9. Decimal!lowCorrection(res, Decimal!halfCarried(a, b, res)) = 6 * k
  BY <1>3, <1>7, <1>8 DEF Decimal!lowCorrection
<1>10. Decimal!decimalCarry(res, r > 255) <=> d = 1
  BY <1>3, <1>5 DEF Decimal!decimalCarry
<1>11. Decimal!bcdAddByte(a, b, c) = [value |-> (res + (6 * k + (IF d = 1 THEN 96 ELSE 0))) % 256,
                              carry |-> d]
  BY <1>3, <1>9, <1>10 DEF Decimal!bcdAddByte, Decimal!daaByte, Decimal!Flag
<1> DEFINE tens == t + k - 10 * d
           units == s - 10 * k
<1>12. tens \in 0 .. 9 /\ units \in 0 .. 9
  BY <1>3
<1>13. (res + (6 * k + (IF d = 1 THEN 96 ELSE 0))) % 256 = 16 * tens + units
  <2>1. (res + (6 * k + (IF d = 1 THEN 96 ELSE 0))) \in {16 * tens + units, 16 * tens + units + 256}
    BY <1>3, <1>5
  <2>2. 16 * tens + units \in 0 .. 255
    BY <1>12
  <2> HIDE DEF tens, units, res
  <2>3. QED
    BY <2>1, <2>2, Nibbles
<1>14. 16 * tens + units \in Decimal!Packed /\ Decimal!Digits(16 * tens + units) = 10 * tens + units
  BY <1>12, PackedDigits
<1>15. 10 * tens + units + 100 * d = Decimal!Digits(a) + Decimal!Digits(b) + c
  BY <1>3, <1>4 DEF s
<1> HIDE DEF tens, units
<1>16. QED
  BY <1>3, <1>11, <1>13, <1>14, <1>15 DEF Decimal!SumIsDecimal

\* A difference: of the tens t and the units less the borrow s.
LEMMA Differences ==
  ASSUME NEW a \in Decimal!Packed, NEW b \in Decimal!Packed, NEW c \in {0, 1}
  PROVE  /\ Decimal!DifferenceIsDecimal(a, b, c) /\ Decimal!bcdSubByte(a, b, c).carry \in {0, 1}
         /\ Decimal!bcdSubByte(a, b, c).value \in Decimal!Packed
<1>1. PICK h \in 0 .. 9, l \in 0 .. 9 : a = 16 * h + l
  BY PackedDigits
<1>2. PICK g \in 0 .. 9, m \in 0 .. 9 : b = 16 * g + m
  BY PackedDigits
<1> DEFINE t == h - g
           s == l - m - c
           r == a - b - c
           k == IF s < 0 THEN 1 ELSE 0
           d == IF t - k < 0 THEN 1 ELSE 0
           res == r % 256
<1>3. /\ h \in 0 .. 9 /\ g \in 0 .. 9 /\ l \in 0 .. 9 /\ m \in 0 .. 9
      /\ t \in -9 .. 9 /\ s \in -10 .. 9 /\ r = 16 * t + s /\ t = h - g
      /\ k \in {0, 1} /\ d \in {0, 1}
      /\ (k = 1 <=> s < 0) /\ (d = 1 <=> t - k < 0)
  BY <1>1, <1>2
<1>4. /\ a \div 16 = h /\ b \div 16 = g
      /\ Decimal!Digits(a) = 10 * h + l /\ Decimal!Digits(b) = 10 * g + m
  BY <1>1, <1>2, Nibbles, PackedDigits
<1> HIDE DEF t, s, k, d
<1>5. res = IF r < 0 THEN r + 256 ELSE r
  BY <1>3, Nibbles
<1>6. \/ s >= 0 /\ r >= 0 /\ res = 16 * t + s
      \/ s >= 0 /\ r < 0 /\ res = 16 * (t + 16) + s
      \/ s < 0 /\ r >= 0 /\ res = 16 * (t - 1) + (s + 16)
      \/ s < 0 /\ r < 0 /\ res = 16 * (t + 15) + (s + 16)
  BY <1>3, <1>5
<1>7. /\ res \div 16 \in {IF s < 0 THEN t - 1 ELSE t, IF s < 0 THEN t + 15 ELSE t + 16}
      /\ res % 16 = IF s < 0 THEN s + 16 ELSE s
  BY <1>3, <1>6, Nibbles
<1>8. Decimal!halfCarried(a, b, res) <=> s < 0
  <2>1. h + g + (res \div 16) \in
          {IF s < 0 THEN 2 * (h - 1) + 1 ELSE 2 * h, IF s < 0 THEN 2 * (h + 7) + 1 ELSE 2 * (h + 8)}
    BY <1>3, <1>7
  <2>2. (h + g + (res \div 16)) % 2 = IF s < 0 THEN 1 ELSE 0
    BY <1>3, <2>1, Nibbles
  <2>3. QED
    BY <1>3, <1>4, <2>2 DEF Decimal!halfCarried
<1>9. Decimal!lowCorrection(res, Decimal!halfCarried(a, b, res)) = 6 * k
  BY <1>3, <1>7, <1>8 DEF Decimal!lowCorrection
<1>10. Decimal!decimalCarry(res, r < 0) <=> d = 1
  BY <1>3, <1>5 DEF Decimal!decimalCarry
<1>11. Decimal!bcdSubByte(a, b, c) = [value |-> (res - (6 * k + (IF d = 1 THEN 96 ELSE 0))) % 256,
                              carry |-> d]
  BY <1>3, <1>9, <1>10 DEF Decimal!bcdSubByte, Decimal!daaByte, Decimal!Flag
<1> DEFINE tens == t - k + 10 * d
           units == s + 10 * k
<1>12. tens \in 0 .. 9 /\ units \in 0 .. 9
  BY <1>3
<1>13. (res - (6 * k + (IF d = 1 THEN 96 ELSE 0))) % 256 = 16 * tens + units
  <2>1. (res - (6 * k + (IF d = 1 THEN 96 ELSE 0))) \in {16 * tens + units, 16 * tens + units - 256}
    BY <1>3, <1>5
  <2>2. 16 * tens + units \in 0 .. 255
    BY <1>12
  <2> HIDE DEF tens, units, res
  <2>3. QED
    BY <2>1, <2>2, Nibbles
<1>14. 16 * tens + units \in Decimal!Packed /\ Decimal!Digits(16 * tens + units) = 10 * tens + units
  BY <1>12, PackedDigits
<1>15. 10 * tens + units - 100 * d = Decimal!Digits(a) - Decimal!Digits(b) - c
  BY <1>3, <1>4 DEF s
<1> DEFINE v == 16 * tens + units
<1>16. Decimal!bcdSubByte(a, b, c) = [value |-> v, carry |-> d]
  BY <1>11, <1>13
<1>17. /\ v \in Decimal!Packed /\ Decimal!Digits(v) = 10 * tens + units
       /\ Decimal!Digits(v) - 100 * d = Decimal!Digits(a) - Decimal!Digits(b) - c
  <2>1. v \in Decimal!Packed /\ Decimal!Digits(v) = 10 * tens + units
    BY <1>14
  <2> HIDE DEF v
  <2>2. Decimal!Digits(v) - 100 * d = 10 * tens + units - 100 * d
    BY <1>3, <2>1
  <2>3. QED
    BY <1>15, <2>1, <2>2
<1> HIDE DEF v, tens, units
<1>18. QED
  BY <1>3, <1>16, <1>17 DEF Decimal!DifferenceIsDecimal

\* The coin box: its sum is the byte of core/bcd.js without a carry in, and 99 more is one less.
LEMMA CoinSums ==
  ASSUME NEW a \in Decimal!Packed, NEW b \in Decimal!Packed
  PROVE  Decimal!CreditsAreDecimal(a, b)
<1>1. \A v, w \in Decimal!Packed : Decimal!bcdAdd(v, w) = Decimal!bcdAddByte(v, w, 0).value
  <2>1. \A v \in Decimal!Packed : v \in Int
    BY DEF Decimal!Packed
  <2>2. \A v, w \in Decimal!Packed : v + w + 0 = v + w
    BY <2>1
  <2>3. QED
    BY <2>2 DEF Decimal!bcdAdd, Decimal!bcdAddByte
<1>2. \A v \in Decimal!Packed : Decimal!Digits(v) \in 0 .. 99
  BY PackedDigits
<1>3. ASSUME NEW v \in Decimal!Packed, NEW w \in Decimal!Packed
      PROVE  Decimal!bcdAdd(v, w) \in Decimal!Packed /\ Decimal!Digits(Decimal!bcdAdd(v, w)) = (Decimal!Digits(v) + Decimal!Digits(w)) % 100
  <2> DEFINE sum == Decimal!bcdAddByte(v, w, 0)
  <2>1. /\ sum.value \in Decimal!Packed /\ sum.carry \in {0, 1}
        /\ Decimal!Digits(sum.value) + 100 * sum.carry = Decimal!Digits(v) + Decimal!Digits(w) + 0
    BY Sums DEF Decimal!SumIsDecimal
  <2>2. Decimal!bcdAdd(v, w) = sum.value
    BY <1>1
  <2> HIDE DEF sum
  <2>3. Decimal!Digits(sum.value) \in 0 .. 99 /\ Decimal!Digits(v) \in 0 .. 99 /\ Decimal!Digits(w) \in 0 .. 99
    BY <1>2, <2>1
  <2>4. Decimal!Digits(sum.value) = (Decimal!Digits(v) + Decimal!Digits(w)) % 100
    <3> DEFINE x == Decimal!Digits(sum.value)
               y == Decimal!Digits(v)
               z == Decimal!Digits(w)
               c == sum.carry
    <3>1. x \in 0 .. 99 /\ y \in 0 .. 99 /\ z \in 0 .. 99 /\ c \in {0, 1} /\ x + 100 * c = y + z + 0
      BY <2>1, <2>3
    <3> HIDE DEF x, y, z, c
    <3>2. x + 100 * c = y + z
      BY <3>1
    <3>3. CASE c = 0
      <4>1. x = y + z /\ x = x % 100
        BY <3>1, <3>2, <3>3
      <4>2. QED
        BY <4>1 DEF x, y, z
    <3>4. CASE c = 1
      <4>1. x + 100 = y + z /\ x = (x + 100) % 100
        BY <3>1, <3>2, <3>4
      <4>2. QED
        BY <4>1 DEF x, y, z
    <3>5. QED
      BY <3>1, <3>3, <3>4
  <2>5. QED
    BY <2>1, <2>2, <2>4
<1>4. 153 \in Decimal!Packed /\ Decimal!Digits(153) = 99
  <2>1. 153 = 16 * 9 + 9 /\ 99 = 10 * 9 + 9 /\ 9 \in 0 .. 9
    OBVIOUS
  <2>2. QED
    BY <2>1, PackedDigits
<1>5. Decimal!bcdDecrement(a) \in Decimal!Packed /\ Decimal!Digits(Decimal!bcdDecrement(a)) = (Decimal!Digits(a) + 99) % 100
  BY <1>3, <1>4 DEF Decimal!bcdDecrement
<1>6. (Decimal!Digits(a) + 99) % 100 = (Decimal!Digits(a) - 1) % 100
  BY <1>2
<1>7. QED
  BY <1>3, <1>5, <1>6 DEF Decimal!CreditsAreDecimal

BytesInv == byte \in Decimal!Packed /\ operand \in Decimal!Packed /\ carry \in {0, 1}

\* Sums, differences, coins and credits stay bytes of two digits.
LEMMA BytesKept == BytesInv /\ [GamesNext]_gamesVars => BytesInv'
<1>1. 0 \in Decimal!Packed /\ 1 \in Decimal!Packed
  <2>1. 0 = 16 * 0 + 0 /\ 1 = 16 * 0 + 1 /\ 0 \in 0 .. 9 /\ 1 \in 0 .. 9
    OBVIOUS
  <2>2. QED
    BY <2>1, PackedDigits
<1>2. ASSUME BytesInv, Decimal!Next PROVE BytesInv'
  <2>1. CASE Decimal!Add
    BY <1>2, <2>1, Sums DEF BytesInv, Decimal!Add, Decimal!Becomes
  <2>2. CASE Decimal!Sub
    BY <1>2, <2>2, Differences DEF BytesInv, Decimal!Sub, Decimal!Becomes
  <2>3. CASE Decimal!Credit
    BY <1>1, <1>2, <2>3, CoinSums DEF BytesInv, Decimal!Credit, Decimal!CreditsAreDecimal
  <2>4. CASE Decimal!Spend
    BY <1>2, <2>4, CoinSums DEF BytesInv, Decimal!Spend, Decimal!CreditsAreDecimal
  <2>5. QED
    BY <1>2, <2>1, <2>2, <2>3, <2>4 DEF Decimal!Next
<1>3. BytesInv /\ UNCHANGED bytes => BytesInv'
  BY DEF BytesInv, bytes
<1>4. QED
  BY <1>2, <1>3 DEF GamesNext, Kong, Cab, gamesVars

\* IsDecimal: the corrections of daaByte make every sum and difference of packed bytes the
\* decimal one, with its carry, and what the coin box writes out is the same sum.
THEOREM BytesAreDecimal == GamesSpec => []IsDecimal
<1>1. GamesInit => BytesInv
  <2>1. 0 = 16 * 0 + 0 /\ 0 \in 0 .. 9
    OBVIOUS
  <2>2. 0 \in Decimal!Packed
    BY <2>1, PackedDigits
  <2>3. QED
    BY <2>2 DEF GamesInit, Decimal!Init, BytesInv
<1>2. BytesInv => IsDecimal
  BY Sums, Differences, CoinSums
     DEF BytesInv, IsDecimal, Decimal!AddsInDecimal, Decimal!SubtractsInDecimal,
         Decimal!CoinBoxInDecimal
<1>3. QED
  BY <1>1, <1>2, BytesKept, PTL DEF GamesSpec
=============================================================================
