-------------------------------- MODULE Games --------------------------------
(***************************************************************************)
(* A game of one cabinet, whichever the page was asked for: Donkey Kong's  *)
(* state machine, driven by the vblank interrupt, or Space Invaders' flows,*)
(* dropped by its two; and the decimal arithmetic their scores and credits *)
(* share.  A run is of one of the three, the others stay where they start. *)
(*                                                                         *)
(* The two games keep the same accounts by different means: Donkey Kong    *)
(* swaps a block between live cells and two contexts, Space Invaders gives *)
(* each player a page and seeds work RAM between them.                     *)
(***************************************************************************)
EXTENDS PlayerTurns

CONSTANTS StartingShips, CREDIT_CAP, Wave, Bottom, Threshold, TopLevel

ASSUME ShipsAssumption == StartingShips \in Nat \ {0} /\ Threshold \in Nat \ {0}
ASSUME CreditAssumption == CREDIT_CAP \in 2 .. 99
ASSUME FieldAssumption == {Wave, Bottom} \subseteq Nat \ {0} /\ TopLevel \in Nat

VARIABLES chosen,
          cabTurn, cabFlow, nextMain, TASK_FLAGS,
          COIN_INPUT_LATCH, CREDIT_COUNT, CREDIT_SCREEN_SHOWN, TILT_RESET_ACTIVE,
          GAME_ACTIVE, GAME_IN_PROGRESS, cabTwo, player, alive, extra, ships, aliens, page,
          fleet, ship, WARM_RESTART_SUPPRESS, cabScore, packet, coin, paid,
          used, stands, cabDied,
          byte, operand, carry

Invaders == INSTANCE InvadersGame WITH
  turn <- cabTurn, flow <- cabFlow, TWO_PLAYER_GAME <- cabTwo,
  score <- cabScore, died <- cabDied
Decimal == INSTANCE Bcd

cabVars ==
  <<cabTurn, cabFlow, nextMain, TASK_FLAGS, COIN_INPUT_LATCH, CREDIT_COUNT, CREDIT_SCREEN_SHOWN,
    TILT_RESET_ACTIVE, GAME_ACTIVE, GAME_IN_PROGRESS, cabTwo, player, alive, extra, ships, aliens,
    page, fleet, ship, WARM_RESTART_SUPPRESS, cabScore, packet, coin, paid,
    used, stands, cabDied>>
bytes == <<byte, operand, carry>>
gamesVars == <<chosen, vars, cabVars, bytes>>

GamesInit ==
  /\ chosen \in {"dkong", "invaders", "bcd"}
  /\ Init /\ Invaders!Init /\ Decimal!Init

Kong(step) == chosen = "dkong" /\ step /\ UNCHANGED <<chosen, cabVars, bytes>>
Cab(step) == chosen = "invaders" /\ step /\ UNCHANGED <<chosen, vars, bytes>>

GamesNext ==
  \/ Kong(Next)
  \/ Cab(Invaders!Next)
  \/ chosen = "bcd" /\ Decimal!Next /\ UNCHANGED <<chosen, vars, cabVars>>

GamesSpec == GamesInit /\ [][GamesNext]_gamesVars

\* The fairness of the game that runs, as its module justifies it.
GamesFairSpec ==
  /\ GamesSpec /\ WF_gamesVars(GamesNext)
  /\ SF_gamesVars(Kong(Wait) \/ Cab(Invaders!WaitEnds))
  /\ SF_gamesVars(Kong(ResetScore \/ AddToScore \/ IdlePass) \/ Cab(Invaders!ShipMoves))

-----------------------------------------------------------------------------
\* Nobody loses or is given a life, ship, bonus life or extra ship, whatever was swapped,
\* seeded, awarded or interrupted in between: what is left and what was lost add up, and no
\* player is out with a bonus earned and not had.
LivesAddUp ==
  /\ LivesAccounted /\ BonusEarned
  /\ Invaders!ShipsAccounted /\ Invaders!ExtraShipHad

\* Both games are the same game of turns, whatever their machines do in between: a life is lost
\* in play and by the player whose turn it is, and the turn then goes to the other, if they have
\* a life left.
TakesTurns == Taking!Spec /\ Invaders!Taking!Spec

\* A player goes on where they left: on their board, against the fleet where it stood.
OwnField == OwnBoard /\ Invaders!OwnFleet

\* Points wait without a name.  Donkey Kong's, in the task ring, reach the player who made them
\* even over a change of players.  Space Invaders' do not always: what a dropped flow left in
\* the cell goes to whoever plays next, but no later than the first pass of their turn, from
\* which on nothing waits between two passes but their own bonus for a saucer.
WaitingPoints == PointsToTheScorer /\ [](chosen = "invaders" => Invaders!OnlyOwnPointsWait)

\* What a turn needs to end is ready when it begins: Donkey Kong's holds tick from a timer
\* that was set, and Space Invaders' interrupts may ask for the flow that ends a round.
EndsArmed == HoldsArmed /\ Invaders!RestartsArmed

\* Every press of the coin switch is a credit or refused at the cap, whatever flow an
\* interrupt starts in that frame, and credits go only by games.
CoinsCounted == Invaders!CoinsCounted

\* A credit is offered a game, whatever tilted and whoever's game was on.
CreditsGetTheirScreen == Invaders!CreditsGetTheirScreen

\* The player whose turn has come gets to play, and a game with everybody out is over.
Either(kong, cab) == IF chosen = "dkong" THEN kong ELSE chosen = "invaders" /\ cab
GamesGoOn ==
  /\ \A p \in Player : Either(Due(p), Invaders!Due(p)) ~> Either(Plays(p), Invaders!Plays(p))
  /\ Either(AllOut, Invaders!AllOut) ~> Either(GAME_STATE = 1, Invaders!Ended)

\* Sums, differences, coins and credits in packed BCD are decimal, on every pair of bytes.
IsDecimal == Decimal!AddsInDecimal /\ Decimal!SubtractsInDecimal /\ Decimal!CoinBoxInDecimal
=============================================================================
