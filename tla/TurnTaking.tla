----------------------------- MODULE TurnTaking ------------------------------
(***************************************************************************)
(* What the players of one cabinet agree on, whichever of its games is on: *)
(* each has so many lives and may be given one more, only the player whose *)
(* turn it is plays, who loses a life hands over to the other as long as   *)
(* that one has any left, and the game is over when nobody has.            *)
(***************************************************************************)
EXTENDS Naturals

CONSTANTS Lives,      \* what each player starts with
          Landings,   \* whether a turn may cost all of them
          Tilts       \* whether a game may be broken off

VARIABLES game,       \* "on", "off" or "tilted"
          left,       \* the lives each player has left, the one at play counted
          had,        \* the players who were given their extra life
          turn,       \* whose turn it is
          plays       \* who is at play, if anybody

vars == <<game, left, had, turn, plays>>

Player == {0, 1}
Nobody == 2
Other(p) == 1 - p

NoGame == left = [p \in Player |-> 0] /\ had = {} /\ turn = 0 /\ plays = Nobody

Init == game = "off" /\ NoGame

Start(two) ==
  /\ game = "off" /\ game' = "on"
  /\ left' = [p \in Player |-> IF p = 0 \/ two THEN Lives ELSE 0]
  /\ had' = {} /\ turn' = 0 /\ plays' = Nobody

Play ==
  /\ game = "on" /\ plays = Nobody /\ left[turn] > 0
  /\ plays' = turn /\ UNCHANGED <<game, left, had, turn>>

\* Between two boards.
Rest == plays # Nobody /\ plays' = Nobody /\ UNCHANGED <<game, left, had, turn>>

ExtraLife ==
  /\ game = "on" /\ left[turn] > 0 /\ turn \notin had
  /\ left' = [left EXCEPT ![turn] = @ + 1] /\ had' = had \cup {turn}
  /\ UNCHANGED <<game, turn, plays>>

\* The turn ends with so many lives in reserve.
TurnEnds(reserve) ==
  /\ game = "on" /\ plays = turn /\ left[turn] > 0
  /\ left' = [left EXCEPT ![turn] = reserve]
  /\ turn' = IF left[Other(turn)] > 0 THEN Other(turn) ELSE turn
  /\ plays' = Nobody /\ UNCHANGED <<game, had>>

LoseLife == TurnEnds(left[turn] - 1)
LoseAll == Landings /\ TurnEnds(0)

GameOver ==
  /\ game = "on" /\ game' = "off"
  /\ \A p \in Player : left[p] = 0
  /\ NoGame'

\* A tilt breaks off whatever is on.
Tilt == Tilts /\ game # "tilted" /\ game' = "tilted" /\ NoGame'
TiltEnds == game = "tilted" /\ game' = "off" /\ NoGame'

Next ==
  \/ \E two \in BOOLEAN : Start(two)
  \/ Play \/ Rest \/ ExtraLife \/ LoseLife \/ LoseAll \/ GameOver
  \/ Tilt \/ TiltEnds

Spec == Init /\ [][Next]_vars
=============================================================================
