------------------------------- MODULE MCInputs -------------------------------
(***************************************************************************)
(* A word of two bits: one of two keys, and one of a key and a button.     *)
(* Motions of the mouse within and beyond a nibble and a byte.             *)
(***************************************************************************)
EXTENDS Inputs

Keys3 == {"Space", "Mouse", "Digit5"}
Bits == [Space |-> "fire", Mouse |-> "fire", Digit5 |-> "coin"]
Buttons == {"coin"}
Motions == {-200, -4, 3}
ShortMotions == {-9, 3}
BothGames == {"tempest", "centiped"}
RollsOf == [tempest |-> 2, centiped |-> 1]
IrqsOf == [tempest |-> 9, centiped |-> 4]
=============================================================================
