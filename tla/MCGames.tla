------------------------------- MODULE MCGames -------------------------------
(***************************************************************************)
(* Donkey Kong with three lives and the bonus life, two boards a player;   *)
(* Space Invaders with one ship and the extra ship, waves of one alien, a  *)
(* fleet one row above the ground, any number of coins and tilts against a *)
(* cap of two credits; and every pair of packed bytes.                     *)
(***************************************************************************)
EXTENDS Games
=============================================================================
