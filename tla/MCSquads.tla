------------------------------ MODULE MCSquads ------------------------------
(***************************************************************************)
(* The instances of Squads that TLC checks. The handles differ in nothing,   *)
(* so they are symmetric where no property is about time.                    *)
(***************************************************************************)
EXTENDS Squads, TLC

Handles == Permutations(Zombie)
=============================================================================
