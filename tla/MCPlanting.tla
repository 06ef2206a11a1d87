----------------------------- MODULE MCPlanting -----------------------------
(***************************************************************************)
(* The instance of Planting that TLC checks: a cheap seed and one that costs  *)
(* more than the sun at the start, a bank of three packets, two coins.       *)
(***************************************************************************)
EXTENDS Planting, TLC

CONSTANTS cheap, dear

SeedCost == cheap :> 1 @@ dear :> 3
=============================================================================
