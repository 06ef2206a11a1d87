---------------------------- MODULE MCLevelFlow ----------------------------
(***************************************************************************)
(* The instance of LevelFlow that TLC checks.                                *)
(***************************************************************************)
EXTENDS LevelFlow

CONSTANTS dancer, walker
=============================================================================
