--------------------------- MODULE MCSeedChooser ---------------------------
(***************************************************************************)
(* The instances of SeedChooser that TLC checks. Ordinary seeds differ in    *)
(* nothing, so they are symmetric.                                           *)
(***************************************************************************)
EXTENDS SeedChooser, TLC

CONSTANTS seedA, seedB, seedC, imitater, upgrade, banned

OrdinarySeeds == Permutations({seedA, seedB, seedC})
=============================================================================
