CONSTANTS
  None = None
  Zombie = {z1, z2, z3}
  Sent = {"normal", "dancer", "bungee", "dropped"}
  NumFollowers = 1
  NumBackups = 2
  Beside = {1}
  MaxZombies = 4
  CrashTime = 1
  DeathTime = 1
  FadeTime = 1
SPECIFICATION Spec
SYMMETRY Handles
INVARIANTS
  TroupeOneSide
  HangingIsCarried
CHECK_DEADLOCK FALSE
