CONSTANTS
  None = None
  Zombie = {z1, z2, z3, z4, z5}
  Sent = {"normal", "bobsled"}
  NumFollowers = 3
  NumBackups = 4
  Beside = {1}
  MaxZombies = 4
  CrashTime = 1
  DeathTime = 1
  FadeTime = 1
SPECIFICATION Spec
SYMMETRY Handles
INVARIANT PoolHasRoom
CHECK_DEADLOCK FALSE
