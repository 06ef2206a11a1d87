CONSTANTS
  None = None
  Zombie = {z1, z2, z3, z4}
  Sent = {"bobsled"}
  NumFollowers = 2
  NumBackups = 2
  Beside = {1}
  MaxZombies = 8
  CrashTime = 2
  DeathTime = 1
  FadeTime = 2
SPECIFICATION Spec
SYMMETRY Handles
INVARIANTS
  TypeOK
  SledsWhole
CHECK_DEADLOCK FALSE
