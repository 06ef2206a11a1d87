CONSTANTS
  None = None
  Zombie = {z1, z2, z3}
  Sent = {"bobsled"}
  NumFollowers = 1
  NumBackups = 1
  Beside = {1}
  MaxZombies = 8
  CrashTime = 2
  DeathTime = 1
  FadeTime = 1
SPECIFICATION FairSpec
PROPERTY SledBreaksUp
CHECK_DEADLOCK FALSE
