CONSTANTS
  Modes = {"Bank", "Survival", "LastStand", "Conveyor", "Vases"}
  cheap = cheap
  dear = dear
  Seeds = {cheap, dear}
  NoSeed = NoSeed
  Cost <- SeedCost
  NumPackets = 3
  Coins = {1, 2}
  NoCoinID = 0
  SunValue = 2
  StartSun = 1
  MaxSun = 4
SPECIFICATION Spec
INVARIANTS
  TypeOK
  PacketsAccountedFor
  BeltHasNoGap
  SeedsAccountedFor
  CoinInCursorLives
  SunNeverOwed
  HeldPlantAffordable
PROPERTIES
  BeltLosesOnlyPlanted
  BeltMakesRoom
CHECK_DEADLOCK FALSE
