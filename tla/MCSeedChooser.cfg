CONSTANTS
  seedA = seedA
  seedB = seedB
  seedC = seedC
  imitater = imitater
  upgrade = upgrade
  banned = banned
  NoSeed = NoSeed
  Seeds = {seedA, seedB, seedC, imitater, upgrade, banned}
  Imitater = imitater
  Upgrades = {upgrade}
  Banned = {banned}
  InStore = {imitater}
  NumDavePicks = 2
  MinPackets = 3
  MaxPackets = 4
SPECIFICATION Spec
SYMMETRY OrdinarySeeds
INVARIANTS
  TypeOK
  BankIsExact
  PacketsUsable
CHECK_DEADLOCK FALSE
