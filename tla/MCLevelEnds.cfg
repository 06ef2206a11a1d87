CONSTANTS
  Modes = {"Adventure", "Survival", "LastStand"}
  dancer = dancer
  walker = walker
  Zombies = {dancer, walker}
  Dancers = {dancer}
  NumWaves = 1
  WavesPerFlag = 1
  Stages = 2
  Mowers = 0
  CanDropLoot = TRUE
  WaveTime = 5
  WarnTime = 3
  SoonTime = 4
  HugeTime = 3
  GraveTime = 2
  StageTime = 2
  FadeTime = 2
  MowerFirst = 1
  MowerNext = 1
  FlightTime = 1
  WhackTime = 5
SPECIFICATION FairSpec
PROPERTIES
  LevelEnds
  SpawnInRange
