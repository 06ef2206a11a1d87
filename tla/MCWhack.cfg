CONSTANTS
  Modes = {"Whack"}
  dancer = dancer
  walker = walker
  Zombies = {dancer, walker}
  Dancers = {dancer}
  NumWaves = 2
  WavesPerFlag = 2
  Stages = 2
  Mowers = 2
  CanDropLoot = TRUE
  WaveTime = 5
  WarnTime = 3
  SoonTime = 4
  HugeTime = 3
  GraveTime = 2
  StageTime = 2
  FadeTime = 7
  MowerFirst = 2
  MowerNext = 1
  FlightTime = 2
  WhackTime = 5
SPECIFICATION Spec
PROPERTY SpawnInRange
