----------------------------- MODULE LevelFlow -----------------------------
(***************************************************************************)
(* How a level runs and ends: the zombie waves (Board.cpp,                   *)
(* Challenge.cpp), the award for the last enemy (Zombie.cpp, Coin.cpp), the  *)
(* victory sequence that pays the unused lawn mowers, the next stage of      *)
(* Survival and Last Stand, losing, and the saved game that quitting leaves  *)
(* and resuming reads (LawnApp.cpp, ContinueDialog.cpp).                     *)
(*                                                                           *)
(* The program runs in frames (LawnApp::UpdateFrames). Input is handled      *)
(* between two frames; a frame then updates the game objects, the spawning   *)
(* of zombies and the end-of-level sequence (Board::Update), and last looks  *)
(* whether the level is over (LawnApp::CheckForGameEnd). The variable step   *)
(* says how far the frame is. The board is one record because the saved game *)
(* is a copy of its fields.                                                  *)
(*                                                                           *)
(* Times are numbers of frames, scaled down; which zombies come, what        *)
(* becomes of them and when is left open.                                    *)
(***************************************************************************)
EXTENDS Integers, FiniteSets

CONSTANTS
  Modes,         \* the kinds of level: a subset of the four below
  Zombies,       \* names for the zombies of the board's pool
  Dancers,       \* those of them that, if they come, are dancers
  NumWaves,      \* mNumWaves
  WavesPerFlag,  \* GetNumWavesPerFlag
  Stages,        \* the stages of a Survival or Last Stand game
  Mowers,        \* the lawn mowers a level starts with
  CanDropLoot,   \* false in the first levels of the adventure
  WaveTime,      \* ZOMBIE_COUNTDOWN..: from one wave to the next
  WarnTime,      \* 5: the wave is announced
  SoonTime,      \* 200: the countdown of a wave called early
  HugeTime,      \* 750: the warning of a huge wave
  GraveTime,     \* 210: from the last wave to the graves
  StageTime,     \* 500: from a stage to the next
  FadeTime,      \* 500 or 600: the victory sequence
  MowerFirst,    \* 200: until it pays the first mower
  MowerNext,     \* 40: until it pays the next
  FlightTime,    \* 80: the longest flight of a coin to the coin bank
  WhackTime      \* 2000: from one wave of Whack a Zombie to the next

AllModes == {"Adventure", "Survival", "LastStand", "Whack"}

ASSUME ModesAssumption == Modes \subseteq AllModes
ASSUME ZombiesAssumption == IsFiniteSet(Zombies) /\ Dancers \subseteq Zombies
ASSUME WavesAssumption == /\ NumWaves \in Nat \ {0}
                          /\ WavesPerFlag \in Nat \ {0}
                          /\ Stages \in Nat \ {0}
                          /\ Mowers \in Nat
                          /\ CanDropLoot \in BOOLEAN
\* The order of the source's constants, which is all the model keeps of them.
ASSUME TimesAssumption == /\ 2 < WarnTime /\ WarnTime < SoonTime /\ SoonTime < WaveTime
                          /\ WaveTime \in Nat /\ WarnTime \in Nat /\ SoonTime \in Nat
                          /\ HugeTime \in Nat /\ 1 < HugeTime
                          /\ GraveTime \in Nat \ {0} /\ StageTime \in Nat \ {0, 1}
                          /\ MowerFirst \in Nat \ {0} /\ MowerNext \in Nat \ {0}
                          /\ FlightTime \in Nat \ {0} /\ FadeTime \in Nat
                          /\ MowerFirst + MowerNext * Mowers + FlightTime <= FadeTime
                          /\ WhackTime \in Nat /\ WarnTime + 1 < WhackTime

VARIABLES
  mGameMode,
  mGameScene,         \* "MENU", "LEVEL_INTRO", "PLAYING" or "ZOMBIES_WON"
  mBoardResult,       \* LawnApp's: "NONE", "WON", "LOST" or "QUIT"
  dialog,             \* the modal dialog that holds the board: "none",
                      \* "continue" or "gameOver"
  step,               \* how far the frame is
  board,              \* the Board, or NoBoard
  file,               \* the saved game of this mode, or NoBoard
  mUnusedLawnMowers,  \* mLastLevelStats: counted when the level was won
  coins,              \* coins paid into the profile for mowers of this game
  finished            \* how often this game was credited to the profile

app  == <<mGameScene, mBoardResult, dialog>>
pay  == <<mUnusedLawnMowers, coins, finished>>
vars == <<mGameMode, app, step, board, file, pay>>

NoBoard == [none |-> TRUE]

\* A zombie is "none" (its slot is free or about to be), an "enemy" (it has its
\* head, is not dying and is not mind-controlled), "headless", "charmed" or
\* "dying" (IsDeadOrDying).
ZombieState == {"none", "enemy", "headless", "charmed", "dying"}
Live(b)    == {z \in Zombies : b.zombies[z] # "none"}
Free(b)    == {z \in Zombies : b.zombies[z] = "none"}
Enemies(b) == {z \in Zombies : b.zombies[z] = "enemy"}    \* AreEnemyZombiesOnScreen

\* The first stage of a new game (Board::Board, InitLevel, InitZombieWaves).
NewBoard ==
  [zombies |-> [z \in Zombies |-> "none"],
   mDroppedLoot |-> {},               \* the zombies whose mDroppedLoot is set
   mCurrentWave |-> 0,
   mTotalSpawnedWaves |-> 0,
   mZombieCountDown |-> WaveTime,
   mHugeWaveCountDown |-> 0,
   mRiseFromGraveCounter |-> 0,
   mSurvivalStage |-> 0,
   onslaught |-> FALSE,               \* mChallengeState is LAST_STAND_ONSLAUGHT
   mChallengeStateCounter |-> -1,     \* -1 stands for every value below 0
   mLevelAwardSpawned |-> FALSE,
   award |-> "none",                  \* the award coin: "none", "lawn", "collected"
   mLevelComplete |-> FALSE,
   mNextSurvivalStageCounter |-> 0,
   mBoardFadeOutCounter |-> -1,
   mScoreNextMowerCounter |-> 0,
   mowers |-> Mowers,                 \* those neither triggered nor squished
   flying |-> {}]                     \* the paid coins in flight: frames to go

IsFlagWave(wave) == wave % WavesPerFlag = WavesPerFlag - 1

IsSurvivalStageWithRepick(b)  == mGameMode = "Survival" /\ b.mSurvivalStage < Stages - 1
IsLastStandStageWithRepick(b) == mGameMode = "LastStand" /\ b.mSurvivalStage < Stages - 1

\* Mutant: the award that lies on the lawn does not count.
HasLevelAwardDroppedLate(b) == b.mNextSurvivalStageCounter > 0 \/ b.mBoardFadeOutCounter >= 0

HasLevelAwardDropped(b) ==
  b.mLevelAwardSpawned \/ b.mNextSurvivalStageCounter > 0 \/ b.mBoardFadeOutCounter >= 0

-----------------------------------------------------------------------------
(* The end of a stage.                                                       *)

InitZombieWaves(b) ==
  [b EXCEPT !.mCurrentWave = 0, !.mTotalSpawnedWaves = 0, !.mZombieCountDown = WaveTime,
            !.mHugeWaveCountDown = 0, !.mLevelAwardSpawned = FALSE]

LastStandCompletedStage(b) ==
  InitZombieWaves([b EXCEPT !.onslaught = FALSE, !.mSurvivalStage = @ + 1,
                            !.mLevelComplete = FALSE])

\* Every caller is in the scene PLAYING. The count of unused mowers is taken
\* where the award is collected.
FadeOutLevel(b) ==
  IF IsLastStandStageWithRepick(b)
    THEN LastStandCompletedStage([b EXCEPT !.mNextSurvivalStageCounter = StageTime])
  ELSE IF IsSurvivalStageWithRepick(b)
    THEN [b EXCEPT !.mNextSurvivalStageCounter = StageTime]
  ELSE [b EXCEPT !.mBoardFadeOutCounter = FadeTime,
                 !.mScoreNextMowerCounter = IF CanDropLoot THEN MowerFirst ELSE @]

\* Each zombie that is not dying yet dies by DieNoLoot. The award has dropped, so
\* the TrySpawnLevelAward in it does nothing.
RemoveAllZombies(b) ==
  [b EXCEPT !.zombies = [z \in Zombies |-> IF @[z] = "dying" THEN @[z] ELSE "none"]]

\* Mutants of MayAward: one does not look at mLevelComplete, the other awards the
\* level in the wave before the last.
MayAwardWhenComplete(b, z) ==
  /\ ~HasLevelAwardDropped(b) /\ z \notin b.mDroppedLoot
  /\ b.mCurrentWave >= NumWaves /\ Enemies(b) = {}
  /\ mGameMode = "Whack" => b.mZombieCountDown <= 0

MayAwardEarly(b, z) ==
  /\ ~HasLevelAwardDropped(b) /\ ~b.mLevelComplete /\ z \notin b.mDroppedLoot
  /\ b.mCurrentWave >= NumWaves - 1 /\ Enemies(b) = {}
  /\ mGameMode = "Whack" => b.mZombieCountDown <= 0

MayAward(b, z) ==
  /\ ~HasLevelAwardDropped(b)
  /\ ~b.mLevelComplete
  /\ z \notin b.mDroppedLoot
  /\ b.mCurrentWave >= NumWaves
  /\ Enemies(b) = {}
  /\ mGameMode = "Whack" => b.mZombieCountDown <= 0

\* Zombie::TrySpawnLevelAward for z.
TrySpawnLevelAward(b, z) ==
  IF ~MayAward(b, z) THEN b
  ELSE LET won == [b EXCEPT !.mLevelAwardSpawned = TRUE]
           cleared == IF IsSurvivalStageWithRepick(b) THEN won ELSE RemoveAllZombies(won)
           ended == IF IsSurvivalStageWithRepick(b) \/ IsLastStandStageWithRepick(b)
                      THEN FadeOutLevel(cleared)
                      ELSE [cleared EXCEPT !.award = "lawn"]
       IN  [ended EXCEPT !.mDroppedLoot = @ \union {z}]

\* Mutant: mDroppedLoot is set before the award is tried.
DropLootFirst(b, z) ==
  TrySpawnLevelAward([b EXCEPT !.mDroppedLoot = @ \union {z}], z)

DropLoot(b, z) ==
  LET t == TrySpawnLevelAward(b, z)
  IN  IF HasLevelAwardDropped(t) \/ ~CanDropLoot THEN t
      ELSE [t EXCEPT !.mDroppedLoot = @ \union {z}]

Become(b, z, state) == [b EXCEPT !.zombies[z] = state]

Arrive(b, S) ==
  [b EXCEPT !.zombies = [z \in Zombies |-> IF z \in S THEN "enemy" ELSE @[z]],
            !.mDroppedLoot = @ \ S]

-----------------------------------------------------------------------------
(* The frame, part 1: the game objects. Any number of things may happen to    *)
(* the zombies, in any order, and the coins fly on.                          *)

BeginFrame ==    \* LawnApp::UpdateFrames, Board::ProcessDeleteQueue
  /\ step = "events"
  /\ mGameScene \in {"PLAYING", "ZOMBIES_WON"}
  /\ dialog = "none"
  /\ step' = "objects"
  /\ board' = [board EXCEPT !.mDroppedLoot = @ \intersect Live(board)]
  /\ UNCHANGED <<mGameMode, app, file, pay>>

\* The board after something happened to a zombie. TrySpawnLevelAward sets
\* mBoardResult when it awards the level.
Happens(b) ==
  /\ board' = b
  /\ mBoardResult' = IF HasLevelAwardDropped(b) /\ ~HasLevelAwardDropped(board)
                       THEN "WON" ELSE mBoardResult
  /\ UNCHANGED <<mGameMode, mGameScene, dialog, step, file, pay>>

\* Damage takes the head off (UpdateDamageStates).
LoseHead(z) ==
  /\ board.zombies[z] \in {"enemy", "charmed"}
  /\ LET b == DropLoot(Become(board, z, "headless"), z)
     IN  Happens(IF HasLevelAwardDropped(b) /\ z \in Live(b) THEN Become(b, z, "dying") ELSE b)

\* A zombie with a squash for a head throws it (UpdateZombieSquashHead).
ThrowHead(z) ==
  /\ board.zombies[z] \in {"enemy", "charmed"}
  /\ Happens(Become(board, z, "headless"))

\* Killed, burnt or mowed: it falls first and is removed later (TakeBodyDamage,
\* ApplyBurn, MowDown).
Fall(z) ==
  /\ board.zombies[z] \in {"enemy", "headless", "charmed"}
  /\ Happens(DropLoot(Become(board, z, "dying"), z))

DieNoLoot(z) ==
  /\ z \in Live(board)
  /\ Happens(TrySpawnLevelAward(Become(board, z, "none"), z))

DieWithLoot(z) ==
  /\ z \in Live(board)
  /\ Happens(DropLoot(TrySpawnLevelAward(Become(board, z, "none"), z), z))

\* It eats a hypno-shroom (AnimateChewSound, StartMindControlled).
EatHypnoshroom(z) ==
  /\ z \in Enemies(board)
  /\ Happens(TrySpawnLevelAward(Become(board, z, "charmed"), z))

\* A dancer raises a backup dancer, on its own side (SummonBackupDancer); backup
\* dancers raise none.
SummonBackupDancer(z) ==
  /\ z \in Dancers
  /\ board.zombies[z] \in {"enemy", "charmed"}
  /\ \E y \in Free(board) \ Dancers : Happens(Become(Arrive(board, {y}), y, board.zombies[z]))

\* A lawn mower starts and mows the first zombie (LawnMower::MowZombie).
MowZombie(z) ==
  /\ z \in Enemies(board)
  /\ board.mowers > 0
  /\ LET b == [board EXCEPT !.mowers = @ - 1]
     IN  \/ Happens(DropLoot(Become(b, z, "dying"), z))
         \/ Happens(DropLoot(TrySpawnLevelAward(Become(b, z, "none"), z), z))

\* CheckForBoardEdge, Board::ZombiesWon. Last Stand stays in the scene PLAYING and
\* puts the dialog up at once; the others play the cutscene first.
ReachHouse(z) ==
  /\ z \in Enemies(board)
  /\ mBoardResult' = "LOST"
  /\ IF mGameMode = "LastStand"
       THEN dialog' = "gameOver" /\ UNCHANGED mGameScene
       ELSE mGameScene' = "ZOMBIES_WON" /\ UNCHANGED dialog
  /\ UNCHANGED <<mGameMode, step, board, file, pay>>

\* Mutant: the objects go on in the scene ZOMBIES_WON.
ObjectsUpdateAlways == step = "objects"
ObjectsUpdate == step = "objects" /\ mGameScene = "PLAYING"

ZombieFate(z) ==
  /\ ObjectsUpdate
  /\ \/ LoseHead(z)    \/ ThrowHead(z)   \/ Fall(z)
     \/ DieNoLoot(z)   \/ DieWithLoot(z) \/ EatHypnoshroom(z)
     \/ SummonBackupDancer(z) \/ MowZombie(z) \/ ReachHouse(z)

\* Mutant: a coin that has arrived and was scored does not die.
FlyOnForever(S) == {n - 1 : n \in S}
\* A coin flies on until it is scored (UpdateCollected, ScoreCoin).
FlyOn(S) == {n - 1 : n \in S \ {1}}

\* The coins are updated unless the game is lost. Bound: the frame waits for a free
\* name among Zombies.
EndObjects ==
  /\ step = "objects"
  /\ mGameScene = "PLAYING" => Free(board) # {}
  /\ step' = "spawning"
  /\ IF mGameScene = "PLAYING"
       THEN /\ board' = [board EXCEPT !.flying = FlyOn(@)]
            /\ coins' = coins + Cardinality(board.flying \intersect {1})
       ELSE UNCHANGED <<board, coins>>
  /\ UNCHANGED <<mGameMode, app, file, mUnusedLawnMowers, finished>>

-----------------------------------------------------------------------------
(* The frame, part 2: Board::UpdateZombieSpawning. Each operator gives the    *)
(* set of boards its piece of code may leave.                                *)

\* SpawnZombieWave. A wave has at least one zombie, except in Whack a Zombie, which
\* plans none; none of it arrives when the pool is full.
SpawnZombieWave(b) ==
  {[Arrive(b, S) EXCEPT
      !.mRiseFromGraveCounter = IF b.mCurrentWave = NumWaves - 1 THEN GraveTime ELSE @,
      !.mCurrentWave = @ + 1,
      !.mTotalSpawnedWaves = @ + 1] :
     S \in {T \in SUBSET Free(b) : T = {} => Free(b) = {} \/ mGameMode = "Whack"}}

SpawnZombiesFromGraves(b) == {Arrive(b, S) : S \in SUBSET Free(b)}

UpdateGraves(b) ==
  LET c == [b EXCEPT !.mRiseFromGraveCounter = @ - 1]
  IN  IF b.mRiseFromGraveCounter = 0 THEN {b}
      ELSE IF c.mRiseFromGraveCounter = 0 THEN SpawnZombiesFromGraves(c)
      ELSE {c}

\* The countdown of a huge wave holds everything else up, except in the frame
\* where its siren sounds (mHugeWaveCountDown == 725) and in its last.
UpdateHugeWave(b) ==
  LET c == [b EXCEPT !.mHugeWaveCountDown = @ - 1]
  IN  IF b.mHugeWaveCountDown = 0 THEN b
      ELSE IF c.mHugeWaveCountDown = 0 THEN [c EXCEPT !.mZombieCountDown = 1]
      ELSE c

\* Mutant: UpdateZombieSpawning runs on during the warning.
HugeWaveHoldsNever(b) == b = NoBoard
HugeWaveHolds(b) == b.mHugeWaveCountDown > 0 /\ b.mHugeWaveCountDown # HugeTime - 1

\* WhackAZombieSpawning: the zombies rise from those graves that no grave buster
\* is eating, and the last time the countdown stops.
WhackRise(b) ==
  {[c EXCEPT !.mChallengeStateCounter = IF b.mCurrentWave = NumWaves THEN 0 ELSE 1,
             !.mZombieCountDown = IF b.mCurrentWave = NumWaves THEN 0 ELSE @] :
     c \in SpawnZombiesFromGraves(b)}

WhackAZombieSpawning(b) ==
  LET c == [b EXCEPT !.mZombieCountDown = @ - 1]
      d == IF c.mZombieCountDown = 0
             THEN [c EXCEPT !.mZombieCountDown = WhackTime, !.mCurrentWave = @ + 1,
                            !.mChallengeStateCounter =
                              IF b.mCurrentWave + 1 = NumWaves THEN 2 ELSE 1]
             ELSE c
      e == [d EXCEPT !.mChallengeStateCounter = IF @ >= 0 THEN @ - 1 ELSE @]
  IN  IF b.mCurrentWave = NumWaves /\ b.mZombieCountDown = 0 THEN {b}
      ELSE IF d.mZombieCountDown = 1 THEN {d}
      ELSE IF e.mChallengeStateCounter = 0 THEN WhackRise(e)
      ELSE {e}

\* mCurrentWave == mNumWaves: nothing more to spawn.
AllWavesSpawned(b) ==
  b.mCurrentWave = NumWaves /\ ~IsSurvivalStageWithRepick(b)

\* A wave whose zombies are weak enough calls the next one early. Their health is
\* not modelled; it is never enough before the first wave.
CalledEarly(b) ==
  {b} \union {[b EXCEPT !.mZombieCountDown = SoonTime] :
                x \in {w \in {b.mCurrentWave} : w > 0 /\ b.mZombieCountDown > SoonTime}}

CountDown(b) ==
  IF b.mZombieCountDown = WarnTime /\ IsFlagWave(b.mCurrentWave)
    THEN {[b EXCEPT !.mHugeWaveCountDown = HugeTime]}
  ELSE IF b.mZombieCountDown = 0
    THEN {[c EXCEPT !.mZombieCountDown = WaveTime] : c \in SpawnZombieWave(b)}
  ELSE {b}

\* Mutant: the last wave of a stage of Survival is not the end of the countdown.
DirectorSpawnsOn(b) ==
  IF AllWavesSpawned(b) THEN {b}
  ELSE UNION {CountDown(d) : d \in CalledEarly([b EXCEPT !.mZombieCountDown = @ - 1])}

\* The board's own countdown.
Director(b) ==
  LET c == [b EXCEPT !.mZombieCountDown = @ - 1]
  IN  IF AllWavesSpawned(b) THEN {b}
      ELSE IF b.mCurrentWave = NumWaves
        THEN {IF c.mZombieCountDown = 0 THEN FadeOutLevel(c) ELSE c}
      ELSE UNION {CountDown(d) : d \in CalledEarly(c)}

\* Challenge::UpdateZombieSpawning falls off its end in Whack a Zombie: whether
\* the board's own countdown runs as well is undefined. Bound: nothing comes once
\* two waves too many have been counted.
Challenged(b) ==
  IF mGameMode = "Whack" /\ b.mCurrentWave > NumWaves + 1 THEN {b}
  ELSE IF mGameMode = "Whack"
    THEN UNION {{c} \union Director(c) : c \in WhackAZombieSpawning(b)}
  ELSE IF mGameMode = "LastStand" /\ ~b.onslaught THEN {b}
  ELSE Director(b)

UpdateZombieSpawning ==
  /\ step = "spawning"
  /\ step' = "levelEnd"
  /\ IF mGameScene # "PLAYING" \/ HasLevelAwardDropped(board)
       THEN UNCHANGED board
       ELSE \E b \in UpdateGraves(board) :
              LET c == UpdateHugeWave(b)
              IN  IF HugeWaveHolds(c) THEN board' = c ELSE board' \in Challenged(c)
  /\ UNCHANGED <<mGameMode, app, file, pay>>

-----------------------------------------------------------------------------
(* The frame, part 3: Board::UpdateLevelEndSequence, in every scene, and      *)
(* LawnApp::CheckForGameEnd.                                                 *)

NeedSaveGame == mGameScene = "PLAYING"

\* Charmed zombies far on the right leave before the plants are chosen again. Each
\* dies by DieNoLoot.
RemoveZombiesForRepick(b) ==
  UNION {LET c == [b EXCEPT !.zombies = [z \in Zombies |-> IF z \in S THEN "none" ELSE @[z]]]
         IN  {c : x \in {S} \intersect {{}}} \union {TrySpawnLevelAward(c, z) : z \in S} :
           S \in SUBSET {z \in Zombies : b.zombies[z] = "charmed"}}

\* The counter to the next stage. Survival saves the game in the frame before its
\* last, and its last completes the level; Last Stand then waits for the player.
UpdateNextStage ==
  LET b == [board EXCEPT !.mNextSurvivalStageCounter = @ - 1]
  IN  /\ board.mNextSurvivalStageCounter > 0
      /\ file' = IF b.mNextSurvivalStageCounter = 1 /\ mGameMode = "Survival" /\ NeedSaveGame
                   THEN b ELSE file
      /\ board' \in IF b.mNextSurvivalStageCounter = 0 /\ mGameMode # "LastStand"
                     THEN RemoveZombiesForRepick([b EXCEPT !.mLevelComplete = TRUE])
                     ELSE {b}

\* Each mower left is worth a gold coin, which flies to the coin bank.
PayNextMower(b) ==
  IF b.mowers = 0 THEN b
  ELSE [b EXCEPT !.mowers = @ - 1, !.flying = @ \union {FlightTime}]

UpdateFadeOut ==
  LET b == [board EXCEPT !.mBoardFadeOutCounter = @ - 1]
      c == [b EXCEPT !.mScoreNextMowerCounter = IF @ > 0 THEN @ - 1 ELSE 0]
  IN  /\ board.mNextSurvivalStageCounter = 0
      /\ board' = IF board.mBoardFadeOutCounter < 0 THEN board
                  ELSE IF b.mBoardFadeOutCounter = 0 THEN [b EXCEPT !.mLevelComplete = TRUE]
                  ELSE IF c.mScoreNextMowerCounter > 0 \/ ~CanDropLoot THEN c
                  ELSE PayNextMower([c EXCEPT !.mScoreNextMowerCounter = MowerNext])
      /\ UNCHANGED file

UpdateLevelEndSequence ==
  /\ step = "levelEnd"
  /\ step' = "gameEnd"
  /\ UpdateNextStage \/ UpdateFadeOut
  /\ UNCHANGED <<mGameMode, app, pay>>

\* Survival goes on to its next stage, with the plants to be chosen first.
InitSurvivalStage ==
  /\ board' = InitZombieWaves([board EXCEPT !.mSurvivalStage = @ + 1, !.mLevelComplete = FALSE])
  /\ mGameScene' = "LEVEL_INTRO"
  /\ UNCHANGED finished

\* Any other level is credited and its board killed.
FinishLevel ==
  /\ finished' = finished + 1
  /\ board' = NoBoard
  /\ mGameScene' = "MENU"

CheckForGameEnd ==
  /\ step = "gameEnd"
  /\ step' = "events"
  /\ IF ~board.mLevelComplete THEN UNCHANGED <<board, mGameScene, finished>>
     ELSE IF IsSurvivalStageWithRepick(board) THEN InitSurvivalStage
     ELSE FinishLevel
  /\ UNCHANGED <<mGameMode, mBoardResult, dialog, file, mUnusedLawnMowers, coins>>

-----------------------------------------------------------------------------
(* Between two frames: the player, and the program's start and end.          *)

Between == step = "events" /\ UNCHANGED <<step, mGameMode>>

StartPlaying ==    \* LawnApp::StartPlaying, Board::StartLevel
  /\ Between
  /\ mGameScene = "LEVEL_INTRO"
  /\ mGameScene' = "PLAYING"
  /\ file' = IF mGameMode = "Survival" /\ board.mSurvivalStage > 0 THEN NoBoard ELSE file
  /\ UNCHANGED <<mBoardResult, dialog, board, pay>>

\* The player picks the award up (Coin::Collect).
CollectAward ==
  /\ Between
  /\ mGameScene = "PLAYING" /\ dialog = "none"
  /\ board.award = "lawn"
  /\ board' = [FadeOutLevel(board) EXCEPT !.award = "collected"]
  /\ mUnusedLawnMowers' = board.mowers
  /\ UNCHANGED <<app, file, coins, finished>>

StartOnslaught ==
  /\ Between
  /\ mGameScene = "PLAYING" /\ dialog = "none"
  /\ mGameMode = "LastStand" /\ ~board.onslaught /\ board.mNextSurvivalStageCounter = 0
  /\ board' = [board EXCEPT !.onslaught = TRUE, !.mZombieCountDown = WarnTime + 1]
  /\ UNCHANGED <<app, file, pay>>

\* The cutscene after a loss ends with the game over dialog.
UpdateZombiesWon ==
  /\ Between
  /\ mGameScene = "ZOMBIES_WON" /\ dialog = "none"
  /\ dialog' = "gameOver"
  /\ UNCHANGED <<mGameScene, mBoardResult, board, file, pay>>

NewGame ==
  /\ board' = NewBoard
  /\ mBoardResult' = "NONE"
  /\ mGameScene' = "LEVEL_INTRO"
  /\ dialog' = "none"
  /\ mUnusedLawnMowers' = 0 /\ coins' = 0 /\ finished' = 0

KillBoard ==
  /\ board' = NoBoard
  /\ mGameScene' = "MENU"
  /\ dialog' = "none"

GameOverTryAgain ==    \* LawnApp::EndLevel
  /\ Between
  /\ dialog = "gameOver"
  /\ NewGame
  /\ UNCHANGED file

GameOverMainMenu ==
  /\ Between
  /\ dialog = "gameOver"
  /\ KillBoard
  /\ UNCHANGED <<mBoardResult, file, pay>>

\* LawnApp::PreNewGame: the saved game if there is one, in the scene PLAYING and
\* behind the continue dialog, else a new one.
TryLoadGame ==
  /\ Between
  /\ mGameScene = "MENU" /\ file # NoBoard
  /\ board' = file
  /\ mGameScene' = "PLAYING" /\ dialog' = "continue"
  /\ mUnusedLawnMowers' = 0 /\ coins' = 0 /\ finished' = 0
  /\ UNCHANGED <<mBoardResult, file>>

PreNewGame ==
  /\ Between
  /\ mGameScene = "MENU" /\ file = NoBoard
  /\ NewGame
  /\ UNCHANGED file

\* Mutants: continuing never erases the saved game; it always does.
NextStageSavedAlways(b) == b # NoBoard
NextStageSavedNever(b) == b = NoBoard

\* The saved game is kept while its only use is to start the next stage.
NextStageSaved(b) == b.mNextSurvivalStageCounter = 1

Continue ==
  /\ Between
  /\ dialog = "continue"
  /\ dialog' = "none"
  /\ file' = IF NextStageSaved(board) THEN file ELSE NoBoard
  /\ UNCHANGED <<mGameScene, mBoardResult, board, pay>>

ContinueNewGame ==    \* LawnApp::FinishRestartConfirmDialog
  /\ Between
  /\ dialog = "continue"
  /\ NewGame
  /\ file' = NoBoard

ContinueCancel ==
  /\ Between
  /\ dialog = "continue"
  /\ KillBoard
  /\ UNCHANGED <<mBoardResult, file, pay>>

\* Mutant: the coins in flight are lost.
CompleteWithoutCoins ==
  /\ coins' = coins + (IF CanDropLoot THEN board.mowers ELSE 0)
  /\ finished' = finished + 1
  /\ UNCHANGED file

\* Quitting during the victory sequence: what it would still have paid is paid at
\* once, and no game is saved.
CompleteEndLevelSequenceForSaving ==
  /\ coins' = coins + (IF CanDropLoot THEN board.mowers ELSE 0) + Cardinality(board.flying)
  /\ finished' = finished + 1
  /\ UNCHANGED file

TryToSaveGame ==
  IF ~NeedSaveGame THEN UNCHANGED <<file, coins, finished>>
  ELSE IF board.mBoardFadeOutCounter > 0 THEN CompleteEndLevelSequenceForSaving
  ELSE file' = board /\ UNCHANGED <<coins, finished>>

BackToMain ==    \* DIALOG_CONFIRM_BACK_TO_MAIN
  /\ Between
  /\ mGameScene \in {"LEVEL_INTRO", "PLAYING"} /\ dialog = "none"
  /\ TryToSaveGame
  /\ KillBoard
  /\ mBoardResult' = "QUIT"
  /\ UNCHANGED mUnusedLawnMowers

\* The program is closed, with whatever dialog up, and started again.
Shutdown ==
  /\ Between
  /\ board # NoBoard
  /\ TryToSaveGame
  /\ KillBoard
  /\ mBoardResult' = "NONE"
  /\ UNCHANGED mUnusedLawnMowers

\* The program ends without that.
Crash ==
  /\ board # NoBoard
  /\ KillBoard
  /\ mBoardResult' = "NONE"
  /\ step' = "events"
  /\ UNCHANGED <<mGameMode, file, pay>>

-----------------------------------------------------------------------------
Init ==
  /\ mGameMode \in Modes
  /\ mGameScene = "MENU" /\ mBoardResult = "NONE" /\ dialog = "none"
  /\ step = "events"
  /\ board = NoBoard /\ file = NoBoard
  /\ mUnusedLawnMowers = 0 /\ coins = 0 /\ finished = 0

Frame ==
  \/ BeginFrame
  \/ \E z \in Zombies : ZombieFate(z)
  \/ EndObjects
  \/ UpdateZombieSpawning
  \/ UpdateLevelEndSequence
  \/ CheckForGameEnd

Player ==
  \/ StartPlaying     \/ CollectAward     \/ StartOnslaught
  \/ UpdateZombiesWon \/ GameOverTryAgain \/ GameOverMainMenu
  \/ TryLoadGame      \/ PreNewGame
  \/ Continue         \/ ContinueNewGame  \/ ContinueCancel
  \/ BackToMain       \/ Shutdown

Next == Frame \/ Player \/ Crash

Spec == Init /\ [][Next]_vars

-----------------------------------------------------------------------------
(* What is promised.                                                         *)

Boards ==
  [zombies : [Zombies -> ZombieState], mDroppedLoot : SUBSET Zombies,
   mCurrentWave : 0..NumWaves + 2, mTotalSpawnedWaves : 0..NumWaves + 2,
   mZombieCountDown : 0..WaveTime + WhackTime, mHugeWaveCountDown : 0..HugeTime,
   mRiseFromGraveCounter : 0..GraveTime, mSurvivalStage : 0..Stages - 1,
   onslaught : BOOLEAN, mChallengeStateCounter : -1..2,
   mLevelAwardSpawned : BOOLEAN, award : {"none", "lawn", "collected"},
   mLevelComplete : BOOLEAN, mNextSurvivalStageCounter : 0..StageTime,
   mBoardFadeOutCounter : -1..FadeTime, mScoreNextMowerCounter : 0..MowerFirst + MowerNext,
   mowers : 0..Mowers, flying : SUBSET (1..FlightTime)]

\* Every variable has a value of its type, there is a board exactly in the scenes
\* that show one, and a frame runs only on a board (LawnApp.cpp, Board.cpp).
TypeOK ==
  /\ mGameMode \in Modes
  /\ mGameScene \in {"MENU", "LEVEL_INTRO", "PLAYING", "ZOMBIES_WON"}
  /\ mBoardResult \in {"NONE", "WON", "LOST", "QUIT"}
  /\ dialog \in {"none", "continue", "gameOver"}
  /\ step \in {"events", "objects", "spawning", "levelEnd", "gameEnd"}
  /\ board \in Boards \union {NoBoard}
  /\ file \in Boards \union {NoBoard}
  /\ mUnusedLawnMowers \in 0..Mowers
  /\ coins \in 0..Mowers
  /\ finished \in 0..1
  /\ (board = NoBoard) <=> (mGameScene = "MENU")
  /\ step # "events" => mGameScene \in {"PLAYING", "ZOMBIES_WON"}

\* Once the last enemy of a level, or of a stage of Last Stand, has dropped the
\* award, no enemy is on the board until the next stage: whatever died in the same
\* frame, rose from a grave or was raised by a dancer (Zombie::TrySpawnLevelAward,
\* Board::RemoveAllZombies, UpdateZombieSpawning).
NoEnemiesAfterAward ==
  board # NoBoard =>
    (HasLevelAwardDropped(board) /\ ~IsSurvivalStageWithRepick(board) => Enemies(board) = {})

\* The end of a level or stage begins once: while its counter runs, nothing starts it
\* again, nothing starts the other one, and no award drops (FadeOutLevel from the
\* award, from the repick countdown and from RemoveZombiesForRepick).
StageEndsOnce ==
  [][board # NoBoard /\ board' # NoBoard =>
       /\ board.mNextSurvivalStageCounter > 0 =>
            board'.mNextSurvivalStageCounter <= board.mNextSurvivalStageCounter
       /\ board.mBoardFadeOutCounter >= 0 =>
            /\ board'.mBoardFadeOutCounter <= board.mBoardFadeOutCounter
            /\ board'.mNextSurvivalStageCounter = 0
       /\ board.mLevelComplete => ~HasLevelAwardDropped(board') \/ HasLevelAwardDropped(board)]_vars

\* A stage is counted, and a level credited, only after its last wave has come
\* (LastStandCompletedStage, InitSurvivalStage, UpdatePlayerProfileForFinishingLevel).
EndsAfterLastWave ==
  [][\/ finished' > finished
     \/ board # NoBoard /\ board' # NoBoard /\ board'.mSurvivalStage > board.mSurvivalStage
     => board.mCurrentWave >= NumWaves]_vars

\* Each lawn mower left when the level was won is paid once: by the victory sequence,
\* or by quitting in the middle of it, when some are paid, some are in flight and
\* some still stand on the lawn.
MowersPaidOnce ==
  /\ board # NoBoard /\ CanDropLoot =>
       (board.mBoardFadeOutCounter >= 0 =>
          coins + Cardinality(board.flying) + board.mowers = mUnusedLawnMowers)
  /\ finished > 0 /\ CanDropLoot => coins = mUnusedLawnMowers

\* A level that was credited leaves no saved game behind from which it could be
\* credited again (PreNewGame, ContinueDialog, StartLevel, TryToSaveGame). Last
\* Stand is excepted; the README says why.
NoFinishedLevelOnFile == finished > 0 /\ mGameMode # "LastStand" => file = NoBoard

\* While the warning of a huge wave counts down no wave comes, not even in the frame
\* of the siren, where UpdateZombieSpawning runs on (Board.cpp:5247).
NoWaveDuringWarning ==
  [][board # NoBoard /\ board' # NoBoard /\ board.mHugeWaveCountDown > 0 /\
     board'.mHugeWaveCountDown > 0 => board'.mCurrentWave = board.mCurrentWave]_vars

\* A wave is only spawned if the level has it: the assertion
\* mCurrentWave < mNumWaves of SpawnZombieWave (Board.cpp:4888).
SpawnInRange ==
  [][board # NoBoard /\ board' # NoBoard /\
     board'.mTotalSpawnedWaves > board.mTotalSpawnedWaves => board.mCurrentWave < NumWaves]_vars

\* A lost level stays lost: it is not credited, and no award drops for it, though
\* other zombies still die in the frame of the loss (Board::ZombiesWon). In Survival
\* and Last Stand the code does not keep this; the README says how.
LossIsFinal ==
  [][mBoardResult = "LOST" /\ mGameMode \in {"Adventure", "Whack"} =>
       mBoardResult' # "WON" /\ finished' = finished]_vars

StagesDone(b) ==
  b.mSurvivalStage + (IF b.mNextSurvivalStageCounter > 0 THEN 1 ELSE 0)

\* Whenever the player leaves a game of Survival that he has not lost, the stages he
\* completed are on file or the game is credited: also between two stages, where
\* nothing is saved on leaving (TryToSaveGame, UpdateLevelEndSequence, ContinueDialog).
QuitKeepsProgress ==
  [][(BackToMain \/ Shutdown) /\ mGameMode = "Survival" /\ mBoardResult # "LOST" =>
       \/ finished' > finished
       \/ StagesDone(board) = 0
       \/ file' # NoBoard /\ StagesDone(file') >= StagesDone(board)]_vars

-----------------------------------------------------------------------------
(* Liveness. The frames run on; the player starts the level, picks the award  *)
(* up, starts the onslaught and answers the dialogs; and no enemy stands on   *)
(* the lawn for ever: it is killed or it reaches the house.                   *)

EnemyGoes(z) ==
  /\ ObjectsUpdate
  /\ LoseHead(z) \/ Fall(z) \/ DieNoLoot(z) \/ DieWithLoot(z) \/ ReachHouse(z)

Fairness ==
  /\ WF_vars(BeginFrame) /\ SF_vars(EndObjects) /\ WF_vars(UpdateZombieSpawning)
  /\ WF_vars(UpdateLevelEndSequence) /\ WF_vars(CheckForGameEnd)
  /\ WF_vars(StartPlaying) /\ SF_vars(CollectAward) /\ SF_vars(StartOnslaught)
  /\ WF_vars(Continue \/ ContinueNewGame \/ ContinueCancel)
  /\ \A z \in Zombies : SF_vars(EnemyGoes(z))

FairSpec == Spec /\ Fairness

\* Every level ends: its waves come, its award drops and its end runs out, or the
\* zombies win or the player leaves; no order of deaths, hypnotised zombies and
\* stages leaves it without an award (TrySpawnLevelAward). In Whack a Zombie the last
\* wave may be empty, so it is excepted.
LevelEnds == []<>(mGameScene \in {"MENU", "ZOMBIES_WON"} \/ dialog = "gameOver")
=============================================================================
