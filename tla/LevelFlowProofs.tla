-------------------------- MODULE LevelFlowProofs --------------------------
(***************************************************************************)
(* The safety properties of LevelFlow for every number of zombies, waves,    *)
(* stages and mowers and for every length of the counters in their order.    *)
(*                                                                           *)
(* What is invariant is stated first of a board, Sound: it holds of the      *)
(* board in play and of the one in the saved game. Then of the state: how    *)
(* the scene, the dialog, the step of the frame, the saved game and the      *)
(* payments fit the board. Next, Goes says how a board may change while the  *)
(* zombies die and the waves come, and each function of a handler is shown   *)
(* to change it only so.                                                     *)
(***************************************************************************)
EXTENDS LevelFlow, FiniteSetTheorems, TLAPS

----------------------------------------------------------------------------
(* What is invariant of a board of a game of mode m.                        *)

Repick(m, b) == m \in {"Survival", "LastStand"} /\ b.mSurvivalStage < Stages - 1

SurvivalRepick(m, b) == m = "Survival" /\ b.mSurvivalStage < Stages - 1

\* The countdown to a wave is out only when the last has come; the warning of a huge
\* wave starts before its wave and is over when it comes.
WavesSound(m, b) ==
  /\ b.mTotalSpawnedWaves <= b.mCurrentWave
  /\ m # "Whack" => b.mCurrentWave <= NumWaves
  /\ b.mZombieCountDown = 0 =>
       /\ b.mCurrentWave = NumWaves
       /\ \/ m = "Whack"
          \/ m = "Survival" /\ (HasLevelAwardDropped(b) \/ b.mLevelComplete)
  /\ b.mHugeWaveCountDown > 0 => b.mCurrentWave # NumWaves
  /\ b.mHugeWaveCountDown = HugeTime => b.mZombieCountDown = WarnTime
  /\ m = "LastStand" /\ ~b.onslaught => b.mHugeWaveCountDown = 0

\* One end at a time: the next stage counts down, the award waits on the lawn, the
\* level fades out or it is complete; each after the last wave.
EndsSound(m, b) ==
  /\ b.mNextSurvivalStageCounter > 0 =>
       b.mBoardFadeOutCounter = -1 /\ ~b.mLevelComplete /\ (m = "LastStand" \/ SurvivalRepick(m, b))
  /\ b.award = "lawn" =>
       /\ b.mLevelAwardSpawned /\ ~Repick(m, b) /\ ~b.mLevelComplete
       /\ b.mBoardFadeOutCounter = -1 /\ b.mNextSurvivalStageCounter = 0
  /\ b.mBoardFadeOutCounter >= 0 => ~Repick(m, b)
  /\ b.mBoardFadeOutCounter = 0 => b.mLevelComplete
  /\ b.mLevelComplete => b.mBoardFadeOutCounter = 0 \/ SurvivalRepick(m, b)
  /\ \/ b.mLevelAwardSpawned \/ b.mBoardFadeOutCounter >= 0 \/ b.mLevelComplete
     \/ b.mNextSurvivalStageCounter > 0 /\ m = "Survival"
     => b.mCurrentWave >= NumWaves

\* The mowers that are left are all paid, and their coins have landed, when the level
\* has faded out.
PaysSound(b) ==
  /\ b.mBoardFadeOutCounter < 0 \/ ~CanDropLoot => b.flying = {}
  /\ CanDropLoot /\ b.mBoardFadeOutCounter > 0 => b.mScoreNextMowerCounter > 0
  /\ CanDropLoot /\ b.mBoardFadeOutCounter >= 0 /\ b.mowers > 0 =>
       b.mScoreNextMowerCounter + MowerNext * (b.mowers - 1) + FlightTime <= b.mBoardFadeOutCounter

NoEnemies(m, b) == HasLevelAwardDropped(b) /\ ~SurvivalRepick(m, b) => Enemies(b) = {}

Sound(m, b) ==
  b \in Boards /\ WavesSound(m, b) /\ EndsSound(m, b) /\ PaysSound(b) /\ NoEnemies(m, b)

----------------------------------------------------------------------------
(* What is invariant of the state.                                          *)

Types ==
  /\ mGameMode \in Modes
  /\ mGameScene \in {"MENU", "LEVEL_INTRO", "PLAYING", "ZOMBIES_WON"}
  /\ mBoardResult \in {"NONE", "WON", "LOST", "QUIT"}
  /\ dialog \in {"none", "continue", "gameOver"}
  /\ step \in {"events", "objects", "spawning", "levelEnd", "gameEnd"}
  /\ mUnusedLawnMowers \in 0..Mowers /\ coins \in 0..Mowers /\ finished \in 0..1

BoardsSound ==
  /\ board # NoBoard => Sound(mGameMode, board) /\ (board.mLevelComplete => step = "gameEnd")
  /\ file # NoBoard => /\ Sound(mGameMode, file) /\ ~file.mLevelComplete
                       /\ file.mBoardFadeOutCounter = -1

\* How the scene and the dialog fit the board and the frame.
Scenes ==
  /\ (board = NoBoard) <=> (mGameScene = "MENU")
  /\ step # "events" => mGameScene \in {"PLAYING", "ZOMBIES_WON"} /\ dialog # "continue"
  /\ dialog = "continue" => mGameScene = "PLAYING" /\ board = file
  /\ dialog = "gameOver" =>
       mGameMode = "LastStand" \/ (mGameScene = "ZOMBIES_WON" /\ step = "events")
  /\ mGameScene = "LEVEL_INTRO" => ~HasLevelAwardDropped(board)
  /\ mGameScene = "ZOMBIES_WON" => mBoardResult = "LOST"
  /\ mGameScene = "ZOMBIES_WON" \/ dialog = "gameOver" =>
       mGameScene # "MENU" /\ board.mBoardFadeOutCounter = -1
  /\ mBoardResult = "LOST" /\ mGameMode \in {"Adventure", "Whack"} =>
       mGameScene \in {"MENU", "ZOMBIES_WON"} /\ finished = 0 /\ file = NoBoard

\* The coins in flight land before the level has faded out.
CoinsLand ==
  board # NoBoard /\ board.mBoardFadeOutCounter >= 0 =>
    \A n \in board.flying :
      IF step \in {"spawning", "levelEnd"}
        THEN n < board.mBoardFadeOutCounter /\ n < FlightTime
        ELSE n <= board.mBoardFadeOutCounter

Payments ==
  /\ board # NoBoard => finished = 0 /\ (board.mBoardFadeOutCounter < 0 => coins = 0)
  /\ MowersPaidOnce /\ NoFinishedLevelOnFile /\ CoinsLand

\* Where a game is on file and a board in play as well, the board is the one just
\* loaded, or one stage of Survival goes over into the next.
FileInPlay ==
  board # NoBoard /\ file # NoBoard /\ mGameMode # "LastStand" =>
    \/ dialog = "continue"
    \/ /\ mGameMode = "Survival"
       /\ \/ mGameScene = "LEVEL_INTRO" /\ board.mSurvivalStage > 0
          \/ /\ board.mNextSurvivalStageCounter = 1
             /\ step \notin {"events", "gameEnd"} \/ mGameScene = "PLAYING"
          \/ board.mLevelComplete /\ SurvivalRepick(mGameMode, board)

\* While it does, and the game was not lost, the stage that is done is on file.
StageOnFile ==
  board # NoBoard /\ mGameMode = "Survival" /\ mBoardResult # "LOST" =>
    /\ \/ board.mNextSurvivalStageCounter = 1
       \/ board.mLevelComplete /\ SurvivalRepick(mGameMode, board)
       => /\ file # NoBoard /\ file.mNextSurvivalStageCounter = 1
          /\ file.mSurvivalStage >= board.mSurvivalStage
    /\ mGameScene = "LEVEL_INTRO" /\ board.mSurvivalStage > 0 =>
         /\ file # NoBoard /\ file.mNextSurvivalStageCounter = 1
         /\ file.mSurvivalStage + 1 >= board.mSurvivalStage

IInv == Types /\ BoardsSound /\ Scenes /\ Payments /\ FileInPlay /\ StageOnFile

----------------------------------------------------------------------------
(* How a board may change.                                                  *)

SameWaves(c, b) ==
  /\ c.mCurrentWave = b.mCurrentWave /\ c.mTotalSpawnedWaves = b.mTotalSpawnedWaves
  /\ c.mZombieCountDown = b.mZombieCountDown /\ c.mHugeWaveCountDown = b.mHugeWaveCountDown

SameEnds(c, b) ==
  /\ c.mSurvivalStage = b.mSurvivalStage /\ c.onslaught = b.onslaught
  /\ c.mLevelAwardSpawned = b.mLevelAwardSpawned /\ c.award = b.award
  /\ c.mLevelComplete = b.mLevelComplete
  /\ c.mNextSurvivalStageCounter = b.mNextSurvivalStageCounter
  /\ c.mBoardFadeOutCounter = b.mBoardFadeOutCounter

SamePays(c, b) ==
  /\ c.mScoreNextMowerCounter = b.mScoreNextMowerCounter
  /\ c.mowers = b.mowers /\ c.flying = b.flying

StageGoes(b, c) ==
  \/ /\ c.mNextSurvivalStageCounter = b.mNextSurvivalStageCounter
     /\ c.mSurvivalStage = b.mSurvivalStage
  \/ /\ ~HasLevelAwardDropped(b) /\ b.mCurrentWave >= NumWaves
     /\ c.mNextSurvivalStageCounter = StageTime
     /\ c.mSurvivalStage \in {b.mSurvivalStage, b.mSurvivalStage + 1}

EndGoes(b, c) ==
  /\ Sound(mGameMode, c) /\ ~c.mLevelComplete
  /\ c.mBoardFadeOutCounter = b.mBoardFadeOutCounter /\ c.flying = b.flying
  /\ b.mBoardFadeOutCounter >= 0 => c.mowers = b.mowers
  /\ HasLevelAwardDropped(b) => HasLevelAwardDropped(c)
  /\ StageGoes(b, c)

\* Zombies die: no wave comes of it, but the stage may be over.
Dies(b, c) ==
  /\ EndGoes(b, c)
  /\ c.mCurrentWave <= b.mCurrentWave /\ c.mTotalSpawnedWaves <= b.mTotalSpawnedWaves
  /\ c.mHugeWaveCountDown > 0 =>
       c.mHugeWaveCountDown = b.mHugeWaveCountDown /\ c.mCurrentWave = b.mCurrentWave

\* Either that, or a wave comes.
Goes(b, c) ==
  /\ EndGoes(b, c)
  /\ b.mHugeWaveCountDown > 0 /\ c.mHugeWaveCountDown > 0 => c.mCurrentWave = b.mCurrentWave
  /\ c.mTotalSpawnedWaves > b.mTotalSpawnedWaves =>
       mGameMode = "Whack" \/ b.mCurrentWave < NumWaves

----------------------------------------------------------------------------
(* Constants and boards.                                                    *)

LEMMA Constants ==
  /\ NumWaves \in Nat /\ NumWaves > 0 /\ Stages \in Nat /\ Stages > 0 /\ Mowers \in Nat
  /\ CanDropLoot \in BOOLEAN /\ WavesPerFlag \in Nat \ {0}
  /\ WarnTime \in Nat /\ SoonTime \in Nat /\ WaveTime \in Nat /\ WhackTime \in Nat
  /\ 2 < WarnTime /\ WarnTime < SoonTime /\ SoonTime < WaveTime /\ WarnTime + 1 < WhackTime
  /\ HugeTime \in Nat /\ 1 < HugeTime /\ GraveTime \in Nat /\ 0 < GraveTime
  /\ StageTime \in Nat /\ 1 < StageTime
  /\ MowerFirst \in Nat /\ 0 < MowerFirst /\ MowerNext \in Nat /\ 0 < MowerNext
  /\ FlightTime \in Nat /\ 0 < FlightTime /\ FadeTime \in Nat
BY WavesAssumption, TimesAssumption

LEMMA NoBoardIsNone == NoBoard \notin Boards
BY DEF NoBoard, Boards

\* A board has the fields of its record, and a new one is a board.
LEMMA Fields ==
  ASSUME NEW b \in Boards
  PROVE  /\ b.zombies \in [Zombies -> ZombieState] /\ b.mDroppedLoot \in SUBSET Zombies
         /\ b.mCurrentWave \in 0..NumWaves + 2 /\ b.mTotalSpawnedWaves \in 0..NumWaves + 2
         /\ b.mZombieCountDown \in 0..WaveTime + WhackTime
         /\ b.mHugeWaveCountDown \in 0..HugeTime /\ b.mRiseFromGraveCounter \in 0..GraveTime
         /\ b.mSurvivalStage \in 0..Stages - 1 /\ b.onslaught \in BOOLEAN
         /\ b.mChallengeStateCounter \in -1..2 /\ b.mLevelAwardSpawned \in BOOLEAN
         /\ b.award \in {"none", "lawn", "collected"} /\ b.mLevelComplete \in BOOLEAN
         /\ b.mNextSurvivalStageCounter \in 0..StageTime
         /\ b.mBoardFadeOutCounter \in -1..FadeTime
         /\ b.mScoreNextMowerCounter \in 0..MowerFirst + MowerNext
         /\ b.mowers \in 0..Mowers /\ b.flying \in SUBSET (1..FlightTime)
BY DEF Boards

LEMMA OnlyZombies ==
  ASSUME NEW b, NEW c \in Boards, Sound(mGameMode, b), ~b.mLevelComplete,
         SameWaves(c, b), SameEnds(c, b), SamePays(c, b),
         Enemies(b) = {} => Enemies(c) = {}
  PROVE  Dies(b, c)
<1>1. b \in Boards
  BY DEF Sound
<1>2. HasLevelAwardDropped(c) = HasLevelAwardDropped(b)
  BY DEF SameEnds, HasLevelAwardDropped
<1>3. WavesSound(mGameMode, c)
  BY <1>2 DEF Sound, WavesSound, SameWaves, SameEnds
<1>4. EndsSound(mGameMode, c)
  BY DEF Sound, EndsSound, SameWaves, SameEnds, Repick, SurvivalRepick
<1>5. PaysSound(c)
  BY DEF Sound, PaysSound, SameEnds, SamePays
<1>6. NoEnemies(mGameMode, c)
  BY <1>2 DEF Sound, NoEnemies, SurvivalRepick, SameEnds
<1>7. Sound(mGameMode, c)
  BY <1>3, <1>4, <1>5, <1>6 DEF Sound
<1>8. EndGoes(b, c)
  BY <1>2, <1>7 DEF EndGoes, StageGoes, SameEnds, SamePays
<1> QED BY <1>1, <1>8, Fields DEF Dies, SameWaves

LEMMA DiesTwice ==
  ASSUME NEW b \in Boards, NEW c, NEW d, Dies(b, c), Dies(c, d)
  PROVE  Dies(b, d)
<1>1. c \in Boards /\ d \in Boards
  BY DEF Dies, EndGoes, Sound
<1>2. StageGoes(b, d)
  BY <1>1, Fields, Constants DEF Dies, EndGoes, StageGoes, HasLevelAwardDropped
<1>3. EndGoes(b, d)
  BY <1>2 DEF Dies, EndGoes
<1> QED BY <1>1, <1>3, Fields DEF Dies

LEMMA DiesGoes ==
  ASSUME NEW b \in Boards, NEW c, Dies(b, c)
  PROVE  Goes(b, c)
<1>1. c \in Boards
  BY DEF Dies, EndGoes, Sound
<1> QED BY <1>1, Fields DEF Dies, Goes

----------------------------------------------------------------------------
(* Zombies die, are charmed and raised.                                     *)

LEMMA DropFields ==
  ASSUME NEW b \in Boards, NEW dl \in SUBSET Zombies
  PROVE  LET c == [b EXCEPT !.mDroppedLoot = dl]
         IN  /\ c \in Boards /\ SameWaves(c, b) /\ SameEnds(c, b) /\ SamePays(c, b)
             /\ c.zombies = b.zombies
<1> DEFINE c == [b EXCEPT !.mDroppedLoot = dl]
<1>1. c \in Boards
  BY DEF Boards
<1>2. SameWaves(c, b) /\ SameEnds(c, b) /\ SamePays(c, b) /\ c.zombies = b.zombies
  BY DEF Boards, SameWaves, SameEnds, SamePays
<1> QED BY <1>1, <1>2

LEMMA ZombieFields ==
  ASSUME NEW b \in Boards, NEW zs \in [Zombies -> ZombieState]
  PROVE  LET c == [b EXCEPT !.zombies = zs]
         IN  /\ c \in Boards /\ SameWaves(c, b) /\ SameEnds(c, b) /\ SamePays(c, b)
             /\ c.zombies = zs /\ c.mDroppedLoot = b.mDroppedLoot
<1> DEFINE c == [b EXCEPT !.zombies = zs]
<1>1. c \in Boards
  BY DEF Boards
<1>2. /\ SameWaves(c, b) /\ SameEnds(c, b) /\ SamePays(c, b)
      /\ c.zombies = zs /\ c.mDroppedLoot = b.mDroppedLoot
  BY DEF Boards, SameWaves, SameEnds, SamePays
<1> QED BY <1>1, <1>2

\* The state a zombie is put in, when it is no enemy then, ends nothing.
LEMMA BecomeDies ==
  ASSUME NEW b, Sound(mGameMode, b), ~b.mLevelComplete, NEW z \in Zombies,
         NEW s \in ZombieState \ {"enemy"}
  PROVE  Dies(b, Become(b, z, s))
<1> DEFINE zs == [b.zombies EXCEPT ![z] = s]
<1>1. b \in Boards
  BY DEF Sound
<1>2. zs \in [Zombies -> ZombieState]
  BY <1>1, Fields
<1>3. Become(b, z, s) = [b EXCEPT !.zombies = zs]
  BY <1>1 DEF Become, Boards
<1> DEFINE c == Become(b, z, s)
<1>4. /\ c \in Boards /\ SameWaves(c, b) /\ SameEnds(c, b) /\ SamePays(c, b)
      /\ c.zombies = zs
  <2> HIDE DEF zs
  <2> QED BY <1>1, <1>2, <1>3, ZombieFields
<1>5. Enemies(b) = {} => Enemies(c) = {}
  BY <1>1, <1>4, Fields DEF Enemies
<1> HIDE DEF c
<1> QED BY <1>4, <1>5, OnlyZombies DEF c

LEMMA Clears ==
  ASSUME NEW b \in Boards
  PROVE  LET c == RemoveAllZombies(b)
         IN  /\ c \in Boards /\ SameWaves(c, b) /\ SameEnds(c, b) /\ SamePays(c, b)
             /\ Enemies(c) = {}
<1> DEFINE zs == [z \in Zombies |-> IF b.zombies[z] = "dying" THEN b.zombies[z] ELSE "none"]
<1>1. zs \in [Zombies -> ZombieState]
  BY Fields DEF ZombieState
<1>2. RemoveAllZombies(b) = [b EXCEPT !.zombies = zs]
  BY DEF RemoveAllZombies, Boards
<1> DEFINE c == RemoveAllZombies(b)
<1>3. /\ c \in Boards /\ SameWaves(c, b) /\ SameEnds(c, b) /\ SamePays(c, b)
      /\ c.zombies = zs
  <2> HIDE DEF zs
  <2> QED BY <1>1, <1>2, ZombieFields
<1>4. Enemies(c) = {}
  BY <1>3 DEF Enemies
<1> QED BY <1>3, <1>4

\* The next stage is counted down to.
LEMMA SurvivalFades ==
  ASSUME NEW b \in Boards, SurvivalRepick(mGameMode, b)
  PROVE  LET c == FadeOutLevel(b)
         IN  /\ c \in Boards /\ SameWaves(c, b) /\ SamePays(c, b) /\ c.zombies = b.zombies
             /\ c.mSurvivalStage = b.mSurvivalStage /\ c.onslaught = b.onslaught
             /\ c.mLevelAwardSpawned = b.mLevelAwardSpawned /\ c.award = b.award
             /\ c.mLevelComplete = b.mLevelComplete
             /\ c.mNextSurvivalStageCounter = StageTime
             /\ c.mBoardFadeOutCounter = b.mBoardFadeOutCounter
<1>1. FadeOutLevel(b) = [b EXCEPT !.mNextSurvivalStageCounter = StageTime]
  BY DEF FadeOutLevel, SurvivalRepick, IsLastStandStageWithRepick, IsSurvivalStageWithRepick
<1> DEFINE c == [b EXCEPT !.mNextSurvivalStageCounter = StageTime]
<1>2. c \in Boards
  BY Constants DEF Boards
<1>3. /\ SameWaves(c, b) /\ SamePays(c, b) /\ c.zombies = b.zombies
      /\ c.mSurvivalStage = b.mSurvivalStage /\ c.onslaught = b.onslaught
      /\ c.mLevelAwardSpawned = b.mLevelAwardSpawned /\ c.award = b.award
      /\ c.mLevelComplete = b.mLevelComplete
      /\ c.mNextSurvivalStageCounter = StageTime
      /\ c.mBoardFadeOutCounter = b.mBoardFadeOutCounter
  BY DEF Boards, SameWaves, SamePays
<1> QED BY <1>1, <1>2, <1>3

LEMMA LastStandFades ==
  ASSUME NEW b \in Boards, mGameMode = "LastStand", b.mSurvivalStage < Stages - 1
  PROVE  LET c == FadeOutLevel(b)
         IN  /\ c \in Boards /\ SamePays(c, b) /\ c.zombies = b.zombies
             /\ c.mCurrentWave = 0 /\ c.mTotalSpawnedWaves = 0
             /\ c.mZombieCountDown = WaveTime /\ c.mHugeWaveCountDown = 0
             /\ c.mSurvivalStage = b.mSurvivalStage + 1
             /\ ~c.mLevelAwardSpawned /\ c.award = b.award /\ ~c.mLevelComplete
             /\ c.mNextSurvivalStageCounter = StageTime
             /\ c.mBoardFadeOutCounter = b.mBoardFadeOutCounter
<1> DEFINE d == [b EXCEPT !.mNextSurvivalStageCounter = StageTime]
           e == [d EXCEPT !.onslaught = FALSE, !.mSurvivalStage = @ + 1, !.mLevelComplete = FALSE]
           c == InitZombieWaves(e)
<1>1. FadeOutLevel(b) = c
  BY DEF FadeOutLevel, IsLastStandStageWithRepick, LastStandCompletedStage
<1>2. d \in Boards /\ d.mSurvivalStage = b.mSurvivalStage /\ SamePays(d, b)
      /\ d.zombies = b.zombies /\ d.award = b.award /\ d.mNextSurvivalStageCounter = StageTime
      /\ d.mBoardFadeOutCounter = b.mBoardFadeOutCounter
  BY Constants DEF Boards, SamePays
<1> HIDE DEF d
<1>3. b.mSurvivalStage + 1 \in 0..Stages - 1
  BY Fields, Constants
<1>4. e \in Boards
  BY <1>2, <1>3 DEF Boards
<1>5. /\ e.mSurvivalStage = b.mSurvivalStage + 1 /\ SamePays(e, b)
      /\ e.zombies = b.zombies /\ e.award = b.award /\ e.mNextSurvivalStageCounter = StageTime
      /\ e.mBoardFadeOutCounter = b.mBoardFadeOutCounter /\ ~e.mLevelComplete
  BY <1>2 DEF Boards, SamePays
<1> HIDE DEF e
<1>6. c \in Boards
  <2>1. 0 \in 0..NumWaves + 2 /\ WaveTime \in 0..WaveTime + WhackTime /\ 0 \in 0..HugeTime
    BY Constants
  <2> QED BY <1>4, <2>1 DEF Boards, InitZombieWaves
<1>7. /\ c.mSurvivalStage = b.mSurvivalStage + 1 /\ SamePays(c, b)
      /\ c.zombies = b.zombies /\ c.award = b.award /\ c.mNextSurvivalStageCounter = StageTime
      /\ c.mBoardFadeOutCounter = b.mBoardFadeOutCounter /\ ~c.mLevelComplete
      /\ c.mCurrentWave = 0 /\ c.mTotalSpawnedWaves = 0
      /\ c.mZombieCountDown = WaveTime /\ c.mHugeWaveCountDown = 0 /\ ~c.mLevelAwardSpawned
  BY <1>4, <1>5 DEF Boards, SamePays, InitZombieWaves
<1> QED BY <1>1, <1>6, <1>7


\* The award drops for the last enemy: on the lawn, or the stage ends.
LEMMA AwardDies ==
  ASSUME NEW b, Sound(mGameMode, b), ~b.mLevelComplete, NEW z \in Zombies
  PROVE  Dies(b, TrySpawnLevelAward(b, z))
<1> DEFINE won == [b EXCEPT !.mLevelAwardSpawned = TRUE]
           cleared == IF IsSurvivalStageWithRepick(b) THEN won ELSE RemoveAllZombies(won)
           ended == IF IsSurvivalStageWithRepick(b) \/ IsLastStandStageWithRepick(b)
                      THEN FadeOutLevel(cleared)
                      ELSE [cleared EXCEPT !.award = "lawn"]
           t == TrySpawnLevelAward(b, z)
<1>1. b \in Boards
  BY DEF Sound
<1>2. CASE ~MayAward(b, z)
  <2>1. t = b
    BY <1>2 DEF TrySpawnLevelAward
  <2> QED BY <1>1, <2>1, OnlyZombies DEF SameWaves, SameEnds, SamePays
<1>3. CASE MayAward(b, z)
  <2>1. t = [ended EXCEPT !.mDroppedLoot = @ \union {z}]
    BY <1>3 DEF TrySpawnLevelAward
  <2>2. /\ won \in Boards /\ SameWaves(won, b) /\ SamePays(won, b) /\ won.zombies = b.zombies
        /\ won.mLevelAwardSpawned /\ won.mSurvivalStage = b.mSurvivalStage
        /\ won.award = b.award /\ won.mLevelComplete = b.mLevelComplete
        /\ won.mNextSurvivalStageCounter = b.mNextSurvivalStageCounter
        /\ won.mBoardFadeOutCounter = b.mBoardFadeOutCounter /\ won.onslaught = b.onslaught
    BY <1>1 DEF Boards, SameWaves, SamePays
  <2> HIDE DEF won
  <2>3. /\ ~HasLevelAwardDropped(b) /\ b.mCurrentWave >= NumWaves /\ Enemies(b) = {}
        /\ ~b.mLevelAwardSpawned /\ b.mNextSurvivalStageCounter = 0
        /\ b.mBoardFadeOutCounter = -1 /\ b.award # "lawn"
    BY <1>1, <1>3, Fields DEF MayAward, HasLevelAwardDropped, Sound, EndsSound
  <2>4. /\ cleared \in Boards /\ SameWaves(cleared, b) /\ SamePays(cleared, b)
        /\ Enemies(cleared) = {}
        /\ cleared.mLevelAwardSpawned /\ cleared.mSurvivalStage = b.mSurvivalStage
        /\ cleared.award = b.award /\ ~cleared.mLevelComplete
        /\ cleared.mNextSurvivalStageCounter = 0
        /\ cleared.mBoardFadeOutCounter = -1 /\ cleared.onslaught = b.onslaught
    <3>1. CASE IsSurvivalStageWithRepick(b)
      BY <2>2, <2>3, <3>1 DEF Enemies
    <3>2. CASE ~IsSurvivalStageWithRepick(b)
      BY <2>2, <2>3, <3>2, Clears DEF SameWaves, SameEnds, SamePays
    <3> QED BY <3>1, <3>2
  <2> HIDE DEF cleared
  <2>5. CASE IsSurvivalStageWithRepick(b)
    <3>1. SurvivalRepick(mGameMode, b) /\ SurvivalRepick(mGameMode, cleared)
      BY <2>4, <2>5 DEF IsSurvivalStageWithRepick, SurvivalRepick
    <3>2. ended = FadeOutLevel(cleared)
      BY <2>5
    <3> HIDE DEF ended
    <3>3. /\ ended \in Boards /\ SameWaves(ended, b) /\ SamePays(ended, b)
          /\ ended.mLevelAwardSpawned /\ ended.mSurvivalStage = b.mSurvivalStage
          /\ ended.award = b.award /\ ~ended.mLevelComplete
          /\ ended.mNextSurvivalStageCounter = StageTime
          /\ ended.mBoardFadeOutCounter = -1 /\ ended.onslaught = b.onslaught
      BY <2>4, <3>1, <3>2, SurvivalFades DEF SameWaves, SamePays
    <3>4. /\ t \in Boards /\ SameWaves(t, b) /\ SamePays(t, b)
          /\ t.mLevelAwardSpawned /\ t.mSurvivalStage = b.mSurvivalStage
          /\ t.award = b.award /\ ~t.mLevelComplete
          /\ t.mNextSurvivalStageCounter = StageTime
          /\ t.mBoardFadeOutCounter = -1 /\ t.onslaught = b.onslaught
      <4>1. ended.mDroppedLoot \union {z} \in SUBSET Zombies
        BY <3>3, Fields
      <4> QED BY <2>1, <3>3, <4>1, DropFields DEF SameWaves, SameEnds, SamePays
    <3> HIDE DEF t
    <3>5. WavesSound(mGameMode, t)
      BY <3>1, <3>4, Constants DEF Sound, WavesSound, SameWaves, HasLevelAwardDropped, SurvivalRepick
    <3>6. EndsSound(mGameMode, t)
      BY <2>3, <3>1, <3>4, Constants DEF EndsSound, SameWaves, SurvivalRepick
    <3>7. PaysSound(t)
      BY <2>3, <3>4 DEF Sound, PaysSound, SamePays
    <3>8. NoEnemies(mGameMode, t) /\ HasLevelAwardDropped(t)
      BY <3>1, <3>4 DEF NoEnemies, SurvivalRepick, HasLevelAwardDropped
    <3>9. EndGoes(b, t)
      BY <2>3, <3>4, <3>5, <3>6, <3>7, <3>8 DEF Sound, EndGoes, StageGoes, SamePays
    <3>10. Dies(b, t)
      BY <1>1, <3>4, <3>9, Fields DEF Dies, SameWaves
    <3> QED BY <3>10 DEF t
  <2>6. CASE IsLastStandStageWithRepick(b)
    <3>1. /\ mGameMode = "LastStand" /\ cleared.mSurvivalStage < Stages - 1
          /\ ~SurvivalRepick(mGameMode, b)
      BY <2>4, <2>6 DEF IsLastStandStageWithRepick, SurvivalRepick
    <3>2. ended = FadeOutLevel(cleared)
      BY <2>6
    <3> HIDE DEF ended
    <3>3. /\ ended \in Boards /\ SamePays(ended, b) /\ ended.zombies = cleared.zombies
          /\ ended.mCurrentWave = 0 /\ ended.mTotalSpawnedWaves = 0
          /\ ended.mZombieCountDown = WaveTime /\ ended.mHugeWaveCountDown = 0
          /\ ~ended.mLevelAwardSpawned /\ ended.mSurvivalStage = b.mSurvivalStage + 1
          /\ ended.award = b.award /\ ~ended.mLevelComplete
          /\ ended.mNextSurvivalStageCounter = StageTime
          /\ ended.mBoardFadeOutCounter = -1
      BY <2>4, <3>1, <3>2, LastStandFades DEF SamePays
    <3>4. /\ t \in Boards /\ SamePays(t, b) /\ t.zombies = cleared.zombies
          /\ t.mCurrentWave = 0 /\ t.mTotalSpawnedWaves = 0
          /\ t.mZombieCountDown = WaveTime /\ t.mHugeWaveCountDown = 0
          /\ ~t.mLevelAwardSpawned /\ t.mSurvivalStage = b.mSurvivalStage + 1
          /\ t.award = b.award /\ ~t.mLevelComplete
          /\ t.mNextSurvivalStageCounter = StageTime
          /\ t.mBoardFadeOutCounter = -1
      <4>1. ended.mDroppedLoot \union {z} \in SUBSET Zombies
        BY <3>3, Fields
      <4> QED BY <2>1, <3>3, <4>1, DropFields DEF SameWaves, SameEnds, SamePays
    <3> HIDE DEF t
    <3>5. WavesSound(mGameMode, t)
      BY <3>1, <3>4, Constants DEF WavesSound
    <3>6. EndsSound(mGameMode, t)
      BY <2>3, <3>1, <3>4, Constants DEF EndsSound
    <3>7. PaysSound(t)
      BY <2>3, <3>4 DEF Sound, PaysSound, SamePays
    <3>8. NoEnemies(mGameMode, t) /\ HasLevelAwardDropped(t)
      BY <2>4, <3>4, Constants DEF NoEnemies, Enemies, HasLevelAwardDropped
    <3>9. EndGoes(b, t)
      BY <2>3, <3>4, <3>5, <3>6, <3>7, <3>8 DEF Sound, EndGoes, StageGoes, SamePays
    <3>10. Dies(b, t)
      BY <1>1, <3>4, <3>9, Fields DEF Dies
    <3> QED BY <3>10 DEF t
  <2>7. CASE ~IsSurvivalStageWithRepick(b) /\ ~IsLastStandStageWithRepick(b)
    <3>1. ~Repick(mGameMode, b)
      BY <2>7 DEF IsSurvivalStageWithRepick, IsLastStandStageWithRepick, Repick
    <3>2. ended = [cleared EXCEPT !.award = "lawn"]
      BY <2>7
    <3> HIDE DEF ended
    <3>3. /\ ended \in Boards /\ SameWaves(ended, b) /\ SamePays(ended, b)
          /\ ended.zombies = cleared.zombies
          /\ ended.mLevelAwardSpawned /\ ended.mSurvivalStage = b.mSurvivalStage
          /\ ~ended.mLevelComplete
          /\ ended.mNextSurvivalStageCounter = 0
          /\ ended.mBoardFadeOutCounter = -1 /\ ended.onslaught = b.onslaught
      BY <2>4, <3>2 DEF Boards, SameWaves, SamePays
    <3>4. /\ t \in Boards /\ SameWaves(t, b) /\ SamePays(t, b)
          /\ t.zombies = cleared.zombies
          /\ t.mLevelAwardSpawned /\ t.mSurvivalStage = b.mSurvivalStage
          /\ ~t.mLevelComplete
          /\ t.mNextSurvivalStageCounter = 0
          /\ t.mBoardFadeOutCounter = -1 /\ t.onslaught = b.onslaught
      <4>1. ended.mDroppedLoot \union {z} \in SUBSET Zombies
        BY <3>3, Fields
      <4> QED BY <2>1, <3>3, <4>1, DropFields DEF SameWaves, SameEnds, SamePays
    <3> HIDE DEF t
    <3>5. WavesSound(mGameMode, t)
      BY <3>4 DEF Sound, WavesSound, SameWaves, HasLevelAwardDropped
    <3>6. EndsSound(mGameMode, t)
      BY <2>3, <3>1, <3>4 DEF EndsSound, SameWaves, Repick
    <3>7. PaysSound(t)
      BY <2>3, <3>4 DEF Sound, PaysSound, SamePays
    <3>8. NoEnemies(mGameMode, t) /\ HasLevelAwardDropped(t)
      BY <2>4, <3>4 DEF NoEnemies, Enemies, HasLevelAwardDropped
    <3>9. EndGoes(b, t)
      BY <2>3, <3>4, <3>5, <3>6, <3>7, <3>8 DEF Sound, EndGoes, StageGoes, SamePays
    <3>10. Dies(b, t)
      BY <1>1, <3>4, <3>9, Fields DEF Dies, SameWaves
    <3> QED BY <3>10 DEF t
  <2> QED BY <2>5, <2>6, <2>7
<1> QED BY <1>2, <1>3

LEMMA DropLootDies ==
  ASSUME NEW b, Sound(mGameMode, b), ~b.mLevelComplete, NEW z \in Zombies
  PROVE  Dies(b, DropLoot(b, z))
<1> DEFINE t == TrySpawnLevelAward(b, z)
           c == [t EXCEPT !.mDroppedLoot = @ \union {z}]
<1>1. Dies(b, t)
  BY AwardDies
<1> HIDE DEF t
<1>2. CASE HasLevelAwardDropped(t) \/ ~CanDropLoot
  BY <1>1, <1>2 DEF DropLoot, t
<1>3. CASE ~(HasLevelAwardDropped(t) \/ ~CanDropLoot)
  <2>1. DropLoot(b, z) = c
    BY <1>3 DEF DropLoot, t
  <2>2. b \in Boards /\ t \in Boards /\ Sound(mGameMode, t) /\ ~t.mLevelComplete
    BY <1>1 DEF Dies, EndGoes, Sound
  <2>3. t.mDroppedLoot \union {z} \in SUBSET Zombies
    BY <2>2, Fields
  <2>4. /\ c \in Boards /\ SameWaves(c, t) /\ SameEnds(c, t) /\ SamePays(c, t)
        /\ c.zombies = t.zombies
    BY <2>2, <2>3, DropFields
  <2> HIDE DEF c
  <2>5. Dies(t, c)
    BY <2>2, <2>4, OnlyZombies DEF Enemies
  <2> QED BY <1>1, <2>1, <2>2, <2>5, DiesTwice
<1> QED BY <1>2, <1>3


\* What dies may be awarded, dropped and removed after it.
LEMMA DiesOn ==
  ASSUME NEW b \in Boards, NEW c, Dies(b, c), NEW z \in Zombies
  PROVE  /\ Dies(b, TrySpawnLevelAward(c, z)) /\ Dies(b, DropLoot(c, z))
         /\ \A s \in ZombieState \ {"enemy"} : Dies(b, Become(c, z, s))
<1>1. Sound(mGameMode, c) /\ ~c.mLevelComplete
  BY DEF Dies, EndGoes
<1>2. Dies(c, TrySpawnLevelAward(c, z)) /\ Dies(c, DropLoot(c, z))
  BY <1>1, AwardDies, DropLootDies
<1>3. ASSUME NEW s \in ZombieState \ {"enemy"}
      PROVE  Dies(b, Become(c, z, s))
  <2>1. Dies(c, Become(c, z, s))
    BY <1>1, BecomeDies
  <2> QED BY <2>1, DiesTwice
<1> QED BY <1>2, <1>3, DiesTwice

\* A backup dancer comes on the side of its dancer.
LEMMA BackupDies ==
  ASSUME NEW b, Sound(mGameMode, b), ~b.mLevelComplete, NEW z \in Zombies, NEW y \in Zombies,
         b.zombies[z] \in {"enemy", "charmed"}
  PROVE  Dies(b, Become(Arrive(b, {y}), y, b.zombies[z]))
<1>1. b \in Boards
  BY DEF Sound
<1> DEFINE as == [x \in Zombies |-> IF x \in {y} THEN "enemy" ELSE b.zombies[x]]
           zs == [as EXCEPT ![y] = b.zombies[z]]
           dl == b.mDroppedLoot \ {y}
           d == [b EXCEPT !.zombies = zs]
           c == [d EXCEPT !.mDroppedLoot = dl]
<1>2. zs \in [Zombies -> ZombieState] /\ dl \in SUBSET Zombies
  BY <1>1, Fields DEF ZombieState
<1>3. Enemies(b) = {} => \A x \in Zombies : zs[x] # "enemy"
  BY <1>1, Fields DEF Enemies
<1>4. Become(Arrive(b, {y}), y, b.zombies[z]) = c
  BY <1>1 DEF Become, Arrive, Boards
<1> HIDE DEF zs, dl
<1>5. /\ d \in Boards /\ SameWaves(d, b) /\ SameEnds(d, b) /\ SamePays(d, b)
      /\ d.zombies = zs
  BY <1>1, <1>2, ZombieFields
<1> HIDE DEF d
<1>6. /\ c \in Boards /\ SameWaves(c, b) /\ SameEnds(c, b) /\ SamePays(c, b)
      /\ c.zombies = zs
  BY <1>2, <1>5, DropFields DEF SameWaves, SameEnds, SamePays
<1> HIDE DEF c
<1>7. Enemies(b) = {} => Enemies(c) = {}
  BY <1>3, <1>6 DEF Enemies
<1> QED BY <1>4, <1>6, <1>7, OnlyZombies

\* A mower starts: where there is an enemy no mower is being paid.
LEMMA MowerDies ==
  ASSUME NEW b, Sound(mGameMode, b), ~b.mLevelComplete, Enemies(b) # {}, b.mowers > 0
  PROVE  Dies(b, [b EXCEPT !.mowers = @ - 1])
<1> DEFINE c == [b EXCEPT !.mowers = @ - 1]
<1>1. b \in Boards
  BY DEF Sound
<1>2. b.mowers - 1 \in 0..Mowers
  BY <1>1, Fields, Constants
<1>3. c \in Boards
  BY <1>1, <1>2 DEF Boards
<1>4. /\ SameWaves(c, b) /\ SameEnds(c, b) /\ c.flying = b.flying /\ c.zombies = b.zombies
      /\ c.mScoreNextMowerCounter = b.mScoreNextMowerCounter
  BY <1>1 DEF Boards, SameWaves, SameEnds
<1> HIDE DEF c
<1>5. b.mBoardFadeOutCounter < 0
  <2>1. SUFFICES ASSUME b.mBoardFadeOutCounter >= 0 PROVE FALSE
    BY <1>1, Fields
  <2>2. HasLevelAwardDropped(b) /\ ~SurvivalRepick(mGameMode, b)
    BY <2>1 DEF HasLevelAwardDropped, Sound, EndsSound, Repick, SurvivalRepick
  <2> QED BY <2>2 DEF Sound, NoEnemies
<1>6. HasLevelAwardDropped(c) = HasLevelAwardDropped(b)
  BY <1>4 DEF SameEnds, HasLevelAwardDropped
<1>7. WavesSound(mGameMode, c)
  BY <1>4, <1>6 DEF Sound, WavesSound, SameWaves, SameEnds
<1>8. EndsSound(mGameMode, c)
  BY <1>4 DEF Sound, EndsSound, SameWaves, SameEnds, Repick, SurvivalRepick
<1>9. PaysSound(c)
  BY <1>1, <1>4, <1>5, Fields DEF Sound, PaysSound, SameEnds
<1>10. NoEnemies(mGameMode, c)
  BY <1>4, <1>6 DEF Sound, NoEnemies, SurvivalRepick, SameEnds, Enemies
<1>11. EndGoes(b, c)
  BY <1>1, <1>3, <1>4, <1>5, <1>6, <1>7, <1>8, <1>9, <1>10, Fields
     DEF Sound, EndGoes, StageGoes, SameEnds
<1>12. Dies(b, c)
  BY <1>1, <1>4, <1>11, Fields DEF Dies, SameWaves
<1> QED BY <1>12 DEF c

\* What becomes of a zombie.
LEMMA FateDies ==
  ASSUME Sound(mGameMode, board), ~board.mLevelComplete, NEW z \in Zombies, ZombieFate(z)
  PROVE  ReachHouse(z) \/ \E c : Dies(board, c) /\ Happens(c)
<1>1. board \in Boards
  BY DEF Sound
<1>2. {"none", "headless", "charmed", "dying"} \subseteq ZombieState \ {"enemy"}
  BY DEF ZombieState
<1>3. \A s \in {"none", "headless", "charmed", "dying"} : Dies(board, Become(board, z, s))
  BY <1>2, BecomeDies
<1>4. \A s \in {"none", "headless", "charmed", "dying"} :
        /\ Dies(board, TrySpawnLevelAward(Become(board, z, s), z))
        /\ Dies(board, DropLoot(Become(board, z, s), z))
        /\ Dies(board, DropLoot(TrySpawnLevelAward(Become(board, z, s), z), z))
  BY <1>1, <1>3, DiesOn
<1>5. CASE LoseHead(z)
  <2> DEFINE b == DropLoot(Become(board, z, "headless"), z)
  <2>1. Dies(board, b) /\ Dies(board, Become(b, z, "dying"))
    <3>1. Dies(board, b)
      BY <1>4
    <3> HIDE DEF b
    <3> QED BY <1>1, <1>2, <3>1, DiesOn
  <2> QED BY <1>5, <2>1 DEF LoseHead
<1>6. CASE ThrowHead(z)
  BY <1>3, <1>6 DEF ThrowHead
<1>7. CASE Fall(z)
  BY <1>4, <1>7 DEF Fall
<1>8. CASE DieNoLoot(z)
  BY <1>4, <1>8 DEF DieNoLoot
<1>9. CASE DieWithLoot(z)
  BY <1>4, <1>9 DEF DieWithLoot
<1>10. CASE EatHypnoshroom(z)
  BY <1>4, <1>10 DEF EatHypnoshroom
<1>11. CASE SummonBackupDancer(z)
  BY <1>11, BackupDies DEF SummonBackupDancer, Free
<1>12. CASE MowZombie(z)
  <2> DEFINE b == [board EXCEPT !.mowers = @ - 1]
  <2>1. Dies(board, b)
    BY <1>12, MowerDies DEF MowZombie
  <2>2. \/ Happens(DropLoot(Become(b, z, "dying"), z))
        \/ Happens(DropLoot(TrySpawnLevelAward(Become(b, z, "none"), z), z))
    BY <1>12 DEF MowZombie
  <2> HIDE DEF b
  <2>3. \A s \in {"none", "dying"} : Dies(board, Become(b, z, s))
    BY <1>1, <1>2, <2>1, DiesOn
  <2>4. \A s \in {"none", "dying"} :
          /\ Dies(board, DropLoot(Become(b, z, s), z))
          /\ Dies(board, DropLoot(TrySpawnLevelAward(Become(b, z, s), z), z))
    BY <1>1, <2>3, DiesOn
  <2> QED BY <2>2, <2>4
<1> QED BY <1>5, <1>6, <1>7, <1>8, <1>9, <1>10, <1>11, <1>12 DEF ZombieFate

----------------------------------------------------------------------------
(* Waves come.                                                              *)

\* The board c is b but for its zombies and the counters of its waves.
Aside(b, c) == c \in Boards /\ SameEnds(c, b) /\ SamePays(c, b)

LEMMA AsideTwice ==
  ASSUME NEW b, NEW c, NEW d, Aside(b, c), Aside(c, d)
  PROVE  Aside(b, d)
BY DEF Aside, SameEnds, SamePays

LEMMA ArriveKeeps ==
  ASSUME NEW b \in Boards, NEW S \in SUBSET Zombies
  PROVE  /\ Aside(b, Arrive(b, S)) /\ SameWaves(Arrive(b, S), b)
         /\ Arrive(b, S).mRiseFromGraveCounter = b.mRiseFromGraveCounter
         /\ Arrive(b, S).mChallengeStateCounter = b.mChallengeStateCounter
<1> DEFINE zs == [x \in Zombies |-> IF x \in S THEN "enemy" ELSE b.zombies[x]]
           dl == b.mDroppedLoot \ S
           c == [b EXCEPT !.zombies = zs, !.mDroppedLoot = dl]
<1>1. zs \in [Zombies -> ZombieState] /\ dl \in SUBSET Zombies
  BY Fields DEF ZombieState
<1>2. Arrive(b, S) = c
  BY DEF Arrive, Boards
<1> HIDE DEF zs, dl
<1>3. c \in Boards
  BY <1>1 DEF Boards
<1>4. /\ SameEnds(c, b) /\ SamePays(c, b) /\ SameWaves(c, b)
      /\ c.mRiseFromGraveCounter = b.mRiseFromGraveCounter
      /\ c.mChallengeStateCounter = b.mChallengeStateCounter
  BY DEF Boards, SameEnds, SamePays, SameWaves
<1> HIDE DEF c
<1> QED BY <1>2, <1>3, <1>4 DEF Aside

LEMMA GravesKeep ==
  ASSUME NEW b \in Boards, NEW c \in UpdateGraves(b)
  PROVE  Aside(b, c) /\ SameWaves(c, b)
<1> DEFINE d == [b EXCEPT !.mRiseFromGraveCounter = @ - 1]
<1>1. CASE b.mRiseFromGraveCounter = 0
  BY <1>1 DEF UpdateGraves, Aside, SameEnds, SamePays, SameWaves
<1>2. CASE b.mRiseFromGraveCounter # 0
  <2>1. b.mRiseFromGraveCounter - 1 \in 0..GraveTime
    BY <1>2, Fields, Constants
  <2>2. d \in Boards
    BY <2>1 DEF Boards
  <2>3. SameEnds(d, b) /\ SamePays(d, b) /\ SameWaves(d, b)
    BY DEF Boards, SameEnds, SamePays, SameWaves
  <2>4. c = d \/ \E S \in SUBSET Zombies : c = Arrive(d, S)
    BY <1>2 DEF UpdateGraves, SpawnZombiesFromGraves, Free
  <2> HIDE DEF d
  <2>5. Aside(b, d)
    BY <2>2, <2>3 DEF Aside
  <2>6. CASE c = d
    BY <2>3, <2>5, <2>6
  <2>7. ASSUME NEW S \in SUBSET Zombies, c = Arrive(d, S)
        PROVE  Aside(b, c) /\ SameWaves(c, b)
    <3>1. Aside(d, c) /\ SameWaves(c, d)
      BY <2>2, <2>7, ArriveKeeps
    <3> QED BY <2>3, <2>5, <3>1, AsideTwice DEF SameWaves
  <2> QED BY <2>4, <2>6, <2>7
<1> QED BY <1>1, <1>2

\* The counter of a huge wave goes on, and its wave comes after its end.
LEMMA HugeCounts ==
  ASSUME NEW b \in Boards
  PROVE  LET c == UpdateHugeWave(b)
         IN  /\ Aside(b, c)
             /\ c.mCurrentWave = b.mCurrentWave /\ c.mTotalSpawnedWaves = b.mTotalSpawnedWaves
             /\ \/ b.mHugeWaveCountDown = 0 /\ SameWaves(c, b)
                \/ /\ b.mHugeWaveCountDown = 1 /\ c.mHugeWaveCountDown = 0
                   /\ c.mZombieCountDown = 1
                \/ /\ b.mHugeWaveCountDown > 1
                   /\ c.mHugeWaveCountDown = b.mHugeWaveCountDown - 1
                   /\ c.mZombieCountDown = b.mZombieCountDown
<1> DEFINE d == [b EXCEPT !.mHugeWaveCountDown = @ - 1]
           e == [d EXCEPT !.mZombieCountDown = 1]
<1>1. CASE b.mHugeWaveCountDown = 0
  BY <1>1 DEF UpdateHugeWave, Aside, SameEnds, SamePays, SameWaves
<1>2. CASE b.mHugeWaveCountDown # 0
  <2>1. b.mHugeWaveCountDown - 1 \in 0..HugeTime /\ 1 \in 0..WaveTime + WhackTime
    BY <1>2, Fields, Constants
  <2>2. d \in Boards
    BY <2>1 DEF Boards
  <2>3. /\ SameEnds(d, b) /\ SamePays(d, b)
        /\ d.mCurrentWave = b.mCurrentWave /\ d.mTotalSpawnedWaves = b.mTotalSpawnedWaves
        /\ d.mHugeWaveCountDown = b.mHugeWaveCountDown - 1
        /\ d.mZombieCountDown = b.mZombieCountDown
    BY DEF Boards, SameEnds, SamePays
  <2>4. UpdateHugeWave(b) = IF d.mHugeWaveCountDown = 0 THEN e ELSE d
    BY <1>2 DEF UpdateHugeWave
  <2> HIDE DEF d
  <2>5. e \in Boards
    BY <2>1, <2>2 DEF Boards
  <2>6. /\ SameEnds(e, b) /\ SamePays(e, b)
        /\ e.mCurrentWave = b.mCurrentWave /\ e.mTotalSpawnedWaves = b.mTotalSpawnedWaves
        /\ e.mHugeWaveCountDown = d.mHugeWaveCountDown
        /\ e.mZombieCountDown = 1
    BY <2>2, <2>3 DEF Boards, SameEnds, SamePays
  <2> HIDE DEF e
  <2>7. CASE d.mHugeWaveCountDown = 0
    BY <1>2, <2>3, <2>4, <2>5, <2>6, <2>7, Fields DEF Aside
  <2>8. CASE d.mHugeWaveCountDown # 0
    BY <1>2, <2>2, <2>3, <2>4, <2>8, Fields, Constants DEF Aside
  <2> QED BY <2>7, <2>8
<1> QED BY <1>1, <1>2

\* A wave is spawned.
LEMMA WaveComes ==
  ASSUME NEW b \in Boards, b.mCurrentWave <= NumWaves + 1,
         b.mTotalSpawnedWaves <= b.mCurrentWave, NEW c \in SpawnZombieWave(b)
  PROVE  /\ Aside(b, c)
         /\ c.mCurrentWave = b.mCurrentWave + 1
         /\ c.mTotalSpawnedWaves = b.mTotalSpawnedWaves + 1
         /\ c.mZombieCountDown = b.mZombieCountDown
         /\ c.mHugeWaveCountDown = b.mHugeWaveCountDown
<1>1. PICK S \in SUBSET Zombies :
        c = [Arrive(b, S) EXCEPT
               !.mRiseFromGraveCounter = IF b.mCurrentWave = NumWaves - 1 THEN GraveTime ELSE @,
               !.mCurrentWave = @ + 1,
               !.mTotalSpawnedWaves = @ + 1]
  BY DEF SpawnZombieWave, Free
<1> DEFINE a == Arrive(b, S)
           rise == IF b.mCurrentWave = NumWaves - 1 THEN GraveTime ELSE a.mRiseFromGraveCounter
           d == [a EXCEPT !.mRiseFromGraveCounter = rise, !.mCurrentWave = @ + 1,
                          !.mTotalSpawnedWaves = @ + 1]
<1>2. Aside(b, a) /\ SameWaves(a, b)
  BY ArriveKeeps
<1>3. a \in Boards
  BY <1>2 DEF Aside
<1>4. c = d
  BY <1>1, <1>3 DEF Boards
<1> HIDE DEF a
<1>5. /\ rise \in 0..GraveTime /\ a.mCurrentWave + 1 \in 0..NumWaves + 2
      /\ a.mTotalSpawnedWaves + 1 \in 0..NumWaves + 2
  BY <1>2, <1>3, Fields, Constants DEF SameWaves
<1> HIDE DEF rise
<1>6. d \in Boards
  BY <1>3, <1>5 DEF Boards
<1>7. /\ SameEnds(d, a) /\ SamePays(d, a)
      /\ d.mCurrentWave = a.mCurrentWave + 1
      /\ d.mTotalSpawnedWaves = a.mTotalSpawnedWaves + 1
      /\ d.mZombieCountDown = a.mZombieCountDown
      /\ d.mHugeWaveCountDown = a.mHugeWaveCountDown
  BY <1>3 DEF Boards, SameEnds, SamePays
<1> HIDE DEF d
<1>8. Aside(a, d)
  BY <1>6, <1>7 DEF Aside
<1> QED BY <1>2, <1>4, <1>7, <1>8, AsideTwice DEF SameWaves

LEMMA CountDownFields ==
  ASSUME NEW b \in Boards, NEW n \in 0..WaveTime + WhackTime
  PROVE  LET c == [b EXCEPT !.mZombieCountDown = n]
         IN  /\ Aside(b, c) /\ c.mZombieCountDown = n
             /\ c.mCurrentWave = b.mCurrentWave /\ c.mTotalSpawnedWaves = b.mTotalSpawnedWaves
             /\ c.mHugeWaveCountDown = b.mHugeWaveCountDown
             /\ c.mChallengeStateCounter = b.mChallengeStateCounter /\ c.zombies = b.zombies
<1> DEFINE c == [b EXCEPT !.mZombieCountDown = n]
<1>1. c \in Boards
  BY DEF Boards
<1>2. /\ SameEnds(c, b) /\ SamePays(c, b) /\ c.mZombieCountDown = n
      /\ c.mCurrentWave = b.mCurrentWave /\ c.mTotalSpawnedWaves = b.mTotalSpawnedWaves
      /\ c.mHugeWaveCountDown = b.mHugeWaveCountDown
      /\ c.mChallengeStateCounter = b.mChallengeStateCounter /\ c.zombies = b.zombies
  BY DEF Boards, SameEnds, SamePays
<1> HIDE DEF c
<1>3. Aside(b, c)
  BY <1>1, <1>2 DEF Aside
<1> QED BY <1>2, <1>3 DEF c


\* A countdown to a wave that runs: it is warned of, it comes, or it is waited for.
Counts(b, c) ==
  /\ Aside(b, c)
  /\ \/ /\ c.mCurrentWave = b.mCurrentWave /\ c.mTotalSpawnedWaves = b.mTotalSpawnedWaves
        /\ c.mHugeWaveCountDown = HugeTime /\ c.mZombieCountDown = WarnTime
        /\ b.mZombieCountDown = WarnTime + 1
     \/ /\ c.mCurrentWave = b.mCurrentWave + 1
        /\ c.mTotalSpawnedWaves = b.mTotalSpawnedWaves + 1
        /\ c.mHugeWaveCountDown = b.mHugeWaveCountDown /\ c.mZombieCountDown = WaveTime
        /\ b.mZombieCountDown = 1
     \/ /\ c.mCurrentWave = b.mCurrentWave /\ c.mTotalSpawnedWaves = b.mTotalSpawnedWaves
        /\ c.mHugeWaveCountDown = b.mHugeWaveCountDown
        /\ c.mZombieCountDown > 0 /\ b.mZombieCountDown > 1

LEMMA CountDownCounts ==
  ASSUME NEW b \in Boards, b.mZombieCountDown > 0,
         b.mZombieCountDown = 1 => b.mCurrentWave <= NumWaves + 1,
         b.mTotalSpawnedWaves <= b.mCurrentWave,
         NEW d \in CalledEarly([b EXCEPT !.mZombieCountDown = @ - 1]), NEW c \in CountDown(d)
  PROVE  Counts(b, c)
<1> DEFINE n == b.mZombieCountDown - 1
           a == [b EXCEPT !.mZombieCountDown = n]
<1>1. n \in 0..WaveTime + WhackTime /\ SoonTime \in 0..WaveTime + WhackTime
  BY Fields, Constants
<1> HIDE DEF n
<1>2. /\ Aside(b, a) /\ a.mZombieCountDown = n
      /\ a.mCurrentWave = b.mCurrentWave /\ a.mTotalSpawnedWaves = b.mTotalSpawnedWaves
      /\ a.mHugeWaveCountDown = b.mHugeWaveCountDown
  BY <1>1, CountDownFields
<1>3. \/ d = a
      \/ d = [a EXCEPT !.mZombieCountDown = SoonTime] /\ n > SoonTime
  BY <1>2 DEF CalledEarly, n
<1> HIDE DEF a
<1>4. /\ Aside(b, d) /\ d.mZombieCountDown \in {n, SoonTime}
      /\ d.mZombieCountDown = SoonTime => n >= SoonTime
      /\ d.mCurrentWave = b.mCurrentWave /\ d.mTotalSpawnedWaves = b.mTotalSpawnedWaves
      /\ d.mHugeWaveCountDown = b.mHugeWaveCountDown
  <2>1. CASE d = a
    BY <1>1, <1>2, <2>1, Constants
  <2>2. CASE d = [a EXCEPT !.mZombieCountDown = SoonTime] /\ n > SoonTime
    <3>1. a \in Boards
      BY <1>2 DEF Aside
    <3>2. /\ Aside(a, d) /\ d.mZombieCountDown = SoonTime
          /\ d.mCurrentWave = a.mCurrentWave /\ d.mTotalSpawnedWaves = a.mTotalSpawnedWaves
          /\ d.mHugeWaveCountDown = a.mHugeWaveCountDown
      BY <1>1, <2>2, <3>1, CountDownFields
    <3> QED BY <1>1, <1>2, <2>2, <3>2, AsideTwice, Constants
  <2> QED BY <1>3, <2>1, <2>2
<1>5. d \in Boards
  BY <1>4 DEF Aside
<1>6. CASE d.mZombieCountDown = WarnTime /\ IsFlagWave(d.mCurrentWave)
  <2> DEFINE e == [d EXCEPT !.mHugeWaveCountDown = HugeTime]
  <2>1. c = e
    BY <1>6 DEF CountDown
  <2>2. e \in Boards
    BY <1>5, Constants DEF Boards
  <2>3. /\ SameEnds(e, d) /\ SamePays(e, d) /\ e.mHugeWaveCountDown = HugeTime
        /\ e.mCurrentWave = d.mCurrentWave /\ e.mTotalSpawnedWaves = d.mTotalSpawnedWaves
        /\ e.mZombieCountDown = d.mZombieCountDown
    BY <1>5 DEF Boards, SameEnds, SamePays
  <2> HIDE DEF e
  <2>4. Aside(d, e)
    BY <2>2, <2>3 DEF Aside
  <2>5. Aside(b, e)
    BY <1>4, <2>4, AsideTwice
  <2>6. b.mZombieCountDown = WarnTime + 1
    BY <1>1, <1>4, <1>6, Constants, Fields DEF n
  <2> QED BY <1>4, <1>6, <2>1, <2>3, <2>5, <2>6 DEF Counts
<1>7. CASE d.mZombieCountDown = 0
  <2>1. PICK w \in SpawnZombieWave(d) : c = [w EXCEPT !.mZombieCountDown = WaveTime]
    BY <1>7, Constants DEF CountDown
  <2>2. b.mZombieCountDown = 1
    BY <1>1, <1>4, <1>7, Constants, Fields DEF n
  <2>3. d.mCurrentWave <= NumWaves + 1 /\ d.mTotalSpawnedWaves <= d.mCurrentWave
    BY <1>4, <2>2
  <2>4. /\ Aside(d, w)
        /\ w.mCurrentWave = d.mCurrentWave + 1
        /\ w.mTotalSpawnedWaves = d.mTotalSpawnedWaves + 1
        /\ w.mHugeWaveCountDown = d.mHugeWaveCountDown
    BY <1>5, <2>3, WaveComes
  <2>5. w \in Boards /\ WaveTime \in 0..WaveTime + WhackTime
    BY <2>4, Constants DEF Aside
  <2>6. /\ Aside(w, c) /\ c.mZombieCountDown = WaveTime
        /\ c.mCurrentWave = w.mCurrentWave /\ c.mTotalSpawnedWaves = w.mTotalSpawnedWaves
        /\ c.mHugeWaveCountDown = w.mHugeWaveCountDown
    BY <2>1, <2>5, CountDownFields
  <2>7. Aside(b, c)
    BY <1>4, <2>4, <2>6, AsideTwice
  <2> QED BY <1>4, <2>2, <2>4, <2>6, <2>7 DEF Counts
<1>8. CASE ~(d.mZombieCountDown = WarnTime /\ IsFlagWave(d.mCurrentWave)) /\ d.mZombieCountDown # 0
  <2>1. c = d
    BY <1>8 DEF CountDown
  <2>2. d.mZombieCountDown > 0 /\ b.mZombieCountDown > 1
    BY <1>1, <1>4, <1>8, Constants, Fields DEF n
  <2> QED BY <1>4, <2>1, <2>2 DEF Counts
<1> QED BY <1>6, <1>7, <1>8

\* The board's own countdown: it is over, it ends a stage of Survival, or it runs.
LEMMA DirectorCounts ==
  ASSUME NEW b \in Boards, b.mZombieCountDown > 0 \/ AllWavesSpawned(b),
         b.mZombieCountDown = 1 => b.mCurrentWave <= NumWaves + 1,
         b.mTotalSpawnedWaves <= b.mCurrentWave, NEW c \in Director(b)
  PROVE  \/ c = b
         \/ b.mCurrentWave # NumWaves /\ Counts(b, c)
         \/ /\ SurvivalRepick(mGameMode, b) /\ b.mCurrentWave = NumWaves
            /\ \E a : /\ a = [b EXCEPT !.mZombieCountDown = @ - 1]
                      /\ c = IF a.mZombieCountDown = 0 THEN FadeOutLevel(a) ELSE a
<1> DEFINE a == [b EXCEPT !.mZombieCountDown = @ - 1]
<1>1. CASE AllWavesSpawned(b)
  BY <1>1 DEF Director
<1>2. CASE ~AllWavesSpawned(b) /\ b.mCurrentWave = NumWaves
  BY <1>2 DEF Director, AllWavesSpawned, IsSurvivalStageWithRepick, SurvivalRepick
<1>3. CASE ~AllWavesSpawned(b) /\ b.mCurrentWave # NumWaves
  <2>1. PICK d \in CalledEarly(a) : c \in CountDown(d)
    BY <1>3 DEF Director
  <2> QED BY <1>3, <2>1, CountDownCounts
<1> QED BY <1>1, <1>2, <1>3


LEMMA StateCounterFields ==
  ASSUME NEW b \in Boards, NEW n \in -1..2
  PROVE  LET c == [b EXCEPT !.mChallengeStateCounter = n]
         IN  /\ Aside(b, c) /\ SameWaves(c, b) /\ c.mChallengeStateCounter = n
<1> DEFINE c == [b EXCEPT !.mChallengeStateCounter = n]
<1>1. c \in Boards
  BY DEF Boards
<1>2. /\ SameEnds(c, b) /\ SamePays(c, b) /\ SameWaves(c, b) /\ c.mChallengeStateCounter = n
  BY DEF Boards, SameEnds, SamePays, SameWaves
<1> HIDE DEF c
<1>3. Aside(b, c)
  BY <1>1, <1>2 DEF Aside
<1> QED BY <1>2, <1>3 DEF c

\* The waves of Whack a Zombie are counted, and not spawned by a planned wave.
WhackCounts(b, c) ==
  /\ Aside(b, c) /\ c.mTotalSpawnedWaves = b.mTotalSpawnedWaves
  /\ c.mHugeWaveCountDown = b.mHugeWaveCountDown
  /\ \/ b.mZombieCountDown = 1 /\ c.mCurrentWave = b.mCurrentWave + 1
        /\ c.mZombieCountDown = WhackTime
     \/ b.mZombieCountDown = 1 /\ c.mCurrentWave = b.mCurrentWave + 1
        /\ c.mZombieCountDown = 0 /\ c.mCurrentWave = NumWaves
     \/ b.mZombieCountDown > 1 /\ c.mCurrentWave = b.mCurrentWave
        /\ c.mZombieCountDown = b.mZombieCountDown - 1
     \/ c.mCurrentWave = b.mCurrentWave
        /\ c.mZombieCountDown = 0 /\ c.mCurrentWave = NumWaves

LEMMA WhackRises ==
  ASSUME NEW b \in Boards, NEW c \in WhackRise(b)
  PROVE  /\ Aside(b, c) /\ c.mCurrentWave = b.mCurrentWave
         /\ c.mTotalSpawnedWaves = b.mTotalSpawnedWaves
         /\ c.mHugeWaveCountDown = b.mHugeWaveCountDown
         /\ c.mZombieCountDown = IF b.mCurrentWave = NumWaves THEN 0 ELSE b.mZombieCountDown
<1>1. PICK a \in SpawnZombiesFromGraves(b) :
        c = [a EXCEPT
               !.mChallengeStateCounter = IF b.mCurrentWave = NumWaves THEN 0 ELSE 1,
               !.mZombieCountDown = IF b.mCurrentWave = NumWaves THEN 0 ELSE @]
  BY DEF WhackRise
<1> DEFINE n == IF b.mCurrentWave = NumWaves THEN 0 ELSE 1
           k == IF b.mCurrentWave = NumWaves THEN 0 ELSE a.mZombieCountDown
           d == [a EXCEPT !.mChallengeStateCounter = n]
           e == [d EXCEPT !.mZombieCountDown = k]
<1>2. Aside(b, a) /\ SameWaves(a, b)
  BY ArriveKeeps DEF SpawnZombiesFromGraves, Free
<1>3. a \in Boards
  BY <1>2 DEF Aside
<1>4. c = e
  BY <1>1, <1>3 DEF Boards
<1>5. n \in -1..2 /\ k \in 0..WaveTime + WhackTime
  BY <1>3, Fields, Constants
<1>6. k = IF b.mCurrentWave = NumWaves THEN 0 ELSE b.mZombieCountDown
  BY <1>2 DEF SameWaves
<1> HIDE DEF n, k
<1>7. Aside(a, d) /\ SameWaves(d, a)
  BY <1>3, <1>5, StateCounterFields
<1> HIDE DEF d
<1>8. d \in Boards
  BY <1>7 DEF Aside
<1>9. /\ Aside(d, e) /\ e.mZombieCountDown = k
      /\ e.mCurrentWave = d.mCurrentWave /\ e.mTotalSpawnedWaves = d.mTotalSpawnedWaves
      /\ e.mHugeWaveCountDown = d.mHugeWaveCountDown
  BY <1>5, <1>8, CountDownFields
<1>10. Aside(b, e)
  BY <1>2, <1>7, <1>9, AsideTwice
<1> HIDE DEF e
<1> QED BY <1>2, <1>4, <1>6, <1>7, <1>9, <1>10 DEF SameWaves

LEMMA WhackCountDown ==
  ASSUME NEW b \in Boards, b.mCurrentWave <= NumWaves + 1,
         b.mZombieCountDown > 0 \/ b.mCurrentWave = NumWaves,
         NEW r \in WhackAZombieSpawning(b)
  PROVE  WhackCounts(b, r)
<1> DEFINE n == b.mZombieCountDown - 1
           c == [b EXCEPT !.mZombieCountDown = n]
           k == IF b.mCurrentWave + 1 = NumWaves THEN 2 ELSE 1
           d1 == [c EXCEPT !.mZombieCountDown = WhackTime, !.mCurrentWave = @ + 1,
                           !.mChallengeStateCounter = k]
           d == IF c.mZombieCountDown = 0 THEN d1 ELSE c
           m == IF d.mChallengeStateCounter >= 0 THEN d.mChallengeStateCounter - 1
                ELSE d.mChallengeStateCounter
           e == [d EXCEPT !.mChallengeStateCounter = m]
<1>1. CASE b.mCurrentWave = NumWaves /\ b.mZombieCountDown = 0
  BY <1>1 DEF WhackAZombieSpawning, WhackCounts, Aside, SameEnds, SamePays
<1>2. CASE ~(b.mCurrentWave = NumWaves /\ b.mZombieCountDown = 0)
  <2>1. b.mZombieCountDown > 0 /\ n \in 0..WaveTime + WhackTime
    BY <1>2, Fields, Constants
  <2>2. n = b.mZombieCountDown - 1 /\ k \in -1..2 /\ WhackTime \in 0..WaveTime + WhackTime
    BY Constants
  <2>3. c = [b EXCEPT !.mZombieCountDown = @ - 1]
    OBVIOUS
  <2> HIDE DEF n
  <2>4. /\ Aside(b, c) /\ c.mZombieCountDown = n
        /\ c.mCurrentWave = b.mCurrentWave /\ c.mTotalSpawnedWaves = b.mTotalSpawnedWaves
        /\ c.mHugeWaveCountDown = b.mHugeWaveCountDown
    BY <2>1, CountDownFields
  <2>5. c \in Boards
    BY <2>4 DEF Aside
  <2> HIDE DEF k
  <2>6. r = d \/ r = e \/ r \in WhackRise(e)
    <3>1. e = [d EXCEPT !.mChallengeStateCounter = IF @ >= 0 THEN @ - 1 ELSE @]
      BY <2>5 DEF Boards
    <3>2. d = IF c.mZombieCountDown = 0
                THEN [c EXCEPT !.mZombieCountDown = WhackTime, !.mCurrentWave = @ + 1,
                               !.mChallengeStateCounter =
                                 IF b.mCurrentWave + 1 = NumWaves THEN 2 ELSE 1]
                ELSE c
      BY DEF k
    <3> HIDE DEF c, d, e
    <3> QED BY <1>2, <2>3, <3>1, <3>2 DEF WhackAZombieSpawning
  <2> HIDE DEF c
  <2>7. /\ Aside(b, d) /\ d.mTotalSpawnedWaves = b.mTotalSpawnedWaves
        /\ d.mHugeWaveCountDown = b.mHugeWaveCountDown
        /\ \/ b.mZombieCountDown = 1 /\ d.mCurrentWave = b.mCurrentWave + 1
              /\ d.mZombieCountDown = WhackTime
           \/ b.mZombieCountDown > 1 /\ d.mCurrentWave = b.mCurrentWave
              /\ d.mZombieCountDown = b.mZombieCountDown - 1
    <3>1. CASE c.mZombieCountDown = 0
      <4>1. c.mCurrentWave + 1 \in 0..NumWaves + 2
        BY <2>4, <2>5, Fields, Constants
      <4>2. d1 \in Boards
        BY <2>2, <2>5, <4>1 DEF Boards
      <4>3. /\ SameEnds(d1, c) /\ SamePays(d1, c) /\ d1.mZombieCountDown = WhackTime
            /\ d1.mCurrentWave = c.mCurrentWave + 1
            /\ d1.mTotalSpawnedWaves = c.mTotalSpawnedWaves
            /\ d1.mHugeWaveCountDown = c.mHugeWaveCountDown
        BY <2>5 DEF Boards, SameEnds, SamePays
      <4>4. d = d1
        BY <3>1
      <4> HIDE DEF d1, d
      <4>5. Aside(c, d)
        BY <4>2, <4>3, <4>4 DEF Aside
      <4>6. Aside(b, d)
        BY <2>4, <4>5, AsideTwice
      <4>7. b.mZombieCountDown = 1
        BY <2>1, <2>2, <2>4, <3>1, Fields
      <4> QED BY <2>4, <4>3, <4>4, <4>6, <4>7
    <3>2. CASE c.mZombieCountDown # 0
      <4>1. d = c
        BY <3>2
      <4>2. b.mZombieCountDown > 1
        BY <2>1, <2>2, <2>4, <3>2, Fields
      <4> HIDE DEF d
      <4> QED BY <2>2, <2>4, <4>1, <4>2
    <3> QED BY <3>1, <3>2
  <2> HIDE DEF d
  <2>8. d \in Boards
    BY <2>7 DEF Aside
  <2>9. m \in -1..2
    BY <2>8, Fields
  <2> HIDE DEF m
  <2>10. Aside(d, e) /\ SameWaves(e, d)
    BY <2>8, <2>9, StateCounterFields
  <2> HIDE DEF e
  <2>11. Aside(b, e) /\ e \in Boards
    BY <2>7, <2>10, AsideTwice DEF Aside
  <2>12. CASE r = d
    BY <2>7, <2>12 DEF WhackCounts
  <2>13. CASE r = e
    BY <2>7, <2>10, <2>11, <2>13 DEF WhackCounts, SameWaves
  <2>14. CASE r \in WhackRise(e)
    <3>1. /\ Aside(e, r) /\ r.mCurrentWave = e.mCurrentWave
          /\ r.mTotalSpawnedWaves = e.mTotalSpawnedWaves
          /\ r.mHugeWaveCountDown = e.mHugeWaveCountDown
          /\ r.mZombieCountDown = IF e.mCurrentWave = NumWaves THEN 0 ELSE e.mZombieCountDown
      BY <2>11, <2>14, WhackRises
    <3>2. Aside(b, r)
      BY <2>11, <3>1, AsideTwice
    <3> QED BY <2>7, <2>10, <3>1, <3>2 DEF WhackCounts, SameWaves
  <2> QED BY <2>6, <2>12, <2>13, <2>14
<1> QED BY <1>1, <1>2


\* Nothing ends when only waves come.
LEMMA AsideGoes ==
  ASSUME NEW b, NEW c, Sound(mGameMode, b), ~HasLevelAwardDropped(b), ~b.mLevelComplete,
         Aside(b, c), WavesSound(mGameMode, c)
  PROVE  EndGoes(b, c)
<1>1. b \in Boards /\ c \in Boards /\ SameEnds(c, b) /\ SamePays(c, b)
  BY DEF Sound, Aside
<1>2. ~HasLevelAwardDropped(c)
  BY <1>1 DEF SameEnds, HasLevelAwardDropped
<1>3. EndsSound(mGameMode, c)
  BY <1>1, <1>2, Fields DEF Sound, EndsSound, SameEnds, Repick, SurvivalRepick,
                            HasLevelAwardDropped
<1>4. PaysSound(c)
  BY <1>1 DEF Sound, PaysSound, SameEnds, SamePays
<1>5. NoEnemies(mGameMode, c)
  BY <1>2 DEF NoEnemies
<1>6. Sound(mGameMode, c)
  BY <1>1, <1>3, <1>4, <1>5 DEF Sound
<1> QED BY <1>1, <1>2, <1>6 DEF EndGoes, StageGoes, SameEnds, SamePays

\* What the countdown of a stage of Survival ends.
LEMMA StageOver ==
  ASSUME NEW b, NEW g \in Boards, Sound(mGameMode, b), ~HasLevelAwardDropped(b),
         ~b.mLevelComplete, Aside(b, g), SameWaves(g, b),
         SurvivalRepick(mGameMode, g), g.mCurrentWave = NumWaves
  PROVE  LET a == [g EXCEPT !.mZombieCountDown = @ - 1]
             c == IF a.mZombieCountDown = 0 THEN FadeOutLevel(a) ELSE a
         IN  Goes(b, c)
<1> DEFINE n == g.mZombieCountDown - 1
           a == [g EXCEPT !.mZombieCountDown = n]
           c == IF a.mZombieCountDown = 0 THEN FadeOutLevel(a) ELSE a
<1>1. b \in Boards /\ mGameMode = "Survival" /\ mGameMode # "Whack"
  BY DEF Sound, SurvivalRepick
<1>2. g.mZombieCountDown > 0
  BY <1>1, Fields DEF Sound, WavesSound, SameWaves
<1>3. n \in 0..WaveTime + WhackTime
  BY <1>2, Fields, Constants
<1>4. n + 1 = g.mZombieCountDown
  BY <1>2, Fields
<1> HIDE DEF n
<1>5. /\ Aside(g, a) /\ a.mZombieCountDown = n
      /\ a.mCurrentWave = g.mCurrentWave /\ a.mTotalSpawnedWaves = g.mTotalSpawnedWaves
      /\ a.mHugeWaveCountDown = g.mHugeWaveCountDown
  BY <1>3, CountDownFields
<1> HIDE DEF a
<1>6. Aside(b, a) /\ a \in Boards
  BY <1>5, AsideTwice DEF Aside
<1>7. a.mHugeWaveCountDown = 0
  BY <1>1, <1>5, Fields DEF Sound, WavesSound, SameWaves
<1>8. SurvivalRepick(mGameMode, a)
  BY <1>5 DEF SurvivalRepick, Aside, SameEnds
<1>9. CASE n # 0
  <2>1. WavesSound(mGameMode, a)
    BY <1>1, <1>5, <1>7, <1>9, Constants DEF Sound, WavesSound, SameWaves
  <2>2. EndGoes(b, a)
    BY <1>6, <2>1, AsideGoes
  <2>3. Goes(b, a)
    BY <1>1, <1>5, <1>7, <2>2, Fields DEF Goes, SameWaves
  <2> QED BY <1>5, <1>9, <2>3 DEF a, n
<1>10. CASE n = 0
  <2>1. /\ b.mBoardFadeOutCounter = -1 /\ b.award # "lawn" /\ ~b.mLevelAwardSpawned
    BY <1>1, Fields DEF HasLevelAwardDropped, Sound, EndsSound
  <2>2. c = FadeOutLevel(a)
    BY <1>5, <1>10
  <2> HIDE DEF c
  <2>3. /\ c \in Boards /\ SameWaves(c, a) /\ SamePays(c, a)
        /\ c.mSurvivalStage = a.mSurvivalStage /\ c.onslaught = a.onslaught
        /\ c.mLevelAwardSpawned = a.mLevelAwardSpawned /\ c.award = a.award
        /\ c.mLevelComplete = a.mLevelComplete
        /\ c.mNextSurvivalStageCounter = StageTime
        /\ c.mBoardFadeOutCounter = a.mBoardFadeOutCounter
    BY <1>6, <1>8, <2>2, SurvivalFades
  <2>4. SurvivalRepick(mGameMode, c) /\ HasLevelAwardDropped(c)
    BY <1>8, <2>3, Constants DEF SurvivalRepick, HasLevelAwardDropped
  <2>5. WavesSound(mGameMode, c)
    BY <1>1, <1>5, <1>7, <2>3, <2>4, Constants DEF Sound, WavesSound, SameWaves
  <2>6. EndsSound(mGameMode, c)
    BY <1>1, <1>5, <1>6, <2>1, <2>3, <2>4, Constants
       DEF EndsSound, Aside, SameEnds, SameWaves
  <2>7. PaysSound(c)
    BY <1>6, <2>1, <2>3 DEF Sound, PaysSound, Aside, SameEnds, SamePays
  <2>8. Sound(mGameMode, c)
    BY <2>3, <2>4, <2>5, <2>6, <2>7 DEF Sound, NoEnemies
  <2>9. b.mCurrentWave >= NumWaves
    BY Constants DEF SameWaves
  <2>10. EndGoes(b, c)
    BY <1>6, <2>3, <2>4, <2>8, <2>9 DEF EndGoes, StageGoes, Aside, SameEnds, SamePays
  <2>11. Goes(b, c)
    BY <1>1, <1>5, <1>7, <2>3, <2>10, Fields DEF Goes, SameWaves
  <2> QED BY <2>11 DEF c, a, n
<1> QED BY <1>9, <1>10

\* The board when the countdown to the next wave goes on: not during a warning, except
\* in the frame of its siren.
Counting(b, c) ==
  /\ Aside(b, c)
  /\ c.mCurrentWave = b.mCurrentWave /\ c.mTotalSpawnedWaves = b.mTotalSpawnedWaves
  /\ \/ b.mHugeWaveCountDown = 0 /\ SameWaves(c, b)
     \/ b.mHugeWaveCountDown > 0 /\ c.mHugeWaveCountDown = 0 /\ c.mZombieCountDown = 1
     \/ /\ b.mHugeWaveCountDown = HugeTime
        /\ c.mHugeWaveCountDown = HugeTime - 1 /\ c.mZombieCountDown = WarnTime

\* The board's countdown runs.
LEMMA DirectorGoes ==
  ASSUME NEW b, NEW c, NEW r, Sound(mGameMode, b), ~HasLevelAwardDropped(b),
         ~b.mLevelComplete, mGameMode # "Whack", Counting(b, c), r \in Director(c),
         mGameMode = "LastStand" => b.onslaught
  PROVE  Goes(b, r)
<1>1. b \in Boards /\ c \in Boards
  BY DEF Sound, Counting, Aside
<1>2. /\ b.mZombieCountDown > 0 /\ b.mTotalSpawnedWaves <= b.mCurrentWave
      /\ b.mCurrentWave <= NumWaves
      /\ b.mHugeWaveCountDown > 0 => b.mCurrentWave # NumWaves
  BY <1>1, Fields DEF Sound, WavesSound
<1>3. c.mZombieCountDown > 0 /\ c.mTotalSpawnedWaves <= c.mCurrentWave
  BY <1>2, Constants DEF Counting, SameWaves
<1>4. c.mZombieCountDown = 1 => c.mCurrentWave <= NumWaves + 1
  BY <1>1, <1>2, Fields, Constants DEF Counting
<1>5. CASE c = r
  <2>1. WavesSound(mGameMode, r)
    BY <1>2, <1>3, <1>5, Constants DEF WavesSound, Counting, Aside, SameEnds, SameWaves, Sound
  <2>2. EndGoes(b, r)
    BY <1>5, <2>1, AsideGoes DEF Counting
  <2> QED BY <1>1, <1>2, <1>5, <2>2, Fields DEF Goes, Counting
<1>6. CASE c.mCurrentWave # NumWaves /\ Counts(c, r)
  <2>1. Aside(b, r)
    BY <1>6, AsideTwice DEF Counting, Counts
  <2>2. r \in Boards
    BY <2>1 DEF Aside
  <2>3. WavesSound(mGameMode, r)
    <3>1. mGameMode = "LastStand" => r.onslaught
      BY <2>1 DEF Aside, SameEnds
    <3> QED BY <1>1, <1>2, <1>3, <1>6, <2>2, <3>1, Fields, Constants
            DEF WavesSound, Counting, Counts, SameWaves
  <2>4. EndGoes(b, r)
    BY <2>1, <2>3, AsideGoes
  <2> QED BY <1>1, <1>2, <1>6, <2>2, <2>4, Fields, Constants DEF Goes, Counting, Counts, SameWaves
<1>7. CASE /\ SurvivalRepick(mGameMode, c) /\ c.mCurrentWave = NumWaves
           /\ \E a : /\ a = [c EXCEPT !.mZombieCountDown = @ - 1]
                     /\ r = IF a.mZombieCountDown = 0 THEN FadeOutLevel(a) ELSE a
  <2>1. Aside(b, c) /\ SameWaves(c, b)
    BY <1>1, <1>2, <1>7, Fields, Constants DEF Counting
  <2> QED BY <1>1, <1>7, <2>1, StageOver
<1> QED BY <1>1, <1>3, <1>4, <1>5, <1>6, <1>7, DirectorCounts


\* In Whack a Zombie that countdown runs, and the board's own perhaps after it.
LEMMA WhackGoes ==
  ASSUME NEW b, NEW c, NEW r, Sound(mGameMode, b), ~HasLevelAwardDropped(b),
         ~b.mLevelComplete, mGameMode = "Whack", Counting(b, c), c.mCurrentWave <= NumWaves + 1,
         NEW d \in WhackAZombieSpawning(c), r = d \/ r \in Director(d)
  PROVE  Goes(b, r)
<1>1. b \in Boards /\ c \in Boards
  BY DEF Sound, Counting, Aside
<1>2. /\ b.mZombieCountDown > 0 \/ b.mCurrentWave = NumWaves
      /\ b.mTotalSpawnedWaves <= b.mCurrentWave
      /\ b.mHugeWaveCountDown > 0 => b.mCurrentWave # NumWaves /\ b.mZombieCountDown > 0
  BY <1>1, Fields DEF Sound, WavesSound
<1>3. c.mZombieCountDown > 0 \/ c.mCurrentWave = NumWaves
  BY <1>2, Constants DEF Counting, SameWaves
<1>4. WhackCounts(c, d)
  BY <1>1, <1>3, WhackCountDown
<1>5. Aside(b, d) /\ d \in Boards
  BY <1>4, AsideTwice DEF Counting, WhackCounts, Aside
<1>6. /\ d.mTotalSpawnedWaves <= d.mCurrentWave
      /\ d.mTotalSpawnedWaves = b.mTotalSpawnedWaves
      /\ d.mZombieCountDown = 0 => d.mCurrentWave = NumWaves
      /\ d.mZombieCountDown = 1 => d.mCurrentWave <= NumWaves + 1
  BY <1>1, <1>2, <1>4, <1>5, Fields, Constants DEF Counting, WhackCounts, SameWaves
<1>7. d.mHugeWaveCountDown # 0 =>
        /\ d.mHugeWaveCountDown = HugeTime - 1 /\ d.mCurrentWave # NumWaves
        /\ d.mCurrentWave = b.mCurrentWave /\ d.mZombieCountDown > 1
  BY <1>1, <1>2, <1>4, <1>5, Fields, Constants DEF Counting, WhackCounts, SameWaves
<1>8. b.mHugeWaveCountDown > 0 /\ d.mHugeWaveCountDown = 0 => d.mZombieCountDown # WarnTime + 1
  BY <1>1, <1>2, <1>4, <1>5, Fields, Constants DEF Counting, WhackCounts, SameWaves
<1>9. CASE r = d
  <2>1. WavesSound(mGameMode, r)
    BY <1>5, <1>6, <1>7, <1>9, Fields, Constants DEF WavesSound
  <2>2. EndGoes(b, r)
    BY <1>5, <1>9, <2>1, AsideGoes
  <2> QED BY <1>1, <1>5, <1>6, <1>7, <1>9, <2>2, Fields DEF Goes
<1>10. CASE d.mCurrentWave # NumWaves /\ Counts(d, r)
  <2>1. Aside(b, r) /\ r \in Boards
    BY <1>5, <1>10, AsideTwice DEF Counts, Aside
  <2>2. WavesSound(mGameMode, r)
    BY <1>5, <1>6, <1>7, <1>10, <2>1, Fields, Constants DEF WavesSound, Counts
  <2>3. EndGoes(b, r)
    BY <2>1, <2>2, AsideGoes
  <2>4. b.mHugeWaveCountDown > 0 /\ r.mHugeWaveCountDown > 0 => r.mCurrentWave = b.mCurrentWave
    BY <1>1, <1>5, <1>7, <1>8, <1>10, <2>1, Fields, Constants DEF Counts
  <2> QED BY <2>3, <2>4 DEF Goes
<1>11. ~SurvivalRepick(mGameMode, d)
  BY DEF SurvivalRepick
<1>12. d.mZombieCountDown > 0 \/ AllWavesSpawned(d)
  BY <1>5, <1>6, Fields DEF AllWavesSpawned, IsSurvivalStageWithRepick
<1> QED BY <1>5, <1>6, <1>9, <1>10, <1>11, <1>12, DirectorCounts

\* A frame of UpdateZombieSpawning.
LEMMA SpawningGoes ==
  ASSUME NEW b, Sound(mGameMode, b), ~HasLevelAwardDropped(b), ~b.mLevelComplete,
         NEW g \in UpdateGraves(b), NEW r,
         IF HugeWaveHolds(UpdateHugeWave(g)) THEN r = UpdateHugeWave(g)
           ELSE r \in Challenged(UpdateHugeWave(g))
  PROVE  Goes(b, r)
<1> DEFINE c == UpdateHugeWave(g)
<1>1. b \in Boards
  BY DEF Sound
<1>2. Aside(b, g) /\ SameWaves(g, b) /\ g \in Boards
  BY <1>1, GravesKeep DEF Aside
<1>3. /\ Aside(g, c)
      /\ c.mCurrentWave = b.mCurrentWave /\ c.mTotalSpawnedWaves = b.mTotalSpawnedWaves
      /\ \/ b.mHugeWaveCountDown = 0 /\ SameWaves(c, b)
         \/ /\ b.mHugeWaveCountDown = 1 /\ c.mHugeWaveCountDown = 0
            /\ c.mZombieCountDown = 1
         \/ /\ b.mHugeWaveCountDown > 1
            /\ c.mHugeWaveCountDown = b.mHugeWaveCountDown - 1
            /\ c.mZombieCountDown = b.mZombieCountDown
  BY <1>2, HugeCounts DEF SameWaves
<1>4. IF HugeWaveHolds(c) THEN r = c ELSE r \in Challenged(c)
  OBVIOUS
<1> HIDE DEF c
<1>5. Aside(b, c) /\ c \in Boards
  BY <1>2, <1>3, AsideTwice DEF Aside
<1>6. /\ b.mHugeWaveCountDown > 0 => b.mCurrentWave # NumWaves /\ b.mZombieCountDown > 0
      /\ b.mHugeWaveCountDown = HugeTime => b.mZombieCountDown = WarnTime
      /\ mGameMode = "LastStand" /\ ~b.onslaught => b.mHugeWaveCountDown = 0
  BY <1>1, Fields DEF Sound, WavesSound
<1>7. CASE r = c /\ (HugeWaveHolds(c) \/ b.mHugeWaveCountDown = 0)
  <2>1. WavesSound(mGameMode, c)
    BY <1>1, <1>3, <1>5, <1>6, <1>7, Fields, Constants
       DEF WavesSound, HugeWaveHolds, Sound, SameWaves, Aside, SameEnds
  <2>2. EndGoes(b, c)
    BY <1>5, <2>1, AsideGoes
  <2> QED BY <1>1, <1>3, <1>7, <2>2, Fields DEF Goes
<1>8. CASE ~HugeWaveHolds(c)
  <2>1. Counting(b, c)
    BY <1>1, <1>3, <1>5, <1>6, <1>8, Fields, Constants DEF Counting, HugeWaveHolds
  <2>2. CASE mGameMode = "Whack" /\ c.mCurrentWave > NumWaves + 1
    <3>1. r = c
      BY <1>4, <1>8, <2>2 DEF Challenged
    <3>2. WavesSound(mGameMode, c)
      BY <1>1, <1>3, <1>5, <1>6, <2>1, <2>2, Fields, Constants
         DEF WavesSound, Counting, Sound, SameWaves, Aside, SameEnds
    <3>3. EndGoes(b, c)
      BY <1>5, <3>2, AsideGoes
    <3> QED BY <1>1, <1>3, <3>1, <3>3, Fields DEF Goes
  <2>3. CASE mGameMode = "Whack" /\ ~(c.mCurrentWave > NumWaves + 1)
    <3>1. PICK d \in WhackAZombieSpawning(c) : r = d \/ r \in Director(d)
      BY <1>4, <1>8, <2>3 DEF Challenged
    <3>2. c.mCurrentWave <= NumWaves + 1
      BY <1>5, <2>3, Fields, Constants
    <3> QED BY <2>1, <2>3, <3>1, <3>2, WhackGoes
  <2>4. CASE mGameMode = "LastStand" /\ ~c.onslaught
    <3>1. r = c /\ b.mHugeWaveCountDown = 0
      BY <1>4, <1>5, <1>6, <1>8, <2>4 DEF Challenged, Aside, SameEnds
    <3> QED BY <1>7, <3>1
  <2>5. CASE mGameMode # "Whack" /\ ~(mGameMode = "LastStand" /\ ~c.onslaught)
    <3>1. r \in Director(c) /\ (mGameMode = "LastStand" => b.onslaught)
      BY <1>4, <1>5, <1>8, <2>5 DEF Challenged, Aside, SameEnds
    <3> QED BY <2>1, <2>5, <3>1, DirectorGoes
  <2> QED BY <2>2, <2>3, <2>4, <2>5
<1> QED BY <1>4, <1>7, <1>8

----------------------------------------------------------------------------
(* Steps: what each keeps of the state, and what it may not do.             *)

StageStep ==
  board # NoBoard /\ board' # NoBoard =>
    /\ board.mNextSurvivalStageCounter > 0 =>
         board'.mNextSurvivalStageCounter <= board.mNextSurvivalStageCounter
    /\ board.mBoardFadeOutCounter >= 0 =>
         /\ board'.mBoardFadeOutCounter <= board.mBoardFadeOutCounter
         /\ board'.mNextSurvivalStageCounter = 0
    /\ board.mLevelComplete => ~HasLevelAwardDropped(board') \/ HasLevelAwardDropped(board)

LastWaveStep ==
  \/ finished' > finished
  \/ board # NoBoard /\ board' # NoBoard /\ board'.mSurvivalStage > board.mSurvivalStage
  => board.mCurrentWave >= NumWaves

WarningStep ==
  board # NoBoard /\ board' # NoBoard /\ board.mHugeWaveCountDown > 0 /\
  board'.mHugeWaveCountDown > 0 => board'.mCurrentWave = board.mCurrentWave

SpawnStep ==
  board # NoBoard /\ board' # NoBoard /\
  board'.mTotalSpawnedWaves > board.mTotalSpawnedWaves =>
    mGameMode = "Whack" \/ board.mCurrentWave < NumWaves

LossStep ==
  mBoardResult = "LOST" /\ mGameMode \in {"Adventure", "Whack"} =>
    mBoardResult' # "WON" /\ finished' = finished

Steps == StageStep /\ LastWaveStep /\ WarningStep /\ SpawnStep /\ LossStep

\* What the invariant says of a board in play.
LEMMA InPlay ==
  ASSUME IInv, board # NoBoard
  PROVE  /\ board \in Boards /\ Sound(mGameMode, board) /\ mGameScene # "MENU"
         /\ board.mLevelComplete => step = "gameEnd"
         /\ finished = 0
BY DEF IInv, BoardsSound, Scenes, Payments, Sound

\* A step without a board before or after it, or that leaves the board as it is.
LEMMA QuietSteps ==
  ASSUME IInv, board = NoBoard \/ board' = NoBoard \/ board' = board,
         finished' = finished, mBoardResult = "LOST" => mBoardResult' # "WON"
  PROVE  Steps
<1>1. finished \in 0..1
  BY DEF IInv, Types
<1>2. CASE board = NoBoard \/ board' = NoBoard
  BY <1>1, <1>2 DEF Steps, StageStep, LastWaveStep, WarningStep, SpawnStep, LossStep
<1>3. CASE board # NoBoard /\ board' = board
  <2>1. board \in Boards /\ Sound(mGameMode, board)
    BY <1>3, InPlay
  <2>2. board.mBoardFadeOutCounter >= 0 => board.mNextSurvivalStageCounter = 0
    BY <2>1, Fields DEF Sound, EndsSound
  <2> QED BY <1>1, <1>3, <2>1, <2>2, Fields
          DEF Steps, StageStep, LastWaveStep, WarningStep, SpawnStep, LossStep
<1> QED BY <1>2, <1>3

LEMMA NewBoardSound ==
  /\ Sound(mGameMode, NewBoard) /\ ~NewBoard.mLevelComplete
  /\ ~HasLevelAwardDropped(NewBoard) /\ NewBoard # NoBoard
  /\ NewBoard.mBoardFadeOutCounter = -1 /\ NewBoard.mNextSurvivalStageCounter = 0
  /\ NewBoard.mSurvivalStage = 0 /\ NewBoard.mHugeWaveCountDown = 0
  /\ NewBoard.mTotalSpawnedWaves = 0
<1> DEFINE b == NewBoard
<1>1. b \in Boards
  BY Constants DEF NewBoard, Boards, ZombieState
<1>2. /\ ~b.mLevelComplete /\ b.award = "none" /\ ~b.mLevelAwardSpawned
      /\ b.mBoardFadeOutCounter = -1 /\ b.mNextSurvivalStageCounter = 0
      /\ b.mSurvivalStage = 0 /\ b.mHugeWaveCountDown = 0 /\ b.mZombieCountDown = WaveTime
      /\ b.mTotalSpawnedWaves = 0 /\ b.mCurrentWave = 0 /\ b.flying = {}
  BY DEF NewBoard
<1> HIDE DEF b
<1>3. ~HasLevelAwardDropped(b)
  BY <1>2 DEF HasLevelAwardDropped
<1>4. WavesSound(mGameMode, b)
  BY <1>2, Constants DEF WavesSound
<1>5. EndsSound(mGameMode, b)
  BY <1>2 DEF EndsSound
<1>6. PaysSound(b)
  BY <1>2 DEF PaysSound
<1>7. Sound(mGameMode, b)
  BY <1>1, <1>3, <1>4, <1>5, <1>6 DEF Sound, NoEnemies
<1> QED BY <1>1, <1>2, <1>3, <1>7, NoBoardIsNone DEF b

LEMMA NewGameKeeps ==
  ASSUME IInv, NewGame, step = "events", step' = "events", mGameMode' = mGameMode,
         \/ file' = NoBoard
         \/ file' = file /\ (mGameMode = "LastStand" \/ file = NoBoard)
  PROVE  IInv' /\ Steps
<1>1. /\ board' = NewBoard /\ mBoardResult' = "NONE" /\ mGameScene' = "LEVEL_INTRO"
      /\ dialog' = "none" /\ mUnusedLawnMowers' = 0 /\ coins' = 0 /\ finished' = 0
  BY DEF NewGame
<1> DEFINE b == NewBoard
<1>2. /\ Sound(mGameMode, b) /\ ~b.mLevelComplete
      /\ ~HasLevelAwardDropped(b) /\ b # NoBoard
      /\ b.mBoardFadeOutCounter = -1 /\ b.mNextSurvivalStageCounter = 0
      /\ b.mSurvivalStage = 0 /\ b.mHugeWaveCountDown = 0 /\ b.mTotalSpawnedWaves = 0
  BY NewBoardSound
<1>3. board' = b
  BY <1>1
<1> HIDE DEF b
<1>4. Types'
  BY <1>1, Constants DEF IInv, Types
<1>5. BoardsSound'
  BY <1>2, <1>3 DEF IInv, BoardsSound
<1>6. Scenes'
  BY <1>1, <1>2, <1>3 DEF Scenes, HasLevelAwardDropped
<1>7. Payments'
  BY <1>1, <1>2, <1>3 DEF Payments, MowersPaidOnce, NoFinishedLevelOnFile, CoinsLand
<1>8. FileInPlay'
  BY DEF FileInPlay
<1>9. StageOnFile'
  BY <1>1, <1>2, <1>3 DEF StageOnFile
<1>10. Steps
  <2>1. finished \in 0..1
    BY DEF IInv, Types
  <2>2. LossStep /\ ~(finished' > finished)
    BY <1>1, <2>1 DEF LossStep, IInv, Scenes
  <2>3. CASE board = NoBoard
    BY <2>2, <2>3 DEF Steps, StageStep, LastWaveStep, WarningStep, SpawnStep
  <2>4. CASE board # NoBoard
    <3>1. board \in Boards /\ ~board.mLevelComplete
      BY <2>4, InPlay
    <3> QED BY <1>2, <1>3, <2>2, <3>1, Fields
            DEF Steps, StageStep, LastWaveStep, WarningStep, SpawnStep
  <2> QED BY <2>3, <2>4
<1> QED BY <1>4, <1>5, <1>6, <1>7, <1>8, <1>9, <1>10 DEF IInv

LEMMA Initially == Init => IInv
BY Constants DEF Init, IInv, Types, BoardsSound, Scenes, Payments, MowersPaidOnce,
   NoFinishedLevelOnFile, CoinsLand, FileInPlay, StageOnFile


\* While the level fades out, no saved game of it is left.
LEMMA NoFileAtEnd ==
  ASSUME IInv, board # NoBoard, board.mBoardFadeOutCounter >= 0, mGameMode # "LastStand"
  PROVE  file = NoBoard
<1>1. Sound(mGameMode, board) /\ board \in Boards
  BY InPlay
<1>2. /\ board.mNextSurvivalStageCounter = 0 /\ ~SurvivalRepick(mGameMode, board)
      /\ HasLevelAwardDropped(board)
  BY <1>1, Fields DEF Sound, EndsSound, Repick, SurvivalRepick, HasLevelAwardDropped
<1>3. mGameScene # "LEVEL_INTRO"
  BY <1>2 DEF IInv, Scenes
<1>4. dialog = "continue" /\ file # NoBoard => file.mBoardFadeOutCounter = -1 /\ board = file
  BY DEF IInv, Scenes, BoardsSound
<1> QED BY <1>2, <1>3, <1>4 DEF IInv, FileInPlay

\* Leaving, with or without a saved game.
LEMMA KillKeeps ==
  ASSUME IInv, board # NoBoard, KillBoard, step' = "events", mGameMode' = mGameMode,
         mUnusedLawnMowers' = mUnusedLawnMowers,
         \/ /\ mBoardResult' \in {mBoardResult, "NONE"}
            /\ file' = file /\ coins' = coins /\ finished' = finished
         \/ mBoardResult' \in {"NONE", "QUIT"} /\ step = "events" /\ TryToSaveGame
  PROVE  IInv' /\ Steps
<1>1. board' = NoBoard /\ mGameScene' = "MENU" /\ dialog' = "none"
  BY DEF KillBoard
<1>2. /\ board \in Boards /\ Sound(mGameMode, board)
      /\ board.mLevelComplete => step = "gameEnd"
      /\ finished = 0
  BY InPlay
<1>3. CASE /\ mBoardResult' \in {mBoardResult, "NONE", "QUIT"}
           /\ file' = file /\ coins' = coins /\ finished' = finished
  <2>1. Types'
    BY <1>1, <1>3 DEF IInv, Types
  <2>2. BoardsSound'
    BY <1>1, <1>3 DEF IInv, BoardsSound
  <2>3. Scenes'
    BY <1>1, <1>2, <1>3 DEF IInv, Scenes
  <2>4. Payments'
    BY <1>1, <1>2, <1>3 DEF IInv, Payments, MowersPaidOnce, NoFinishedLevelOnFile, CoinsLand
  <2>5. FileInPlay' /\ StageOnFile'
    BY <1>1 DEF FileInPlay, StageOnFile
  <2>6. Steps
    BY <1>1, <1>3, QuietSteps
  <2> QED BY <2>1, <2>2, <2>3, <2>4, <2>5, <2>6 DEF IInv
<1>4. CASE mBoardResult' \in {"NONE", "QUIT"} /\ step = "events" /\ TryToSaveGame
  <2>1. CASE mGameScene # "PLAYING"
    BY <1>3, <1>4, <2>1 DEF TryToSaveGame, NeedSaveGame
  <2>2. CASE mGameScene = "PLAYING" /\ board.mBoardFadeOutCounter > 0
    <3> DEFINE n == Cardinality(board.flying)
    <3>1. /\ coins' = coins + (IF CanDropLoot THEN board.mowers ELSE 0) + n
          /\ finished' = finished + 1 /\ file' = file
      BY <1>4, <2>2 DEF TryToSaveGame, NeedSaveGame, CompleteEndLevelSequenceForSaving
    <3>2. CanDropLoot => coins' = mUnusedLawnMowers
      <4>1. CASE CanDropLoot
        <5>1. coins + n + board.mowers = mUnusedLawnMowers
          BY <1>2, <2>2, <4>1, Fields DEF IInv, Payments, MowersPaidOnce
        <5>2. n \in Nat
          <6>1. IsFiniteSet(1..FlightTime)
            BY Constants, FS_Interval
          <6>2. IsFiniteSet(board.flying)
            BY <1>2, <6>1, Fields, FS_Subset
          <6> QED BY <6>2, FS_CardinalityType
        <5> HIDE DEF n
        <5> QED BY <1>2, <3>1, <4>1, <5>1, <5>2, Fields DEF IInv, Types
      <4> QED BY <4>1
    <3>3. ~CanDropLoot => coins' = coins
      <4>1. CASE ~CanDropLoot
        <5>1. board.flying = {}
          BY <1>2, <4>1 DEF Sound, PaysSound
        <5>2. n = 0
          BY <5>1, FS_EmptySet
        <5> HIDE DEF n
        <5> QED BY <3>1, <4>1, <5>2 DEF IInv, Types
      <4> QED BY <4>1
    <3>4. mGameMode # "LastStand" => file = NoBoard
      BY <1>2, <2>2, Fields, NoFileAtEnd
    <3>5. finished' = 1 /\ coins' \in 0..Mowers
      BY <1>2, <3>1, <3>2, <3>3 DEF IInv, Types
    <3>6. Types'
      BY <1>1, <1>4, <3>5 DEF IInv, Types
    <3>7. BoardsSound'
      BY <1>1, <3>1 DEF IInv, BoardsSound
    <3>8. Scenes'
      BY <1>1, <1>4 DEF Scenes
    <3>9. Payments'
      BY <1>1, <3>1, <3>2, <3>4 DEF Payments, MowersPaidOnce, NoFinishedLevelOnFile, CoinsLand
    <3>10. FileInPlay' /\ StageOnFile'
      BY <1>1 DEF FileInPlay, StageOnFile
    <3>11. Steps
      <4>1. board.mCurrentWave >= NumWaves
        BY <1>2, <2>2, Fields DEF Sound, EndsSound
      <4>2. LossStep
        BY <2>2 DEF LossStep, IInv, Scenes
      <4> QED BY <1>1, <4>1, <4>2 DEF Steps, StageStep, LastWaveStep, WarningStep, SpawnStep
    <3> QED BY <3>6, <3>7, <3>8, <3>9, <3>10, <3>11 DEF IInv
  <2>3. CASE mGameScene = "PLAYING" /\ ~(board.mBoardFadeOutCounter > 0)
    <3>1. file' = board /\ coins' = coins /\ finished' = finished
      BY <1>4, <2>3 DEF TryToSaveGame, NeedSaveGame
    <3>2. ~board.mLevelComplete /\ board.mBoardFadeOutCounter = -1
      BY <1>2, <1>4, <2>3, Fields DEF Sound, EndsSound
    <3>3. Types'
      BY <1>1, <1>4, <3>1 DEF IInv, Types
    <3>4. BoardsSound'
      BY <1>1, <1>2, <3>1, <3>2 DEF BoardsSound
    <3>5. Scenes'
      BY <1>1, <1>4 DEF Scenes
    <3>6. Payments'
      BY <1>1, <1>2, <3>1 DEF Payments, MowersPaidOnce, NoFinishedLevelOnFile, CoinsLand
    <3>7. FileInPlay' /\ StageOnFile'
      BY <1>1 DEF FileInPlay, StageOnFile
    <3>8. Steps
      BY <1>1, <1>4, <3>1, QuietSteps
    <3> QED BY <3>3, <3>4, <3>5, <3>6, <3>7, <3>8 DEF IInv
  <2> QED BY <2>1, <2>2, <2>3
<1> QED BY <1>3, <1>4

\* The zombies' part of a frame and the waves': the board goes on.
LEMMA GoesKeeps ==
  ASSUME IInv, board # NoBoard, mGameScene \in {"PLAYING", "ZOMBIES_WON"},
         Goes(board, board'),
         \/ step = "objects" /\ step' = "objects"
         \/ step = "spawning" /\ step' = "levelEnd"
         \/ step = "events" /\ step' = "objects",
         \/ mBoardResult' = mBoardResult
         \/ /\ mBoardResult' = "WON" /\ mGameScene = "PLAYING"
            /\ HasLevelAwardDropped(board') /\ ~HasLevelAwardDropped(board),
         UNCHANGED <<mGameMode, mGameScene, dialog, file, pay>>,
         step = "events" => dialog = "none"
  PROVE  IInv' /\ Steps
<1>1. /\ board \in Boards /\ Sound(mGameMode, board)
      /\ board.mLevelComplete => step = "gameEnd"
      /\ finished = 0
  BY InPlay
<1>2. ~board.mLevelComplete /\ dialog # "continue" /\ step # "gameEnd"
  BY <1>1 DEF IInv, Scenes
<1>3. /\ board' \in Boards /\ Sound(mGameMode, board') /\ ~board'.mLevelComplete
      /\ board' # NoBoard
  BY NoBoardIsNone DEF Goes, EndGoes, Sound
<1>4. /\ mGameMode' = mGameMode /\ mGameScene' = mGameScene /\ dialog' = dialog /\ file' = file
      /\ mUnusedLawnMowers' = mUnusedLawnMowers /\ coins' = coins /\ finished' = finished
  BY DEF pay
<1>5. /\ board'.mBoardFadeOutCounter = board.mBoardFadeOutCounter
      /\ board'.flying = board.flying
      /\ board.mBoardFadeOutCounter >= 0 => board'.mowers = board.mowers
      /\ StageGoes(board, board')
  BY DEF Goes, EndGoes
<1>6. Types'
  BY <1>4 DEF IInv, Types
<1>7. BoardsSound'
  BY <1>3, <1>4 DEF IInv, BoardsSound
<1>8. Scenes'
  BY <1>2, <1>3, <1>4, <1>5 DEF IInv, Scenes
<1>9. CoinsLand'
  BY <1>3, <1>5 DEF IInv, Payments, CoinsLand
<1>10. Payments'
  BY <1>3, <1>4, <1>5, <1>9 DEF IInv, Payments, MowersPaidOnce, NoFinishedLevelOnFile
<1>11. ~HasLevelAwardDropped(board) => board.mNextSurvivalStageCounter = 0
  BY <1>1, Fields DEF HasLevelAwardDropped
<1>12. board'.mNextSurvivalStageCounter = 1 <=> board.mNextSurvivalStageCounter = 1
  BY <1>5, <1>11, Constants DEF StageGoes
<1>13. FileInPlay'
  BY <1>2, <1>3, <1>4, <1>12 DEF IInv, FileInPlay
<1>14. StageOnFile'
  <2>1. SUFFICES ASSUME mGameMode = "Survival", board'.mNextSurvivalStageCounter = 1,
                        mBoardResult' # "LOST"
                 PROVE  /\ file # NoBoard /\ file.mNextSurvivalStageCounter = 1
                        /\ file.mSurvivalStage >= board'.mSurvivalStage
    BY <1>3, <1>4 DEF StageOnFile
  <2>2. board.mNextSurvivalStageCounter = 1
    BY <1>12, <2>1
  <2>3. mBoardResult' = mBoardResult
    BY <1>11, <2>2
  <2>4. board'.mSurvivalStage = board.mSurvivalStage
    BY <1>5, <1>11, <2>2 DEF StageGoes
  <2> QED BY <2>1, <2>2, <2>3, <2>4 DEF IInv, StageOnFile
<1>15. StageStep
  <2>1. board.mBoardFadeOutCounter >= 0 =>
          board.mNextSurvivalStageCounter = 0 /\ HasLevelAwardDropped(board)
    BY <1>1, Fields DEF Sound, EndsSound, HasLevelAwardDropped
  <2>2. board.mNextSurvivalStageCounter > 0 => HasLevelAwardDropped(board)
    BY DEF HasLevelAwardDropped
  <2> QED BY <1>1, <1>2, <1>3, <1>5, <2>1, <2>2, Fields DEF StageStep, StageGoes
<1>16. LastWaveStep
  BY <1>1, <1>3, <1>4, <1>5, Fields DEF LastWaveStep, StageGoes, IInv, Types
<1>17. WarningStep /\ SpawnStep
  BY DEF WarningStep, SpawnStep, Goes
<1>18. LossStep
  BY <1>4 DEF LossStep, IInv, Scenes
<1> QED BY <1>6, <1>7, <1>8, <1>10, <1>13, <1>14, <1>15, <1>16, <1>17, <1>18 DEF IInv, Steps


\* A coin that has flown its time lands, the others go on.
LEMMA CoinsFly ==
  ASSUME NEW S \in SUBSET (1..FlightTime)
  PROVE  /\ FlyOn(S) \in SUBSET (1..FlightTime)
         /\ \A n \in FlyOn(S) : n < FlightTime /\ n + 1 \in S
         /\ Cardinality(S) \in Nat /\ Cardinality(FlyOn(S)) \in Nat
         /\ Cardinality(S \intersect {1}) \in Nat
         /\ Cardinality(S) = Cardinality(FlyOn(S)) + Cardinality(S \intersect {1})
<1> DEFINE T == S \ {1}
           U == FlyOn(S)
<1>1. /\ U \in SUBSET (1..FlightTime)
      /\ \A n \in U : n < FlightTime /\ n + 1 \in S
  BY Constants DEF FlyOn
<1>2. IsFiniteSet(1..FlightTime)
  BY Constants, FS_Interval
<1>3. IsFiniteSet(S) /\ IsFiniteSet(T) /\ IsFiniteSet(U)
  BY <1>1, <1>2, FS_Subset
<1>4. Cardinality(T) = Cardinality(U)
  <2> DEFINE f == [n \in T |-> n - 1]
  <2>1. f \in Bijection(T, U)
    <3>1. f \in [T -> U]
      BY DEF FlyOn
    <3>2. \A m, n \in T : f[m] = f[n] => m = n
      BY Constants
    <3>3. \A u \in U : \E n \in T : f[n] = u
      BY DEF FlyOn
    <3> HIDE DEF f, T, U
    <3> QED BY <3>1, <3>2, <3>3 DEF Bijection, Injection, Surjection, IsInjective
  <2> HIDE DEF f, T, U
  <2>2. ExistsBijection(T, U)
    BY <2>1 DEF ExistsBijection
  <2> QED BY <1>3, <2>2, FS_Bijection
<1>5. CASE 1 \in S
  <2>1. Cardinality(T) = Cardinality(S) - 1
    BY <1>3, <1>5, FS_RemoveElement
  <2>2. S \intersect {1} = {1} /\ Cardinality({1}) = 1
    BY <1>5, FS_Singleton
  <2>3. Cardinality(S) \in Nat /\ Cardinality(U) \in Nat
    BY <1>3, FS_CardinalityType
  <2> HIDE DEF T, U
  <2> QED BY <1>1, <1>4, <2>1, <2>2, <2>3 DEF U
<1>6. CASE 1 \notin S
  <2>1. T = S
    BY <1>6
  <2>2. S \intersect {1} = {} /\ Cardinality({}) = 0
    BY <1>6, FS_EmptySet
  <2>3. Cardinality(S) \in Nat /\ Cardinality(U) \in Nat
    BY <1>3, FS_CardinalityType
  <2> HIDE DEF T, U
  <2> QED BY <1>1, <1>4, <2>1, <2>2, <2>3 DEF U
<1> QED BY <1>5, <1>6

LEMMA EndObjectsKeeps == IInv /\ EndObjects => IInv' /\ Steps
<1> SUFFICES ASSUME IInv, EndObjects PROVE IInv' /\ Steps
  OBVIOUS
<1>1. /\ step = "objects" /\ step' = "spawning" /\ mGameMode' = mGameMode
      /\ mGameScene' = mGameScene /\ mBoardResult' = mBoardResult /\ dialog' = dialog
      /\ file' = file /\ mUnusedLawnMowers' = mUnusedLawnMowers /\ finished' = finished
  BY DEF EndObjects, app
<1>2. board # NoBoard /\ mGameScene \in {"PLAYING", "ZOMBIES_WON"}
  BY <1>1 DEF IInv, Scenes
<1>3. /\ board \in Boards /\ Sound(mGameMode, board) /\ ~board.mLevelComplete /\ finished = 0
  BY <1>1, <1>2, InPlay
<1>4. CASE mGameScene # "PLAYING"
  <2>1. board' = board /\ coins' = coins
    BY <1>4 DEF EndObjects
  <2>2. board.mBoardFadeOutCounter = -1
    BY <1>2, <1>4 DEF IInv, Scenes
  <2>3. Types' /\ BoardsSound' /\ Scenes'
    BY <1>1, <1>3, <2>1 DEF IInv, Types, BoardsSound, Scenes
  <2>4. Payments'
    BY <1>1, <2>1, <2>2 DEF IInv, Payments, MowersPaidOnce, NoFinishedLevelOnFile, CoinsLand
  <2>5. FileInPlay' /\ StageOnFile'
    BY <1>1, <2>1 DEF IInv, FileInPlay, StageOnFile
  <2>6. Steps
    BY <1>1, <2>1, QuietSteps
  <2> QED BY <2>3, <2>4, <2>5, <2>6 DEF IInv
<1>5. CASE mGameScene = "PLAYING"
  <2> DEFINE S == board.flying
             c == [board EXCEPT !.flying = FlyOn(S)]
  <2>1. board' = c /\ coins' = coins + Cardinality(S \intersect {1})
    BY <1>5 DEF EndObjects
  <2>2. S \in SUBSET (1..FlightTime)
    BY <1>3, Fields
  <2>3. /\ FlyOn(S) \in SUBSET (1..FlightTime)
        /\ \A n \in FlyOn(S) : n < FlightTime /\ n + 1 \in S
        /\ Cardinality(S) \in Nat /\ Cardinality(FlyOn(S)) \in Nat
        /\ Cardinality(S \intersect {1}) \in Nat
        /\ Cardinality(S) = Cardinality(FlyOn(S)) + Cardinality(S \intersect {1})
    BY <2>2, CoinsFly
  <2>4. c \in Boards
    BY <1>3, <2>3 DEF Boards
  <2>5. /\ SameWaves(c, board) /\ SameEnds(c, board) /\ c.flying = FlyOn(S)
        /\ c.mowers = board.mowers /\ c.zombies = board.zombies
        /\ c.mScoreNextMowerCounter = board.mScoreNextMowerCounter
    BY <1>3 DEF Boards, SameWaves, SameEnds
  <2>6. board' \in Boards /\ board' # NoBoard
    BY <2>1, <2>4, NoBoardIsNone
  <2>7. /\ SameWaves(board', board) /\ SameEnds(board', board) /\ board'.flying = FlyOn(S)
        /\ board'.mowers = board.mowers /\ board'.zombies = board.zombies
        /\ board'.mScoreNextMowerCounter = board.mScoreNextMowerCounter
    BY <2>1, <2>5
  <2> HIDE DEF c, S
  <2>8. HasLevelAwardDropped(board') = HasLevelAwardDropped(board)
    BY <2>7 DEF SameEnds, HasLevelAwardDropped
  <2>9. S = {} => FlyOn(S) = {}
    BY DEF FlyOn
  <2>10. Sound(mGameMode, board') /\ ~board'.mLevelComplete
    <3>1. WavesSound(mGameMode, board')
      BY <1>3, <2>7, <2>8 DEF Sound, WavesSound, SameWaves, SameEnds
    <3>2. EndsSound(mGameMode, board')
      BY <1>3, <2>7 DEF Sound, EndsSound, SameWaves, SameEnds, Repick, SurvivalRepick
    <3>3. PaysSound(board')
      BY <1>3, <2>7, <2>9 DEF Sound, PaysSound, SameEnds, S
    <3>4. NoEnemies(mGameMode, board')
      BY <1>3, <2>7, <2>8 DEF Sound, NoEnemies, SurvivalRepick, SameEnds, Enemies
    <3> QED BY <1>3, <2>6, <2>7, <3>1, <3>2, <3>3, <3>4 DEF Sound, SameEnds
  <2>11. board.mBoardFadeOutCounter < 0 \/ ~CanDropLoot => coins' = coins
    <3>1. Cardinality({}) = 0 /\ ({} \intersect {1} = {})
      BY FS_EmptySet
    <3> QED BY <1>3, <2>1, <3>1 DEF Sound, PaysSound, S, IInv, Types
  <2>12. board.mBoardFadeOutCounter >= 0 /\ CanDropLoot =>
           coins' + Cardinality(board'.flying) + board'.mowers = mUnusedLawnMowers
    BY <1>2, <1>3, <2>1, <2>3, <2>7, Fields DEF IInv, Payments, MowersPaidOnce, S, Types
  <2>13. coins' \in 0..Mowers
    <3>1. CASE board.mBoardFadeOutCounter < 0 \/ ~CanDropLoot
      BY <2>11, <3>1 DEF IInv, Types
    <3>2. CASE board.mBoardFadeOutCounter >= 0 /\ CanDropLoot
      <4>1. coins' \in Nat /\ mUnusedLawnMowers \in 0..Mowers
        BY <2>1, <2>3 DEF IInv, Types
      <4> QED BY <2>3, <2>6, <2>7, <2>12, <3>2, <4>1, Fields, Constants
    <3> QED BY <1>3, <3>1, <3>2, Fields, Constants
  <2>14. Types'
    BY <1>1, <2>13 DEF IInv, Types
  <2>15. BoardsSound'
    BY <1>1, <2>10 DEF IInv, BoardsSound
  <2>16. Scenes'
    <3>1. board'.mBoardFadeOutCounter = board.mBoardFadeOutCounter
      BY <2>7 DEF SameEnds
    <3> QED BY <1>1, <1>2, <1>5, <2>6, <3>1 DEF IInv, Scenes
  <2>17. CoinsLand'
    BY <1>1, <1>2, <1>3, <2>2, <2>3, <2>7, Fields
       DEF IInv, Payments, CoinsLand, SameEnds, S
  <2>18. Payments'
    <3>1. board'.mBoardFadeOutCounter = board.mBoardFadeOutCounter
      BY <2>7 DEF SameEnds
    <3> QED BY <1>1, <1>2, <1>3, <2>11, <2>12, <2>17, <3>1
            DEF IInv, Payments, MowersPaidOnce, NoFinishedLevelOnFile
  <2>19. FileInPlay' /\ StageOnFile'
    BY <1>1, <1>2, <2>7 DEF IInv, Scenes, FileInPlay, StageOnFile, SameEnds, SurvivalRepick
  <2>20. Steps
    <3>1. board.mBoardFadeOutCounter >= 0 => board.mNextSurvivalStageCounter = 0
      BY <1>3, Fields DEF Sound, EndsSound
    <3> QED BY <1>1, <1>3, <1>5, <2>7, <3>1, Fields
            DEF Steps, StageStep, LastWaveStep, WarningStep, SpawnStep, LossStep,
                SameEnds, SameWaves, IInv, Scenes, Types
  <2> QED BY <2>14, <2>15, <2>16, <2>18, <2>19, <2>20 DEF IInv
<1> QED BY <1>4, <1>5


LEMMA UpdateZombieSpawningKeeps == IInv /\ UpdateZombieSpawning => IInv' /\ Steps
<1> SUFFICES ASSUME IInv, UpdateZombieSpawning PROVE IInv' /\ Steps
  OBVIOUS
<1>1. /\ step = "spawning" /\ step' = "levelEnd"
      /\ mBoardResult' = mBoardResult /\ UNCHANGED <<mGameMode, mGameScene, dialog, file, pay>>
  BY DEF UpdateZombieSpawning, app
<1>2. board # NoBoard /\ mGameScene \in {"PLAYING", "ZOMBIES_WON"}
  BY <1>1 DEF IInv, Scenes
<1>3. board \in Boards /\ Sound(mGameMode, board) /\ ~board.mLevelComplete
  BY <1>1, <1>2, InPlay
<1>4. Goes(board, board')
  <2>1. CASE mGameScene # "PLAYING" \/ HasLevelAwardDropped(board)
    <3>1. board' = board
      BY <2>1 DEF UpdateZombieSpawning
    <3>2. Dies(board, board')
      BY <1>3, <3>1, OnlyZombies DEF SameWaves, SameEnds, SamePays
    <3> QED BY <1>3, <3>2, DiesGoes
  <2>2. CASE ~(mGameScene # "PLAYING" \/ HasLevelAwardDropped(board))
    <3>1. PICK g \in UpdateGraves(board) :
            IF HugeWaveHolds(UpdateHugeWave(g)) THEN board' = UpdateHugeWave(g)
              ELSE board' \in Challenged(UpdateHugeWave(g))
      BY <2>2 DEF UpdateZombieSpawning
    <3> QED BY <1>3, <2>2, <3>1, SpawningGoes
  <2> QED BY <2>1, <2>2
<1> QED BY <1>1, <1>2, <1>4, GoesKeeps

LEMMA BeginFrameKeeps == IInv /\ BeginFrame => IInv' /\ Steps
<1> SUFFICES ASSUME IInv, BeginFrame PROVE IInv' /\ Steps
  OBVIOUS
<1> DEFINE c == [board EXCEPT !.mDroppedLoot = @ \intersect Live(board)]
<1>1. /\ step = "events" /\ step' = "objects" /\ dialog = "none" /\ board' = c
      /\ mBoardResult' = mBoardResult /\ UNCHANGED <<mGameMode, mGameScene, dialog, file, pay>>
      /\ mGameScene \in {"PLAYING", "ZOMBIES_WON"}
  BY DEF BeginFrame, app
<1>2. board # NoBoard
  BY <1>1 DEF IInv, Scenes
<1>3. board \in Boards /\ Sound(mGameMode, board) /\ ~board.mLevelComplete
  BY <1>1, <1>2, InPlay
<1>4. board.mDroppedLoot \intersect Live(board) \in SUBSET Zombies
  BY <1>3, Fields
<1>5. /\ c \in Boards /\ SameWaves(c, board) /\ SameEnds(c, board) /\ SamePays(c, board)
      /\ c.zombies = board.zombies
  BY <1>3, <1>4, DropFields
<1> HIDE DEF c
<1>6. Goes(board, board')
  BY <1>1, <1>3, <1>5, OnlyZombies, DiesGoes DEF Enemies
<1> QED BY <1>1, <1>2, <1>6, GoesKeeps

\* Where there is an enemy, the level does not fade out.
LEMMA EnemyAtPlay ==
  ASSUME NEW b, Sound(mGameMode, b), Enemies(b) # {}
  PROVE  b.mBoardFadeOutCounter = -1
<1>1. b \in Boards
  BY DEF Sound
<1>2. SUFFICES ASSUME b.mBoardFadeOutCounter >= 0 PROVE FALSE
  BY <1>1, Fields
<1>3. HasLevelAwardDropped(b) /\ ~SurvivalRepick(mGameMode, b)
  BY <1>2 DEF HasLevelAwardDropped, Sound, EndsSound, Repick, SurvivalRepick
<1> QED BY <1>3 DEF Sound, NoEnemies

LEMMA ZombieFateKeeps ==
  ASSUME IInv, NEW z \in Zombies, ZombieFate(z)
  PROVE  IInv' /\ Steps
<1>1. step = "objects" /\ mGameScene = "PLAYING"
  BY DEF ZombieFate, ObjectsUpdate
<1>2. board # NoBoard
  BY <1>1 DEF IInv, Scenes
<1>3. board \in Boards /\ Sound(mGameMode, board) /\ ~board.mLevelComplete /\ finished = 0
  BY <1>1, <1>2, InPlay
<1>4. CASE \E c : Dies(board, c) /\ Happens(c)
  <2>1. PICK c : Dies(board, c) /\ Happens(c)
    BY <1>4
  <2>2. /\ board' = c
        /\ mBoardResult' = IF HasLevelAwardDropped(c) /\ ~HasLevelAwardDropped(board)
                             THEN "WON" ELSE mBoardResult
        /\ UNCHANGED <<mGameMode, mGameScene, dialog, step, file, pay>>
    BY <2>1 DEF Happens
  <2>3. Goes(board, board')
    BY <1>3, <2>1, <2>2, DiesGoes
  <2>4. \/ mBoardResult' = mBoardResult
        \/ /\ mBoardResult' = "WON" /\ mGameScene = "PLAYING"
           /\ HasLevelAwardDropped(board') /\ ~HasLevelAwardDropped(board)
    BY <1>1, <2>2
  <2>5. step = "objects" /\ step' = "objects" /\ UNCHANGED <<mGameMode, mGameScene, dialog, file, pay>>
    BY <1>1, <2>2
  <2> QED BY <1>1, <1>2, <2>3, <2>4, <2>5, GoesKeeps
<1>5. CASE ReachHouse(z)
  <2>1. /\ mBoardResult' = "LOST" /\ mGameMode' = mGameMode /\ step' = step /\ board' = board
        /\ file' = file /\ mUnusedLawnMowers' = mUnusedLawnMowers /\ coins' = coins
        /\ finished' = finished
        /\ IF mGameMode = "LastStand"
             THEN dialog' = "gameOver" /\ mGameScene' = mGameScene
             ELSE mGameScene' = "ZOMBIES_WON" /\ dialog' = dialog
    BY <1>5 DEF ReachHouse, pay
  <2>2. board.mBoardFadeOutCounter = -1
    BY <1>3, <1>5, EnemyAtPlay DEF ReachHouse
  <2>3. dialog # "continue"
    BY <1>1 DEF IInv, Scenes
  <2>4. mGameMode # "LastStand" => dialog # "gameOver"
    BY <1>1 DEF IInv, Scenes
  <2>5. mGameMode \in {"Adventure", "Whack"} => file = NoBoard
    BY <1>2, <2>3 DEF IInv, FileInPlay
  <2>6. Types' /\ BoardsSound'
    BY <2>1 DEF IInv, Types, BoardsSound
  <2>7. Scenes'
    <3>1. mGameScene' \in {"PLAYING", "ZOMBIES_WON"} /\ board' # NoBoard /\ finished' = 0
      BY <1>1, <1>2, <1>3, <2>1
    <3>2. dialog' # "continue" /\ (dialog' = "gameOver" => mGameMode' = "LastStand")
      BY <2>1, <2>3, <2>4
    <3>3. mGameMode' \in {"Adventure", "Whack"} =>
            mGameScene' = "ZOMBIES_WON" /\ file' = NoBoard
      BY <2>1, <2>5
    <3> QED BY <2>1, <2>2, <3>1, <3>2, <3>3 DEF Scenes
  <2>8. Payments'
    BY <2>1 DEF IInv, Payments, MowersPaidOnce, NoFinishedLevelOnFile, CoinsLand
  <2>9. FileInPlay'
    BY <1>1, <1>2, <2>1, <2>3 DEF IInv, FileInPlay
  <2>10. StageOnFile'
    BY <2>1 DEF StageOnFile
  <2>11. Steps
    BY <2>1, QuietSteps
  <2> QED BY <2>6, <2>7, <2>8, <2>9, <2>10, <2>11 DEF IInv
<1> QED BY <1>3, <1>4, <1>5, FateDies


\* The counter to the next stage: the board a frame on, d, or after its last frame.
StageCounts(d, c) ==
  c \in IF d.mNextSurvivalStageCounter = 0 /\ mGameMode # "LastStand"
          THEN RemoveZombiesForRepick([d EXCEPT !.mLevelComplete = TRUE])
          ELSE {d}

StageCounted(b, n, d, c) ==
  /\ c \in Boards /\ SameWaves(c, b) /\ SamePays(c, b)
  /\ Enemies(b) = {} => Enemies(c) = {}
  /\ c.mSurvivalStage = b.mSurvivalStage /\ c.onslaught = b.onslaught
  /\ c.mLevelAwardSpawned = b.mLevelAwardSpawned /\ c.award = b.award
  /\ c.mNextSurvivalStageCounter = n
  /\ c.mBoardFadeOutCounter = b.mBoardFadeOutCounter
  /\ c.mLevelComplete = IF n = 0 /\ mGameMode # "LastStand" THEN TRUE ELSE b.mLevelComplete
  /\ c = d \/ (n = 0 /\ mGameMode # "LastStand")

LEMMA NextStageBoards ==
  ASSUME NEW b \in Boards, b.mNextSurvivalStageCounter > 0,
         NEW n, n = b.mNextSurvivalStageCounter - 1,
         NEW d, d = [b EXCEPT !.mNextSurvivalStageCounter = n],
         NEW c, StageCounts(d, c)
  PROVE  StageCounted(b, n, d, c)
<1>1. n \in 0..StageTime
  BY Fields, Constants
<1>2. d \in Boards
  BY <1>1 DEF Boards
<1>3. /\ SameWaves(d, b) /\ SamePays(d, b) /\ d.zombies = b.zombies
      /\ d.mSurvivalStage = b.mSurvivalStage /\ d.onslaught = b.onslaught
      /\ d.mLevelAwardSpawned = b.mLevelAwardSpawned /\ d.award = b.award
      /\ d.mNextSurvivalStageCounter = n
      /\ d.mBoardFadeOutCounter = b.mBoardFadeOutCounter
      /\ d.mLevelComplete = b.mLevelComplete
  BY DEF Boards, SameWaves, SamePays
<1>4. CASE ~(n = 0 /\ mGameMode # "LastStand")
  <2>1. c = d
    BY <1>3, <1>4 DEF StageCounts
  <2> QED BY <1>2, <1>3, <1>4, <2>1 DEF Enemies, StageCounted
<1>5. CASE n = 0 /\ mGameMode # "LastStand"
  <2> DEFINE e == [d EXCEPT !.mLevelComplete = TRUE]
  <2>1. c \in RemoveZombiesForRepick(e)
    BY <1>3, <1>5 DEF StageCounts
  <2>2. e \in Boards
    BY <1>2 DEF Boards
  <2>3. /\ SameWaves(e, b) /\ SamePays(e, b) /\ e.zombies = b.zombies
        /\ e.mSurvivalStage = b.mSurvivalStage /\ e.onslaught = b.onslaught
        /\ e.mLevelAwardSpawned = b.mLevelAwardSpawned /\ e.award = b.award
        /\ e.mNextSurvivalStageCounter = n
        /\ e.mBoardFadeOutCounter = b.mBoardFadeOutCounter
        /\ e.mLevelComplete
    BY <1>2, <1>3 DEF Boards, SameWaves, SamePays
  <2> HIDE DEF e
  <2>4. PICK S \in SUBSET Zombies :
          LET f == [e EXCEPT !.zombies = [z \in Zombies |-> IF z \in S THEN "none" ELSE @[z]]]
          IN  c = f \/ \E z \in S : c = TrySpawnLevelAward(f, z)
    <3>1. PICK S \in SUBSET {z \in Zombies : e.zombies[z] = "charmed"} :
            LET f == [e EXCEPT !.zombies = [z \in Zombies |-> IF z \in S THEN "none" ELSE @[z]]]
            IN  c \in {f : x \in {S} \intersect {{}}} \union {TrySpawnLevelAward(f, z) : z \in S}
      BY <2>1 DEF RemoveZombiesForRepick
    <3> QED BY <3>1
  <2> DEFINE zs == [z \in Zombies |-> IF z \in S THEN "none" ELSE e.zombies[z]]
             f == [e EXCEPT !.zombies = zs]
  <2>5. zs \in [Zombies -> ZombieState]
    BY <2>2, Fields DEF ZombieState
  <2>6. c = f \/ \E z \in S : c = TrySpawnLevelAward(f, z)
    BY <2>2, <2>4 DEF Boards
  <2>7. Enemies(b) = {} => \A z \in Zombies : zs[z] # "enemy"
    BY <2>3 DEF Enemies
  <2> HIDE DEF zs
  <2>8. /\ f \in Boards /\ SameWaves(f, e) /\ SameEnds(f, e) /\ SamePays(f, e)
        /\ f.zombies = zs
    BY <2>2, <2>5, ZombieFields
  <2> HIDE DEF f
  <2>9. c = f
    <3>1. f.mLevelComplete
      BY <2>3, <2>8 DEF SameEnds
    <3>2. \A z \in S : TrySpawnLevelAward(f, z) = f
      BY <3>1 DEF TrySpawnLevelAward, MayAward
    <3> QED BY <2>6, <3>2
  <2>10. Enemies(b) = {} => Enemies(c) = {}
    BY <2>7, <2>8, <2>9 DEF Enemies
  <2>11. SameWaves(c, b) /\ SamePays(c, b)
    BY <2>3, <2>8, <2>9 DEF SameWaves, SamePays
  <2>12. /\ c.mSurvivalStage = b.mSurvivalStage /\ c.onslaught = b.onslaught
         /\ c.mLevelAwardSpawned = b.mLevelAwardSpawned /\ c.award = b.award
         /\ c.mNextSurvivalStageCounter = n
         /\ c.mBoardFadeOutCounter = b.mBoardFadeOutCounter
         /\ c.mLevelComplete
    BY <2>3, <2>8, <2>9 DEF SameEnds
  <2>13. c.mLevelComplete = TRUE
    BY <2>8, <2>9, <2>12, Fields
  <2> QED BY <1>5, <2>8, <2>9, <2>10, <2>11, <2>12, <2>13 DEF StageCounted
<1> QED BY <1>4, <1>5

LEMMA NextStageKeeps ==
  ASSUME IInv, step = "levelEnd", step' = "gameEnd", UpdateNextStage,
         UNCHANGED <<mGameMode, app, pay>>
  PROVE  IInv' /\ Steps
<1>1. /\ mGameMode' = mGameMode /\ mGameScene' = mGameScene /\ mBoardResult' = mBoardResult
      /\ dialog' = dialog /\ mUnusedLawnMowers' = mUnusedLawnMowers /\ coins' = coins
      /\ finished' = finished
  BY DEF app, pay
<1>2. board # NoBoard /\ mGameScene \in {"PLAYING", "ZOMBIES_WON"} /\ dialog # "continue"
  BY DEF IInv, Scenes
<1>3. board \in Boards /\ Sound(mGameMode, board) /\ ~board.mLevelComplete /\ finished = 0
  BY <1>2, InPlay
<1> DEFINE n == board.mNextSurvivalStageCounter - 1
           d == [board EXCEPT !.mNextSurvivalStageCounter = n]
<1>4. /\ board.mNextSurvivalStageCounter > 0
      /\ file' = IF d.mNextSurvivalStageCounter = 1 /\ mGameMode = "Survival" /\ NeedSaveGame
                   THEN d ELSE file
      /\ board' \in IF d.mNextSurvivalStageCounter = 0 /\ mGameMode # "LastStand"
                     THEN RemoveZombiesForRepick([d EXCEPT !.mLevelComplete = TRUE])
                     ELSE {d}
  BY DEF UpdateNextStage
<1>5. /\ board' \in Boards /\ SameWaves(board', board) /\ SamePays(board', board)
      /\ Enemies(board) = {} => Enemies(board') = {}
      /\ board'.mSurvivalStage = board.mSurvivalStage /\ board'.onslaught = board.onslaught
      /\ board'.mLevelAwardSpawned = board.mLevelAwardSpawned /\ board'.award = board.award
      /\ board'.mNextSurvivalStageCounter = n
      /\ board'.mBoardFadeOutCounter = board.mBoardFadeOutCounter
      /\ board'.mLevelComplete = IF n = 0 /\ mGameMode # "LastStand" THEN TRUE
                                   ELSE board.mLevelComplete
      /\ board' = d \/ (n = 0 /\ mGameMode # "LastStand")
  <2>1. n = board.mNextSurvivalStageCounter - 1 /\ d = [board EXCEPT !.mNextSurvivalStageCounter = n]
    OBVIOUS
  <2>2. StageCounts(d, board')
    BY <1>4 DEF StageCounts
  <2> HIDE DEF n, d
  <2>3. StageCounted(board, n, d, board')
    BY <1>3, <1>4, <2>1, <2>2, NextStageBoards
  <2> QED BY <2>3 DEF StageCounted
<1>6. /\ board.mBoardFadeOutCounter = -1 /\ board.award # "lawn"
      /\ mGameMode = "LastStand" \/ SurvivalRepick(mGameMode, board)
  BY <1>3, <1>4, Fields DEF Sound, EndsSound
<1>7. d.mNextSurvivalStageCounter = n
  BY <1>3 DEF Boards
<1>8. n \in 0..StageTime /\ n + 1 = board.mNextSurvivalStageCounter /\ board' # NoBoard
  BY <1>3, <1>4, <1>5, Fields, NoBoardIsNone
<1> HIDE DEF n, d
<1>9. HasLevelAwardDropped(board) /\ (n > 0 => HasLevelAwardDropped(board'))
  BY <1>4, <1>5 DEF HasLevelAwardDropped
<1>10. Sound(mGameMode, board')
  <2>1. WavesSound(mGameMode, board')
    BY <1>3, <1>5, <1>8, <1>9 DEF Sound, WavesSound, SameWaves
  <2>2. EndsSound(mGameMode, board')
    BY <1>3, <1>4, <1>5, <1>6, <1>8 DEF Sound, EndsSound, SameWaves, SurvivalRepick, Repick
  <2>3. PaysSound(board')
    BY <1>3, <1>5 DEF Sound, PaysSound, SamePays
  <2>4. NoEnemies(mGameMode, board')
    BY <1>3, <1>5, <1>9 DEF Sound, NoEnemies, SurvivalRepick
  <2> QED BY <1>5, <2>1, <2>2, <2>3, <2>4 DEF Sound
<1>11. file' = file \/ (file' = board' /\ n = 1 /\ mGameMode = "Survival" /\ mGameScene = "PLAYING")
  BY <1>4, <1>5, <1>7 DEF NeedSaveGame
<1>12. Types'
  BY <1>1 DEF IInv, Types
<1>13. BoardsSound'
  <2>1. n = 1 => ~board'.mLevelComplete /\ board'.mBoardFadeOutCounter = -1
    BY <1>3, <1>5, <1>6
  <2>2. file' # NoBoard => /\ Sound(mGameMode, file') /\ ~file'.mLevelComplete
                           /\ file'.mBoardFadeOutCounter = -1
    BY <1>10, <1>11, <2>1 DEF IInv, BoardsSound
  <2> QED BY <1>1, <1>10, <2>2 DEF BoardsSound
<1>14. Scenes'
  BY <1>1, <1>2, <1>5, <1>8, <1>11 DEF IInv, Scenes
<1>15. Payments'
  BY <1>1, <1>2, <1>3, <1>5, <1>6
     DEF IInv, Payments, MowersPaidOnce, NoFinishedLevelOnFile, CoinsLand
<1>16. FileInPlay'
  <2>1. SUFFICES ASSUME mGameMode # "LastStand", file' # NoBoard
                 PROVE  /\ mGameMode = "Survival"
                        /\ \/ n = 1 /\ mGameScene = "PLAYING"
                           \/ n = 0 /\ SurvivalRepick(mGameMode, board')
    BY <1>1, <1>2, <1>5 DEF FileInPlay
  <2>2. mGameMode = "Survival" /\ SurvivalRepick(mGameMode, board')
    BY <1>5, <1>6, <2>1 DEF SurvivalRepick
  <2>3. file' = file => board.mNextSurvivalStageCounter = 1
    BY <1>2, <1>3, <2>1 DEF IInv, FileInPlay
  <2> QED BY <1>8, <1>11, <2>2, <2>3
<1>17. StageOnFile'
  <2>1. SUFFICES ASSUME mGameMode = "Survival", mBoardResult # "LOST", n = 1 \/ n = 0
                 PROVE  /\ file' # NoBoard /\ file'.mNextSurvivalStageCounter = 1
                        /\ file'.mSurvivalStage >= board.mSurvivalStage
    BY <1>1, <1>2, <1>3, <1>5 DEF StageOnFile
  <2>2. CASE n = 1
    <3>1. file' = d
      BY <1>1, <1>2, <1>4, <1>7, <2>1, <2>2 DEF NeedSaveGame, IInv, Scenes
    <3>2. file' = board'
      BY <1>5, <2>2, <3>1
    <3> QED BY <1>3, <1>5, <1>8, <2>2, <3>2, Fields
  <2>3. CASE n = 0
    <3>1. file' = file /\ board.mNextSurvivalStageCounter = 1
      BY <1>8, <1>11, <2>3
    <3> QED BY <1>2, <2>1, <3>1 DEF IInv, StageOnFile
  <2> QED BY <2>1, <2>2, <2>3
<1>18. Steps
  BY <1>1, <1>3, <1>5, <1>6, <1>8, Fields
     DEF Steps, StageStep, LastWaveStep, WarningStep, SpawnStep, LossStep, SameWaves,
         IInv, Types, Scenes
<1> QED BY <1>12, <1>13, <1>14, <1>15, <1>16, <1>17, <1>18 DEF IInv


\* How the victory sequence changes a board: a frame goes by, a mower may be paid.
FadeGoes(b, c) ==
  /\ c \in Boards /\ SameWaves(c, b) /\ c.zombies = b.zombies
  /\ c.mSurvivalStage = b.mSurvivalStage /\ c.onslaught = b.onslaught
  /\ c.mLevelAwardSpawned = b.mLevelAwardSpawned /\ c.award = b.award
  /\ c.mNextSurvivalStageCounter = b.mNextSurvivalStageCounter
  /\ c.mBoardFadeOutCounter = b.mBoardFadeOutCounter - 1
  /\ c.mLevelComplete <=> c.mBoardFadeOutCounter = 0

LEMMA OneMowerLess ==
  ASSUME NEW m \in Nat, m > 0
  PROVE  /\ MowerNext * m = MowerNext + MowerNext * (m - 1)
         /\ MowerNext * (m - 1) \in Nat
<1>1. m - 1 \in Nat
  OBVIOUS
<1>2. \A k \in Nat : \A i \in Nat : k * i \in Nat /\ k * (i + 1) = k + k * i
  OBVIOUS
<1>3. (m - 1) + 1 = m
  OBVIOUS
<1> QED BY <1>1, <1>2, <1>3, Constants

\* The last frame: what was left is paid, and has landed.
LEMMA FadesLast ==
  ASSUME IInv, board # NoBoard, step = "levelEnd", board.mBoardFadeOutCounter = 1
  PROVE  CanDropLoot => board.mowers = 0 /\ board.flying = {}
<1>1. board \in Boards /\ Sound(mGameMode, board)
  BY InPlay
<1>2. SUFFICES ASSUME CanDropLoot PROVE board.mowers = 0 /\ board.flying = {}
  OBVIOUS
<1>3. \A n \in board.flying : n < 1 /\ n \in 1..FlightTime
  BY <1>1, Fields DEF IInv, Payments, CoinsLand
<1>4. board.flying = {}
  BY <1>3, Constants
<1>5. CASE board.mowers > 0
  <2>1. MowerNext * (board.mowers - 1) \in Nat
    BY <1>1, <1>5, Fields, OneMowerLess
  <2>2. board.mScoreNextMowerCounter + MowerNext * (board.mowers - 1) + FlightTime <= 1
    BY <1>1, <1>2, <1>5 DEF Sound, PaysSound
  <2>3. board.mScoreNextMowerCounter > 0
    BY <1>1, <1>2 DEF Sound, PaysSound
  <2> QED BY <1>1, <2>1, <2>2, <2>3, Fields, Constants
<1> QED BY <1>1, <1>4, <1>5, Fields, Constants


\* One frame of it: what is left to pay is still paid before the end.
LEMMA FadeOutPays ==
  ASSUME IInv, board # NoBoard, step = "levelEnd", board.mBoardFadeOutCounter > 0,
         UpdateFadeOut
  PROVE  /\ FadeGoes(board, board') /\ PaysSound(board')
         /\ \A n \in board'.flying : n <= board'.mBoardFadeOutCounter
         /\ CanDropLoot => Cardinality(board'.flying) + board'.mowers
                             = Cardinality(board.flying) + board.mowers
<1> DEFINE f == board.mBoardFadeOutCounter - 1
           s == IF board.mScoreNextMowerCounter > 0 THEN board.mScoreNextMowerCounter - 1 ELSE 0
           b == [board EXCEPT !.mBoardFadeOutCounter = f]
           c == [b EXCEPT !.mScoreNextMowerCounter = s]
<1>1. board \in Boards /\ Sound(mGameMode, board) /\ ~board.mLevelComplete
  BY InPlay
<1>2. f \in 0..FadeTime /\ f = board.mBoardFadeOutCounter - 1
  BY <1>1, Fields, Constants
<1>3. s \in 0..MowerFirst + MowerNext /\ MowerNext \in 0..MowerFirst + MowerNext
  BY <1>1, Fields, Constants
<1>4. /\ b \in Boards /\ SameWaves(b, board) /\ SamePays(b, board) /\ b.zombies = board.zombies
      /\ b.mSurvivalStage = board.mSurvivalStage /\ b.onslaught = board.onslaught
      /\ b.mLevelAwardSpawned = board.mLevelAwardSpawned /\ b.award = board.award
      /\ b.mNextSurvivalStageCounter = board.mNextSurvivalStageCounter
      /\ b.mBoardFadeOutCounter = f
      /\ b.mLevelComplete = board.mLevelComplete
  <2>1. f \in -1..FadeTime
    BY <1>2, Constants
  <2> HIDE DEF f
  <2>2. b \in Boards
    BY <1>1, <2>1 DEF Boards
  <2> QED BY <1>1, <2>1, <2>2 DEF Boards, SameWaves, SamePays
<1>5. board' = IF b.mBoardFadeOutCounter = 0 THEN [b EXCEPT !.mLevelComplete = TRUE]
               ELSE IF c.mScoreNextMowerCounter > 0 \/ ~CanDropLoot THEN c
               ELSE PayNextMower([c EXCEPT !.mScoreNextMowerCounter = MowerNext])
  <2>1. c = [b EXCEPT !.mScoreNextMowerCounter = IF @ > 0 THEN @ - 1 ELSE 0]
    BY <1>1 DEF Boards
  <2>2. ~(board.mBoardFadeOutCounter < 0)
    BY <1>1, Fields
  <2> QED BY <2>1, <2>2 DEF UpdateFadeOut
<1> HIDE DEF f, s, b
<1>6. /\ c \in Boards /\ SameWaves(c, b) /\ SameEnds(c, b) /\ c.zombies = b.zombies
      /\ c.mScoreNextMowerCounter = s /\ c.mowers = b.mowers /\ c.flying = b.flying
  <2>1. c \in Boards
    BY <1>3, <1>4 DEF Boards
  <2> QED BY <1>3, <1>4, <2>1 DEF Boards, SameWaves, SameEnds
<1> HIDE DEF c
<1>7. CanDropLoot => board.mScoreNextMowerCounter > 0 /\ s = board.mScoreNextMowerCounter - 1
  BY <1>1 DEF Sound, PaysSound, s
<1>8. /\ board.mowers \in 0..Mowers /\ board.flying \in SUBSET (1..FlightTime)
      /\ board.mScoreNextMowerCounter \in 0..MowerFirst + MowerNext
      /\ ~CanDropLoot => board.flying = {}
  BY <1>1, Fields DEF Sound, PaysSound
<1>9. \A n \in board.flying : n <= f /\ n < FlightTime
  BY <1>2, <1>8, Fields, <1>1 DEF IInv, Payments, CoinsLand
<1>10. CanDropLoot /\ board.mowers > 0 =>
         board.mScoreNextMowerCounter + MowerNext * (board.mowers - 1) + FlightTime <= f + 1
  BY <1>1, <1>2, <1>8, Fields DEF Sound, PaysSound
<1>11. ASSUME NEW e, e \in Boards, SameWaves(e, b), SameEnds(e, b), e.zombies = b.zombies,
              f > 0
       PROVE  FadeGoes(board, e)
  <2>1. e.mLevelComplete = FALSE
    BY <1>1, <1>4, <1>11, Fields DEF SameEnds
  <2>2. e.mBoardFadeOutCounter = f
    BY <1>4, <1>11 DEF SameEnds
  <2> QED BY <1>2, <1>4, <1>11, <2>1, <2>2 DEF FadeGoes, SameWaves, SameEnds
<1>12. CASE f = 0
  <2> DEFINE e == [b EXCEPT !.mLevelComplete = TRUE]
  <2>1. board' = e
    BY <1>4, <1>5, <1>12
  <2>2. e \in Boards
    BY <1>4 DEF Boards
  <2>3. /\ SameWaves(e, b) /\ SamePays(e, b) /\ e.zombies = b.zombies
        /\ e.mSurvivalStage = b.mSurvivalStage /\ e.onslaught = b.onslaught
        /\ e.mLevelAwardSpawned = b.mLevelAwardSpawned /\ e.award = b.award
        /\ e.mNextSurvivalStageCounter = b.mNextSurvivalStageCounter
        /\ e.mBoardFadeOutCounter = b.mBoardFadeOutCounter
        /\ e.mLevelComplete
    BY <1>4, <2>2 DEF Boards, SameWaves, SamePays
  <2> HIDE DEF e
  <2>4. FadeGoes(board, e)
    BY <1>2, <1>4, <1>12, <2>2, <2>3 DEF FadeGoes, SameWaves
  <2>5. e.flying = board.flying /\ e.mowers = board.mowers /\ e.mBoardFadeOutCounter = 0
    BY <1>4, <1>12, <2>3 DEF SamePays
  <2>6. CanDropLoot => board.mowers = 0 /\ board.flying = {}
    BY <1>1, <1>2, <1>12, Fields, FadesLast
  <2>7. PaysSound(e)
    BY <1>8, <2>5, <2>6 DEF PaysSound
  <2>8. \A n \in e.flying : n <= e.mBoardFadeOutCounter
    BY <1>9, <1>12, <2>5
  <2> QED BY <2>1, <2>4, <2>5, <2>7, <2>8
<1>13. CASE f > 0 /\ (s > 0 \/ ~CanDropLoot)
  <2>1. board' = c
    BY <1>4, <1>5, <1>6, <1>13
  <2>2. FadeGoes(board, c)
    BY <1>6, <1>11, <1>13
  <2>3. c.flying = board.flying /\ c.mowers = board.mowers /\ c.mBoardFadeOutCounter = f
    BY <1>4, <1>6 DEF SamePays, SameEnds
  <2>4. PaysSound(c)
    <3>1. CanDropLoot /\ board.mowers > 0 => s + MowerNext * (board.mowers - 1) + FlightTime <= f
      <4>1. CASE CanDropLoot /\ board.mowers > 0
        <5>1. MowerNext * (board.mowers - 1) \in Nat
          BY <1>8, <4>1, Constants, OneMowerLess
        <5> QED BY <1>2, <1>7, <1>8, <1>10, <4>1, <5>1, Constants
      <4> QED BY <4>1
    <3> QED BY <1>2, <1>6, <1>8, <1>13, <2>3, <3>1 DEF PaysSound
  <2> QED BY <1>9, <2>1, <2>2, <2>3, <2>4
<1>14. CASE f > 0 /\ ~(s > 0 \/ ~CanDropLoot)
  <2> DEFINE d == [c EXCEPT !.mScoreNextMowerCounter = MowerNext]
  <2>1. board' = PayNextMower(d)
    BY <1>4, <1>5, <1>6, <1>14
  <2>2. d \in Boards
    BY <1>3, <1>6 DEF Boards
  <2>3. /\ SameWaves(d, c) /\ SameEnds(d, c) /\ d.zombies = c.zombies
        /\ d.mScoreNextMowerCounter = MowerNext /\ d.mowers = c.mowers /\ d.flying = c.flying
    BY <1>6, <2>2 DEF Boards, SameWaves, SameEnds
  <2> HIDE DEF d
  <2>4. /\ SameWaves(d, b) /\ SameEnds(d, b) /\ d.zombies = b.zombies
        /\ d.flying = board.flying /\ d.mowers = board.mowers /\ d.mBoardFadeOutCounter = f
    BY <1>4, <1>6, <2>3 DEF SamePays, SameEnds, SameWaves
  <2>5. board.mScoreNextMowerCounter = 1
    BY <1>3, <1>7, <1>8, <1>14
  <2>6. CASE board.mowers = 0
    <3>1. board' = d
      BY <2>1, <2>4, <2>6 DEF PayNextMower
    <3>2. FadeGoes(board, d)
      BY <1>11, <1>14, <2>2, <2>4
    <3>3. PaysSound(d)
      BY <1>2, <1>8, <2>3, <2>4, <2>6, Constants, <1>14 DEF PaysSound
    <3> QED BY <1>9, <2>4, <3>1, <3>2, <3>3
  <2>7. CASE board.mowers > 0
    <3> DEFINE m == board.mowers - 1
               S == board.flying \union {FlightTime}
               e == [d EXCEPT !.mowers = m, !.flying = S]
    <3>1. m \in 0..Mowers /\ m + 1 = board.mowers /\ S \in SUBSET (1..FlightTime)
      BY <1>8, <2>7, Constants
    <3>2. board' = e
      <4>1. e = [d EXCEPT !.mowers = @ - 1, !.flying = @ \union {FlightTime}]
        BY <2>2, <2>4 DEF Boards
      <4> HIDE DEF e
      <4> QED BY <1>8, <2>1, <2>4, <2>7, <4>1 DEF PayNextMower
    <3>3. Cardinality(S) = Cardinality(board.flying) + 1 /\ Cardinality(board.flying) \in Nat
      <4>1. IsFiniteSet(board.flying)
        <5>1. IsFiniteSet(1..FlightTime)
          BY Constants, FS_Interval
        <5> QED BY <1>8, <5>1, FS_Subset
      <4>2. FlightTime \notin board.flying
        BY <1>8, <1>9, Constants
      <4> QED BY <4>1, <4>2, FS_AddElement, FS_CardinalityType
    <3>4. 1 + MowerNext * m + FlightTime <= f + 1 /\ MowerNext * m \in Nat
      BY <1>8, <1>10, <1>14, <2>5, <2>7, OneMowerLess
    <3>5. m > 0 => MowerNext * m = MowerNext + MowerNext * (m - 1) /\ MowerNext * (m - 1) \in Nat
      BY <3>1, OneMowerLess
    <3>6. \A n \in S : n <= f
      BY <1>2, <1>9, <3>4, Constants
    <3> HIDE DEF m, S
    <3>7. e \in Boards
      BY <2>2, <3>1 DEF Boards
    <3>8. /\ SameWaves(e, d) /\ SameEnds(e, d) /\ e.zombies = d.zombies
          /\ e.mScoreNextMowerCounter = d.mScoreNextMowerCounter /\ e.mowers = m /\ e.flying = S
      BY <2>2, <3>1, <3>7 DEF Boards, SameWaves, SameEnds
    <3> HIDE DEF e
    <3>9. SameWaves(e, b) /\ SameEnds(e, b) /\ e.zombies = b.zombies /\ e.mBoardFadeOutCounter = f
      BY <2>4, <3>8 DEF SameWaves, SameEnds
    <3>10. FadeGoes(board, e)
      BY <1>11, <1>14, <3>7, <3>9
    <3>11. PaysSound(e)
      <4>1. m > 0 => MowerNext + MowerNext * (m - 1) + FlightTime <= f
        BY <1>2, <3>4, <3>5, Constants
      <4> QED BY <1>2, <1>14, <2>3, <3>8, <3>9, <4>1, Constants DEF PaysSound
    <3>12. Cardinality(S) + m = Cardinality(board.flying) + board.mowers
      BY <3>1, <3>3
    <3> QED BY <3>2, <3>6, <3>8, <3>9, <3>10, <3>11, <3>12
  <2> QED BY <1>8, <2>6, <2>7
<1>15. f = 0 \/ f > 0
  <2>1. f \in 0..FadeTime
    BY <1>2
  <2>2. \A i \in 0..FadeTime : i = 0 \/ i > 0
    BY Constants
  <2> QED BY <2>1, <2>2
<1> QED BY <1>12, <1>13, <1>14, <1>15


LEMMA FadeOutKeeps ==
  ASSUME IInv, step = "levelEnd", step' = "gameEnd", UpdateFadeOut,
         UNCHANGED <<mGameMode, app, pay>>
  PROVE  IInv' /\ Steps
<1>1. /\ mGameMode' = mGameMode /\ mGameScene' = mGameScene /\ mBoardResult' = mBoardResult
      /\ dialog' = dialog /\ mUnusedLawnMowers' = mUnusedLawnMowers /\ coins' = coins
      /\ finished' = finished /\ file' = file
  BY DEF app, pay, UpdateFadeOut
<1>2. board # NoBoard /\ mGameScene \in {"PLAYING", "ZOMBIES_WON"} /\ dialog # "continue"
  BY DEF IInv, Scenes
<1>3. board \in Boards /\ Sound(mGameMode, board) /\ ~board.mLevelComplete /\ finished = 0
  BY <1>2, InPlay
<1>4. CASE board.mBoardFadeOutCounter < 0
  <2>1. board' = board
    BY <1>4 DEF UpdateFadeOut
  <2>2. Types' /\ BoardsSound' /\ Scenes'
    BY <1>1, <1>2, <1>3, <2>1 DEF IInv, Types, BoardsSound, Scenes
  <2>3. Payments'
    BY <1>1, <1>3, <1>4, <2>1, Fields
       DEF IInv, Payments, MowersPaidOnce, NoFinishedLevelOnFile, CoinsLand
  <2>4. FileInPlay' /\ StageOnFile'
    <3>1. board.mNextSurvivalStageCounter = 0
      BY DEF UpdateFadeOut
    <3> QED BY <1>1, <1>3, <2>1, <3>1 DEF IInv, FileInPlay, StageOnFile
  <2>5. Steps
    BY <1>1, <2>1, QuietSteps
  <2> QED BY <2>2, <2>3, <2>4, <2>5 DEF IInv
<1>5. CASE board.mBoardFadeOutCounter >= 0
  <2>1. board.mBoardFadeOutCounter > 0
    BY <1>3, <1>5, Fields DEF Sound, EndsSound
  <2>2. /\ FadeGoes(board, board') /\ PaysSound(board')
        /\ \A n \in board'.flying : n <= board'.mBoardFadeOutCounter
        /\ CanDropLoot => Cardinality(board'.flying) + board'.mowers
                            = Cardinality(board.flying) + board.mowers
    BY <1>2, <2>1, FadeOutPays
  <2>3. board' \in Boards /\ board' # NoBoard /\ board'.mBoardFadeOutCounter >= 0
    BY <1>3, <2>1, <2>2, Fields, NoBoardIsNone DEF FadeGoes
  <2>4. mGameScene = "PLAYING"
    BY <1>2, <2>1 DEF IInv, Scenes
  <2>5. /\ ~Repick(mGameMode, board) /\ board.mNextSurvivalStageCounter = 0
        /\ board.award # "lawn" /\ board.mCurrentWave >= NumWaves
    BY <1>3, <2>1, Fields DEF Sound, EndsSound
  <2>6. HasLevelAwardDropped(board) /\ HasLevelAwardDropped(board')
    BY <1>5, <2>3 DEF HasLevelAwardDropped
  <2>7. ~Repick(mGameMode, board') /\ ~SurvivalRepick(mGameMode, board) /\ ~SurvivalRepick(mGameMode, board')
    BY <2>2, <2>5 DEF Repick, SurvivalRepick, FadeGoes
  <2>8. Sound(mGameMode, board')
    <3>1. WavesSound(mGameMode, board')
      BY <1>3, <2>2, <2>6 DEF Sound, WavesSound, SameWaves, FadeGoes
    <3>2. EndsSound(mGameMode, board')
      BY <2>2, <2>3, <2>5, <2>7 DEF EndsSound, SameWaves, FadeGoes
    <3>3. NoEnemies(mGameMode, board')
      BY <1>3, <2>2, <2>6, <2>7 DEF Sound, NoEnemies, FadeGoes, Enemies
    <3> QED BY <2>2, <2>3, <3>1, <3>2, <3>3 DEF Sound
  <2>9. Types'
    BY <1>1 DEF IInv, Types
  <2>10. BoardsSound'
    BY <1>1, <2>8 DEF IInv, BoardsSound
  <2>11. Scenes'
    <3>1. dialog # "gameOver"
      BY <2>1 DEF IInv, Scenes
    <3> QED BY <1>1, <1>2, <2>3, <2>4, <3>1 DEF IInv, Scenes
  <2>12. CoinsLand'
    BY <2>2 DEF CoinsLand
  <2>13. MowersPaidOnce'
    <3>1. CanDropLoot => coins + (Cardinality(board.flying) + board.mowers) = mUnusedLawnMowers
      <4>1. CASE CanDropLoot
        <5>1. coins + Cardinality(board.flying) + board.mowers = mUnusedLawnMowers
          BY <1>2, <1>5, <4>1 DEF IInv, Payments, MowersPaidOnce
        <5>2. Cardinality(board.flying) \in Nat /\ board.mowers \in Nat
          <6>1. board.flying \in SUBSET (1..FlightTime) /\ board.mowers \in 0..Mowers
            BY <1>3, Fields
          <6>2. Cardinality(board.flying) \in Nat
            BY <6>1, CoinsFly
          <6> QED BY <6>1, <6>2, Constants
        <5>3. coins \in Nat
          BY Constants DEF IInv, Types
        <5> QED BY <5>1, <5>2, <5>3
      <4> QED BY <4>1
    <3>2. CanDropLoot => coins + Cardinality(board'.flying) + board'.mowers = mUnusedLawnMowers
      <4>1. CASE CanDropLoot
        <5>1. coins + (Cardinality(board'.flying) + board'.mowers) = mUnusedLawnMowers
          BY <2>2, <3>1, <4>1
        <5>2. Cardinality(board'.flying) \in Nat /\ board'.mowers \in Nat
          <6>1. board'.flying \in SUBSET (1..FlightTime) /\ board'.mowers \in 0..Mowers
            BY <2>3, Fields
          <6>2. Cardinality(board'.flying) \in Nat
            BY <6>1, CoinsFly
          <6> QED BY <6>1, <6>2, Constants
        <5>3. coins \in Nat
          BY Constants DEF IInv, Types
        <5> QED BY <5>1, <5>2, <5>3
      <4> QED BY <4>1
    <3> QED BY <1>1, <1>3, <3>2 DEF MowersPaidOnce
  <2>14. Payments'
    BY <1>1, <1>3, <2>3, <2>12, <2>13, Fields DEF Payments, NoFinishedLevelOnFile
  <2>15. FileInPlay'
    BY <1>1, <1>2, <1>5, NoFileAtEnd DEF FileInPlay
  <2>16. StageOnFile'
    BY <1>1, <2>2, <2>4, <2>5, <2>7 DEF StageOnFile, FadeGoes
  <2>17. Steps
    BY <1>1, <1>3, <2>2, <2>5, <2>6, Fields
       DEF Steps, StageStep, LastWaveStep, WarningStep, SpawnStep, LossStep, SameWaves,
           FadeGoes, IInv, Types, Scenes
  <2> QED BY <2>9, <2>10, <2>11, <2>14, <2>15, <2>16, <2>17 DEF IInv
<1>6. board.mBoardFadeOutCounter < 0 \/ board.mBoardFadeOutCounter >= 0
  BY <1>3, Fields
<1> QED BY <1>4, <1>5, <1>6

LEMMA UpdateLevelEndSequenceKeeps == IInv /\ UpdateLevelEndSequence => IInv' /\ Steps
<1> SUFFICES ASSUME IInv, UpdateLevelEndSequence PROVE IInv' /\ Steps
  OBVIOUS
<1>1. /\ step = "levelEnd" /\ step' = "gameEnd" /\ UNCHANGED <<mGameMode, app, pay>>
      /\ UpdateNextStage \/ UpdateFadeOut
  BY DEF UpdateLevelEndSequence
<1> QED BY <1>1, NextStageKeeps, FadeOutKeeps


\* The next stage of Survival starts: its waves are counted from none.
LEMMA NextStageSound ==
  ASSUME NEW b, Sound(mGameMode, b), b.mLevelComplete, SurvivalRepick(mGameMode, b),
         NEW c, c = InitZombieWaves([b EXCEPT !.mSurvivalStage = @ + 1, !.mLevelComplete = FALSE])
  PROVE  /\ Sound(mGameMode, c) /\ ~c.mLevelComplete /\ ~HasLevelAwardDropped(c)
         /\ c.mSurvivalStage = b.mSurvivalStage + 1 /\ c.mNextSurvivalStageCounter = 0
         /\ c.mBoardFadeOutCounter = -1 /\ c.mHugeWaveCountDown = 0
         /\ c.mTotalSpawnedWaves = 0 /\ c.mCurrentWave = 0 /\ b.mCurrentWave >= NumWaves
<1>1. b \in Boards /\ mGameMode = "Survival"
  BY DEF Sound, SurvivalRepick
<1>2. /\ b.mNextSurvivalStageCounter = 0 /\ b.mBoardFadeOutCounter = -1 /\ b.award # "lawn"
      /\ b.mCurrentWave >= NumWaves
  BY <1>1, Fields DEF Sound, EndsSound, SurvivalRepick, Repick
<1>3. b.mSurvivalStage + 1 \in 0..Stages - 1
  BY <1>1, Fields, Constants DEF SurvivalRepick
<1>4. /\ c.mSurvivalStage = b.mSurvivalStage + 1 /\ c.mLevelComplete = FALSE
      /\ c.mCurrentWave = 0 /\ c.mTotalSpawnedWaves = 0 /\ c.mZombieCountDown = WaveTime
      /\ c.mHugeWaveCountDown = 0 /\ c.mLevelAwardSpawned = FALSE
      /\ c.zombies = b.zombies /\ c.mDroppedLoot = b.mDroppedLoot
      /\ c.mRiseFromGraveCounter = b.mRiseFromGraveCounter
      /\ c.onslaught = b.onslaught /\ c.mChallengeStateCounter = b.mChallengeStateCounter
      /\ c.award = b.award /\ c.mNextSurvivalStageCounter = b.mNextSurvivalStageCounter
      /\ c.mBoardFadeOutCounter = b.mBoardFadeOutCounter
      /\ c.mScoreNextMowerCounter = b.mScoreNextMowerCounter
      /\ c.mowers = b.mowers /\ c.flying = b.flying
  BY <1>1 DEF InitZombieWaves, Boards
<1>5. c \in Boards
  <2> DEFINE n == b.mSurvivalStage + 1
             d == [b EXCEPT !.mSurvivalStage = n, !.mLevelComplete = FALSE]
  <2>1. c = InitZombieWaves(d)
    BY <1>1 DEF Boards
  <2> HIDE DEF n
  <2>2. n \in 0..Stages - 1
    BY <1>3 DEF n
  <2>3. d \in Boards
    BY <1>1, <2>2 DEF Boards
  <2> HIDE DEF d
  <2>4. 0 \in 0..NumWaves + 2 /\ WaveTime \in 0..WaveTime + WhackTime /\ 0 \in 0..HugeTime
    BY Constants
  <2>5. InitZombieWaves(d) \in Boards
    BY <2>3, <2>4 DEF Boards, InitZombieWaves
  <2> QED BY <2>1, <2>5
<1>6. ~HasLevelAwardDropped(c)
  BY <1>2, <1>4 DEF HasLevelAwardDropped
<1>7. WavesSound(mGameMode, c)
  BY <1>1, <1>4, Constants DEF WavesSound
<1>8. EndsSound(mGameMode, c)
  BY <1>2, <1>4 DEF EndsSound
<1>9. PaysSound(c)
  BY <1>2, <1>4 DEF Sound, PaysSound
<1>10. Sound(mGameMode, c)
  BY <1>5, <1>6, <1>7, <1>8, <1>9 DEF Sound, NoEnemies
<1> QED BY <1>2, <1>4, <1>6, <1>10

LEMMA CheckForGameEndKeeps == IInv /\ CheckForGameEnd => IInv' /\ Steps
<1> SUFFICES ASSUME IInv, CheckForGameEnd PROVE IInv' /\ Steps
  OBVIOUS
<1>1. /\ step = "gameEnd" /\ step' = "events" /\ mGameMode' = mGameMode
      /\ mBoardResult' = mBoardResult /\ dialog' = dialog /\ file' = file
      /\ mUnusedLawnMowers' = mUnusedLawnMowers /\ coins' = coins
  BY DEF CheckForGameEnd
<1>2. board # NoBoard /\ mGameScene \in {"PLAYING", "ZOMBIES_WON"} /\ dialog # "continue"
  BY <1>1 DEF IInv, Scenes
<1>3. board \in Boards /\ Sound(mGameMode, board) /\ finished = 0
  BY <1>2, InPlay
<1>4. CASE ~board.mLevelComplete
  <2>1. board' = board /\ mGameScene' = mGameScene /\ finished' = finished
    BY <1>4 DEF CheckForGameEnd
  <2>2. Types' /\ BoardsSound' /\ Scenes'
    BY <1>1, <1>2, <1>3, <1>4, <2>1 DEF IInv, Types, BoardsSound, Scenes
  <2>3. Payments'
    BY <1>1, <1>3, <2>1
       DEF IInv, Payments, MowersPaidOnce, NoFinishedLevelOnFile, CoinsLand
  <2>4. FileInPlay'
    BY <1>1, <1>2, <1>4, <2>1 DEF IInv, FileInPlay
  <2>5. StageOnFile'
    BY <1>1, <2>1 DEF IInv, StageOnFile
  <2>6. Steps
    BY <1>1, <2>1, QuietSteps
  <2> QED BY <2>2, <2>3, <2>4, <2>5, <2>6 DEF IInv
<1>5. CASE board.mLevelComplete /\ IsSurvivalStageWithRepick(board)
  <2>1. /\ board' = InitZombieWaves([board EXCEPT !.mSurvivalStage = @ + 1,
                                                   !.mLevelComplete = FALSE])
        /\ mGameScene' = "LEVEL_INTRO" /\ finished' = finished
    BY <1>5 DEF CheckForGameEnd, InitSurvivalStage
  <2>2. mGameMode = "Survival" /\ SurvivalRepick(mGameMode, board)
    BY <1>5 DEF IsSurvivalStageWithRepick, SurvivalRepick
  <2>3. /\ Sound(mGameMode, board') /\ ~board'.mLevelComplete /\ ~HasLevelAwardDropped(board')
        /\ board'.mSurvivalStage = board.mSurvivalStage + 1
        /\ board'.mNextSurvivalStageCounter = 0
        /\ board'.mBoardFadeOutCounter = -1 /\ board'.mHugeWaveCountDown = 0
        /\ board'.mTotalSpawnedWaves = 0 /\ board'.mCurrentWave = 0
        /\ board.mCurrentWave >= NumWaves
    BY <1>3, <1>5, <2>1, <2>2, NextStageSound
  <2>4. board' # NoBoard /\ board'.mSurvivalStage > 0
    BY <1>3, <2>3, Fields, NoBoardIsNone DEF Sound
  <2>5. board.mBoardFadeOutCounter < 0 /\ dialog = "none"
    <3>1. board.mBoardFadeOutCounter = -1
      BY <1>3, <2>2, Fields DEF Sound, EndsSound, Repick, SurvivalRepick
    <3>2. dialog # "gameOver"
      BY <1>1, <2>2 DEF IInv, Scenes
    <3> QED BY <1>2, <3>1, <3>2 DEF IInv, Types
  <2>6. Types' /\ BoardsSound'
    BY <1>1, <2>1, <2>3 DEF IInv, Types, BoardsSound
  <2>7. Scenes'
    BY <1>1, <2>1, <2>2, <2>3, <2>4, <2>5 DEF IInv, Scenes
  <2>8. Payments'
    BY <1>1, <1>2, <1>3, <2>1, <2>3, <2>5
       DEF IInv, Payments, MowersPaidOnce, NoFinishedLevelOnFile, CoinsLand
  <2>9. FileInPlay'
    BY <1>1, <2>1, <2>2, <2>4 DEF FileInPlay
  <2>10. StageOnFile'
    <3>1. mBoardResult # "LOST" =>
            /\ file # NoBoard /\ file.mNextSurvivalStageCounter = 1
            /\ file.mSurvivalStage >= board.mSurvivalStage
      BY <1>2, <1>5, <2>2 DEF IInv, StageOnFile
    <3>2. file # NoBoard => file.mSurvivalStage \in 0..Stages - 1
      BY Fields DEF IInv, BoardsSound, Sound
    <3>3. board.mSurvivalStage \in 0..Stages - 1
      BY <1>3, Fields
    <3>4. mBoardResult # "LOST" => file.mSurvivalStage + 1 >= board'.mSurvivalStage
      BY <2>3, <3>1, <3>2, <3>3, Constants
    <3> QED BY <1>1, <2>3, <3>1, <3>4 DEF StageOnFile
  <2>11. Steps
    BY <1>1, <1>3, <2>1, <2>2, <2>3, <2>5, Fields
       DEF Steps, StageStep, LastWaveStep, WarningStep, SpawnStep, LossStep
  <2> QED BY <2>6, <2>7, <2>8, <2>9, <2>10, <2>11 DEF IInv
<1>6. CASE board.mLevelComplete /\ ~IsSurvivalStageWithRepick(board)
  <2>1. finished' = finished + 1 /\ board' = NoBoard /\ mGameScene' = "MENU"
    BY <1>6 DEF CheckForGameEnd, FinishLevel
  <2>2. ~SurvivalRepick(mGameMode, board)
    BY <1>6 DEF IsSurvivalStageWithRepick, SurvivalRepick
  <2>3. board.mBoardFadeOutCounter = 0 /\ board.mCurrentWave >= NumWaves
    BY <1>3, <1>6, <2>2 DEF Sound, EndsSound
  <2>4. CanDropLoot => coins = mUnusedLawnMowers
    <3>1. \A n \in board.flying : n <= 0 /\ n \in 1..FlightTime
      BY <1>1, <1>2, <1>3, <2>3, Fields DEF IInv, Payments, CoinsLand
    <3>2. board.flying = {}
      BY <3>1, Constants
    <3>3. Cardinality(board.flying) = 0
      BY <3>2, FS_EmptySet
    <3>4. CanDropLoot => board.mowers = 0
      <4>1. CASE CanDropLoot /\ board.mowers > 0
        <5>1. MowerNext * (board.mowers - 1) \in Nat
          BY <1>3, <4>1, Fields, Constants, OneMowerLess
        <5>2. board.mScoreNextMowerCounter + MowerNext * (board.mowers - 1) + FlightTime <= 0
          BY <1>3, <2>3, <4>1 DEF Sound, PaysSound
        <5> QED BY <1>3, <5>1, <5>2, Fields, Constants
      <4> QED BY <1>3, <4>1, Fields, Constants
    <3>5. CanDropLoot => coins + Cardinality(board.flying) + board.mowers = mUnusedLawnMowers
      BY <1>2, <2>3 DEF IInv, Payments, MowersPaidOnce
    <3>6. coins \in Nat
      BY Constants DEF IInv, Types
    <3> QED BY <3>3, <3>4, <3>5, <3>6
  <2>5. mGameMode # "LastStand" => file = NoBoard
    BY <1>2, <2>3, NoFileAtEnd
  <2>6. mGameScene = "PLAYING"
    BY <1>2, <2>3 DEF IInv, Scenes
  <2>7. ~(mBoardResult = "LOST" /\ mGameMode \in {"Adventure", "Whack"})
    BY <2>6 DEF IInv, Scenes
  <2>8. Types' /\ BoardsSound'
    BY <1>1, <1>3, <2>1 DEF IInv, Types, BoardsSound
  <2>9. Scenes'
    <3>1. dialog # "gameOver"
      BY <2>3 DEF IInv, Scenes
    <3> QED BY <1>1, <1>2, <2>1, <2>7, <3>1 DEF Scenes
  <2>10. Payments'
    BY <1>1, <2>1, <2>4, <2>5 DEF Payments, MowersPaidOnce, NoFinishedLevelOnFile, CoinsLand
  <2>11. FileInPlay' /\ StageOnFile'
    BY <2>1 DEF FileInPlay, StageOnFile
  <2>12. Steps
    BY <2>1, <2>3, <2>7 DEF Steps, StageStep, LastWaveStep, WarningStep, SpawnStep, LossStep
  <2> QED BY <2>8, <2>9, <2>10, <2>11, <2>12 DEF IInv
<1> QED BY <1>4, <1>5, <1>6


----------------------------------------------------------------------------
(* Between two frames.                                                      *)

\* A board in play between two frames.
LEMMA BetweenFrames ==
  ASSUME IInv, Between, board # NoBoard
  PROVE  /\ step = "events" /\ step' = "events" /\ mGameMode' = mGameMode
         /\ board \in Boards /\ Sound(mGameMode, board) /\ ~board.mLevelComplete
         /\ mGameScene # "MENU" /\ finished = 0
BY InPlay DEF Between

\* The plants are chosen: a stage of Survival is on file no longer, it is in play.
LEMMA StartPlayingKeeps == IInv /\ StartPlaying => IInv' /\ Steps
<1> SUFFICES ASSUME IInv, StartPlaying PROVE IInv' /\ Steps
  OBVIOUS
<1>1. /\ Between /\ mGameScene = "LEVEL_INTRO" /\ mGameScene' = "PLAYING"
      /\ file' = IF mGameMode = "Survival" /\ board.mSurvivalStage > 0 THEN NoBoard ELSE file
      /\ mBoardResult' = mBoardResult /\ dialog' = dialog /\ board' = board
      /\ mUnusedLawnMowers' = mUnusedLawnMowers /\ coins' = coins /\ finished' = finished
  BY DEF StartPlaying, pay
<1>2. board # NoBoard
  BY <1>1 DEF IInv, Scenes
<1>3. /\ step = "events" /\ step' = "events" /\ mGameMode' = mGameMode
      /\ board \in Boards /\ Sound(mGameMode, board) /\ ~board.mLevelComplete
      /\ mGameScene # "MENU" /\ finished = 0
  BY <1>1, <1>2, BetweenFrames
<1>4. ~HasLevelAwardDropped(board) /\ board.mNextSurvivalStageCounter = 0
  BY <1>1, <1>3, Fields DEF IInv, Scenes, HasLevelAwardDropped
<1>5. Types' /\ BoardsSound'
  BY <1>1, <1>3 DEF IInv, Types, BoardsSound
<1>6. dialog # "continue" /\ (dialog = "gameOver" => mGameMode = "LastStand")
  BY <1>1 DEF IInv, Scenes
<1>7. Scenes'
  BY <1>1, <1>2, <1>3, <1>6 DEF IInv, Scenes
<1>8. Payments'
  BY <1>1, <1>3 DEF IInv, Payments, MowersPaidOnce, NoFinishedLevelOnFile, CoinsLand
<1>9. FileInPlay'
  <2>1. mGameMode # "LastStand" => file' = NoBoard
    BY <1>1, <1>2, <1>3, <1>4, <1>6 DEF IInv, FileInPlay
  <2> QED BY <1>3, <2>1 DEF FileInPlay
<1>10. StageOnFile'
  BY <1>1, <1>3, <1>4 DEF StageOnFile
<1>11. Steps
  BY <1>1, QuietSteps
<1> QED BY <1>5, <1>7, <1>8, <1>9, <1>10, <1>11 DEF IInv

\* The award is collected: what the mowers will be paid is counted and can be paid.
LEMMA CollectedSound ==
  ASSUME NEW b, Sound(mGameMode, b), b.award = "lawn",
         NEW c, c = [FadeOutLevel(b) EXCEPT !.award = "collected"]
  PROVE  /\ Sound(mGameMode, c) /\ ~c.mLevelComplete /\ c.mBoardFadeOutCounter = FadeTime
         /\ c.mNextSurvivalStageCounter = 0 /\ c.mSurvivalStage = b.mSurvivalStage
         /\ c.mHugeWaveCountDown = b.mHugeWaveCountDown /\ c.mCurrentWave = b.mCurrentWave
         /\ c.mTotalSpawnedWaves = b.mTotalSpawnedWaves
         /\ c.mowers = b.mowers /\ c.flying = {} /\ b.mBoardFadeOutCounter = -1
         /\ ~SurvivalRepick(mGameMode, c) /\ HasLevelAwardDropped(b)
<1>1. b \in Boards
  BY DEF Sound
<1>2. /\ b.mLevelAwardSpawned /\ ~Repick(mGameMode, b) /\ ~b.mLevelComplete
      /\ b.mBoardFadeOutCounter = -1 /\ b.mNextSurvivalStageCounter = 0
      /\ b.mCurrentWave >= NumWaves /\ b.flying = {}
  BY DEF Sound, EndsSound, PaysSound
<1>3. HasLevelAwardDropped(b) /\ ~SurvivalRepick(mGameMode, b)
  BY <1>2 DEF HasLevelAwardDropped, Repick, SurvivalRepick
<1> DEFINE s == IF CanDropLoot THEN MowerFirst ELSE b.mScoreNextMowerCounter
           d == [b EXCEPT !.mBoardFadeOutCounter = FadeTime, !.mScoreNextMowerCounter = s]
<1>4. FadeOutLevel(b) = d
  <2>1. ~IsLastStandStageWithRepick(b) /\ ~IsSurvivalStageWithRepick(b)
    BY <1>2 DEF Repick, IsLastStandStageWithRepick, IsSurvivalStageWithRepick
  <2> QED BY <1>1, <2>1 DEF FadeOutLevel, Boards
<1>5. s \in 0..MowerFirst + MowerNext /\ FadeTime \in -1..FadeTime
  BY <1>1, Fields, Constants
<1>6. s = IF CanDropLoot THEN MowerFirst ELSE b.mScoreNextMowerCounter
  OBVIOUS
<1> HIDE DEF s
<1>7. d \in Boards
  BY <1>1, <1>5 DEF Boards
<1> DEFINE e == [d EXCEPT !.award = "collected"]
<1>8. c = e
  BY <1>4
<1>9. /\ SameWaves(d, b) /\ d.zombies = b.zombies
      /\ d.mSurvivalStage = b.mSurvivalStage /\ d.onslaught = b.onslaught
      /\ d.mLevelAwardSpawned = b.mLevelAwardSpawned
      /\ d.mLevelComplete = b.mLevelComplete
      /\ d.mNextSurvivalStageCounter = b.mNextSurvivalStageCounter
      /\ d.mBoardFadeOutCounter = FadeTime /\ d.mScoreNextMowerCounter = s
      /\ d.mowers = b.mowers /\ d.flying = b.flying
  BY <1>1 DEF Boards, SameWaves
<1> HIDE DEF d
<1>10. e \in Boards
  BY <1>7 DEF Boards
<1>11. /\ SameWaves(e, b) /\ e.zombies = b.zombies
       /\ e.mSurvivalStage = b.mSurvivalStage /\ e.onslaught = b.onslaught
       /\ e.mLevelAwardSpawned = b.mLevelAwardSpawned /\ e.award = "collected"
       /\ e.mLevelComplete = b.mLevelComplete
       /\ e.mNextSurvivalStageCounter = b.mNextSurvivalStageCounter
       /\ e.mBoardFadeOutCounter = FadeTime /\ e.mScoreNextMowerCounter = s
       /\ e.mowers = b.mowers /\ e.flying = b.flying
  BY <1>7, <1>9 DEF Boards, SameWaves
<1> HIDE DEF e
<1>12. FadeTime > 0
  <2>1. MowerNext * Mowers \in Nat
    BY Constants
  <2> QED BY <2>1, TimesAssumption, Constants
<1>13. HasLevelAwardDropped(e)
  BY <1>2, <1>11 DEF HasLevelAwardDropped
<1>14. ~Repick(mGameMode, e) /\ ~SurvivalRepick(mGameMode, e)
  BY <1>2, <1>3, <1>11 DEF Repick, SurvivalRepick
<1>15. WavesSound(mGameMode, e)
  BY <1>3, <1>11, <1>13 DEF Sound, WavesSound, SameWaves
<1>16. EndsSound(mGameMode, e)
  BY <1>2, <1>11, <1>12, <1>14, Constants DEF EndsSound, SameWaves
<1>17. PaysSound(e)
  <2>1. b.mowers > 0 => MowerNext * (b.mowers - 1) <= MowerNext * Mowers
    <3>1. \A i, j, k \in Nat : i <= j => k * i <= k * j
      OBVIOUS
    <3>2. b.mowers > 0 => b.mowers - 1 \in Nat /\ b.mowers - 1 <= Mowers
      BY <1>1, Fields, Constants
    <3> QED BY <3>1, <3>2, Constants
  <2>2. MowerNext * Mowers \in Nat /\ (b.mowers > 0 => MowerNext * (b.mowers - 1) \in Nat)
    BY <1>1, Fields, Constants, OneMowerLess
  <2>3. b.mowers > 0 => MowerFirst + MowerNext * (b.mowers - 1) + FlightTime <= FadeTime
    BY <2>1, <2>2, Constants, TimesAssumption
  <2> QED BY <1>2, <1>6, <1>11, <2>3, Constants DEF PaysSound
<1>18. NoEnemies(mGameMode, e)
  BY <1>3, <1>11 DEF Sound, NoEnemies, Enemies
<1>19. Sound(mGameMode, e)
  BY <1>10, <1>15, <1>16, <1>17, <1>18 DEF Sound
<1> QED BY <1>2, <1>3, <1>8, <1>11, <1>14, <1>19 DEF SameWaves


LEMMA CollectAwardKeeps == IInv /\ CollectAward => IInv' /\ Steps
<1> SUFFICES ASSUME IInv, CollectAward PROVE IInv' /\ Steps
  OBVIOUS
<1>1. /\ Between /\ mGameScene = "PLAYING" /\ dialog = "none" /\ board.award = "lawn"
      /\ board' = [FadeOutLevel(board) EXCEPT !.award = "collected"]
      /\ mUnusedLawnMowers' = board.mowers /\ mGameScene' = mGameScene
      /\ mBoardResult' = mBoardResult /\ dialog' = dialog
      /\ file' = file /\ coins' = coins /\ finished' = finished
  BY DEF CollectAward, app
<1>2. board # NoBoard
  BY <1>1 DEF IInv, Scenes
<1>3. /\ step = "events" /\ step' = "events" /\ mGameMode' = mGameMode
      /\ board \in Boards /\ Sound(mGameMode, board) /\ ~board.mLevelComplete
      /\ mGameScene # "MENU" /\ finished = 0
  BY <1>1, <1>2, BetweenFrames
<1>4. /\ Sound(mGameMode, board') /\ ~board'.mLevelComplete
      /\ board'.mBoardFadeOutCounter = FadeTime
      /\ board'.mNextSurvivalStageCounter = 0
      /\ board'.mSurvivalStage = board.mSurvivalStage
      /\ board'.mHugeWaveCountDown = board.mHugeWaveCountDown
      /\ board'.mCurrentWave = board.mCurrentWave
      /\ board'.mTotalSpawnedWaves = board.mTotalSpawnedWaves
      /\ board'.mowers = board.mowers /\ board'.flying = {}
      /\ board.mBoardFadeOutCounter = -1
      /\ ~SurvivalRepick(mGameMode, board') /\ HasLevelAwardDropped(board)
  BY <1>1, <1>3, CollectedSound
<1>5. board' # NoBoard /\ board.mowers \in 0..Mowers
  BY <1>3, <1>4, NoBoardIsNone, Fields DEF Sound
<1>6. Types'
  BY <1>1, <1>3, <1>5 DEF IInv, Types
<1>7. BoardsSound'
  BY <1>1, <1>3, <1>4 DEF IInv, BoardsSound
<1>8. Scenes'
  BY <1>1, <1>3, <1>4, <1>5 DEF IInv, Scenes
<1>9. coins = 0 /\ Cardinality({}) = 0
  BY <1>2, <1>4, FS_EmptySet DEF IInv, Payments
<1>10. MowersPaidOnce'
  BY <1>1, <1>3, <1>4, <1>5, <1>9 DEF MowersPaidOnce
<1>11. Payments'
  BY <1>1, <1>3, <1>4, <1>9, <1>10 DEF Payments, NoFinishedLevelOnFile, CoinsLand
<1>12. FileInPlay'
  <2>1. board.mNextSurvivalStageCounter = 0
    BY <1>1, <1>3, Fields DEF Sound, EndsSound
  <2> QED BY <1>1, <1>2, <1>3, <2>1 DEF IInv, FileInPlay
<1>13. StageOnFile'
  BY <1>1, <1>3, <1>4 DEF StageOnFile
<1>14. Steps
  BY <1>1, <1>3, <1>4, Fields
     DEF Steps, StageStep, LastWaveStep, WarningStep, SpawnStep, LossStep, IInv, Types, Scenes
<1> QED BY <1>6, <1>7, <1>8, <1>11, <1>12, <1>13, <1>14 DEF IInv

LEMMA StartOnslaughtKeeps == IInv /\ StartOnslaught => IInv' /\ Steps
<1> SUFFICES ASSUME IInv, StartOnslaught PROVE IInv' /\ Steps
  OBVIOUS
<1> DEFINE t == WarnTime + 1
           c == [board EXCEPT !.onslaught = TRUE, !.mZombieCountDown = t]
<1>1. /\ Between /\ mGameScene = "PLAYING" /\ dialog = "none" /\ board' = c
      /\ mGameMode = "LastStand" /\ ~board.onslaught /\ board.mNextSurvivalStageCounter = 0
      /\ mGameScene' = mGameScene /\ mBoardResult' = mBoardResult /\ dialog' = dialog
      /\ file' = file
      /\ mUnusedLawnMowers' = mUnusedLawnMowers /\ coins' = coins /\ finished' = finished
  BY DEF StartOnslaught, app, pay
<1>2. board # NoBoard
  BY <1>1 DEF IInv, Scenes
<1>3. /\ step = "events" /\ step' = "events" /\ mGameMode' = mGameMode
      /\ board \in Boards /\ Sound(mGameMode, board) /\ ~board.mLevelComplete
      /\ mGameScene # "MENU" /\ finished = 0
  BY <1>1, <1>2, BetweenFrames
<1>4. t \in 0..WaveTime + WhackTime /\ t > 0
  BY Constants
<1> HIDE DEF t
<1>5. /\ c \in Boards /\ SamePays(c, board) /\ c.zombies = board.zombies
      /\ c.mCurrentWave = board.mCurrentWave
      /\ c.mTotalSpawnedWaves = board.mTotalSpawnedWaves
      /\ c.mZombieCountDown = t /\ c.mHugeWaveCountDown = board.mHugeWaveCountDown
      /\ c.mSurvivalStage = board.mSurvivalStage /\ c.onslaught
      /\ c.mLevelAwardSpawned = board.mLevelAwardSpawned /\ c.award = board.award
      /\ c.mLevelComplete = board.mLevelComplete
      /\ c.mNextSurvivalStageCounter = board.mNextSurvivalStageCounter
      /\ c.mBoardFadeOutCounter = board.mBoardFadeOutCounter
      /\ c.mowers = board.mowers /\ c.flying = board.flying
  <2>1. c \in Boards
    BY <1>3, <1>4 DEF Boards
  <2> QED BY <1>3, <1>4, <2>1 DEF Boards, SamePays
<1> HIDE DEF c
<1>6. HasLevelAwardDropped(c) = HasLevelAwardDropped(board)
  BY <1>5 DEF HasLevelAwardDropped
<1>7. board.mHugeWaveCountDown = 0
  BY <1>1, <1>3 DEF Sound, WavesSound
<1>8. Sound(mGameMode, c)
  <2>1. WavesSound(mGameMode, c)
    BY <1>1, <1>3, <1>4, <1>5, <1>7, Constants DEF Sound, WavesSound
  <2>2. EndsSound(mGameMode, c)
    BY <1>3, <1>5 DEF Sound, EndsSound, Repick, SurvivalRepick
  <2>3. PaysSound(c)
    BY <1>3, <1>5 DEF Sound, PaysSound, SamePays
  <2>4. NoEnemies(mGameMode, c)
    BY <1>3, <1>5, <1>6 DEF Sound, NoEnemies, SurvivalRepick, Enemies
  <2> QED BY <1>5, <2>1, <2>2, <2>3, <2>4 DEF Sound
<1>9. board' # NoBoard
  BY <1>1, <1>5, NoBoardIsNone
<1>10. Types' /\ BoardsSound'
  BY <1>1, <1>3, <1>5, <1>8 DEF IInv, Types, BoardsSound
<1>11. Scenes'
  BY <1>1, <1>3, <1>5, <1>9 DEF IInv, Scenes
<1>12. Payments'
  BY <1>1, <1>2, <1>3, <1>5
     DEF IInv, Payments, MowersPaidOnce, NoFinishedLevelOnFile, CoinsLand
<1>13. FileInPlay' /\ StageOnFile'
  BY <1>1, <1>3 DEF FileInPlay, StageOnFile
<1>14. board.mBoardFadeOutCounter >= 0 => board'.mNextSurvivalStageCounter = 0
  BY <1>1, <1>5
<1>15. Steps
  BY <1>1, <1>3, <1>5, <1>6, <1>14, Fields
     DEF Steps, StageStep, LastWaveStep, WarningStep, SpawnStep, LossStep, IInv, Types
<1> QED BY <1>10, <1>11, <1>12, <1>13, <1>15 DEF IInv

LEMMA UpdateZombiesWonKeeps == IInv /\ UpdateZombiesWon => IInv' /\ Steps
<1> SUFFICES ASSUME IInv, UpdateZombiesWon PROVE IInv' /\ Steps
  OBVIOUS
<1>1. /\ Between /\ mGameScene = "ZOMBIES_WON" /\ dialog = "none" /\ dialog' = "gameOver"
      /\ mGameScene' = mGameScene /\ mBoardResult' = mBoardResult /\ board' = board
      /\ file' = file
      /\ mUnusedLawnMowers' = mUnusedLawnMowers /\ coins' = coins /\ finished' = finished
  BY DEF UpdateZombiesWon, pay
<1>2. board # NoBoard
  BY <1>1 DEF IInv, Scenes
<1>3. /\ step = "events" /\ step' = "events" /\ mGameMode' = mGameMode
      /\ board \in Boards /\ Sound(mGameMode, board) /\ ~board.mLevelComplete
      /\ mGameScene # "MENU" /\ finished = 0
  BY <1>1, <1>2, BetweenFrames
<1>4. Types' /\ BoardsSound'
  BY <1>1, <1>3 DEF IInv, Types, BoardsSound
<1>5. Scenes'
  BY <1>1, <1>2, <1>3 DEF IInv, Scenes
<1>6. Payments'
  BY <1>1, <1>3 DEF IInv, Payments, MowersPaidOnce, NoFinishedLevelOnFile, CoinsLand
<1>7. FileInPlay' /\ StageOnFile'
  BY <1>1, <1>3 DEF IInv, FileInPlay, StageOnFile
<1>8. Steps
  BY <1>1, QuietSteps
<1> QED BY <1>4, <1>5, <1>6, <1>7, <1>8 DEF IInv

\* A new game: after a loss, from the menu, or instead of the saved one.
LEMMA NewGamesKeep ==
  IInv /\ (GameOverTryAgain \/ PreNewGame \/ ContinueNewGame) => IInv' /\ Steps
<1> SUFFICES ASSUME IInv, GameOverTryAgain \/ PreNewGame \/ ContinueNewGame
             PROVE  IInv' /\ Steps
  OBVIOUS
<1>1. NewGame /\ step = "events" /\ step' = "events" /\ mGameMode' = mGameMode
  BY DEF GameOverTryAgain, PreNewGame, ContinueNewGame, Between
<1>2. CASE GameOverTryAgain
  <2>1. dialog = "gameOver" /\ file' = file
    BY <1>2 DEF GameOverTryAgain
  <2>2. mGameMode # "LastStand" => file = NoBoard
    <3>1. SUFFICES ASSUME mGameMode # "LastStand" PROVE file = NoBoard
      OBVIOUS
    <3>2. mGameScene = "ZOMBIES_WON" /\ board # NoBoard
      BY <2>1, <3>1 DEF IInv, Scenes
    <3>3. ~board.mLevelComplete
      BY <1>1, <3>2, InPlay
    <3> QED BY <1>1, <2>1, <3>1, <3>2, <3>3 DEF IInv, FileInPlay
  <2> QED BY <1>1, <2>1, <2>2, NewGameKeeps
<1>3. CASE PreNewGame
  <2>1. file' = file /\ file = NoBoard
    BY <1>3 DEF PreNewGame
  <2> QED BY <1>1, <2>1, NewGameKeeps
<1>4. CASE ContinueNewGame
  <2>1. file' = NoBoard
    BY <1>4 DEF ContinueNewGame
  <2> QED BY <1>1, <2>1, NewGameKeeps
<1> QED BY <1>2, <1>3, <1>4

\* The board goes: the game is left, or the program ends.
LEMMA LeavingKeeps ==
  IInv /\ (GameOverMainMenu \/ ContinueCancel \/ BackToMain \/ Shutdown \/ Crash)
    => IInv' /\ Steps
<1> SUFFICES ASSUME IInv, GameOverMainMenu \/ ContinueCancel \/ BackToMain \/ Shutdown \/ Crash
             PROVE  IInv' /\ Steps
  OBVIOUS
<1>1. /\ KillBoard /\ step' = "events" /\ mGameMode' = mGameMode
      /\ mUnusedLawnMowers' = mUnusedLawnMowers
  BY DEF GameOverMainMenu, ContinueCancel, BackToMain, Shutdown, Crash, Between, pay
<1>2. board # NoBoard
  BY DEF IInv, Scenes, GameOverMainMenu, ContinueCancel, BackToMain, Shutdown, Crash
<1>3. CASE GameOverMainMenu \/ ContinueCancel \/ Crash
  <2>1. /\ mBoardResult' \in {mBoardResult, "NONE"}
        /\ file' = file /\ coins' = coins /\ finished' = finished
    BY <1>3 DEF GameOverMainMenu, ContinueCancel, Crash, pay
  <2> QED BY <1>1, <1>2, <2>1, KillKeeps
<1>4. CASE BackToMain \/ Shutdown
  <2>1. mBoardResult' \in {"NONE", "QUIT"} /\ step = "events" /\ TryToSaveGame
    BY <1>4 DEF BackToMain, Shutdown, Between
  <2> QED BY <1>1, <1>2, <2>1, KillKeeps
<1> QED BY <1>3, <1>4

LEMMA TryLoadGameKeeps == IInv /\ TryLoadGame => IInv' /\ Steps
<1> SUFFICES ASSUME IInv, TryLoadGame PROVE IInv' /\ Steps
  OBVIOUS
<1>1. /\ step = "events" /\ step' = "events" /\ mGameMode' = mGameMode
      /\ mGameScene = "MENU" /\ file # NoBoard /\ board' = file
      /\ mGameScene' = "PLAYING" /\ dialog' = "continue"
      /\ mUnusedLawnMowers' = 0 /\ coins' = 0 /\ finished' = 0
      /\ mBoardResult' = mBoardResult /\ file' = file
  BY DEF TryLoadGame, Between
<1>2. board = NoBoard
  BY <1>1 DEF IInv, Scenes
<1>3. Sound(mGameMode, file) /\ ~file.mLevelComplete /\ file.mBoardFadeOutCounter = -1
  BY <1>1 DEF IInv, BoardsSound
<1>4. Types'
  BY <1>1, Constants DEF IInv, Types
<1>5. BoardsSound'
  BY <1>1, <1>3 DEF BoardsSound
<1>6. Scenes'
  BY <1>1, <1>3 DEF IInv, Scenes
<1>7. Payments'
  BY <1>1, <1>3 DEF Payments, MowersPaidOnce, NoFinishedLevelOnFile, CoinsLand
<1>8. FileInPlay' /\ StageOnFile'
  <2>1. file.mSurvivalStage >= file.mSurvivalStage
    BY <1>3, Fields DEF Sound
  <2> QED BY <1>1, <1>3, <2>1 DEF FileInPlay, StageOnFile
<1>9. Steps
  <2>1. finished \in 0..1
    BY DEF IInv, Types
  <2>2. mBoardResult = "LOST" /\ mGameMode \in {"Adventure", "Whack"} => FALSE
    BY <1>1 DEF IInv, Scenes
  <2> QED BY <1>1, <1>2, <2>1, <2>2
          DEF Steps, StageStep, LastWaveStep, WarningStep, SpawnStep, LossStep
<1> QED BY <1>4, <1>5, <1>6, <1>7, <1>8, <1>9 DEF IInv

LEMMA ContinueKeeps == IInv /\ Continue => IInv' /\ Steps
<1> SUFFICES ASSUME IInv, Continue PROVE IInv' /\ Steps
  OBVIOUS
<1>1. /\ Between /\ dialog = "continue" /\ dialog' = "none" /\ board' = board
      /\ file' = IF NextStageSaved(board) THEN file ELSE NoBoard
      /\ mGameScene' = mGameScene /\ mBoardResult' = mBoardResult
      /\ mUnusedLawnMowers' = mUnusedLawnMowers /\ coins' = coins /\ finished' = finished
  BY DEF Continue, pay
<1>2. board # NoBoard /\ mGameScene = "PLAYING" /\ board = file
  BY <1>1 DEF IInv, Scenes
<1>3. /\ step = "events" /\ step' = "events" /\ mGameMode' = mGameMode
      /\ board \in Boards /\ Sound(mGameMode, board) /\ ~board.mLevelComplete
      /\ mGameScene # "MENU" /\ finished = 0
  BY <1>1, <1>2, BetweenFrames
<1>4. Types' /\ BoardsSound'
  BY <1>1, <1>3 DEF IInv, Types, BoardsSound
<1>5. Scenes'
  BY <1>1, <1>2, <1>3 DEF IInv, Scenes
<1>6. Payments'
  BY <1>1, <1>3 DEF IInv, Payments, MowersPaidOnce, NoFinishedLevelOnFile, CoinsLand
<1>7. FileInPlay'
  <2>1. file' # NoBoard => board.mNextSurvivalStageCounter = 1
    BY <1>1 DEF NextStageSaved
  <2>2. board.mNextSurvivalStageCounter = 1 =>
          mGameMode = "LastStand" \/ mGameMode = "Survival"
    BY <1>3 DEF Sound, EndsSound, SurvivalRepick
  <2> QED BY <1>1, <1>2, <1>3, <2>1, <2>2 DEF FileInPlay
<1>8. StageOnFile'
  BY <1>1, <1>2, <1>3 DEF IInv, StageOnFile, NextStageSaved
<1>9. Steps
  BY <1>1, QuietSteps
<1> QED BY <1>4, <1>5, <1>6, <1>7, <1>8, <1>9 DEF IInv


----------------------------------------------------------------------------
(* The theorems.                                                            *)

LEMMA NextKeeps == IInv /\ Next => IInv' /\ Steps
<1> SUFFICES ASSUME IInv, Next PROVE IInv' /\ Steps
  OBVIOUS
<1>1. CASE Frame
  <2>1. CASE \E z \in Zombies : ZombieFate(z)
    BY <2>1, ZombieFateKeeps
  <2>2. CASE BeginFrame \/ EndObjects \/ UpdateZombieSpawning
    BY <2>2, BeginFrameKeeps, EndObjectsKeeps, UpdateZombieSpawningKeeps
  <2>3. CASE UpdateLevelEndSequence \/ CheckForGameEnd
    BY <2>3, UpdateLevelEndSequenceKeeps, CheckForGameEndKeeps
  <2> QED BY <1>1, <2>1, <2>2, <2>3 DEF Frame
<1>2. CASE Player
  <2>1. CASE StartPlaying \/ CollectAward \/ StartOnslaught \/ UpdateZombiesWon
    BY <2>1, StartPlayingKeeps, CollectAwardKeeps, StartOnslaughtKeeps, UpdateZombiesWonKeeps
  <2>2. CASE GameOverTryAgain \/ PreNewGame \/ ContinueNewGame
    BY <2>2, NewGamesKeep
  <2>3. CASE GameOverMainMenu \/ ContinueCancel \/ BackToMain \/ Shutdown
    BY <2>3, LeavingKeeps
  <2>4. CASE TryLoadGame \/ Continue
    BY <2>4, TryLoadGameKeeps, ContinueKeeps
  <2> QED BY <1>2, <2>1, <2>2, <2>3, <2>4 DEF Player
<1>3. CASE Crash
  BY <1>3, LeavingKeeps
<1> QED BY <1>1, <1>2, <1>3 DEF Next

LEMMA StutterKeeps == IInv /\ UNCHANGED vars => IInv' /\ Steps
<1> SUFFICES ASSUME IInv, UNCHANGED vars PROVE IInv' /\ Steps
  OBVIOUS
<1>1. /\ mGameMode' = mGameMode /\ mGameScene' = mGameScene /\ mBoardResult' = mBoardResult
      /\ dialog' = dialog /\ step' = step /\ board' = board /\ file' = file
      /\ mUnusedLawnMowers' = mUnusedLawnMowers /\ coins' = coins /\ finished' = finished
  BY DEF vars, app, pay
<1>2. Types' /\ BoardsSound' /\ Scenes'
  BY <1>1 DEF IInv, Types, BoardsSound, Scenes
<1>3. Payments'
  BY <1>1 DEF IInv, Payments, MowersPaidOnce, NoFinishedLevelOnFile, CoinsLand
<1>4. FileInPlay' /\ StageOnFile'
  BY <1>1 DEF IInv, FileInPlay, StageOnFile
<1>5. Steps
  BY <1>1, QuietSteps
<1> QED BY <1>2, <1>3, <1>4, <1>5 DEF IInv

\* The invariant is inductive: it holds in every state of every game.
THEOREM Invariance == Spec => []IInv
<1>1. IInv /\ [Next]_vars => IInv'
  BY NextKeeps, StutterKeeps
<1> QED BY Initially, <1>1, PTL DEF Spec

\* What every step of the program may not do (Board.cpp, Challenge.cpp, LawnApp.cpp).
THEOREM EveryStep == Spec => [][Steps]_vars
<1>1. IInv /\ [Next]_vars => [Steps]_vars
  BY NextKeeps
<1> QED BY Invariance, <1>1, PTL DEF Spec

\* Every variable keeps its type, and there is a board in just the scenes that show one.
THEOREM TypeCorrect == Spec => []TypeOK
<1>1. IInv => TypeOK
  BY DEF IInv, Types, BoardsSound, Sound, Scenes, TypeOK
<1> QED BY Invariance, <1>1, PTL

\* Once the award has dropped no enemy is left until the next stage, whatever died, rose or
\* was raised in the same frame (Zombie::TrySpawnLevelAward, RemoveAllZombies).
THEOREM AwardClearsLawn == Spec => []NoEnemiesAfterAward
<1>1. IInv => NoEnemiesAfterAward
  <2> SUFFICES ASSUME IInv, board # NoBoard, HasLevelAwardDropped(board),
                      ~IsSurvivalStageWithRepick(board)
               PROVE  Enemies(board) = {}
    BY DEF NoEnemiesAfterAward
  <2> QED BY DEF IInv, BoardsSound, Sound, NoEnemies, SurvivalRepick, IsSurvivalStageWithRepick
<1> QED BY Invariance, <1>1, PTL

\* Each unused mower is paid once, whether the victory sequence runs out or the player
\* quits in the middle of it.
THEOREM MowersPaid == Spec => []MowersPaidOnce
<1>1. IInv => MowersPaidOnce
  BY DEF IInv, Payments
<1> QED BY Invariance, <1>1, PTL

\* No level that was credited is left on file, to be credited again.
THEOREM NothingFinishedOnFile == Spec => []NoFinishedLevelOnFile
<1>1. IInv => NoFinishedLevelOnFile
  BY DEF IInv, Payments
<1> QED BY Invariance, <1>1, PTL

\* The end of a level or of a stage is started once and runs to its end.
THEOREM EndsOnce == Spec => StageEndsOnce
<1>1. [Steps]_vars => [StageStep]_vars
  BY DEF Steps
<1> QED BY EveryStep, <1>1, PTL DEF StageEndsOnce, StageStep

\* A stage is counted and a level credited only after its last wave.
THEOREM CountsLastWave == Spec => EndsAfterLastWave
<1>1. [Steps]_vars => [LastWaveStep]_vars
  BY DEF Steps
<1> QED BY EveryStep, <1>1, PTL DEF EndsAfterLastWave, LastWaveStep

\* No wave comes while the warning of a huge wave counts down.
THEOREM WarningHolds == Spec => NoWaveDuringWarning
<1>1. [Steps]_vars => [WarningStep]_vars
  BY DEF Steps
<1> QED BY EveryStep, <1>1, PTL DEF NoWaveDuringWarning, WarningStep

\* A lost level of the adventure, or of Whack a Zombie, is never won or credited.
THEOREM LossStays == Spec => LossIsFinal
<1>1. [Steps]_vars => [LossStep]_vars
  BY DEF Steps
<1> QED BY EveryStep, <1>1, PTL DEF LossIsFinal, LossStep

\* Without Whack a Zombie every wave that is spawned is one the level has.
THEOREM WavesInRange == ASSUME "Whack" \notin Modes PROVE Spec => SpawnInRange
<1> DEFINE InRange == board # NoBoard /\ board' # NoBoard /\
                      board'.mTotalSpawnedWaves > board.mTotalSpawnedWaves
                        => board.mCurrentWave < NumWaves
<1>1. IInv /\ [Steps]_vars => [InRange]_vars
  <2> SUFFICES ASSUME IInv, Steps PROVE InRange
    OBVIOUS
  <2>1. mGameMode # "Whack"
    BY DEF IInv, Types
  <2> QED BY <2>1 DEF Steps, SpawnStep
<1>2. Spec => [][InRange]_vars
  BY Invariance, EveryStep, <1>1, PTL
<1> QED BY <1>2 DEF SpawnInRange

\* A player who leaves a game of Survival he has not lost finds the stages he completed
\* on file, or the game is credited: also between two stages, where nothing is saved.
THEOREM ProgressKept == Spec => QuitKeepsProgress
<1> DEFINE Kept == (BackToMain \/ Shutdown) /\ mGameMode = "Survival" /\ mBoardResult # "LOST" =>
                     \/ finished' > finished
                     \/ StagesDone(board) = 0
                     \/ file' # NoBoard /\ StagesDone(file') >= StagesDone(board)
<1>1. IInv => Kept
  <2> SUFFICES ASSUME IInv, BackToMain \/ Shutdown, mGameMode = "Survival", mBoardResult # "LOST"
               PROVE  \/ finished' > finished
                      \/ StagesDone(board) = 0
                      \/ file' # NoBoard /\ StagesDone(file') >= StagesDone(board)
    OBVIOUS
  <2>1. step = "events" /\ TryToSaveGame /\ board # NoBoard
    BY DEF BackToMain, Shutdown, Between, IInv, Scenes
  <2>2. /\ board \in Boards /\ Sound(mGameMode, board) /\ ~board.mLevelComplete
        /\ mGameScene # "MENU" /\ finished = 0
    BY <2>1, InPlay
  <2>3. StagesDone(board) \in Nat
    BY <2>2, Fields, Constants DEF StagesDone
  <2>4. CASE mGameScene = "PLAYING" /\ board.mBoardFadeOutCounter > 0
    <3>1. finished' = finished + 1
      BY <2>1, <2>4 DEF TryToSaveGame, NeedSaveGame, CompleteEndLevelSequenceForSaving
    <3> QED BY <2>2, <3>1
  <2>5. CASE mGameScene = "PLAYING" /\ ~(board.mBoardFadeOutCounter > 0)
    <3>1. file' = board
      BY <2>1, <2>5 DEF TryToSaveGame, NeedSaveGame
    <3> QED BY <2>1, <2>3, <3>1
  <2>6. CASE mGameScene = "LEVEL_INTRO"
    <3>1. file' = file
      BY <2>1, <2>6 DEF TryToSaveGame, NeedSaveGame
    <3>2. board.mNextSurvivalStageCounter = 0
      BY <2>2, <2>6, Fields DEF IInv, Scenes, HasLevelAwardDropped
    <3>3. StagesDone(board) = board.mSurvivalStage /\ board.mSurvivalStage \in Nat
      BY <2>2, <3>2, Fields, Constants DEF StagesDone
    <3>4. CASE board.mSurvivalStage > 0
      <4>1. /\ file # NoBoard /\ file.mNextSurvivalStageCounter = 1
            /\ file.mSurvivalStage + 1 >= board.mSurvivalStage
        BY <2>1, <2>6, <3>4 DEF IInv, StageOnFile
      <4>2. StagesDone(file) = file.mSurvivalStage + 1
        BY <4>1 DEF StagesDone
      <4> QED BY <3>1, <3>3, <4>1, <4>2
    <3> QED BY <3>3, <3>4
  <2>7. mGameScene # "ZOMBIES_WON"
    BY DEF IInv, Scenes
  <2> QED BY <2>2, <2>4, <2>5, <2>6, <2>7 DEF IInv, Types
<1>2. Spec => [][Kept]_vars
  <2>1. IInv /\ [Next]_vars => [Kept]_vars
    BY <1>1
  <2> QED BY Invariance, <2>1, PTL DEF Spec
<1> QED BY <1>2 DEF QuitKeepsProgress
=============================================================================
