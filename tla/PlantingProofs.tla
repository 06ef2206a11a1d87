--------------------------- MODULE PlantingProofs ---------------------------
(***************************************************************************)
(* Proofs about Planting, for every number of packets, coins and seeds and   *)
(* every price.                                                              *)
(*                                                                           *)
(* Nothing that is promised holds by itself: what the cursor names has to be *)
(* read with the packets and the coins it names. The inductive invariant     *)
(* says so once for the cursor, once for the packets and once for the coins, *)
(* and the sun is counted on top of them.                                    *)
(***************************************************************************)
EXTENDS Planting, FiniteSetTheorems, TLAPS

\* What the fields of the cursor mean.
CursorNames ==
  /\ cursor.mCursorType = "bank" =>
       cursor.mSeedBankIndex \in Index /\ cursor.mType \in Seeds /\ cursor.mCoinID = NoCoinID
  /\ cursor.mCursorType # "bank" => cursor.mSeedBankIndex = 0
  /\ cursor.mCursorType = "coin" => cursor.mCoinID \in Coins
  /\ cursor.mCursorType = "normal" => cursor = ClearCursor
  /\ ~keybinds /\ cursor.mCoinID # NoCoinID => cursor.mCursorType = "coin"

CollectedDoesNotFade == \A c \in Coins : coins[c].mIsBeingCollected => ~coins[c].fading

IInv ==
  /\ TypeOK
  /\ CursorNames
  /\ PacketsAccountedFor
  /\ BeltHasNoGap
  /\ CollectedDoesNotFade
  /\ SeedsAccountedFor
  /\ CoinInCursorLives

-----------------------------------------------------------------------------
(* What the operations make of a packet, of the bank and of a coin.          *)

\* A packet that is ready has the type it was made for.
LEMMA ReadyPacketType ==
  \A s \in Seeds \union {NoSeed} :
    /\ ReadyPacket(s) \in Packet
    /\ ReadyPacket(s).mPacketType = s
    /\ ReadyPacket(s).mActive
BY DEF ReadyPacket, Packet

\* A packet that is taken keeps its type and can no longer be taken.
LEMMA DeactivatedType ==
  \A p \in Packet :
    /\ Deactivated(p) \in Packet
    /\ Deactivated(p).mPacketType = p.mPacketType
    /\ ~Deactivated(p).mActive /\ ~Deactivated(p).mRefreshing
BY DEF Deactivated, Packet

\* A bank that was chosen is full, and each of its packets can be taken or refreshes.
LEMMA ChosenPacketsType ==
  ASSUME NEW first \in BOOLEAN, NEW bank \in ChosenPackets(first)
  PROVE  /\ bank \in [Index -> Packet]
         /\ \A i \in Index : bank[i].mActive \/ bank[i].mRefreshing
<1> DEFINE ready == {ReadyPacket(s) : s \in Seeds}
           late  == {[Deactivated(ReadyPacket(s)) EXCEPT !.mRefreshing = TRUE] : s \in Seeds}
<1>1. \A p \in ready \union late : p \in Packet /\ (p.mActive \/ p.mRefreshing)
  <2>1. \A p \in ready : p \in Packet /\ p.mActive
    BY ReadyPacketType
  <2>2. \A s \in Seeds :
          /\ [Deactivated(ReadyPacket(s)) EXCEPT !.mRefreshing = TRUE] \in Packet
          /\ [Deactivated(ReadyPacket(s)) EXCEPT !.mRefreshing = TRUE].mRefreshing
    BY DEF ReadyPacket, Deactivated, Packet
  <2>3. \A p \in late : p \in Packet /\ p.mRefreshing
    BY <2>2
  <2> QED BY <2>1, <2>3
<1>2. bank \in [Index -> ready] \/ bank \in [Index -> ready \union late]
  BY DEF ChosenPackets
<1> HIDE DEF ready, late
<1>3. bank \in [Index -> ready \union late]
  BY <1>2
<1> QED BY <1>1, <1>3

\* A freed coin and a collected one are coins.
LEMMA CoinTypes ==
  /\ FreeCoin \in Coin
  /\ \A coin \in Coin : Collect(coin) \in Coin /\ Collect(coin).mType = coin.mType
BY DEF FreeCoin, Coin, Collect

\* The cursor is one of the cursors, empty or holding a packet.
LEMMA CursorTypes ==
  /\ ClearCursor \in Cursor
  /\ \A i \in Index : packets \in [Index -> Packet] => InCursor(packets, i) \in Cursor
<1> USE NumPacketsAssumption
<1>1. \A i \in Index : packets \in [Index -> Packet] =>
        packets[i].mPacketType \in Seeds \union {NoSeed} /\ i \in 0..NumPackets
  BY DEF Packet, Index
<1>2. ClearCursor \in Cursor
  BY DEF ClearCursor, Cursor
<1> QED BY <1>1, <1>2 DEF ClearCursor, Cursor, InCursor

-----------------------------------------------------------------------------
(* The initial state, and the types.                                         *)

\* The game begins in the invariant.
LEMMA InitIInv == Init => IInv
<1> SUFFICES ASSUME Init PROVE IInv
  OBVIOUS
<1> USE ModesAssumption, SeedsAssumption, CoinsAssumption, SunAssumption, NumPacketsAssumption
<1>1. packets \in [Index -> Packet] /\ \A i \in Index : packets[i].mActive \/ packets[i].mRefreshing
  <2>1. CASE mode = "Conveyor"
    BY <2>1, ReadyPacketType DEF Init, EmptyPacket
  <2>2. CASE mode = "Vases"
    BY <2>2, ReadyPacketType DEF Init, EmptyPacket
  <2>3. CASE mode \notin {"Conveyor", "Vases"}
    BY <2>3, ChosenPacketsType DEF Init
  <2> QED BY <2>1, <2>2, <2>3
<1>2. cursor \in Cursor /\ cursor = ClearCursor
  BY DEF Init, Cursor, ClearCursor
<1>3. coins \in [Coins -> Coin] /\ \A c \in Coins : coins[c] = FreeCoin
  BY DEF Init, Coin, FreeCoin
<1>4. TypeOK
  <2>1. mSunMoney \in Int /\ mSunMoney <= MaxSun
    BY DEF Init
  <2> QED BY <2>1, <1>1, <1>2, <1>3 DEF Init, TypeOK, FreeCoin
<1>5. BeltHasNoGap
  BY DEF Init, BeltHasNoGap, HasConveyorBeltSeedBank, EmptyPacket, ReadyPacket
<1> QED
  BY <1>1, <1>2, <1>3, <1>4, <1>5
  DEF IInv, CursorNames, PacketsAccountedFor, CollectedDoesNotFade, SeedsAccountedFor,
      CoinInCursorLives, ClearCursor, FreeCoin, Index

-----------------------------------------------------------------------------
(* Which steps change what.                                                  *)

\* The steps that change the packets.
LEMMA PacketsChange ==
  ASSUME [Next]_vars
  PROVE  \/ UNCHANGED packets
         \/ \E i \in Index : ClickPacket(i) \/ KeyDigit(i) \/ PacketRefreshed(i)
         \/ KeyShovel \/ PutBack \/ PlantPacket
         \/ \E s \in Seeds : AddSeed(s)
         \/ LastStandCompletedStage \/ InitSurvivalStage \/ PuzzleNextStageClear \/ FadeOutLevel
<1>1. CASE UNCHANGED vars
  BY <1>1 DEF vars
<1>2. CASE Player
  BY <1>2 DEF Player, ClickSeed, CollectSun, ClickShovel, PlantSeed
<1>3. CASE Frame
  BY <1>3 DEF Frame, DropCoin, StartFade, CoinFaded, ScoreCoin
<1>4. CASE Stage
  BY <1>4 DEF Stage, StartOnslaught
<1> QED BY <1>1, <1>2, <1>3, <1>4 DEF Next

\* The steps that change the coins.
LEMMA CoinsChange ==
  ASSUME [Next]_vars
  PROVE  \/ UNCHANGED coins
         \/ coins' = SeedPutBack /\ cursor' = ClearCursor
         \/ \E c \in Coins : ClickSeed(c) \/ CollectSun(c)
         \/ PlantSeed
         \/ \E c \in Coins : DropCoin(c) \/ StartFade(c) \/ CoinFaded(c) \/ ScoreCoin(c)
         \/ PuzzleNextStageClear
<1>1. CASE UNCHANGED vars
  BY <1>1 DEF vars
<1>2. CASE Player
  BY <1>2 DEF Player, ClickPacket, KeyDigit, ClickShovel, KeyShovel, PutBack, PlantPacket,
              RefreshSeedPacketFromCursor
<1>3. CASE Frame
  BY <1>3 DEF Frame, PacketRefreshed, AddSeed
<1>4. CASE Stage
  BY <1>4 DEF Stage, StartOnslaught, LastStandCompletedStage, InitSurvivalStage, FadeOutLevel,
              RefreshSeedPacketFromCursor
<1> QED BY <1>1, <1>2, <1>3, <1>4 DEF Next

\* The steps that change the cursor.
LEMMA CursorChange ==
  ASSUME [Next]_vars
  PROVE  \/ UNCHANGED cursor
         \/ cursor' = ClearCursor
         \/ \E i \in Index : ClickPacket(i)
         \/ \E i \in Index : KeyDigit(i)
         \/ \E c \in Coins : ClickSeed(c)
         \/ ClickShovel \/ KeyShovel
<1>1. CASE UNCHANGED vars
  BY <1>1 DEF vars
<1>2. CASE Player
  BY <1>2 DEF Player, CollectSun, PutBack, PlantPacket, PlantSeed, RefreshSeedPacketFromCursor
<1>3. CASE Frame
  BY <1>3 DEF Frame, PacketRefreshed, AddSeed, DropCoin, StartFade, CoinFaded, ScoreCoin
<1>4. CASE Stage
  BY <1>4 DEF Stage, StartOnslaught, LastStandCompletedStage, InitSurvivalStage, FadeOutLevel,
              RefreshSeedPacketFromCursor, PuzzleNextStageClear
<1> QED BY <1>1, <1>2, <1>3, <1>4 DEF Next

\* The steps that change the level; its mode and the keys never change.
LEMMA LevelChange ==
  ASSUME [Next]_vars
  PROVE  /\ UNCHANGED <<mode, keybinds>>
         /\ \/ UNCHANGED <<onslaught, fadingOut>>
            \/ StartOnslaught \/ LastStandCompletedStage \/ FadeOutLevel
<1>1. CASE UNCHANGED vars
  BY <1>1 DEF vars, level
<1>2. CASE Player
  BY <1>2 DEF Player, ClickPacket, KeyDigit, ClickSeed, CollectSun, ClickShovel, KeyShovel, PutBack,
              PlantPacket, PlantSeed, level
<1>3. CASE Frame
  BY <1>3 DEF Frame, PacketRefreshed, AddSeed, DropCoin, StartFade, CoinFaded, ScoreCoin, level
<1>4. CASE Stage
  BY <1>4 DEF Stage, StartOnslaught, LastStandCompletedStage, InitSurvivalStage, FadeOutLevel,
              PuzzleNextStageClear, level
<1> QED BY <1>1, <1>2, <1>3, <1>4 DEF Next

\* The steps that change the sun.
LEMMA SunChange ==
  ASSUME [Next]_vars
  PROVE  \/ UNCHANGED mSunMoney
         \/ PlantPacket
         \/ \E c \in Coins : ScoreCoin(c)
<1>1. CASE UNCHANGED vars
  BY <1>1 DEF vars
<1>2. CASE Player
  BY <1>2 DEF Player, ClickPacket, KeyDigit, ClickSeed, CollectSun, ClickShovel, KeyShovel, PutBack,
              PlantSeed
<1>3. CASE Frame
  BY <1>3 DEF Frame, PacketRefreshed, AddSeed, DropCoin, StartFade, CoinFaded
<1>4. CASE Stage
  BY <1>4 DEF Stage, StartOnslaught, LastStandCompletedStage, InitSurvivalStage, FadeOutLevel,
              PuzzleNextStageClear
<1> QED BY <1>1, <1>2, <1>3, <1>4 DEF Next

-----------------------------------------------------------------------------
(* The types.                                                                *)

\* A packet put back, or planted, is still a packet.
LEMMA PutBackType ==
  ASSUME IInv
  PROVE  PacketPutBack \in [Index -> Packet] /\ SeedPutBack \in [Coins -> Coin]
<1>1. \A p \in Packet : [p EXCEPT !.mActive = TRUE] \in Packet
  BY DEF Packet
<1>2. \A coin \in Coin : [coin EXCEPT !.mIsBeingCollected = FALSE] \in Coin
  BY DEF Coin
<1>3. PacketPutBack \in [Index -> Packet]
  BY <1>1 DEF IInv, TypeOK, CursorNames, PacketPutBack
<1>4. SeedPutBack \in [Coins -> Coin]
  BY <1>2 DEF IInv, TypeOK, CursorNames, SeedPutBack
<1> QED BY <1>3, <1>4

\* A belt that a seed is removed from is still a belt.
LEMMA RemoveSeedType ==
  ASSUME NEW belt \in [Index -> Packet], NEW i \in Index
  PROVE  RemoveSeed(belt, i) \in [Index -> Packet]
<1>1. EmptyPacket \in Packet
  BY ReadyPacketType DEF EmptyPacket
<1>2. ASSUME NEW j \in Index, j # NumPackets
      PROVE  ReadyPacket(belt[j + 1].mPacketType) \in Packet
  <2>1. j + 1 \in Index
    BY <1>2, NumPacketsAssumption DEF Index
  <2>2. belt[j + 1].mPacketType \in Seeds \union {NoSeed}
    BY <2>1 DEF Packet
  <2> QED BY <2>2, ReadyPacketType
<1> QED BY <1>1, <1>2 DEF RemoveSeed

\* The packets keep their type.
LEMMA PacketsTypeStep == IInv /\ [Next]_vars => packets' \in [Index -> Packet]
<1> SUFFICES ASSUME IInv, [Next]_vars PROVE packets' \in [Index -> Packet]
  OBVIOUS
<1>1. packets \in [Index -> Packet] /\ PacketPutBack \in [Index -> Packet]
  BY PutBackType DEF IInv, TypeOK
<1>2. \A p \in Packet : \A a, r \in BOOLEAN :
        /\ [p EXCEPT !.mActive = a] \in Packet
        /\ [p EXCEPT !.mRefreshing = r] \in Packet
        /\ [p EXCEPT !.mActive = a, !.mRefreshing = r] \in Packet
  BY DEF Packet
<1>3. CASE UNCHANGED packets
  BY <1>1, <1>3
<1>4. ASSUME NEW i \in Index, ClickPacket(i) PROVE packets' \in [Index -> Packet]
  BY <1>1, <1>4, DeactivatedType DEF ClickPacket
<1>5. ASSUME NEW i \in Index, KeyDigit(i) PROVE packets' \in [Index -> Packet]
  BY <1>1, <1>5, DeactivatedType DEF KeyDigit, RefreshSeedPacketFromCursor
<1>6. ASSUME NEW i \in Index, PacketRefreshed(i) PROVE packets' \in [Index -> Packet]
  <2>1. packets' = [packets EXCEPT ![i] = [@ EXCEPT !.mActive = TRUE, !.mRefreshing = FALSE]]
    BY <1>1, <1>6 DEF PacketRefreshed
  <2> QED BY <1>1, <1>2, <2>1
<1>7. CASE KeyShovel \/ PutBack \/ PuzzleNextStageClear \/ FadeOutLevel
  BY <1>1, <1>7
  DEF KeyShovel, PutBack, PuzzleNextStageClear, FadeOutLevel, RefreshSeedPacketFromCursor
<1>8. CASE PlantPacket
  <2> DEFINE k == cursor.mSeedBankIndex
  <2>1. k \in Index /\ packets' = WasPlanted(k)
    BY <1>8 DEF PlantPacket, IInv, CursorNames
  <2> QED BY <1>1, <1>2, <2>1, RemoveSeedType DEF WasPlanted
<1>9. ASSUME NEW s \in Seeds, AddSeed(s) PROVE packets' \in [Index -> Packet]
  BY <1>1, <1>9, ReadyPacketType DEF AddSeed
<1>10. CASE LastStandCompletedStage
  <2>1. packets' = RefreshAllPackets
    BY <1>10 DEF LastStandCompletedStage
  <2> QED BY <1>1, <1>2, <2>1 DEF RefreshAllPackets
<1>11. CASE InitSurvivalStage
  BY <1>11, ChosenPacketsType DEF InitSurvivalStage
<1> QED
  BY <1>3, <1>4, <1>5, <1>6, <1>7, <1>8, <1>9, <1>10, <1>11, PacketsChange

\* The cursor keeps its type.
LEMMA CursorTypeStep == IInv /\ [Next]_vars => cursor' \in Cursor
<1> SUFFICES ASSUME IInv, [Next]_vars PROVE cursor' \in Cursor
  OBVIOUS
<1>1. cursor \in Cursor /\ ClearCursor \in Cursor
  BY CursorTypes DEF IInv, TypeOK
<1>2. \A cu \in Cursor : [cu EXCEPT !.mCursorType = "shovel"] \in Cursor
  BY DEF Cursor
<1>3. \A i \in Index : InCursor(packets, i) \in Cursor
  BY CursorTypes DEF IInv, TypeOK
<1>4. CASE UNCHANGED cursor \/ cursor' = ClearCursor
  BY <1>1, <1>4
<1>5. CASE \E i \in Index : ClickPacket(i)
  BY <1>3, <1>5 DEF ClickPacket
<1>6. CASE \E i \in Index : KeyDigit(i)
  BY <1>1, <1>3, <1>6 DEF KeyDigit, RefreshSeedPacketFromCursor
<1>7. ASSUME NEW c \in Coins, ClickSeed(c) PROVE cursor' \in Cursor
  <2>1. coins[c].mUsableSeedType \in Seeds \union {NoSeed}
    BY DEF IInv, TypeOK, Coin
  <2> QED BY <1>1, <1>7, <2>1 DEF ClickSeed, Cursor
<1>8. CASE ClickShovel \/ KeyShovel
  BY <1>1, <1>2, <1>8 DEF ClickShovel, KeyShovel
<1> QED BY <1>4, <1>5, <1>6, <1>7, <1>8, CursorChange

\* The coins have their type, and a free slot is clean.
CoinsOK ==
  /\ coins \in [Coins -> Coin]
  /\ \A c \in Coins : coins[c].mType = "free" => coins[c] = FreeCoin

\* The coins keep their type.
LEMMA CoinsTypeStep == IInv /\ [Next]_vars => CoinsOK'
<1> SUFFICES ASSUME IInv, [Next]_vars PROVE CoinsOK'
  OBVIOUS
<1>1. CoinsOK /\ SeedPutBack \in [Coins -> Coin]
  BY PutBackType DEF IInv, TypeOK, CoinsOK
<1>2. CASE UNCHANGED coins
  BY <1>1, <1>2 DEF CoinsOK
<1>3. CASE coins' = SeedPutBack
  <2>1. CASE cursor.mCursorType = "coin"
    <3> DEFINE k == cursor.mCoinID
    <3>1. k \in Coins /\ coins[k].mType = "seed"
      BY <2>1, CoinsAssumption DEF IInv, CoinInCursorLives, CursorNames
    <3>2. coins' = [coins EXCEPT ![k] = [@ EXCEPT !.mIsBeingCollected = FALSE]]
      BY <1>1, <1>3, <2>1, <3>1 DEF SeedPutBack, CoinsOK
    <3>3. [coins[k] EXCEPT !.mIsBeingCollected = FALSE].mType = "seed"
      BY <1>1, <3>1 DEF CoinsOK, Coin
    <3> QED BY <1>1, <1>3, <3>1, <3>2, <3>3 DEF CoinsOK
  <2>2. CASE cursor.mCursorType # "coin"
    BY <1>1, <1>3, <2>2 DEF CoinsOK, SeedPutBack
  <2> QED BY <2>1, <2>2
<1>4. ASSUME NEW c \in Coins, ClickSeed(c) \/ CollectSun(c) PROVE CoinsOK'
  BY <1>1, <1>4, CoinTypes DEF CoinsOK, ClickSeed, CollectSun
<1>5. CASE PlantSeed
  BY <1>1, <1>5, CoinTypes DEF CoinsOK, PlantSeed, IInv, CursorNames
<1>6. ASSUME NEW c \in Coins, DropCoin(c) PROVE CoinsOK'
  BY <1>1, <1>6, SMTT(30) DEF CoinsOK, DropCoin, Coin
<1>7. ASSUME NEW c \in Coins, StartFade(c) PROVE CoinsOK'
  BY <1>1, <1>7, ZenonT(40) DEF CoinsOK, StartFade, Coin
<1>8. ASSUME NEW c \in Coins, CoinFaded(c) \/ ScoreCoin(c) PROVE CoinsOK'
  BY <1>1, <1>8, CoinTypes DEF CoinsOK, CoinFaded, ScoreCoin
<1>9. CASE PuzzleNextStageClear
  <2>1. coins' = [c \in Coins |-> IF coins[c].mType = "seed" THEN FreeCoin
                                  ELSE IF coins[c].mType = "sun" THEN Collect(coins[c])
                                  ELSE coins[c]]
    BY <1>9 DEF PuzzleNextStageClear
  <2> QED BY <1>1, <2>1, CoinTypes, ZenonT(40) DEF CoinsOK, Collect, Coin
<1> QED BY <1>2, <1>3, <1>4, <1>5, <1>6, <1>7, <1>8, <1>9, CoinsChange

\* The variables keep their types.
LEMMA TypeStep == IInv /\ [Next]_vars => TypeOK'
<1> SUFFICES ASSUME IInv, [Next]_vars PROVE TypeOK'
  OBVIOUS
<1>1. mode' \in Modes /\ keybinds' \in BOOLEAN /\ onslaught' \in BOOLEAN /\ fadingOut' \in BOOLEAN
  BY LevelChange
  DEF IInv, TypeOK, StartOnslaught, LastStandCompletedStage, FadeOutLevel
<1>2. mSunMoney' \in Int /\ mSunMoney' <= MaxSun
  <2>1. CASE UNCHANGED mSunMoney
    BY <2>1 DEF IInv, TypeOK
  <2>2. CASE PlantPacket
    <3>1. Cost[cursor.mType] \in Nat
      BY <2>2, SeedsAssumption DEF PlantPacket, IInv, CursorNames
    <3> QED BY <2>2, <3>1, SunAssumption DEF PlantPacket, IInv, TypeOK
  <2>3. CASE \E c \in Coins : ScoreCoin(c)
    BY <2>3, SunAssumption DEF ScoreCoin, AddSunMoney, IInv, TypeOK
  <2> QED BY <2>1, <2>2, <2>3, SunChange
<1> QED BY <1>1, <1>2, PacketsTypeStep, CursorTypeStep, CoinsTypeStep DEF TypeOK, CoinsOK

-----------------------------------------------------------------------------
(* What the cursor names.                                                    *)

\* A packet that is taken is in the bank and shows its type.
LEMMA InCursorNames ==
  ASSUME NEW i \in Index
  PROVE  /\ InCursor(packets, i).mCursorType = "bank"
         /\ InCursor(packets, i).mSeedBankIndex = i
         /\ InCursor(packets, i).mType = packets[i].mPacketType
         /\ InCursor(packets, i).mCoinID = NoCoinID
BY DEF InCursor, ClearCursor

\* A cleared cursor names nothing.
LEMMA ClearCursorNames ==
  /\ ClearCursor.mCursorType = "normal"
  /\ ClearCursor.mSeedBankIndex = 0
  /\ ClearCursor.mCoinID = NoCoinID
BY DEF ClearCursor

\* The cursor goes on to name what its type says.
LEMMA CursorNamesStep == IInv /\ [Next]_vars => CursorNames'
<1> SUFFICES ASSUME IInv, [Next]_vars PROVE CursorNames'
  OBVIOUS
<1>1. UNCHANGED keybinds /\ cursor \in Cursor /\ packets \in [Index -> Packet]
  BY LevelChange DEF IInv, TypeOK
<1>2. CASE UNCHANGED cursor
  BY <1>1, <1>2 DEF IInv, CursorNames
<1>3. CASE cursor' = ClearCursor
  BY <1>1, <1>3, ClearCursorNames DEF CursorNames
<1>4. ASSUME NEW i \in Index, cursor' = InCursor(packets, i), packets[i].mPacketType # NoSeed
      PROVE  CursorNames'
  <2>1. packets[i].mPacketType \in Seeds
    BY <1>1, <1>4 DEF Packet
  <2> QED BY <1>1, <1>4, <2>1, InCursorNames DEF CursorNames
<1>5. CASE \E i \in Index : ClickPacket(i)
  BY <1>4, <1>5 DEF ClickPacket, CanPickUp
<1>6. CASE \E i \in Index : KeyDigit(i)
  BY <1>3, <1>4, <1>6 DEF KeyDigit, RefreshSeedPacketFromCursor
<1>7. CASE \E c \in Coins : ClickSeed(c)
  BY <1>1, <1>7, CoinsAssumption, ClearCursorNames
  DEF ClickSeed, MouseHits, IInv, CursorNames, Cursor
<1>8. ASSUME cursor' = [cursor EXCEPT !.mCursorType = "shovel"],
             cursor.mCursorType # "bank",
             keybinds \/ cursor = ClearCursor
      PROVE  CursorNames'
  BY <1>1, <1>8, ClearCursorNames DEF IInv, CursorNames, Cursor
<1>9. CASE ClickShovel
  BY <1>8, <1>9 DEF ClickShovel, MouseHits, IInv, CursorNames
<1>10. CASE KeyShovel
  <2>1. CASE cursor.mCursorType = "shovel"
    BY <1>3, <1>10, <2>1 DEF KeyShovel
  <2>2. CASE cursor.mCursorType = "bank"
    <3>1. cursor' = [ClearCursor EXCEPT !.mCursorType = "shovel"]
      BY <1>10, <2>2 DEF KeyShovel
    <3> QED BY <3>1 DEF CursorNames, ClearCursor
  <2>3. CASE cursor.mCursorType \notin {"shovel", "bank"}
    <3>1. cursor' = [cursor EXCEPT !.mCursorType = "shovel"] /\ keybinds
      BY <1>10, <2>3 DEF KeyShovel
    <3> QED BY <1>8, <2>3, <3>1
  <2> QED BY <2>1, <2>2, <2>3
<1> QED BY <1>2, <1>3, <1>5, <1>6, <1>7, <1>9, <1>10, CursorChange

-----------------------------------------------------------------------------
(* The coins.                                                                *)

\* A coin that is collected stops fading.
LEMMA CollectFacts ==
  \A coin \in Coin :
    /\ Collect(coin).mIsBeingCollected
    /\ ~Collect(coin).fading
    /\ Collect(coin).mType = coin.mType
BY DEF Collect, Coin

\* A free slot is neither collected nor fading.
LEMMA FreeCoinFacts ==
  FreeCoin.mType = "free" /\ ~FreeCoin.mIsBeingCollected /\ ~FreeCoin.fading
BY DEF FreeCoin

\* Putting a seed back only changes that seed, to one that is not collected.
LEMMA SeedPutBackFacts ==
  ASSUME IInv
  PROVE  \A c \in Coins :
           /\ SeedPutBack[c].mType = coins[c].mType
           /\ SeedPutBack[c].fading = coins[c].fading
           /\ SeedPutBack[c].mIsBeingCollected <=>
                /\ coins[c].mIsBeingCollected
                /\ ~(cursor.mCursorType = "coin" /\ cursor.mCoinID = c)
BY DEF IInv, TypeOK, CursorNames, SeedPutBack, Coin

\* What the end of a puzzle's stage does to each coin.
LEMMA PuzzleCoins ==
  ASSUME PuzzleNextStageClear, coins \in [Coins -> Coin]
  PROVE  \A c \in Coins :
           coins'[c] = IF coins[c].mType = "seed" THEN FreeCoin
                       ELSE IF coins[c].mType = "sun" THEN Collect(coins[c])
                       ELSE coins[c]
BY DEF PuzzleNextStageClear

\* A coin that is being collected does not begin to fade.
LEMMA CollectedStep == IInv /\ [Next]_vars => CollectedDoesNotFade'
<1> SUFFICES ASSUME IInv, [Next]_vars PROVE CollectedDoesNotFade'
  OBVIOUS
<1>1. coins \in [Coins -> Coin] /\ CollectedDoesNotFade
  BY DEF IInv, TypeOK
<1>2. CASE UNCHANGED coins
  BY <1>1, <1>2 DEF CollectedDoesNotFade
<1>3. CASE coins' = SeedPutBack
  BY <1>1, <1>3, SeedPutBackFacts DEF CollectedDoesNotFade
<1>4. ASSUME NEW c \in Coins, ClickSeed(c) \/ CollectSun(c) PROVE CollectedDoesNotFade'
  BY <1>1, <1>4, CollectFacts DEF CollectedDoesNotFade, ClickSeed, CollectSun
<1>5. CASE PlantSeed
  BY <1>1, <1>5, FreeCoinFacts DEF CollectedDoesNotFade, PlantSeed
<1>6. ASSUME NEW c \in Coins, DropCoin(c) PROVE CollectedDoesNotFade'
  BY <1>1, <1>6 DEF CollectedDoesNotFade, DropCoin, Coin
<1>7. ASSUME NEW c \in Coins, StartFade(c) PROVE CollectedDoesNotFade'
  BY <1>1, <1>7 DEF CollectedDoesNotFade, StartFade, Coin
<1>8. ASSUME NEW c \in Coins, CoinFaded(c) \/ ScoreCoin(c) PROVE CollectedDoesNotFade'
  BY <1>1, <1>8, FreeCoinFacts DEF CollectedDoesNotFade, CoinFaded, ScoreCoin
<1>9. CASE PuzzleNextStageClear
  BY <1>1, <1>9, PuzzleCoins, FreeCoinFacts, CollectFacts DEF CollectedDoesNotFade
<1> QED BY <1>2, <1>3, <1>4, <1>5, <1>6, <1>7, <1>8, <1>9, CoinsChange

-----------------------------------------------------------------------------
(* The coin in the cursor.                                                   *)

\* The cursor names the coin it named, or none, unless a seed is clicked.
LEMMA CoinIDChange ==
  ASSUME IInv, [Next]_vars
  PROVE  \/ cursor'.mCoinID = NoCoinID
         \/ cursor'.mCoinID = cursor.mCoinID
         \/ \E c \in Coins : ClickSeed(c)
<1>1. cursor \in Cursor
  BY DEF IInv, TypeOK
<1>2. [cursor EXCEPT !.mCursorType = "shovel"].mCoinID = cursor.mCoinID
  BY <1>1 DEF Cursor
<1>3. [ClearCursor EXCEPT !.mCursorType = "shovel"].mCoinID = NoCoinID
  BY DEF ClearCursor
<1>4. CASE UNCHANGED cursor \/ cursor' = ClearCursor
  BY <1>4, ClearCursorNames
<1>5. CASE \E i \in Index : ClickPacket(i)
  BY <1>5, InCursorNames DEF ClickPacket
<1>6. CASE \E i \in Index : KeyDigit(i)
  BY <1>6, InCursorNames, ClearCursorNames DEF KeyDigit, RefreshSeedPacketFromCursor
<1>7. CASE ClickShovel \/ KeyShovel
  BY <1>2, <1>3, <1>7, ClearCursorNames DEF ClickShovel, KeyShovel
<1> QED BY <1>4, <1>5, <1>6, <1>7, CursorChange

\* The coin in the cursor outlives every step that leaves it there.
LEMMA CoinInCursorStep == IInv /\ [Next]_vars => CoinInCursorLives'
<1> SUFFICES ASSUME IInv, [Next]_vars, cursor'.mCoinID # NoCoinID
             PROVE  LET k == cursor'.mCoinID
                    IN  /\ coins'[k].mType = "seed"
                        /\ coins'[k].mIsBeingCollected
                        /\ ~coins'[k].fading
  BY DEF CoinInCursorLives
<1> DEFINE k == cursor'.mCoinID
<1>1. coins \in [Coins -> Coin]
  BY DEF IInv, TypeOK
<1>2. ASSUME NEW c \in Coins, ClickSeed(c)
      PROVE  coins'[k].mType = "seed" /\ coins'[k].mIsBeingCollected /\ ~coins'[k].fading
  <2>1. k = c
    BY <1>2 DEF ClickSeed, IInv, TypeOK, Cursor
  <2>2. coins[c].mType = "seed" /\ coins'[c] = Collect(coins[c])
    BY <1>1, <1>2 DEF ClickSeed
  <2> QED BY <1>1, <2>1, <2>2, CollectFacts
<1>3. ASSUME k = cursor.mCoinID
      PROVE  coins'[k].mType = "seed" /\ coins'[k].mIsBeingCollected /\ ~coins'[k].fading
  <2>1. /\ k \in Coins
        /\ coins[k].mType = "seed" /\ coins[k].mIsBeingCollected /\ ~coins[k].fading
    BY <1>3 DEF IInv, TypeOK, Cursor, CoinInCursorLives
  <2>2. cursor' # ClearCursor
    BY ClearCursorNames
  <2>3. CASE UNCHANGED coins
    BY <2>1, <2>3
  <2>4. CASE \E c \in Coins : ClickSeed(c)
    BY <1>2, <2>4
  <2>5. ASSUME NEW c \in Coins, CollectSun(c) \/ DropCoin(c) \/ StartFade(c) \/ CoinFaded(c) \/ ScoreCoin(c)
        PROVE  coins'[k] = coins[k]
    <3>1. c # k
      BY <2>1, <2>5 DEF CollectSun, DropCoin, StartFade, CoinFaded, ScoreCoin, SunInFlight
    <3> QED BY <1>1, <2>1, <2>5, <3>1 DEF CollectSun, DropCoin, StartFade, CoinFaded, ScoreCoin
  <2>6. ~PlantSeed /\ ~PuzzleNextStageClear
    BY <2>2 DEF PlantSeed, PuzzleNextStageClear
  <2> QED BY <2>1, <2>2, <2>3, <2>4, <2>5, <2>6, CoinsChange
<1> QED BY <1>2, <1>3, CoinIDChange

\* What clears the cursor.
LEMMA CursorCleared ==
  ASSUME [Next]_vars, cursor' = ClearCursor
  PROVE  \/ UNCHANGED cursor
         \/ coins' = SeedPutBack
         \/ PlantPacket \/ PlantSeed \/ PuzzleNextStageClear
         \/ KeyShovel \/ \E i \in Index : ClickPacket(i) \/ KeyDigit(i)
         \/ ClickShovel \/ \E c \in Coins : ClickSeed(c)
<1>1. CASE UNCHANGED vars
  BY <1>1 DEF vars
<1>2. CASE Player
  BY <1>2 DEF Player, CollectSun, PutBack, RefreshSeedPacketFromCursor
<1>3. CASE Frame
  BY <1>3 DEF Frame, PacketRefreshed, AddSeed, DropCoin, StartFade, CoinFaded, ScoreCoin
<1>4. CASE Stage
  BY <1>4 DEF Stage, StartOnslaught, LastStandCompletedStage, InitSurvivalStage, FadeOutLevel,
              RefreshSeedPacketFromCursor
<1> QED BY <1>1, <1>2, <1>3, <1>4 DEF Next

\* Without the keys of the bank, a step that leaves a seed in the cursor alone, or
\* has none to leave, changes no seed that is being collected.
LEMMA SeedsStep == IInv /\ [Next]_vars => SeedsAccountedFor'
<1> SUFFICES ASSUME IInv, [Next]_vars, ~keybinds', NEW k \in Coins
             PROVE  coins'[k].mType = "seed" /\ coins'[k].mIsBeingCollected <=>
                      cursor'.mCursorType = "coin" /\ cursor'.mCoinID = k
  BY DEF SeedsAccountedFor
<1> DEFINE Taken  == coins[k].mType = "seed" /\ coins[k].mIsBeingCollected
           Named  == cursor.mCursorType = "coin" /\ cursor.mCoinID = k
           Taken1 == coins'[k].mType = "seed" /\ coins'[k].mIsBeingCollected
           Named1 == cursor'.mCursorType = "coin" /\ cursor'.mCoinID = k
<1>1. /\ coins \in [Coins -> Coin] /\ cursor \in Cursor
      /\ ~keybinds
      /\ Taken <=> Named
  BY LevelChange DEF IInv, TypeOK, SeedsAccountedFor
<1>2. ASSUME NEW c \in Coins, ClickSeed(c) PROVE Taken1 <=> Named1
  <2>1. /\ coins' = [coins EXCEPT ![c] = Collect(@)]
        /\ coins[c].mType = "seed"
        /\ cursor'.mCursorType = "coin" /\ cursor'.mCoinID = c
        /\ cursor.mCursorType = "normal"
    BY <1>1, <1>2 DEF ClickSeed, MouseHits, Cursor
  <2>2. CASE c = k
    BY <1>1, <2>1, <2>2, CollectFacts
  <2>3. CASE c # k
    BY <1>1, <2>1, <2>3
  <2> QED BY <2>2, <2>3
<1>3. CASE coins' = SeedPutBack /\ cursor' = ClearCursor
  BY <1>1, <1>3, SeedPutBackFacts, ClearCursorNames
<1>4. CASE PlantSeed
  BY <1>1, <1>4, FreeCoinFacts, ClearCursorNames DEF PlantSeed
<1>5. CASE PuzzleNextStageClear
  <2>1. coins'[k].mType # "seed"
    BY <1>1, <1>5, PuzzleCoins, FreeCoinFacts, CollectFacts
  <2>2. cursor' = ClearCursor
    BY <1>5 DEF PuzzleNextStageClear
  <2> QED BY <2>1, <2>2, ClearCursorNames
<1>6. ASSUME UNCHANGED coins, ~\E c \in Coins : ClickSeed(c)
      PROVE  Taken1 <=> Named1
  \* Nothing that clears the cursor or fills it may do so while a seed is in it.
  <2>1. CASE UNCHANGED cursor
    BY <1>1, <1>6, <2>1
  <2>2. CASE \E i \in Index : ClickPacket(i)
    BY <1>1, <1>6, <2>2, InCursorNames DEF ClickPacket, MouseHits
  <2>3. CASE ClickShovel
    BY <1>1, <1>6, <2>3 DEF ClickShovel, MouseHits, Cursor
  <2>4. ~KeyShovel /\ ~\E i \in Index : KeyDigit(i)
    BY <1>1 DEF KeyShovel, KeyDigit
  <2>5. CASE cursor' = ClearCursor
    <3>1. CASE coins' = SeedPutBack
      BY <1>3, <2>5, <3>1
    <3>2. CASE cursor.mCursorType # "coin"
      BY <1>1, <1>6, <2>5, <3>2, ClearCursorNames
    <3>3. CASE PlantPacket
      BY <3>2, <3>3 DEF PlantPacket
    <3> QED
      BY <1>4, <1>5, <1>6, <2>1, <2>2, <2>3, <2>4, <2>5, <3>1, <3>3, CursorCleared
  <2> QED BY <1>6, <2>1, <2>2, <2>3, <2>4, <2>5, CursorChange
<1>7. ASSUME NEW c \in Coins, CollectSun(c) \/ DropCoin(c) \/ StartFade(c) \/ CoinFaded(c) \/ ScoreCoin(c)
      PROVE  Taken1 <=> Named1
  <2>1. UNCHANGED cursor
    BY <1>7 DEF CollectSun, DropCoin, StartFade, CoinFaded, ScoreCoin
  <2>2. CASE CollectSun(c)
    BY <1>1, <2>1, <2>2, CollectFacts DEF CollectSun
  <2>3. CASE DropCoin(c)
    <3>1. ~coins[c].mIsBeingCollected
      BY <2>3, FreeCoinFacts DEF DropCoin, IInv, TypeOK
    <3>2. ~Taken1 \/ c # k
      BY <1>1, <2>3, <3>1 DEF DropCoin, Coin
    <3> QED BY <1>1, <2>1, <2>3, <3>1, <3>2 DEF DropCoin
  <2>4. CASE StartFade(c)
    BY <1>1, <2>1, <2>4 DEF StartFade, Coin
  <2>5. CASE CoinFaded(c) \/ ScoreCoin(c)
    BY <1>1, <2>1, <2>5, FreeCoinFacts
    DEF CoinFaded, ScoreCoin, SunInFlight, IInv, CollectedDoesNotFade
  <2> QED BY <1>7, <2>2, <2>3, <2>4, <2>5
<1> QED BY <1>2, <1>3, <1>4, <1>5, <1>6, <1>7, CoinsChange

-----------------------------------------------------------------------------
(* The packets.                                                              *)

\* Putting the packet back only makes it active.
LEMMA PacketPutBackFacts ==
  ASSUME IInv
  PROVE  \A i \in Index :
           /\ PacketPutBack[i].mPacketType = packets[i].mPacketType
           /\ PacketPutBack[i].mActive \/ PacketPutBack[i].mRefreshing
           /\ i # cursor.mSeedBankIndex => PacketPutBack[i] = packets[i]
<1>1. packets \in [Index -> Packet] /\ PacketsAccountedFor
  BY DEF IInv, TypeOK
<1>2. CASE cursor.mCursorType = "bank"
  <2> DEFINE k == cursor.mSeedBankIndex
  <2>1. k \in Index /\ PacketPutBack = [packets EXCEPT ![k] = [@ EXCEPT !.mActive = TRUE]]
    BY <1>1, <1>2 DEF IInv, CursorNames, PacketPutBack
  <2> QED BY <1>1, <2>1 DEF PacketsAccountedFor, Packet
<1>3. CASE cursor.mCursorType # "bank"
  BY <1>1, <1>3 DEF PacketPutBack, PacketsAccountedFor
<1> QED BY <1>2, <1>3

\* What a step does to the packets and the cursor together.
LEMMA PacketsAndCursor ==
  ASSUME IInv, [Next]_vars
  PROVE  \/ UNCHANGED <<packets, cursor>>
         \/ UNCHANGED packets /\ cursor.mCursorType # "bank" /\ cursor'.mCursorType # "bank"
         \/ packets' = PacketPutBack /\ cursor'.mCursorType # "bank"
         \/ \E i \in Index : /\ packets[i].mPacketType # NoSeed
                             /\ packets' = [PacketPutBack EXCEPT ![i] = Deactivated(@)]
                             /\ cursor' = InCursor(packets, i)
         \/ PlantPacket
         \/ \E i \in Index : PacketRefreshed(i)
         \/ \E s \in Seeds : AddSeed(s)
         \/ LastStandCompletedStage \/ InitSurvivalStage
<1>1. cursor \in Cursor /\ ClearCursor.mCursorType = "normal"
  BY ClearCursorNames DEF IInv, TypeOK
<1>2. CASE UNCHANGED vars
  BY <1>2 DEF vars
<1>3. CASE \E i \in Index : ClickPacket(i)
  BY <1>3 DEF ClickPacket, MouseHits, CanPickUp, PacketPutBack
<1>4. ASSUME NEW i \in Index, KeyDigit(i)
      PROVE  \/ packets' = PacketPutBack /\ cursor'.mCursorType # "bank"
             \/ /\ packets[i].mPacketType # NoSeed
                /\ packets' = [PacketPutBack EXCEPT ![i] = Deactivated(@)]
                /\ cursor' = InCursor(packets, i)
  BY <1>1, <1>4 DEF KeyDigit, RefreshSeedPacketFromCursor
<1>5. CASE \E c \in Coins : ClickSeed(c)
  BY <1>1, <1>5 DEF ClickSeed, MouseHits, Cursor
<1>6. CASE ClickShovel
  BY <1>1, <1>6 DEF ClickShovel, MouseHits, Cursor
<1>7. CASE KeyShovel
  <2>1. cursor'.mCursorType # "bank"
    <3>1. [cursor EXCEPT !.mCursorType = "shovel"].mCursorType = "shovel"
      BY <1>1 DEF Cursor
    <3>2. [ClearCursor EXCEPT !.mCursorType = "shovel"].mCursorType = "shovel"
      BY DEF ClearCursor
    <3> QED BY <1>1, <1>7, <3>1, <3>2 DEF KeyShovel
  <2> QED BY <1>7, <2>1 DEF KeyShovel
<1>8. CASE PutBack \/ FadeOutLevel \/ PuzzleNextStageClear
  BY <1>1, <1>8 DEF PutBack, FadeOutLevel, PuzzleNextStageClear, RefreshSeedPacketFromCursor
<1>9. CASE PlantSeed
  BY <1>1, <1>9 DEF PlantSeed
<1>10. CASE StartOnslaught \/ \E c \in Coins : CollectSun(c) \/ DropCoin(c) \/ StartFade(c) \/ CoinFaded(c) \/ ScoreCoin(c)
  BY <1>10 DEF StartOnslaught, CollectSun, DropCoin, StartFade, CoinFaded, ScoreCoin
<1> QED
  BY <1>2, <1>3, <1>4, <1>5, <1>6, <1>7, <1>8, <1>9, <1>10 DEF Next, Player, Frame, Stage

\* The packet in the cursor is planted: no packet is left that cannot be taken.
LEMMA WasPlantedFacts ==
  ASSUME IInv, cursor.mCursorType = "bank"
  PROVE  \A j \in Index : WasPlanted(cursor.mSeedBankIndex)[j].mActive
                       \/ WasPlanted(cursor.mSeedBankIndex)[j].mRefreshing
<1> DEFINE k == cursor.mSeedBankIndex
<1>1. /\ packets \in [Index -> Packet]
      /\ k \in Index
      /\ packets[k].mPacketType = cursor.mType /\ cursor.mType # NoSeed
      /\ \A j \in Index : j # k => packets[j].mActive \/ packets[j].mRefreshing
  BY SeedsAssumption DEF IInv, TypeOK, CursorNames, PacketsAccountedFor
<1>2. ASSUME NEW j \in Index
      PROVE  RemoveSeed(packets, k)[j].mActive \/ RemoveSeed(packets, k)[j].mRefreshing
  <2>1. CASE j < k \/ packets[j].mPacketType = NoSeed
    <3>1. j # k
      BY <1>1, <2>1, NumPacketsAssumption DEF Index
    <3>2. RemoveSeed(packets, k)[j] = packets[j]
      BY <2>1 DEF RemoveSeed
    <3> QED BY <1>1, <3>1, <3>2
  <2>2. CASE ~(j < k \/ packets[j].mPacketType = NoSeed)
    BY <2>2 DEF RemoveSeed, EmptyPacket, ReadyPacket
  <2> QED BY <2>1, <2>2
<1>3. \A j \in Index : [packets EXCEPT ![k].mActive = TRUE][j].mActive
                    \/ [packets EXCEPT ![k].mActive = TRUE][j].mRefreshing
  BY <1>1 DEF Packet
<1>4. \A j \in Index : [packets EXCEPT ![k].mRefreshing = TRUE][j].mActive
                    \/ [packets EXCEPT ![k].mRefreshing = TRUE][j].mRefreshing
  BY <1>1 DEF Packet
<1> QED BY <1>2, <1>3, <1>4 DEF WasPlanted

\* Every step keeps the packets and the cursor in step.
LEMMA PacketsStep == IInv /\ [Next]_vars => PacketsAccountedFor'
<1> SUFFICES ASSUME IInv, [Next]_vars PROVE PacketsAccountedFor'
  OBVIOUS
<1>1. /\ packets \in [Index -> Packet] /\ cursor \in Cursor
      /\ PacketsAccountedFor
  BY DEF IInv, TypeOK
<1>2. ASSUME \A i \in Index : packets'[i].mActive \/ packets'[i].mRefreshing,
             cursor'.mCursorType # "bank"
      PROVE  PacketsAccountedFor'
  BY <1>2 DEF PacketsAccountedFor
<1>3. CASE UNCHANGED <<packets, cursor>>
  BY <1>1, <1>3 DEF PacketsAccountedFor
<1>4. CASE UNCHANGED packets /\ cursor.mCursorType # "bank" /\ cursor'.mCursorType # "bank"
  BY <1>1, <1>2, <1>4 DEF PacketsAccountedFor
<1>5. CASE packets' = PacketPutBack /\ cursor'.mCursorType # "bank"
  BY <1>2, <1>5, PacketPutBackFacts
<1>6. ASSUME NEW i \in Index,
             packets' = [PacketPutBack EXCEPT ![i] = Deactivated(@)],
             cursor' = InCursor(packets, i)
      PROVE  PacketsAccountedFor'
  <2>1. PacketPutBack \in [Index -> Packet]
    BY PutBackType
  <2> QED BY <1>6, <2>1, PacketPutBackFacts, DeactivatedType, InCursorNames
    DEF PacketsAccountedFor
<1>7. CASE PlantPacket
  BY <1>2, <1>7, WasPlantedFacts, ClearCursorNames DEF PlantPacket
<1>8. ASSUME NEW i \in Index, PacketRefreshed(i) PROVE PacketsAccountedFor'
  BY <1>1, <1>8 DEF PacketRefreshed, PacketsAccountedFor, Packet
<1>9. ASSUME NEW s \in Seeds, AddSeed(s) PROVE PacketsAccountedFor'
  <2>1. PICK n \in Index : /\ packets[n].mPacketType = NoSeed
                           /\ packets' = [packets EXCEPT ![n] = ReadyPacket(s)]
    BY <1>9 DEF AddSeed
  <2>2. ~(cursor.mCursorType = "bank" /\ cursor.mSeedBankIndex = n)
    BY <1>1, <2>1, SeedsAssumption DEF PacketsAccountedFor, IInv, CursorNames
  <2>3. ReadyPacket(s).mActive /\ UNCHANGED cursor
    BY <1>9, ReadyPacketType DEF AddSeed
  <2> QED BY <1>1, <2>1, <2>2, <2>3 DEF PacketsAccountedFor
<1>10. CASE LastStandCompletedStage
  <2>1. /\ UNCHANGED cursor
        /\ \A i \in Index : packets'[i] = IF packets[i].mRefreshing
             THEN [packets[i] EXCEPT !.mActive = TRUE, !.mRefreshing = FALSE]
             ELSE packets[i]
    BY <1>10 DEF LastStandCompletedStage, RefreshAllPackets
  <2> QED BY <1>1, <2>1, ZenonT(40) DEF PacketsAccountedFor, Packet
<1>11. CASE InitSurvivalStage
  BY <1>2, <1>11, ChosenPacketsType, ClearCursorNames DEF InitSurvivalStage
<1> QED
  BY <1>3, <1>4, <1>5, <1>6, <1>7, <1>8, <1>9, <1>10, <1>11, PacketsAndCursor

\* What a belt shows after a seed is removed from it.
LEMMA RemoveSeedTypes ==
  ASSUME NEW belt \in [Index -> Packet], NEW k \in Index, NEW n \in Index
  PROVE  RemoveSeed(belt, k)[n].mPacketType =
           IF n < k \/ belt[n].mPacketType = NoSeed THEN belt[n].mPacketType
           ELSE IF n = NumPackets THEN NoSeed
           ELSE belt[n + 1].mPacketType
<1>1. n # NumPackets => n + 1 \in Index
  BY NumPacketsAssumption DEF Index
<1>2. n # NumPackets => belt[n + 1].mPacketType \in Seeds \union {NoSeed}
  BY <1>1 DEF Packet
<1> QED BY <1>2, ReadyPacketType DEF RemoveSeed, EmptyPacket

NoGap(belt) ==
  \A i, j \in Index : i < j /\ belt[i].mPacketType = NoSeed => belt[j].mPacketType = NoSeed

\* A belt without a gap has none after a seed is removed: the packets behind move up.
LEMMA RemoveSeedNoGap ==
  ASSUME NEW belt \in [Index -> Packet], NEW k \in Index, NoGap(belt)
  PROVE  NoGap(RemoveSeed(belt, k))
<1> DEFINE new == RemoveSeed(belt, k)
<1> SUFFICES ASSUME NEW i \in Index, NEW j \in Index, i < j, new[i].mPacketType = NoSeed
             PROVE  new[j].mPacketType = NoSeed
  BY DEF NoGap
<1>1. ASSUME NEW n \in Index
      PROVE  new[n].mPacketType = IF n < k \/ belt[n].mPacketType = NoSeed THEN belt[n].mPacketType
                                  ELSE IF n = NumPackets THEN NoSeed
                                  ELSE belt[n + 1].mPacketType
  BY RemoveSeedTypes
<1> HIDE DEF new
<1>2. i \in Nat /\ j \in Nat /\ k \in Nat /\ j <= NumPackets /\ NumPackets \in Nat
  BY NumPacketsAssumption DEF Index
<1>3. CASE belt[i].mPacketType = NoSeed
  <2>1. belt[j].mPacketType = NoSeed
    BY <1>3 DEF NoGap
  <2> QED BY <1>1, <2>1
<1>4. CASE belt[i].mPacketType # NoSeed
  <2>1. i >= k /\ i # NumPackets /\ belt[i + 1].mPacketType = NoSeed /\ i + 1 \in Index
    <3>1. i >= k
      BY <1>1, <1>2, <1>4
    <3>2. i # NumPackets
      BY <1>2
    <3> QED BY <1>1, <1>2, <1>4, <3>1, <3>2 DEF Index
  <2>2. belt[j].mPacketType = NoSeed
    BY <1>2, <2>1 DEF NoGap
  <2> QED BY <1>1, <2>2
<1> QED BY <1>3, <1>4

\* What a step does to a belt: nothing that shows, one seed more behind the last, or one
\* that is planted less.
LEMMA BeltChange ==
  ASSUME IInv, [Next]_vars, mode = "Conveyor"
  PROVE  \/ /\ \A n \in Index : packets'[n].mPacketType = packets[n].mPacketType
            /\ ~PlantPacket
         \/ /\ ~PlantPacket
            /\ \E n \in Index :
                 /\ packets[n].mPacketType = NoSeed /\ packets'[n].mPacketType # NoSeed
                 /\ \A m \in 1..n - 1 : packets[m].mPacketType # NoSeed
                 /\ \A m \in Index \ {n} : packets'[m].mPacketType = packets[m].mPacketType
         \/ /\ PlantPacket
            /\ cursor.mSeedBankIndex \in Index /\ cursor.mType # NoSeed
            /\ packets[cursor.mSeedBankIndex].mPacketType = cursor.mType
            /\ packets' = RemoveSeed(packets, cursor.mSeedBankIndex)
<1> DEFINE Same == \A n \in Index : packets'[n].mPacketType = packets[n].mPacketType
<1>1. packets \in [Index -> Packet]
  BY DEF IInv, TypeOK
<1>2. CASE PlantPacket
  BY <1>2, SeedsAssumption
  DEF PlantPacket, WasPlanted, HasConveyorBeltSeedBank, IInv, CursorNames, PacketsAccountedFor
<1>3. ASSUME ~PlantPacket, packets' = PacketPutBack PROVE Same
  BY <1>3, PacketPutBackFacts
<1>4. ASSUME NEW n \in Index, packets' = [PacketPutBack EXCEPT ![n] = Deactivated(@)] PROVE Same
  BY <1>4, PutBackType, PacketPutBackFacts, DeactivatedType
<1>5. ASSUME NEW n \in Index, PacketRefreshed(n) PROVE Same
  BY <1>1, <1>5 DEF PacketRefreshed, Packet
<1>6. ASSUME NEW s \in Seeds, AddSeed(s)
      PROVE  \E n \in Index :
               /\ packets[n].mPacketType = NoSeed /\ packets'[n].mPacketType # NoSeed
               /\ \A m \in 1..n - 1 : packets[m].mPacketType # NoSeed
               /\ \A m \in Index \ {n} : packets'[m].mPacketType = packets[m].mPacketType
  <2>1. PICK n \in Index :
          /\ packets[n].mPacketType = NoSeed
          /\ \A m \in 1..n - 1 : packets[m].mPacketType # NoSeed
          /\ packets' = [packets EXCEPT ![n] = ReadyPacket(s)]
    BY <1>6 DEF AddSeed
  <2>2. ReadyPacket(s).mPacketType # NoSeed
    BY ReadyPacketType, SeedsAssumption
  <2> QED BY <1>1, <2>1, <2>2
<1>7. LastStandCompletedStage => Same
  BY <1>1 DEF LastStandCompletedStage, RefreshAllPackets, Packet
<1>8. ~InitSurvivalStage
  BY DEF InitSurvivalStage
<1> QED BY <1>2, <1>3, <1>4, <1>5, <1>6, <1>7, <1>8, PacketsAndCursor

\* Every step leaves the belt without a gap.
LEMMA BeltStep == IInv /\ [Next]_vars => BeltHasNoGap'
<1> SUFFICES ASSUME IInv, [Next]_vars, mode = "Conveyor" PROVE NoGap(packets')
  BY LevelChange DEF BeltHasNoGap, HasConveyorBeltSeedBank, NoGap
<1>1. packets \in [Index -> Packet] /\ NoGap(packets)
  BY DEF IInv, TypeOK, BeltHasNoGap, HasConveyorBeltSeedBank, NoGap
<1>2. CASE \A n \in Index : packets'[n].mPacketType = packets[n].mPacketType
  BY <1>1, <1>2 DEF NoGap
<1>3. ASSUME NEW n \in Index,
             packets[n].mPacketType = NoSeed, packets'[n].mPacketType # NoSeed,
             \A m \in 1..n - 1 : packets[m].mPacketType # NoSeed,
             \A m \in Index \ {n} : packets'[m].mPacketType = packets[m].mPacketType
      PROVE  NoGap(packets')
  <2> SUFFICES ASSUME NEW i \in Index, NEW j \in Index, i < j, packets'[i].mPacketType = NoSeed
               PROVE  packets'[j].mPacketType = NoSeed
    BY DEF NoGap
  <2>1. i # n /\ packets[i].mPacketType = NoSeed
    BY <1>3
  <2>2. ~(i < n)
    BY <1>3, <2>1, NumPacketsAssumption DEF Index
  <2>3. j # n /\ i \in Nat /\ j \in Nat /\ n \in Nat
    BY <2>2, NumPacketsAssumption DEF Index
  <2> QED BY <1>1, <1>3, <2>1, <2>3 DEF NoGap
<1>4. CASE /\ cursor.mSeedBankIndex \in Index
           /\ packets' = RemoveSeed(packets, cursor.mSeedBankIndex)
  BY <1>1, <1>4, RemoveSeedNoGap
<1> QED BY <1>2, <1>3, <1>4, BeltChange

-----------------------------------------------------------------------------
(* The invariant.                                                            *)

\* Every step keeps the invariant.
LEMMA IInvStep == IInv /\ [Next]_vars => IInv'
BY TypeStep, CursorNamesStep, PacketsStep, BeltStep, CollectedStep, SeedsStep, CoinInCursorStep
DEF IInv

\* The invariant holds throughout.
LEMMA InvariantHolds == Spec => []IInv
<1> QED BY InitIInv, IInvStep, PTL DEF Spec

\* The variables keep their types, whatever the player does.
THEOREM TypeCorrect == Spec => []TypeOK
<1>1. IInv => TypeOK
  BY DEF IInv
<1> QED BY <1>1, InvariantHolds, PTL

\* A packet that can neither be taken nor is on its way to it is the one in the
\* cursor, for every bank and belt.
THEOREM PacketsAlwaysAccountedFor == Spec => []PacketsAccountedFor
<1>1. IInv => PacketsAccountedFor
  BY DEF IInv
<1> QED BY <1>1, InvariantHolds, PTL

\* A belt never has a gap.
THEOREM BeltNeverHasGap == Spec => []BeltHasNoGap
<1>1. IInv => BeltHasNoGap
  BY DEF IInv
<1> QED BY <1>1, InvariantHolds, PTL

\* Without the keys of the bank every seed on the lawn can be picked up again.
THEOREM SeedsAlwaysAccountedFor == Spec => []SeedsAccountedFor
<1>1. IInv => SeedsAccountedFor
  BY DEF IInv
<1> QED BY <1>1, InvariantHolds, PTL

\* The coin the cursor names is always there, with the keys of the bank as well.
THEOREM CoinInCursorAlwaysLives == Spec => []CoinInCursorLives
<1>1. IInv => CoinInCursorLives
  BY DEF IInv
<1> QED BY <1>1, InvariantHolds, PTL

-----------------------------------------------------------------------------
(* The sun, counted with what is still flying to the counter.                *)

Flight == {c \in Coins : SunInFlight(c)}

\* Only so many suns fly.
LEMMA FlightFinite == IsFiniteSet(Flight) /\ Cardinality(Flight) \in Nat
<1>1. IsFiniteSet(Flight)
  BY CoinsAssumption, FS_Subset DEF Flight
<1> QED BY <1>1, FS_CardinalityType

\* A sun that is flying goes on until it arrives, and only one arrives in a step.
LEMMA FlightChange ==
  ASSUME IInv, [Next]_vars
  PROVE  \/ Flight \subseteq Flight'
         \/ \E c \in Flight : ScoreCoin(c) /\ Flight' = Flight \ {c}
<1>1. coins \in [Coins -> Coin]
  BY DEF IInv, TypeOK
<1>2. CASE UNCHANGED coins
  BY <1>2 DEF Flight, SunInFlight
<1>3. CASE coins' = SeedPutBack
  <2>1. ASSUME NEW c \in Flight PROVE c \in Flight'
    <3>1. ~(cursor.mCursorType = "coin" /\ cursor.mCoinID = c)
      BY <2>1, CoinsAssumption DEF Flight, SunInFlight, IInv, CoinInCursorLives
    <3> QED BY <1>3, <2>1, <3>1, SeedPutBackFacts DEF Flight, SunInFlight
  <2> QED BY <2>1
<1>4. ASSUME NEW c \in Coins, ClickSeed(c) \/ CollectSun(c) PROVE Flight \subseteq Flight'
  BY <1>1, <1>4, CollectFacts DEF Flight, SunInFlight, ClickSeed, CollectSun
<1>5. CASE PlantSeed
  <2>1. coins[cursor.mCoinID].mType = "seed"
    BY <1>5, CoinsAssumption DEF PlantSeed, IInv, CursorNames, CoinInCursorLives
  <2> QED BY <1>1, <1>5, <2>1 DEF Flight, SunInFlight, PlantSeed
<1>6. ASSUME NEW c \in Coins, DropCoin(c) PROVE Flight \subseteq Flight'
  BY <1>1, <1>6 DEF Flight, SunInFlight, DropCoin
<1>7. ASSUME NEW c \in Coins, StartFade(c) PROVE Flight \subseteq Flight'
  BY <1>1, <1>7 DEF Flight, SunInFlight, StartFade
<1>8. ASSUME NEW c \in Coins, CoinFaded(c) PROVE Flight \subseteq Flight'
  BY <1>1, <1>8 DEF Flight, SunInFlight, CoinFaded, IInv, CollectedDoesNotFade
<1>9. ASSUME NEW c \in Coins, ScoreCoin(c) PROVE c \in Flight /\ Flight' = Flight \ {c}
  BY <1>1, <1>9, FreeCoinFacts DEF Flight, SunInFlight, ScoreCoin
<1>10. CASE PuzzleNextStageClear
  BY <1>1, <1>10, PuzzleCoins, CollectFacts DEF Flight, SunInFlight
<1> QED BY <1>2, <1>3, <1>4, <1>5, <1>6, <1>7, <1>8, <1>9, <1>10, CoinsChange

\* The number of suns that fly.
LEMMA CountChange ==
  ASSUME IInv, [Next]_vars
  PROVE  LET n == Cardinality(Flight)
         IN  /\ n \in Nat /\ n' \in Nat
             /\ \/ n' >= n
                \/ n' = n - 1 /\ \E c \in Coins : ScoreCoin(c)
<1>1. IsFiniteSet(Flight) /\ Cardinality(Flight) \in Nat
  BY FlightFinite
<1>2. IsFiniteSet(Flight') /\ Cardinality(Flight') \in Nat
  <2>1. IsFiniteSet(Flight')
    BY CoinsAssumption, FS_Subset DEF Flight
  <2> QED BY <2>1, FS_CardinalityType
<1>3. CASE Flight \subseteq Flight'
  BY <1>1, <1>2, <1>3, FS_Subset
<1>4. ASSUME NEW c \in Flight, ScoreCoin(c), Flight' = Flight \ {c}
      PROVE  Cardinality(Flight') = Cardinality(Flight) - 1 /\ c \in Coins
  BY <1>1, <1>4, FS_RemoveElement DEF Flight
<1> QED BY <1>1, <1>2, <1>3, <1>4, FlightChange

\* What the player has or is about to have only shrinks by what he plants, and by
\* what the counter cannot hold.
LEMMA BalanceChange ==
  ASSUME IInv, [Next]_vars, ~PlantPacket
  PROVE  LET balance == mSunMoney + CountSunBeingCollected
         IN  balance' >= balance \/ balance' >= MaxSun
<1> DEFINE n == Cardinality(Flight)
           n1 == Cardinality(Flight')
<1>1. n \in Nat /\ n1 \in Nat /\ (n1 >= n \/ (n1 = n - 1 /\ \E c \in Coins : ScoreCoin(c)))
  BY CountChange
<1>2. CountSunBeingCollected = SunValue * n /\ CountSunBeingCollected' = SunValue * n1
  BY DEF CountSunBeingCollected, Flight
<1>3. mSunMoney \in Int /\ SunValue \in Nat /\ MaxSun \in Nat
  BY SunAssumption DEF IInv, TypeOK
<1> HIDE DEF n, n1
<1>4. SunValue * n \in Nat /\ SunValue * n1 \in Nat
  BY <1>1, <1>3
<1>5. ASSUME n1 >= n PROVE SunValue * n1 >= SunValue * n
  BY <1>1, <1>3, <1>5
<1>6. ASSUME n1 = n - 1 PROVE SunValue * n1 = SunValue * n - SunValue
  BY <1>1, <1>3, <1>6
<1>7. CASE UNCHANGED mSunMoney /\ n1 >= n
  BY <1>2, <1>3, <1>4, <1>5, <1>7
<1>8. CASE \E c \in Coins : ScoreCoin(c)
  <2>1. mSunMoney' = IF mSunMoney + SunValue > MaxSun THEN MaxSun ELSE mSunMoney + SunValue
    BY <1>8 DEF ScoreCoin, AddSunMoney
  <2>2. n1 >= n \/ n1 = n - 1
    BY <1>1
  <2> QED BY <1>2, <1>3, <1>4, <1>5, <1>6, <2>1, <2>2
<1> QED BY <1>1, <1>7, <1>8, SunChange

SunInv == SunNeverOwed /\ HeldPlantAffordable

\* Every step keeps what the player spends within what he has.
LEMMA SunStep == IInv /\ SunInv /\ [Next]_vars => SunInv'
<1> SUFFICES ASSUME IInv, SunInv, [Next]_vars PROVE SunInv'
  OBVIOUS
<1> DEFINE balance == mSunMoney + CountSunBeingCollected
<1>1. balance \in Int /\ balance' \in Int /\ MaxSun \in Nat
  <2>1. Cardinality(Flight) \in Nat /\ Cardinality(Flight') \in Nat
    BY CountChange
  <2>2. CountSunBeingCollected \in Int /\ CountSunBeingCollected' \in Int
    BY <2>1, SunAssumption DEF CountSunBeingCollected, Flight
  <2>3. mSunMoney \in Int /\ mSunMoney' \in Int
    BY TypeStep DEF IInv, TypeOK
  <2> QED BY <2>2, <2>3, SunAssumption
<1>2. \A s \in Seeds : Cost[s] \in Nat /\ Cost[s] <= MaxSun
  BY SeedsAssumption, SunAssumption
<1>3. balance >= 0
  BY DEF SunInv, SunNeverOwed
<1>4. CASE PlantPacket
  <2>1. UNCHANGED CountSunBeingCollected
    BY <1>4 DEF PlantPacket, CountSunBeingCollected, SunInFlight
  <2>2. CASE HasConveyorBeltSeedBank
    BY <1>4, <1>1, <1>3, <2>1, <2>2, ClearCursorNames
    DEF PlantPacket, SunInv, SunNeverOwed, HeldPlantAffordable
  <2>3. CASE ~HasConveyorBeltSeedBank
    <3>1. Cost[cursor.mType] <= balance /\ mSunMoney' = mSunMoney - Cost[cursor.mType]
      BY <1>4, <2>3 DEF PlantPacket, CanTakeSunMoney
    <3>2. Cost[cursor.mType] \in Nat
      BY <1>2, <1>4 DEF PlantPacket, IInv, CursorNames
    <3>3. mSunMoney \in Int /\ CountSunBeingCollected \in Int
      <4>1. Cardinality(Flight) \in Nat
        BY FlightFinite
      <4> QED BY <4>1, SunAssumption DEF IInv, TypeOK, CountSunBeingCollected, Flight
    <3>4. balance' >= 0
      BY <2>1, <3>1, <3>2, <3>3
    <3> QED BY <1>4, <3>4, ClearCursorNames
      DEF PlantPacket, SunInv, SunNeverOwed, HeldPlantAffordable
  <2> QED BY <2>2, <2>3
<1>5. CASE ~PlantPacket
  <2>1. balance' >= balance \/ balance' >= MaxSun
    BY <1>5, BalanceChange
  <2>2. SunNeverOwed'
    <3>1. balance' >= 0
      BY <1>1, <1>3, <2>1
    <3> QED BY <3>1 DEF SunNeverOwed
  <2>3. HeldPlantAffordable'
    <3> SUFFICES ASSUME cursor'.mCursorType = "bank", ~HasConveyorBeltSeedBank
                 PROVE  Cost[cursor'.mType] <= balance'
      BY LevelChange DEF HeldPlantAffordable, HasConveyorBeltSeedBank, CanTakeSunMoney
    <3>1. cursor'.mType \in Seeds
      BY CursorNamesStep DEF CursorNames
    <3>2. Cost[cursor'.mType] <= balance
      <4>1. CASE UNCHANGED cursor
        BY <4>1 DEF SunInv, HeldPlantAffordable, CanTakeSunMoney
      <4>2. ASSUME NEW i \in Index, ClickPacket(i) PROVE Cost[cursor'.mType] <= balance
        BY <4>2, InCursorNames DEF ClickPacket, CanPickUp, CanTakeSunMoney
      <4>3. ASSUME NEW i \in Index, KeyDigit(i) PROVE Cost[cursor'.mType] <= balance
        BY <4>3, InCursorNames, ClearCursorNames, PacketPutBackFacts
        DEF KeyDigit, CanPickUp, CanTakeSunMoney, RefreshSeedPacketFromCursor
      <4>4. ~\E c \in Coins : ClickSeed(c)
        BY DEF ClickSeed, IInv, TypeOK, Cursor
      <4>5. ~ClickShovel /\ ~KeyShovel
        BY ClearCursorNames DEF ClickShovel, KeyShovel, IInv, TypeOK, Cursor, ClearCursor
      <4> QED BY <4>1, <4>2, <4>3, <4>4, <4>5, CursorChange, ClearCursorNames
    <3> QED BY <1>1, <1>2, <2>1, <3>1, <3>2
  <2> QED BY <2>2, <2>3 DEF SunInv
<1> QED BY <1>4, <1>5

\* At first no sun flies and nothing is owed.
LEMMA SunInit == Init => SunInv
<1> SUFFICES ASSUME Init PROVE SunInv
  OBVIOUS
<1>1. Flight = {}
  BY FreeCoinFacts DEF Init, Flight, SunInFlight
<1>2. CountSunBeingCollected = 0
  BY <1>1, FS_EmptySet, SunAssumption DEF CountSunBeingCollected, Flight
<1> QED BY <1>2, SunAssumption, ClearCursorNames DEF Init, SunInv, SunNeverOwed, HeldPlantAffordable

\* The two promises about the sun hold throughout.
LEMMA SunHolds == Spec => []SunInv
<1> QED BY SunInit, SunStep, InvariantHolds, PTL DEF Spec

\* What the player spends he has or is about to have, for every price and every
\* number of suns.
THEOREM SunIsNeverOwed == Spec => []SunNeverOwed
<1>1. SunInv => SunNeverOwed
  BY DEF SunInv
<1> QED BY <1>1, SunHolds, PTL

\* The packet in the cursor can still be paid.
THEOREM HeldPlantStaysAffordable == Spec => []HeldPlantAffordable
<1>1. SunInv => HeldPlantAffordable
  BY DEF SunInv
<1> QED BY <1>1, SunHolds, PTL

-----------------------------------------------------------------------------
(* The belt, counted.                                                        *)

Showing(belt, T) == {i \in Index : belt[i].mPacketType \in T}

\* The places of a belt are finitely many, and so are those that show some seed.
LEMMA ShowingFinite ==
  ASSUME NEW belt, NEW T
  PROVE  IsFiniteSet(Showing(belt, T)) /\ Cardinality(Showing(belt, T)) \in Nat
<1>1. IsFiniteSet(Index)
  BY FS_Interval, NumPacketsAssumption DEF Index
<1>2. IsFiniteSet(Showing(belt, T))
  BY <1>1, FS_Subset DEF Showing
<1> QED BY <1>2, FS_CardinalityType

\* Each packet but the one removed is still on the belt, in its place or the one before
\* it, and there is no other.
LEMMA RemoveSeedCount ==
  ASSUME NEW belt \in [Index -> Packet], NEW k \in Index, NoGap(belt),
         belt[k].mPacketType # NoSeed, NEW T \in SUBSET Seeds
  PROVE  Cardinality(Showing(RemoveSeed(belt, k), T)) =
           IF belt[k].mPacketType \in T THEN Cardinality(Showing(belt, T)) - 1
                                        ELSE Cardinality(Showing(belt, T))
<1> DEFINE new  == RemoveSeed(belt, k)
           kept == Showing(belt, T) \ {k}
           f    == [j \in kept |-> IF j < k THEN j ELSE j - 1]
<1>1. \A n \in Index :
        new[n].mPacketType = IF n < k \/ belt[n].mPacketType = NoSeed THEN belt[n].mPacketType
                             ELSE IF n = NumPackets THEN NoSeed
                             ELSE belt[n + 1].mPacketType
  BY RemoveSeedTypes
<1> HIDE DEF new
<1>2. NoSeed \notin T /\ NumPackets \in Nat /\ Index = 1..NumPackets
  BY SeedsAssumption, NumPacketsAssumption DEF Index
<1>3. f \in [kept -> Showing(new, T)]
  <2> SUFFICES ASSUME NEW j \in kept PROVE f[j] \in Showing(new, T)
    OBVIOUS
  <2>1. j \in Index /\ j # k /\ belt[j].mPacketType \in T
    BY DEF Showing
  <2>2. CASE j < k
    BY <1>1, <2>1, <2>2 DEF Showing
  <2>3. CASE j > k
    <3>1. j - 1 \in Index /\ ~(j - 1 < k) /\ j - 1 # NumPackets /\ (j - 1) + 1 = j
      BY <1>2, <2>1, <2>3
    <3>2. belt[j - 1].mPacketType # NoSeed
      BY <1>2, <2>1, <3>1 DEF NoGap
    <3>3. new[j - 1].mPacketType = belt[j].mPacketType
      BY <1>1, <3>1, <3>2
    <3> QED BY <1>2, <2>1, <2>3, <3>1, <3>3 DEF Showing
  <2> QED BY <1>2, <2>1, <2>2, <2>3
<1>4. f \in Injection(kept, Showing(new, T))
  <2>1. \A a, b \in kept : f[a] = f[b] => a = b
    BY <1>2 DEF Showing
  <2> HIDE DEF f, kept
  <2> QED BY <1>3, <2>1 DEF Injection, IsInjective
<1>5. f \in Surjection(kept, Showing(new, T))
  <2>1. ASSUME NEW n \in Showing(new, T) PROVE \E j \in kept : f[j] = n
    <3>1. n \in Index /\ new[n].mPacketType \in T
      BY DEF Showing
    <3>2. CASE n < k
      <4>1. n \in kept /\ f[n] = n
        BY <1>1, <1>2, <3>1, <3>2 DEF Showing
      <4> QED BY <4>1
    <3>3. CASE ~(n < k)
      <4>1. n # NumPackets /\ n + 1 \in Index /\ belt[n + 1].mPacketType \in T
        BY <1>1, <1>2, <3>1, <3>3
      <4>2. n + 1 \in kept /\ f[n + 1] = n
        BY <1>2, <3>1, <3>3, <4>1 DEF Showing
      <4> QED BY <4>2
    <3> QED BY <3>2, <3>3
  <2> QED BY <1>3, <2>1 DEF Surjection
<1>6. IsFiniteSet(Showing(belt, T)) /\ IsFiniteSet(kept)
  BY ShowingFinite, FS_RemoveElement
<1>7. Cardinality(kept) = IF k \in Showing(belt, T) THEN Cardinality(Showing(belt, T)) - 1
                                                    ELSE Cardinality(Showing(belt, T))
  BY <1>6, FS_RemoveElement
<1>8. ExistsBijection(kept, Showing(new, T))
  BY <1>4, <1>5 DEF Bijection, ExistsBijection
<1>9. Cardinality(Showing(new, T)) = Cardinality(kept)
  BY <1>6, <1>8, FS_Bijection
<1> QED BY <1>7, <1>9 DEF Showing, new

\* Places that show the same before and after a step are as many, and one more where a
\* seed is added.
LEMMA ShowingGrows ==
  ASSUME NEW old, NEW new, NEW T,
         \A i \in Index : old[i].mPacketType \in T => new[i].mPacketType \in T
  PROVE  Cardinality(Showing(new, T)) >= Cardinality(Showing(old, T))
<1>1. Showing(old, T) \in SUBSET Showing(new, T)
  BY DEF Showing
<1> QED BY <1>1, ShowingFinite, FS_Subset

\* Of a belt that packets move up on, only the seed that is planted is lost, and one of it.
THEOREM BeltOnlyLosesPlanted == Spec => BeltLosesOnlyPlanted
<1> DEFINE lost(s) == IF cursor.mCursorType = "bank" /\ cursor' = ClearCursor /\ cursor.mType = s
                        THEN 1 ELSE 0
<1>1. ASSUME IInv, [Next]_vars, HasConveyorBeltSeedBank, NEW s \in Seeds
      PROVE  Cardinality(OnBelt(s)') >= Cardinality(OnBelt(s)) - lost(s)
  <2>1. OnBelt(s) = Showing(packets, {s}) /\ OnBelt(s)' = Showing(packets', {s})
    BY DEF OnBelt, Showing
  <2>2. Cardinality(OnBelt(s)) \in Nat /\ Cardinality(OnBelt(s)') \in Nat
    BY <2>1, ShowingFinite
  <2>3. s # NoSeed /\ lost(s) \in {0, 1}
    BY SeedsAssumption
  <2>4. ASSUME \A i \in Index : packets[i].mPacketType = s => packets'[i].mPacketType = s
        PROVE  Cardinality(OnBelt(s)') >= Cardinality(OnBelt(s)) - lost(s)
    <3>1. Cardinality(OnBelt(s)') >= Cardinality(OnBelt(s))
      BY <2>1, <2>4, ShowingGrows
    <3> QED BY <2>2, <2>3, <3>1
  <2>5. CASE PlantPacket
    <3> DEFINE k == cursor.mSeedBankIndex
    <3>1. /\ k \in Index /\ packets[k].mPacketType = cursor.mType /\ cursor.mType # NoSeed
          /\ packets' = RemoveSeed(packets, k)
      BY <1>1, <2>5, BeltChange DEF HasConveyorBeltSeedBank
    <3>2. packets \in [Index -> Packet] /\ NoGap(packets)
      BY <1>1 DEF IInv, TypeOK, BeltHasNoGap, NoGap
    <3>3. Cardinality(Showing(packets', {s})) =
            IF packets[k].mPacketType \in {s} THEN Cardinality(Showing(packets, {s})) - 1
                                              ELSE Cardinality(Showing(packets, {s}))
      BY <3>1, <3>2, RemoveSeedCount
    <3>4. lost(s) = IF cursor.mType = s THEN 1 ELSE 0
      BY <2>5 DEF PlantPacket
    <3> QED BY <2>1, <2>2, <3>1, <3>3, <3>4
  <2> HIDE DEF lost
  <2> QED BY <1>1, <2>3, <2>4, <2>5, BeltChange DEF HasConveyorBeltSeedBank
<1>2. IInv /\ [Next]_vars =>
        [HasConveyorBeltSeedBank =>
           \A s \in Seeds : Cardinality(OnBelt(s)') >= Cardinality(OnBelt(s)) - lost(s)]_vars
  BY <1>1
<1> QED BY <1>2, InvariantHolds, PTL DEF Spec, BeltLosesOnlyPlanted

\* Planting from a belt empties one place of it, the last, wherever the seed was taken.
THEOREM PlantingMakesRoom == Spec => BeltMakesRoom
<1>1. ASSUME IInv, [Next]_vars, HasConveyorBeltSeedBank, PlantPacket
      PROVE  Cardinality(OnBelt(NoSeed)') = Cardinality(OnBelt(NoSeed)) + 1
  <2> DEFINE k == cursor.mSeedBankIndex
  <2>1. /\ k \in Index /\ packets[k].mPacketType \in Seeds
        /\ packets' = RemoveSeed(packets, k)
    BY <1>1, BeltChange DEF HasConveyorBeltSeedBank, IInv, TypeOK, Packet
  <2>2. /\ packets \in [Index -> Packet] /\ packets' \in [Index -> Packet]
        /\ NoGap(packets) /\ packets[k].mPacketType # NoSeed
    BY <1>1, <2>1, PacketsTypeStep, SeedsAssumption DEF IInv, TypeOK, BeltHasNoGap, NoGap
  <2>3. Cardinality(Showing(packets', Seeds)) = Cardinality(Showing(packets, Seeds)) - 1
    BY <2>1, <2>2, RemoveSeedCount
  <2>4. ASSUME NEW belt \in [Index -> Packet]
        PROVE  Cardinality(Showing(belt, {NoSeed})) = NumPackets - Cardinality(Showing(belt, Seeds))
    <3>1. /\ Showing(belt, {NoSeed}) \union Showing(belt, Seeds) = Index
          /\ Showing(belt, {NoSeed}) \intersect Showing(belt, Seeds) = {}
      BY SeedsAssumption DEF Showing, Packet
    <3>2. Cardinality(Index) = NumPackets /\ NumPackets \in Nat
      BY FS_Interval, NumPacketsAssumption DEF Index
    <3>3. Cardinality(Showing(belt, {NoSeed}) \union Showing(belt, Seeds)) =
            Cardinality(Showing(belt, {NoSeed})) + Cardinality(Showing(belt, Seeds))
              - Cardinality(Showing(belt, {NoSeed}) \intersect Showing(belt, Seeds))
      BY ShowingFinite, FS_Union
    <3>4. /\ Cardinality(Showing(belt, {NoSeed})) \in Nat
          /\ Cardinality(Showing(belt, Seeds)) \in Nat
      BY ShowingFinite
    <3>5. Cardinality({}) = 0
      BY FS_EmptySet
    <3>6. NumPackets = Cardinality(Showing(belt, {NoSeed})) + Cardinality(Showing(belt, Seeds)) - 0
      BY <3>1, <3>2, <3>3, <3>5
    <3> QED BY <3>2, <3>4, <3>6
  <2>5. OnBelt(NoSeed) = Showing(packets, {NoSeed}) /\ OnBelt(NoSeed)' = Showing(packets', {NoSeed})
    BY DEF OnBelt, Showing
  <2>6. /\ Cardinality(Showing(packets, Seeds)) \in Nat
        /\ Cardinality(Showing(packets, {NoSeed})) = NumPackets - Cardinality(Showing(packets, Seeds))
        /\ Cardinality(Showing(packets', {NoSeed})) = NumPackets - Cardinality(Showing(packets', Seeds))
    BY <2>2, <2>4, ShowingFinite
  <2> QED BY <2>3, <2>5, <2>6, NumPacketsAssumption
<1>2. IInv /\ [Next]_vars =>
        [HasConveyorBeltSeedBank /\ PlantPacket =>
           Cardinality(OnBelt(NoSeed)') = Cardinality(OnBelt(NoSeed)) + 1]_vars
  BY <1>1
<1> QED BY <1>2, InvariantHolds, PTL DEF Spec, BeltMakesRoom
=============================================================================
