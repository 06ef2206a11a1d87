----------------------------- MODULE Planting ------------------------------
(***************************************************************************)
(* What the player plants with: the sun, the packets of the seed bank or of  *)
(* the conveyor belt (SeedPacket.cpp), the seeds that lie on the lawn        *)
(* (usable seed packets, Coin.cpp), and the cursor that holds one of them    *)
(* (CursorObject.h, Board.cpp), by mouse and by the keys of the seed bank.   *)
(*                                                                           *)
(* A packet in the cursor stays in its place in the bank, inactive, and a    *)
(* seed in the cursor stays in the pool of coins, as being collected: each   *)
(* is kept in two places that every way of putting it back, planting it or   *)
(* losing it must keep in step. The price is checked when the packet is      *)
(* taken and paid when it is planted, and sun that is still flying to the    *)
(* counter counts in both.                                                   *)
(*                                                                           *)
(* Timers are left out: a packet has refreshed, a coin fades or a sun        *)
(* arrives some time.                                                        *)
(***************************************************************************)
EXTENDS Integers, FiniteSets

CONSTANTS
  Modes,      \* the kinds of level, a subset of AllModes
  Seeds,      \* the types of seed
  NoSeed,     \* SEED_NONE
  Cost,       \* Plant::GetCost
  NumPackets, \* mNumPackets
  Coins,      \* names for the coins of the board's pool
  NoCoinID,   \* COINID_NULL
  SunValue,   \* Coin::GetSunValue: every sun is worth the same here
  StartSun,   \* the sun a level starts with
  MaxSun      \* 9990

\* An ordinary level; Survival, with its stages; Last Stand, where packets need not
\* refresh between two onslaughts; a conveyor belt; and vases, with one packet, no
\* sun at first, and seeds on the lawn.
AllModes == {"Bank", "Survival", "LastStand", "Conveyor", "Vases"}

ASSUME ModesAssumption == Modes \subseteq AllModes
ASSUME SeedsAssumption == NoSeed \notin Seeds /\ Cost \in [Seeds -> Nat]
ASSUME CoinsAssumption == NoCoinID \notin Coins /\ IsFiniteSet(Coins)
ASSUME SunAssumption == /\ SunValue \in Nat \ {0}
                        /\ MaxSun \in Nat
                        /\ StartSun \in 0..MaxSun
                        /\ \A s \in Seeds : Cost[s] <= MaxSun
ASSUME NumPacketsAssumption == NumPackets \in Nat \ {0}

VARIABLES
  mode,
  keybinds,     \* mBankKeybinds
  onslaught,    \* Last Stand: mChallengeState is LAST_STAND_ONSLAUGHT
  fadingOut,    \* mBoardFadeOutCounter >= 0
  mSunMoney,
  packets,      \* mSeedBank->mSeedPackets
  cursor,       \* mCursorObject
  coins         \* mCoins

level == <<mode, keybinds, onslaught, fadingOut>>
vars  == <<level, mSunMoney, packets, cursor, coins>>

Index == 1..NumPackets

\* A packet that is neither active nor refreshing is in the cursor.
Packet == [mPacketType : Seeds \union {NoSeed}, mActive : BOOLEAN, mRefreshing : BOOLEAN]
ReadyPacket(s) == [mPacketType |-> s, mActive |-> TRUE, mRefreshing |-> FALSE]
EmptyPacket    == ReadyPacket(NoSeed)

Cursor == [mCursorType : {"normal", "bank", "coin", "shovel"}, mType : Seeds \union {NoSeed},
           mSeedBankIndex : 0..NumPackets, mCoinID : Coins \union {NoCoinID}]
ClearCursor ==
  [mCursorType |-> "normal", mType |-> NoSeed, mSeedBankIndex |-> 0, mCoinID |-> NoCoinID]

\* A free slot of the pool, a sun, or a usable seed packet; fading is mFadeCount > 0.
Coin == [mType : {"free", "sun", "seed"}, mUsableSeedType : Seeds \union {NoSeed},
         mIsBeingCollected : BOOLEAN, fading : BOOLEAN]
FreeCoin ==
  [mType |-> "free", mUsableSeedType |-> NoSeed, mIsBeingCollected |-> FALSE, fading |-> FALSE]

HasConveyorBeltSeedBank == mode = "Conveyor"

-----------------------------------------------------------------------------
(* The sun.                                                                  *)

SunInFlight(c) == coins[c].mType = "sun" /\ coins[c].mIsBeingCollected

CountSunBeingCollected == SunValue * Cardinality({c \in Coins : SunInFlight(c)})

\* Mutant: every sun on the lawn counts.
CanTakeAnySun(amount) ==
  amount <= mSunMoney + SunValue * Cardinality({c \in Coins : coins[c].mType = "sun"})

CanTakeSunMoney(amount) == amount <= mSunMoney + CountSunBeingCollected

\* Mutant: the counter is not held at its maximum.
AddSunMoneyUncapped(amount) == mSunMoney' = mSunMoney + amount

AddSunMoney(amount) ==
  mSunMoney' = IF mSunMoney + amount > MaxSun THEN MaxSun ELSE mSunMoney + amount

-----------------------------------------------------------------------------
(* The packets.                                                              *)

Deactivated(p) == [p EXCEPT !.mActive = FALSE, !.mRefreshing = FALSE]

\* Mutant: the last packet of a full belt is not cleared.
RemoveSeedKeepsLast(belt, i) ==
  [j \in Index |-> IF j < i \/ belt[j].mPacketType = NoSeed \/ j = NumPackets THEN belt[j]
                   ELSE ReadyPacket(belt[j + 1].mPacketType)]

\* Mutant: the packets behind do not move up.
RemoveSeedInPlace(belt, i) == [belt EXCEPT ![i] = EmptyPacket]

\* Mutant: the packet behind the one removed is skipped.
RemoveSeedSkips(belt, i) ==
  [j \in Index |-> IF j < i \/ belt[j].mPacketType = NoSeed THEN belt[j]
                   ELSE IF j + 2 > NumPackets THEN EmptyPacket
                   ELSE ReadyPacket(belt[j + 2].mPacketType)]

\* The packets behind the one removed move up, up to the first empty place.
RemoveSeed(belt, i) ==
  [j \in Index |-> IF j < i \/ belt[j].mPacketType = NoSeed THEN belt[j]
                   ELSE IF j = NumPackets THEN EmptyPacket
                   ELSE ReadyPacket(belt[j + 1].mPacketType)]

WasPlanted(i) ==
  IF HasConveyorBeltSeedBank THEN RemoveSeed(packets, i)
  ELSE IF mode = "LastStand" /\ ~onslaught THEN [packets EXCEPT ![i].mActive = TRUE]
  ELSE [packets EXCEPT ![i].mRefreshing = TRUE]

\* SeedPacket::MouseDown takes the packet. PlantingRequirementsMet is left open.
CanPickUp(bank, i) ==
  /\ bank[i].mPacketType # NoSeed
  /\ bank[i].mActive
  /\ HasConveyorBeltSeedBank \/ CanTakeSunMoney(Cost[bank[i].mPacketType])

InCursor(bank, i) ==
  [ClearCursor EXCEPT !.mCursorType = "bank", !.mType = bank[i].mPacketType,
                      !.mSeedBankIndex = i]

-----------------------------------------------------------------------------
(* Putting back what is in the cursor: Board::RefreshSeedPacketFromCursor.    *)

\* Mutants: the packet, or the seed, is forgotten.
PacketForgotten == packets
SeedForgotten == coins

PacketPutBack ==
  IF cursor.mCursorType = "bank" THEN [packets EXCEPT ![cursor.mSeedBankIndex].mActive = TRUE]
  ELSE packets

SeedPutBack ==    \* Coin::DroppedUsableSeed
  IF cursor.mCursorType = "coin" THEN [coins EXCEPT ![cursor.mCoinID].mIsBeingCollected = FALSE]
  ELSE coins

RefreshSeedPacketFromCursor ==
  /\ packets' = PacketPutBack
  /\ coins' = SeedPutBack
  /\ cursor' = ClearCursor

-----------------------------------------------------------------------------
(* The mouse, between two frames. While the level fades out nothing can be    *)
(* hit any more (Board::MouseHitTest), but what is in the cursor can still    *)
(* be planted or put back.                                                   *)

MouseHits == ~fadingOut /\ cursor.mCursorType = "normal"

ClickPacket(i) ==
  /\ MouseHits
  /\ CanPickUp(packets, i)
  /\ packets' = [packets EXCEPT ![i] = Deactivated(@)]
  /\ cursor' = InCursor(packets, i)
  /\ UNCHANGED <<level, mSunMoney, coins>>

\* Mutant: a coin that is picked up while it fades goes on fading.
CollectFading(coin) == [coin EXCEPT !.mIsBeingCollected = TRUE]

Collect(coin) == [coin EXCEPT !.mIsBeingCollected = TRUE, !.fading = FALSE]

ClickSeed(c) ==
  /\ MouseHits
  /\ coins[c].mType = "seed" /\ ~coins[c].mIsBeingCollected
  /\ coins' = [coins EXCEPT ![c] = Collect(@)]
  /\ cursor' = [cursor EXCEPT !.mType = coins[c].mUsableSeedType, !.mCursorType = "coin",
                              !.mCoinID = c]
  /\ UNCHANGED <<level, mSunMoney, packets>>

\* A sun is clicked, or it is collected by itself (mAutoCollectSuns, or
\* TryAutoCollectAfterLevelAward), whatever is in the cursor.
CollectSun(c) ==
  /\ coins[c].mType = "sun" /\ ~coins[c].mIsBeingCollected
  /\ coins' = [coins EXCEPT ![c] = Collect(@)]
  /\ UNCHANGED <<level, mSunMoney, packets, cursor>>

ClickShovel ==    \* PickUpTool
  /\ MouseHits
  /\ cursor' = [cursor EXCEPT !.mCursorType = "shovel"]
  /\ UNCHANGED <<level, mSunMoney, packets, coins>>

\* A right click, a click off the lawn, the escape key; a click where it cannot be
\* planted, in Whack a Zombie; and the shovel after each use.
PutBack ==
  /\ cursor.mCursorType # "normal"
  /\ RefreshSeedPacketFromCursor
  /\ UNCHANGED <<level, mSunMoney>>

\* MouseDownWithPlant, on a place where it can be planted (CanPlantAt).
PlantPacket ==
  /\ cursor.mCursorType = "bank"
  /\ IF HasConveyorBeltSeedBank THEN UNCHANGED mSunMoney
     ELSE /\ CanTakeSunMoney(Cost[cursor.mType])
          /\ mSunMoney' = mSunMoney - Cost[cursor.mType]
  /\ packets' = WasPlanted(cursor.mSeedBankIndex)
  /\ cursor' = ClearCursor
  /\ UNCHANGED <<level, coins>>

PlantSeed ==
  /\ cursor.mCursorType = "coin"
  /\ coins' = [coins EXCEPT ![cursor.mCoinID] = FreeCoin]
  /\ cursor' = ClearCursor
  /\ UNCHANGED <<level, mSunMoney, packets>>

-----------------------------------------------------------------------------
(* The keys of the seed bank (Board::KeyChar). They work while the level      *)
(* fades out, and with anything in the cursor.                               *)

\* The digit of a packet puts it back if it is in the cursor. Otherwise it takes it,
\* if it can be taken now, once a packet in the cursor is put back; anything else in
\* the cursor is only cleared away.
KeyDigit(i) ==
  /\ keybinds
  /\ packets[i].mPacketType # NoSeed
  /\ IF cursor.mSeedBankIndex = i
       THEN RefreshSeedPacketFromCursor
       ELSE /\ \/ /\ CanPickUp(PacketPutBack, i)
                  /\ packets' = [PacketPutBack EXCEPT ![i] = Deactivated(@)]
                  /\ cursor' = InCursor(packets, i)
               \/ packets' = PacketPutBack /\ cursor' = ClearCursor
            /\ UNCHANGED coins
  /\ UNCHANGED <<level, mSunMoney>>

\* The key of the shovel. Only what a packet left in the cursor is put back.
KeyShovel ==
  /\ keybinds
  /\ packets' = PacketPutBack
  /\ cursor' = CASE cursor.mCursorType = "shovel" -> ClearCursor
                 [] cursor.mCursorType = "bank" -> [ClearCursor EXCEPT !.mCursorType = "shovel"]
                 [] OTHER -> [cursor EXCEPT !.mCursorType = "shovel"]
  /\ UNCHANGED <<level, mSunMoney, coins>>

-----------------------------------------------------------------------------
(* The frames: packets refresh, coins appear, fade and arrive.               *)

PacketRefreshed(i) ==    \* SeedPacket::Update
  /\ ~packets[i].mActive /\ packets[i].mRefreshing
  /\ packets' = [packets EXCEPT ![i].mActive = TRUE, ![i].mRefreshing = FALSE]
  /\ UNCHANGED <<level, mSunMoney, cursor, coins>>

\* The sky, a plant or a vase drops a sun; a vase drops a seed. No sun falls on a
\* level with a conveyor belt, nor during an onslaught.
DropCoin(c) ==
  /\ coins[c].mType = "free"
  /\ \/ /\ mode # "Conveyor" /\ ~onslaught
        /\ coins' = [coins EXCEPT ![c].mType = "sun"]
     \/ /\ mode = "Vases"
        /\ \E s \in Seeds : coins' = [coins EXCEPT ![c].mType = "seed", ![c].mUsableSeedType = s]
  /\ UNCHANGED <<level, mSunMoney, packets, cursor>>

\* A coin fades if it lies too long, and a coin that fades dies, whether or not it is
\* being collected (Coin::Update, UpdateFall, UpdateFade).
StartFade(c) ==
  /\ coins[c].mType # "free" /\ ~coins[c].mIsBeingCollected /\ ~coins[c].fading
  /\ coins' = [coins EXCEPT ![c].fading = TRUE]
  /\ UNCHANGED <<level, mSunMoney, packets, cursor>>

CoinFaded(c) ==
  /\ coins[c].fading
  /\ coins' = [coins EXCEPT ![c] = FreeCoin]
  /\ UNCHANGED <<level, mSunMoney, packets, cursor>>

ScoreCoin(c) ==    \* the sun has arrived (UpdateCollected)
  /\ SunInFlight(c) /\ ~coins[c].fading
  /\ AddSunMoney(SunValue)
  /\ coins' = [coins EXCEPT ![c] = FreeCoin]
  /\ UNCHANGED <<level, packets, cursor>>

AddSeed(s) ==    \* SeedBank::AddSeed, from UpdateConveyorBelt
  /\ HasConveyorBeltSeedBank /\ ~fadingOut
  /\ \E n \in Index :
       /\ packets[n].mPacketType = NoSeed
       /\ \A i \in 1..n - 1 : packets[i].mPacketType # NoSeed
       /\ packets' = [packets EXCEPT ![n] = ReadyPacket(s)]
  /\ UNCHANGED <<level, mSunMoney, cursor, coins>>

-----------------------------------------------------------------------------
(* The level: its stages and its end.                                        *)

\* SetPacketType, for every packet: in the first stage of an ordinary level and of
\* Survival the strong ones have to refresh first.
ChosenPackets(first) ==
  IF first /\ mode \in {"Bank", "Survival"}
    THEN [Index -> {ReadyPacket(s) : s \in Seeds} \union
                   {[Deactivated(ReadyPacket(s)) EXCEPT !.mRefreshing = TRUE] : s \in Seeds}]
    ELSE [Index -> {ReadyPacket(s) : s \in Seeds}]

StartOnslaught ==
  /\ mode = "LastStand" /\ ~onslaught /\ ~fadingOut
  /\ onslaught' = TRUE
  /\ UNCHANGED <<mode, keybinds, fadingOut, mSunMoney, packets, cursor, coins>>

RefreshAllPackets ==
  [i \in Index |-> IF packets[i].mRefreshing
                     THEN [packets[i] EXCEPT !.mActive = TRUE, !.mRefreshing = FALSE]
                     ELSE packets[i]]

\* Last Stand keeps what is in the cursor from one stage to the next.
LastStandCompletedStage ==
  /\ onslaught /\ ~fadingOut
  /\ onslaught' = FALSE
  /\ packets' = RefreshAllPackets
  /\ UNCHANGED <<mode, keybinds, fadingOut, mSunMoney, cursor, coins>>

\* Survival lets the player choose his packets again.
InitSurvivalStage ==
  /\ mode = "Survival" /\ ~fadingOut
  /\ packets' \in ChosenPackets(FALSE)
  /\ coins' = SeedPutBack
  /\ cursor' = ClearCursor
  /\ UNCHANGED <<level, mSunMoney>>

\* The vases of the next stage: seeds are removed, suns collected.
PuzzleNextStageClear ==
  /\ mode = "Vases" /\ ~fadingOut
  /\ packets' = PacketPutBack
  /\ cursor' = ClearCursor
  /\ coins' = [c \in Coins |-> CASE coins[c].mType = "seed" -> FreeCoin
                                 [] coins[c].mType = "sun" -> Collect(coins[c])
                                 [] OTHER -> coins[c]]
  /\ UNCHANGED <<level, mSunMoney>>

FadeOutLevel ==
  /\ ~fadingOut
  /\ fadingOut' = TRUE
  /\ RefreshSeedPacketFromCursor
  /\ UNCHANGED <<mode, keybinds, onslaught, mSunMoney>>

Init ==
  /\ mode \in Modes
  /\ keybinds \in BOOLEAN
  /\ onslaught = FALSE /\ fadingOut = FALSE
  /\ mSunMoney = IF mode = "Vases" THEN 0 ELSE StartSun
  /\ \/ mode = "Conveyor" /\ packets = [i \in Index |-> EmptyPacket]
     \/ mode = "Vases" /\ \E s \in Seeds :
          packets = [i \in Index |-> IF i = 1 THEN ReadyPacket(s) ELSE EmptyPacket]
     \/ mode \notin {"Conveyor", "Vases"} /\ packets \in ChosenPackets(TRUE)
  /\ cursor = ClearCursor
  /\ coins = [c \in Coins |-> FreeCoin]

Player ==
  \/ \E i \in Index : ClickPacket(i) \/ KeyDigit(i)
  \/ \E c \in Coins : ClickSeed(c) \/ CollectSun(c)
  \/ ClickShovel \/ KeyShovel \/ PutBack \/ PlantPacket \/ PlantSeed

Frame ==
  \/ \E i \in Index : PacketRefreshed(i)
  \/ \E c \in Coins : DropCoin(c) \/ StartFade(c) \/ CoinFaded(c) \/ ScoreCoin(c)
  \/ \E s \in Seeds : AddSeed(s)

Stage ==
  \/ StartOnslaught \/ LastStandCompletedStage
  \/ InitSurvivalStage \/ PuzzleNextStageClear \/ FadeOutLevel

Next == Player \/ Frame \/ Stage

Spec == Init /\ [][Next]_vars

-----------------------------------------------------------------------------
(* What is promised.                                                         *)

\* The variables have their types; what the cursor holds is named by its fields, and
\* a free slot of the pool is clean.
TypeOK ==
  /\ mode \in Modes
  /\ keybinds \in BOOLEAN /\ onslaught \in BOOLEAN /\ fadingOut \in BOOLEAN
  /\ mSunMoney \in Int /\ mSunMoney <= MaxSun
  /\ packets \in [Index -> Packet]
  /\ cursor \in Cursor
  /\ coins \in [Coins -> Coin]
  /\ \A c \in Coins : coins[c].mType = "free" => coins[c] = FreeCoin

\* A packet that can neither be taken nor is on its way to it is the one in the
\* cursor, and the cursor names a packet of the type it shows: none is lost to a key,
\* to the end of a stage or to a belt that moves up, and none is taken twice
\* (SeedPacket.cpp, Board::RefreshSeedPacketFromCursor, KeyChar).
PacketsAccountedFor ==
  \A i \in Index :
    /\ ~packets[i].mActive /\ ~packets[i].mRefreshing <=>
         cursor.mCursorType = "bank" /\ cursor.mSeedBankIndex = i
    /\ cursor.mCursorType = "bank" /\ cursor.mSeedBankIndex = i =>
         packets[i].mPacketType = cursor.mType

\* A belt has no empty place before a full one, which is how its packets are counted
\* (GetNumSeedsOnConveyorBelt).
BeltHasNoGap ==
  HasConveyorBeltSeedBank =>
    \A i, j \in Index : i < j /\ packets[i].mPacketType = NoSeed => packets[j].mPacketType = NoSeed

OnBelt(s) == {i \in Index : packets[i].mPacketType = s}

\* A belt only loses the seed that is planted, and one of it (RemoveSeed, whose index
\* was taken when the packet was).
BeltLosesOnlyPlanted ==
  [][HasConveyorBeltSeedBank =>
       \A s \in Seeds :
         Cardinality(OnBelt(s)') >=
           Cardinality(OnBelt(s)) -
             (IF cursor.mCursorType = "bank" /\ cursor' = ClearCursor /\ cursor.mType = s
                THEN 1 ELSE 0)]_vars

\* Planting from a belt makes room on it: the planted seed is gone.
BeltMakesRoom ==
  [][HasConveyorBeltSeedBank /\ PlantPacket =>
       Cardinality(OnBelt(NoSeed)') = Cardinality(OnBelt(NoSeed)) + 1]_vars

\* A seed that is being collected is the one in the cursor, so each seed on the lawn
\* can be picked up again after it was put back. With the keys of the seed bank the
\* code does not keep this: the README says how.
SeedsAccountedFor ==
  ~keybinds =>
    \A c \in Coins :
      coins[c].mType = "seed" /\ coins[c].mIsBeingCollected <=>
        cursor.mCursorType = "coin" /\ cursor.mCoinID = c

\* The coin the cursor names is there, for RefreshSeedPacketFromCursor and
\* MouseDownWithPlant look it up without asking (Board.cpp:2049, 3800), and Coin::Die
\* asserts it is not the one that dies.
CoinInCursorLives ==
  cursor.mCoinID # NoCoinID =>
    /\ coins[cursor.mCoinID].mType = "seed"
    /\ coins[cursor.mCoinID].mIsBeingCollected
    /\ ~coins[cursor.mCoinID].fading

\* What the player spends he has or is about to have: the sun in flight covers a
\* counter below zero (CanTakeSunMoney, TakeSunMoney).
SunNeverOwed == mSunMoney + CountSunBeingCollected >= 0

\* What could be paid when its packet was taken can still be paid, however long it is
\* carried about (SeedPacket::MouseDown, MouseDownWithPlant).
HeldPlantAffordable ==
  cursor.mCursorType = "bank" /\ ~HasConveyorBeltSeedBank => CanTakeSunMoney(Cost[cursor.mType])
=============================================================================
