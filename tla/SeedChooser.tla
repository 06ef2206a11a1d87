---------------------------- MODULE SeedChooser ----------------------------
(***************************************************************************)
(* The seed chooser (SeedChooserScreen.cpp): the player fills the bank one   *)
(* seed at a time, takes seeds out of the middle again, buys seeds and room  *)
(* for them in between, and starts the level, which makes packets of the     *)
(* seeds.                                                                    *)
(*                                                                           *)
(* There is no list of the bank. Each seed knows its own index in it, the    *)
(* seeds that fly to their place are counted apart, and FindSeedInBank sees  *)
(* only those that have landed. Taking a seed out renumbers the others,      *)
(* which then fly; the Imitater copies what FindSeedInBank shows at the end  *)
(* of the bank, by a type (mPreviousType) that was noted earlier.            *)
(*                                                                           *)
(* Positions and times are left out: a seed that flies lands some time.      *)
(***************************************************************************)
EXTENDS Integers, FiniteSets

CONSTANTS
  Seeds,        \* the types of seed in the chooser
  Imitater,     \* SEED_IMITATER
  NoSeed,       \* SEED_NONE
  Upgrades,     \* Plant::IsUpgrade
  Banned,       \* SeedNotAllowedToPick: what Last Stand does not allow
  InStore,      \* the seeds that are for sale and not yet bought
  NumDavePicks, \* Crazy Dave's picks: 3 in the code
  MinPackets,   \* 6: the packets of a player who has bought none
  MaxPackets    \* 10: with every upgrade

ASSUME SeedsAssumption ==
  /\ IsFiniteSet(Seeds) /\ NoSeed \notin Seeds
  /\ Upgrades \subseteq Seeds /\ Banned \subseteq Seeds /\ InStore \subseteq Seeds
  /\ Imitater \in Seeds \ (Upgrades \union Banned)
ASSUME PacketsAssumption ==
  /\ NumDavePicks \in Nat \ {0} /\ MinPackets \in Nat \ {0} /\ MaxPackets \in Nat
  /\ NumDavePicks <= MinPackets /\ MinPackets <= MaxPackets

VARIABLES
  mSurvival,         \* IsSurvivalMode: a new chooser for each stage
  mTodCheatKeys,
  mAvailable,        \* SeedTypeAvailable
  mNumPackets,       \* mSeedBank->mNumPackets
  mSeedState,        \* of each seed: "chooser", "flying" (to the bank) or "bank"
  mSeedIndexInBank,  \* of each seed; 0 as well for those in the chooser
  mCrazyDavePicked,  \* the seeds Crazy Dave picked
  mRefreshing,       \* the seeds that were recharging when the last stage ended
  mImitaterType,     \* of the Imitater
  mSeedsInBank,
  mSeedsInFlight,
  mPreviousType,
  mStartEnabled,     \* the start button is not mDisabled
  mSeedChoosing,     \* the cut scene waits for the player
  packets            \* mSeedBank->mSeedPackets, once the player is done

seeds == <<mSeedState, mSeedIndexInBank>>
level == <<mSurvival, mTodCheatKeys, mAvailable, mNumPackets, mCrazyDavePicked, mRefreshing>>
vars  == <<level, seeds, mImitaterType, mSeedsInBank, mSeedsInFlight, mPreviousType,
           mStartEnabled, mSeedChoosing, packets>>

Index == 0..MaxPackets - 1
Packet == [type : Seeds \union {NoSeed}, imitater : Seeds \union {NoSeed}, refreshing : BOOLEAN]

Flying == {s \in Seeds : mSeedState[s] = "flying"}
Chosen == {s \in Seeds : mSeedState[s] # "chooser"}

FindSeedInBank(state, index, i) ==
  LET found == {s \in mAvailable : state[s] = "bank" /\ index[s] = i}
  IN  IF found = {} THEN NoSeed ELSE CHOOSE s \in found : TRUE

IsImitaterUnselectable(s) ==
  /\ s = Imitater
  /\ \/ mSeedsInBank \in {0, mNumPackets}
     \/ mPreviousType \in Upgrades \union Banned

-----------------------------------------------------------------------------
(* A new chooser. In Seeing Stars one seed is in the bank already; when the  *)
(* adventure is played again Crazy Dave has picked the first ones.           *)

\* The seeds that can be in the bank before the player comes, by their place there.
Presets(n) == {p \in [0..n - 1 -> mAvailable \ (Upgrades \union Banned \union {Imitater})] :
                 \A i, j \in 0..n - 1 : p[i] = p[j] => i = j}

PlaceIn(preset, n, s) == CHOOSE i \in 0..n - 1 : preset[i] = s

\* A chooser before anything is in its bank. Survival notes what is recharging.
EmptyBank(recharging) ==
  [state |-> [s \in Seeds |-> "chooser"], index |-> [s \in Seeds |-> 0],
   dave |-> {}, recharging |-> recharging, inBank |-> 0, previous |-> NoSeed]

\* The first n seeds are in the bank, picked by Crazy Dave or by the level.
PresetBank(preset, n, byDave) ==
  LET placed == {preset[i] : i \in 0..n - 1}
  IN  [state |-> [s \in Seeds |-> IF s \in placed THEN "bank" ELSE "chooser"],
       index |-> [s \in Seeds |-> IF s \in placed THEN PlaceIn(preset, n, s) ELSE 0],
       dave |-> IF byDave THEN placed ELSE {},
       recharging |-> {}, inBank |-> n, previous |-> preset[n - 1]]

Init ==
  /\ mSurvival \in BOOLEAN /\ mTodCheatKeys \in BOOLEAN
  /\ mAvailable = Seeds \ InStore
  /\ mNumPackets = MinPackets
  /\ \E bank \in {EmptyBank({})}
              \union {PresetBank(p, 1, FALSE) : p \in Presets(1)}
              \union {PresetBank(p, NumDavePicks, TRUE) : p \in Presets(NumDavePicks)} :
       /\ mSurvival => bank.inBank = 0
       /\ mSeedState = bank.state
       /\ mSeedIndexInBank = bank.index
       /\ mCrazyDavePicked = bank.dave
       /\ mRefreshing = bank.recharging
       /\ mSeedsInBank = bank.inBank
       /\ mPreviousType = bank.previous
  /\ mImitaterType = NoSeed
  /\ mSeedsInFlight = 0
  /\ mStartEnabled = FALSE
  /\ mSeedChoosing = TRUE
  /\ packets = <<>>

\* InitSurvivalStage: some packets are recharging when the stage ends, and the player
\* picks again.
InitSurvivalStage ==
  /\ mSurvival /\ ~mSeedChoosing
  /\ \E recharging \in SUBSET DOMAIN packets :
       LET bank == EmptyBank({packets[i].type : i \in recharging})
       IN  /\ mSeedState' = bank.state
           /\ mSeedIndexInBank' = bank.index
           /\ mCrazyDavePicked' = bank.dave
           /\ mRefreshing' = bank.recharging
           /\ mSeedsInBank' = bank.inBank
           /\ mPreviousType' = bank.previous
  /\ mImitaterType' = NoSeed
  /\ mSeedsInFlight' = 0
  /\ mStartEnabled' = FALSE
  /\ mSeedChoosing' = TRUE
  /\ packets' = <<>>
  /\ UNCHANGED <<mSurvival, mTodCheatKeys, mAvailable, mNumPackets>>

-----------------------------------------------------------------------------
(* Seeds fly and land.                                                       *)

\* Mutant: LandFlyingSeed does not count the seed as landed.
InFlightAfterLate(landing) == mSeedsInFlight

\* LandFlyingSeed for each seed of landing: the states and the counter it leaves.
Landed(landing) == [s \in Seeds |-> IF s \in landing THEN "bank" ELSE mSeedState[s]]
InFlightAfter(landing) == mSeedsInFlight - Cardinality(landing)

\* Some of the flying seeds have come to the end of their flight.
Update ==
  \E landing \in SUBSET Flying \ {{}} :
    /\ mSeedState' = Landed(landing)
    /\ mSeedsInFlight' = InFlightAfter(landing)
    /\ UNCHANGED <<level, mSeedIndexInBank, mImitaterType, mSeedsInBank, mPreviousType,
                   mStartEnabled, mSeedChoosing, packets>>

\* Every click first lands what is flying: these are the states it then finds.
AtClick == Landed(Flying)

\* A click that hits no seed, or one that may not be picked or put back.
ClickedNoSeed ==
  /\ mSeedChoosing /\ Flying # {}
  /\ mSeedState' = AtClick
  /\ mSeedsInFlight' = InFlightAfter(Flying)
  /\ UNCHANGED <<level, mSeedIndexInBank, mImitaterType, mSeedsInBank, mPreviousType,
                 mStartEnabled, mSeedChoosing, packets>>

-----------------------------------------------------------------------------
(* The player picks seeds and puts them back.                                *)

\* The seed flies to the first free place.
ClickedSeedInChooser(s) ==
  /\ mSeedChoosing
  /\ s \in mAvailable \ Banned
  /\ AtClick[s] = "chooser"
  /\ mSeedsInBank # mNumPackets
  /\ ~IsImitaterUnselectable(s)
  /\ mImitaterType' = IF s = Imitater
                        THEN FindSeedInBank(AtClick, mSeedIndexInBank, mSeedsInBank - 1)
                        ELSE mImitaterType
  /\ mPreviousType' = IF s = Imitater THEN mPreviousType ELSE s
  /\ mSeedState' = [AtClick EXCEPT ![s] = "flying"]
  /\ mSeedIndexInBank' = [mSeedIndexInBank EXCEPT ![s] = mSeedsInBank]
  /\ mSeedsInFlight' = InFlightAfter(Flying) + 1
  /\ mSeedsInBank' = mSeedsInBank + 1
  /\ mStartEnabled' = (mStartEnabled \/ mSeedsInBank + 1 = mNumPackets)
  /\ UNCHANGED <<level, mSeedChoosing, packets>>

\* Mutant: the last seed of the bank is left where it is.
RightOfShort(i) ==
  {FindSeedInBank(AtClick, mSeedIndexInBank, k) : k \in i + 1..mSeedsInBank - 2} \ {NoSeed}

\* The seeds right of the place i, which close the gap.
RightOf(i) ==
  {FindSeedInBank(AtClick, mSeedIndexInBank, k) : k \in i + 1..mNumPackets - 1} \ {NoSeed}

\* Mutant: the seed that is taken out may still be taken for the last one.
LastBefore(i) == FindSeedInBank(AtClick, mSeedIndexInBank, mSeedsInBank - 1)

\* The last seed of the bank once the seed at i is out of it.
LastWithout(i) ==
  FindSeedInBank(AtClick, mSeedIndexInBank,
                 mSeedsInBank - IF i = mSeedsInBank - 1 THEN 2 ELSE 1)

\* The seed is back in the chooser at once, and those right of it fly one place left.
ClickedSeedInBank(s) ==
  LET i     == mSeedIndexInBank[s]
      moved == RightOf(i)
  IN  /\ mSeedChoosing
      /\ s \in mAvailable \ (Banned \union mCrazyDavePicked)
      /\ AtClick[s] = "bank"
      /\ mPreviousType' = LastWithout(i)
      /\ mSeedState' = [t \in Seeds |-> IF t = s THEN "chooser"
                                        ELSE IF t \in moved THEN "flying" ELSE AtClick[t]]
      /\ mSeedIndexInBank' = [t \in Seeds |-> IF t = s THEN 0
                                              ELSE IF t \in moved THEN mSeedIndexInBank[t] - 1
                                              ELSE mSeedIndexInBank[t]]
      /\ mImitaterType' = IF s = Imitater THEN NoSeed ELSE mImitaterType
      /\ mSeedsInFlight' = InFlightAfter(Flying) + Cardinality(moved)
      /\ mSeedsInBank' = mSeedsInBank - 1
      /\ mStartEnabled' = FALSE
      /\ UNCHANGED <<level, mSeedChoosing, packets>>

-----------------------------------------------------------------------------
(* The buttons: all but the escape key wait until nothing flies.             *)

\* The player buys a seed, or room for one more, and comes back.
PurchaseItem ==
  /\ mSeedChoosing /\ mSeedsInFlight <= 0
  /\ \/ /\ \E s \in Seeds \ mAvailable : mAvailable' = mAvailable \union {s}
        /\ UNCHANGED mNumPackets
     \/ /\ mNumPackets < MaxPackets
        /\ mNumPackets' = mNumPackets + 1
        /\ UNCHANGED mAvailable
  /\ mStartEnabled' = (mSeedsInBank = mNumPackets')
  /\ UNCHANGED <<mSurvival, mTodCheatKeys, mCrazyDavePicked, mRefreshing, seeds, mImitaterType,
                 mSeedsInBank, mSeedsInFlight, mPreviousType, mSeedChoosing, packets>>

\* CloseSeedChooser: the packets of the level are what FindSeedInBank finds.
PacketAt(state, index, i) ==
  LET s == FindSeedInBank(state, index, i)
  IN  [type |-> s, imitater |-> IF s = Imitater THEN mImitaterType ELSE NoSeed,
       refreshing |-> s \in mRefreshing]

CloseSeedChooser(state, index) ==
  /\ packets' = [i \in 0..mNumPackets - 1 |-> PacketAt(state, index, i)]
  /\ mSeedChoosing' = FALSE

\* The start button; what the player is warned about and takes back changes nothing.
OnStartButton ==
  /\ mSeedChoosing /\ mStartEnabled /\ mSeedsInFlight <= 0
  /\ CloseSeedChooser(mSeedState, mSeedIndexInBank)
  /\ UNCHANGED <<level, seeds, mImitaterType, mSeedsInBank, mSeedsInFlight, mPreviousType,
                 mStartEnabled>>

\* A cheat, by a button or by the escape key, which does not wait for what is flying:
\* any seeds but the Imitater fill the bank, and what is flying lands after them.
PickRandomSeeds ==
  /\ mTodCheatKeys /\ mSeedChoosing
  /\ \E pick \in [mSeedsInBank..mNumPackets - 1 -> {s \in mAvailable \ {Imitater} : mSeedState[s] = "chooser"}] :
       LET picked == {pick[i] : i \in DOMAIN pick}
           place(s) == CHOOSE i \in DOMAIN pick : pick[i] = s
       IN  /\ \A i, j \in DOMAIN pick : pick[i] = pick[j] => i = j
           /\ mSeedState' = [s \in Seeds |-> IF s \in picked THEN "bank" ELSE AtClick[s]]
           /\ mSeedIndexInBank' =
                [s \in Seeds |-> IF s \in picked THEN place(s) ELSE mSeedIndexInBank[s]]
  /\ mSeedsInBank' = mNumPackets
  /\ mSeedsInFlight' = InFlightAfter(Flying)
  /\ CloseSeedChooser(mSeedState', mSeedIndexInBank')
  /\ UNCHANGED <<level, mImitaterType, mPreviousType, mStartEnabled>>

Player ==
  \/ \E s \in Seeds : ClickedSeedInChooser(s)
  \/ \E s \in Seeds : ClickedSeedInBank(s)
  \/ ClickedNoSeed \/ PurchaseItem \/ OnStartButton \/ PickRandomSeeds

Next == Update \/ Player \/ InitSurvivalStage

Spec == Init /\ [][Next]_vars

-----------------------------------------------------------------------------

\* The type of every variable. Counters that were never brought back in step would
\* leave it: the places of the bank are counted apart from the seeds in it.
TypeOK ==
  /\ mSurvival \in BOOLEAN /\ mTodCheatKeys \in BOOLEAN
  /\ mAvailable \subseteq Seeds
  /\ mNumPackets \in MinPackets..MaxPackets
  /\ mSeedState \in [Seeds -> {"chooser", "flying", "bank"}]
  /\ mSeedIndexInBank \in [Seeds -> Index]
  /\ mCrazyDavePicked \subseteq Seeds
  /\ mRefreshing \subseteq Seeds
  /\ mImitaterType \in Seeds \union {NoSeed}
  /\ mSeedsInBank \in 0..mNumPackets
  /\ mSeedsInFlight \in 0..mNumPackets
  /\ mPreviousType \in Seeds \union {NoSeed}
  /\ mStartEnabled \in BOOLEAN
  /\ mSeedChoosing \in BOOLEAN
  /\ DOMAIN packets \subseteq Index /\ \A i \in DOMAIN packets : packets[i] \in Packet

\* The seeds in the bank and on their way to it hold the places 0 to mSeedsInBank - 1,
\* one each, and mSeedsInFlight is the number on their way; a level can be started
\* only from a bank that is full. ClickedSeedInBank renumbers by FindSeedInBank, which
\* sees no flying seed, so a seed it missed would share a place with another, and the
\* level would start with a packet of no type.
BankIsExact ==
  /\ \A s \in Chosen : s \in mAvailable /\ mSeedIndexInBank[s] \in 0..mSeedsInBank - 1
  /\ \A i \in 0..mSeedsInBank - 1 : \E s \in Chosen : mSeedIndexInBank[s] = i
  /\ \A s, t \in Chosen : mSeedIndexInBank[s] = mSeedIndexInBank[t] => s = t
  /\ mSeedsInFlight = Cardinality(Flying)
  /\ mStartEnabled => mSeedsInBank = mNumPackets

\* Without cheats the level starts with a packet in every place, no seed twice and none
\* the level forbids; an Imitater copies a seed that may be copied, though what it
\* copies was read at the end of the bank and what may be copied from mPreviousType,
\* which purchases and seeds put back leave behind.
PacketsUsable ==
  ~mSeedChoosing =>
    /\ DOMAIN packets = 0..mNumPackets - 1
    /\ \A i, j \in DOMAIN packets : packets[i].type = packets[j].type => i = j
    /\ \A i \in DOMAIN packets :
         /\ packets[i].type \in mAvailable
         /\ packets[i].refreshing <=> packets[i].type \in mRefreshing
         /\ packets[i].type \in Banned => mTodCheatKeys
         /\ packets[i].type = Imitater =>
              packets[i].imitater \in Seeds \ (Upgrades \union Banned \union {Imitater})
=============================================================================
