# Verification of Plants vs. Zombies: QotL Widescreen

TLA+ models of the game's own logic (`src/Lawn`, `src/LawnApp.cpp`,
`src/Sexy.TodLib`), the TLC runs that check them and TLAPS proofs about them.
The framework below the game (`src/SexyAppFramework`, `ImageLib`, `PakLib`,
DirectX, Discord) is third-party code and is not modelled.

## 1. Inventory

The game is single-threaded but for a loading thread. `LawnApp::UpdateFrames`
runs one *frame* after another; player input arrives between two frames (and
again inside one, wherever a modal dialog runs the frame loop: *`DoDialog`*).
In a frame `Board::Update` updates the pools' objects, then the spawning of
zombies, then the sequence that ends the level, and `LawnApp::CheckForGameEnd`
looks whether the level is over. What makes the code hard is not threads but
order: many objects update, die and refer to each other by handle within one
frame, counters of different parts race each other over hundreds of frames, and
a saved game is a byte copy of all of it at an arbitrary moment.

| Component | State | Operations and partners | What makes it correct |
|---|---|---|---|
| Object pools (`DataArray.h`) | slots with IDs, free list threaded through the free slots' IDs, next key | alloc, free, free all, lookup by handle, iterate; every object of the board lives in one; saved and loaded by `SaveGame.cpp` | the free list is exact; a handle names its object or nothing; a loop that runs while objects come and go misses none that lives |
| Level flow (`Board.cpp`, `Challenge.cpp`, `Zombie.cpp`, `Coin.cpp`, `LawnApp.cpp`) | wave counters, zombies, award, end counters, mowers, scene, saved game | waves, deaths, award, fade out, next stage, lose, quit, save, resume | a level ends exactly once, after its last wave; it is paid once; what was completed is not lost |
| Planting (`SeedPacket.cpp`, `CursorObject.cpp`, `Board.cpp`) | sun, seed bank or conveyor belt, cursor, usable seed coins | pick up, put back, plant, refresh, belt moves | a packet is in the bank or in the cursor; a plant is paid once |
| Coins (`Coin.cpp`) | type, motion, fade | drop, bounce, collect, fly, score, disappear, unlock items | a coin's value is credited once |
| Zombies (`Zombie.cpp`) | phase, health, partners' handles | squads (bobsled, dancers), grab, eat, die | partners agree about each other whoever dies first |
| Plants, projectiles | phase, target, partners | shoot, eat, explode, cob cannon | a fired cob has one target |
| Lawn mowers, grid items | state, row | start, mow, squish; graves, craters, ladders, portals | one mower per row, used once |
| Challenges (`Challenge.cpp`), Zen garden | own states | 20 modes of play | per mode |
| Application (`LawnApp.cpp`, `CutScene.cpp`, widgets) | scene, screens, dialogs, deferred deletes | show, kill, modal loops | no screen is used once killed |
| Profiles (`ProfileMgr.cpp`, `PlayerInfo.cpp`, `DataSync.cpp`) | users, next id, use order | add, rename, delete, load, save | ids are unique; files match the list |
| Saved games (`SaveGame.cpp`) | header and sections | sync, check, fix | what is loaded is what was saved |
| Effects (`EffectSystem`, `Attachment`, `TodParticle`, `Reanimator`, `Trail`, `TodList`) | pools, attachments | attach, detach, die, propagate | an effect dies with its owner and once |
| Music, foley | tunes, burst state, sound instances | play, fade, burst | a queued change of drums happens |
| Seed chooser, store, almanac | seeds in flight, purchases | choose, give back, buy | a seed is in the bank or in the chooser |
| Resources, definitions, drawing, Discord, framework, tools | | | not modelled: parsing, drawing, or third-party |

`PROJECT.json` lists each of them with its sources and state of work, and under
`hazards` the places where this code can go wrong in a way that a test would
hardly reach.


## 2. Plan

The modules are written in the order in which their behaviour matters to a
player: first what everything else stands on, then what decides whether a level
can be played to its end, then what a level is played with.

| # | Module | Subject | State of work |
|---|---|---|---|
| 1 | `DataArray`, `HandleTable`, `DataArrayProofs` | the pools and the table of handles they promise | modelled, checked, proved |
| 2 | `LevelFlow`, `LevelFlowProofs` | waves, award, victory, stages, loss, saved game | modelled, checked, proved |
| 3 | `Planting`, `PlantingProofs` | sun, packets, belt, cursor, seeds on the lawn | modelled, checked, proved |
| 4 | `SeedChooser`, `SeedChooserProofs` | seeds that fly between the chooser and the bank, the Imitater, purchases, the packets a level starts with | modelled, checked, proved |
| 5 | `Profiles`, `ProfilesProofs`, `ProfilesProgressProofs` | players, ids, the files of each, crashes between and during writes | modelled, checked, proved |
| 6 | `Squads`, `SquadsProofs`, `SquadsSledProofs` | bobsled teams, dancers, bungees: handles between zombies | modelled, checked, proved |
| 7 | `CoinLife` | a coin from its drop to the profile: presents, money, diamonds, awards, quitting in the middle | next |
| 8 | `LawnMowers` | started, shredding, paid, used once per row | planned, composes with `LevelFlow` |
| 9 | `AppScenes` | screens, dialogs and their deferred deletion | planned, composes with `LevelFlow` |
| 10 | `SaveGame` | sections, header, failure in the middle, `FixBoardAfterLoad` | planned, over `DataArray` |
| 11 | `Effects`, `TodList` | attachments and effect systems, lists and their allocator | planned, over `HandleTable` |
| 12 | `Challenges`, `ZenGarden` | vases, I, Zombie, Beghouled, the slot machine; potted plants | planned |
| 13 | `Sound`, `Loading` | bursts and drums, foley instances; the loading thread | planned |

Abstract specifications: `HandleTable` (done); for saved games a register that
holds the last game saved or none; for the effects a tree of owners. Theorems:
each of the six components modelled so far has its invariants and action
properties proved (section 6); to come are those of the modules above.

## 3. How the modules correspond to the code

`PROJECT.json` maps each definition to its lines (`map`). Definitions keep the
names of the functions and fields they model. A comment that begins *Mutant*
marks a definition that is not the code: it is a way the code could be wrong,
and the properties are known to notice it.

### DataArray and HandleTable

`DataArray` has the pool's five fields. `mBlock` holds each slot's `mID` as a
record of key and index, since the code takes it apart with a mask and a shift
wherever it uses it; for a free slot the index is the next free slot. The
actions are the operations of `DataArray.h`; `IterateNext` is one call of the
loop, so that allocating and freeing happen between two calls, as they do in
loop bodies; `SaveArray` and `LoadArray` are `SyncDataArray` of `SaveGame.cpp`
for writing and reading. Two auxiliary variables say what a loop still owes and
how many allocations ago a handle was issued. A full pool is a guard: the code
only asserts, and its callers rely on it. `HandleTable` is what the users of a
pool see: a set of live handles, each of which names the same item until it is
freed. The mapping takes the live slots' IDs for the table, and what was saved
for the table that was saved.

### LevelFlow

One record `board` holds the fields of `Board` and `Challenge` that say how far
a level is, because quitting writes these fields to `file` and resuming reads
them back. `step` goes through the parts of a frame in the order of
`LawnApp::UpdateFrames` and `Board::Update`: input, objects, spawning, end of
level, end of game. In the step *objects* zombies lose their heads, die by each
of the ways that call (or do not call) `TrySpawnLevelAward`, are hypnotised,
raise others, or reach the house, in any order and number; which of them and
why is left open. `TrySpawnLevelAward`, `DropLoot`, `FadeOutLevel` and
`RemoveAllZombies` are functions from board to board that the actions compose in
the order of the code, including the second call that the first one causes.
The dialogs *continue* and *game over* hold the board as the modal loop does.

Left out: puzzle levels and the boss, whose end is decided elsewhere; quick
play; cheats; which zombies a wave holds. Dancers raise one backup, backups none.

### Planting

`packets` is the bank or the belt, `cursor` what is in the hand, `coins` the
suns and the seeds that lie on the lawn. A packet in the cursor stays in the
bank, inactive and not refreshing; a seed in the cursor stays in the pool, as
being collected. The actions are the clicks and keys of `Board::MouseDown` and
`Board::KeyChar`, what a frame does to packets and coins, and what stages and
the end of a level do. The model keeps `WasPlanted`, `RemoveSeed`,
`RefreshAllPackets`, `SetPacketType` and `RefreshSeedPacketFromCursor` whole.

Timers are left out: a packet may refresh, a coin fade or arrive at any time.
Where something may be planted (`CanPlantAt`, `PlantingRequirementsMet`) is left
open. Every sun is worth the same, and a price does not change while a packet is
carried: the price of an upgrade in an endless game rises with each plant of it
on the lawn, and no other can be planted meanwhile. Saving and loading copies
the bank, the cursor and the coins byte by byte and needs no action. I, Zombie
and Whack a Zombie handle packets as an ordinary level does. In the slot machine
a packet cannot be taken, and in Beghouled and Zombiquarium it acts at once
without going through the cursor: these are left out.

### SeedChooser

There is no list of the bank in the code, and none in the model: a seed has its
state (`mSeedState`: in the chooser, flying to the bank, in the bank) and its
index, and `mSeedsInBank`, `mSeedsInFlight` and `mPreviousType` are counted and
noted apart. The actions are the clicks (`ClickedSeedInChooser`,
`ClickedSeedInBank`, the Imitater's dialog), the random pick, the start button,
the store, and a stage of Survival that ends. Each lands the flying seeds, looks a
seed up by `FindSeedInBank`, renumbers and recounts in the order of the code.
`packets` is what `CloseSeedChooser` makes of the bank. Flights take any time;
what a button asks the player is answered either way.

### Profiles

The maps and counters of `ProfileMgr` and the dialogs of the menu are variables,
and so are the four kinds of files. A handler changes memory at once and leaves
in `writes` the writes it makes, in their order; `Write` does the next of them,
`Crash` ends the program with what is left undone and may tear the file that
is being written. A handler starts only when the writes of the last are done.
A name is its key in the map, which ignores case, and the form it was typed in;
the two matter apart, because the code compares names both ways.

What a player has achieved is one number. `Earn` raises it in memory only, on the
board (coins) and in the menu (store, awards). It is written by
`WriteCurrentUserConfig` (a purchase, a record), by `CheckForGameEnd` (a level that
is won, or a stage of Survival, after which the board stays), by `DoBackToMain` and
by `Shutdown`. `GameOverMainMenu` leaves the board with `KillBoard` alone and writes
nothing: the main menu button of a lost level, the end of quick play, a restart.
What was earned there is lost when `GetProfile` reads the player again.

`Person`, `owner`, `left` and `kept` are history variables: who a profile was made
for, who was given an id last, what a player left with, and what each person had when
the game last set out to write it. A handler that writes the details sets `kept`
(`Keep`); a person who is deleted, and one whose write a crash cut off or prevented,
has nothing that must be kept (`Forget`, `ForgetUnwritten`).

### Squads

`zombie` has the fields of `Zombie.cpp` that say who belongs to whom and what
ends it. `mRelatedZombieID` is the leader, the dancer or the load, as in the
code. `BeginFrame` is `ProcessDeleteQueue` and the start of the loop over the
zombies; `Update(z)` is `Zombie::Update`, whole, with what `UpdatePlaying` does
after the actions of its kind (`Walked`) and the fading at its end (`Faded`);
damage, fire, mowers, chompers, butter, hypnosis and other zombies come between
any two updates. Functions from zombies to zombies are composed in the order of
the code, and give sets where the outcome depends on what is left out. The loop
takes the zombies in any order. Health is above 0 or not; where a zombie stands,
when it dances and how much it is hurt are open; falls and crashes are counted in
frames. Of a dead zombie the model keeps what others may still follow
(`Dead`). What a bungee drops is of the kind *normal*.

## 4. Runs

| Run | Question | Bounds |
|---|---|---|
| `data_array` | Are the pool's invariants kept, and does it implement the table of handles? | 3 slots, 2 keys |
| `level_flow` | Does a level end once, after its last wave, paid once, and does quitting at any step keep what was done? | 4 kinds of level, 2 waves, 2 stages, 2 zombies, 2 mowers |
| `level_ends` | Does every level come to an end? | 3 kinds of level, 1 wave, 2 stages, 2 zombies |
| `planting` | Is every packet, seed and sun accounted for? | 3 packets, 2 types of seed, 2 coins, sun up to 4 |
| `whack_overrun` | What if the missing `return` of `UpdateZombieSpawning` reads as false? (violation) | as `level_flow`, Whack a Zombie only |
| `seed_chooser` | Are the places of the bank exact whatever is clicked while seeds fly, and does the level get a usable packet in each? | 6 seeds: 3 ordinary, the Imitater, an upgrade, a banned one; 3 places and 1 to buy |
| `profiles` | Does everyone get their own files, and nobody lose what was written of them, whatever write a crash falls into? | 3 names in 2 forms, 2 users, 3 ids, 3 persons, progress up to 1, few torn files (`FewTorn`) |
| `sleds` | Is every handle between the zombies of a sled good when it is followed? | 4 zombies, sleds of 3 |
| `troupes` | Is a troupe on one side, and is what hangs carried? | 3 zombies, 2 places of backup dancers, a pool of 4 |
| `sled_breaks` | Does a crashed team come apart? | 3 zombies, sleds of 2 |
| `eaten_follower` | Has every zombie that is moved some health left? (violation) | 4 zombies, sleds of 3 |
| `sled_overfills` | Has the pool room for every zombie that is made? (violation) | 5 zombies, sleds of 4, a pool of 4 |

**Why the bounds are enough.** *DataArray*: with three slots the free list takes
every shape a list can (empty, one, in order and out of order, and cut by the
end of the used part), and with two keys the key wraps after two allocations, so
that every wrap, save and load falls between any two operations. *LevelFlow*:
two waves give a first and a last one, and one of them is a flag wave with its
huge warning; two stages give one that repicks and one that does not; two
zombies, one of them a dancer, let one die or be raised while the other is the
last enemy; two mowers let one be paid, one fly and one stand. Times are scaled
down and keep only their order: a wave called early comes before one that is
not, a warning after both, and the mowers are paid and have landed before the
victory sequence ends, as 200 + 40 · 5 + 80 < 500 in the code. A frame whose zombies
would need a third name waits until a name is free: the pool of 1024 is never
full in play. Whack a Zombie stops when two waves too many have come. *Planting*: three
packets let the belt lose one before, behind and at its end; one seed costs more
than the sun at the start and more than one sun, so that it is paid for by suns
in flight; the counter's maximum is low enough to be reached. *SeedChooser*: three
places let a seed be taken from the start, the middle and the end of the bank
with others behind it, some of them flying; a place bought makes a full bank one
that is not; there is one of each kind of seed that the code tells apart, and
three ordinary ones because the bank can then be filled without the others.
*Profiles*: one name more than users and as many ids as persons, so that a name is
used again by another person, an id is given out again after a restart, and the
list is full, empty and in between; two forms show the two comparisons of names
apart. `FewTorn` bounds what crashes tear, which is where the states multiply:
no torn saved game, whose contents are never read by this part; one torn file of
details at a time; and no torn `users.dat` once the last person is made, since what
it endangers is a person who gets the id of one that was forgotten. The theorems
know no such bound. *Squads*: a team of three has a follower that is hurt and one that is not,
and the fourth zombie is one that eats them, or a survivor of the team before;
a dancer with two places has one backup of its own row and one that may be
missing; three zombies are a bungee, its load and one beside them, or a dancer
and its troupe. A fade takes two frames in `sleds`, so that the sled can crash
again meanwhile, and one in the other runs; in `sled_breaks` a crash takes two,
so that a body can fade before its crash is over. All times are above 0 and none is compared
with another.

**Deadlock** is checked in every run of `DataArray` and `LevelFlow`: no dialog,
scene or step leaves the program without a next step. A faded-out level of
`Planting` may stop, so its run does not check it; neither do those of
`SeedChooser`, which ends when the level starts, and of `Squads`, where a small
pool whose handles are all in use may have nothing left to do. `Profiles` is
checked: a program that is off can be started.

**Fairness** (`level_ends`). Weak fairness of the steps of a frame: the program
runs frames as long as it lives (`LawnApp::UpdateFrames`). Strong fairness of
`EndObjects`, because anything may happen in a step of the objects but not for
ever in one frame. Weak fairness of `StartPlaying` and of the answer to the
*continue* dialog: intros end and a player answers. Strong fairness of
`CollectAward` and `StartOnslaught`, since input is only taken between two
frames. Strong fairness of `EnemyGoes(z)`: no enemy stands on the lawn for ever;
it walks on, and is killed or reaches the house. Whack a Zombie is left out:
its last wave rises from the graves that no grave buster is eating, and if there
is none, no zombie is left to drop the award. (`sled_breaks`) Weak fairness of
the frame loop, which is `BeginFrame` or the update of a zombie that is in the
pool: frames follow each other and each updates every zombie
(`LawnApp::UpdateFrames`, `Board::UpdateGameObjects`). Nothing is assumed of damage, and a zombie's update
may do as little as the code's may.

## 5. What the runs show

*Pools.* The free list is exact after every operation, a load included; a loop
that is running while its body allocates and frees returns every item that lives
throughout; and a handle is not given out again before the key has gone round.

*Level flow.* The award is dropped once although `TrySpawnLevelAward` is reached
twice by `DieWithLoot` and again from inside `RemoveAllZombies`; after it no
enemy is left, whatever dies in the same frame. A stage's end begins once: what
keeps `RemoveZombiesForRepick` from awarding the stage again is only
`mLevelComplete`, set one line above. Mowers are paid once whenever the player
quits. A game of Survival keeps its stages although nothing is saved between two
stages, thanks to the counter of 1 in the game saved a frame before. And every
level of the three kinds ends.

*Planting.* No packet is lost or taken twice, with keys or without; the belt has
no gap and loses only what is planted; the price that was checked when a packet
was taken can still be paid when it is planted, although the counter may be
below zero and sun above its maximum is lost; and the coin the cursor names,
which the code looks up without asking, is always there.

*Seed chooser.* Although taking a seed out renumbers the others by a lookup that
does not see flying seeds, the seeds chosen always hold the first places of the
bank one each, and the two counters agree with the states: each click lands
what flies before it looks. A level never starts with an empty place, a seed twice
or an Imitater of nothing, even if seeds are bought and places added in between.

*Profiles.* The current player is in the map and on the list of the dialog; ids are
distinct; and because files are erased before the list is written, a crash at
any write never gives a new player the files of a former one. Who leaves by the
door comes back as the same player with the same progress. `GetProfile` reads the details
over the profile in memory again and again, but what the game has set out to write of
a player is there whenever they are the current one, unless it died before the write
was done; and no write of any handler takes back progress that is on disk. What was
earned since the last write has no such promise, as *Exceptions* says.

*Squads.* However the members of a sled are hurt, burned, mowed, eaten or swallowed,
whichever is updated first and whatever crash or fade is under way, the
handles that the code follows without asking are good, and a team is dead to the
last or not at all. Hypnosis splits a troupe cleanly. What hangs is carried by
exactly the bungees that will set it down or die with it. And a crashed team
comes apart.

### Disagreements

`Challenge::UpdateZombieSpawning` (`Challenge.cpp:2843`) returns no value in
Whack a Zombie: the function falls off its end, and whether
`Board::UpdateZombieSpawning` goes on with its own countdown is undefined. If it
does, both spawn waves and one is spawned that the level does not have, against
the assertion at `Board.cpp:4888`. `whack_overrun` shows the steps. The other runs
let both happen.

`Zombie::UpdatePlaying` asserts that a zombie it moves has health left or is
crashing (`Zombie.cpp:4442`). A hypnotised zombie may eat a follower that sits on its
sled, as `FindZombieTarget` does not ask whether it does; the follower then is
dying. When the sled crashes, `BobsledCrash` (`Zombie.cpp:2481`) overwrites the
phase of everyone on it, also of the dying one, which is on its feet again when
the crash is over, without health, and lives until it is hit or its body, which
may have begun to fade, has faded. `eaten_follower` shows the steps.

`DataArrayAlloc` asserts that there is a free slot (`DataArray.h:129`), and writes
past its block in a release build if there is none. `Board::AddZombieInRow` asks for
the room of one zombie (`Board.cpp:2658`) and makes four of a bobsled team
(`Board.cpp:2671`). `sled_overfills` shows a pool with room for one taking four; in
play that needs more than a thousand zombies.

### Exceptions

Some properties hold for all but one kind of level. No document claims the rest;
they are kept here because the model shows them.

- `NoFinishedLevelOnFile` excepts *Last Stand*. It too counts
  `mNextSurvivalStageCounter` down after a stage; leaving in the frame where it is 1
  and continuing keeps the saved game (`ContinueDialog.cpp:107`), and nothing
  erases it when the level is won later, so it can be continued and won again.
- `LossIsFinal` excepts *Survival* and *Last Stand*. `UpdateLevelEndSequence`
  runs in every scene: if an enemy reaches the house while the counter to the
  next stage runs, the stage still ends and the lost game goes on. Last Stand
  stays in the scene *playing* when it is lost: the rest of the frame may award
  the stage under the *game over* dialog, and closing the program then saves the
  lost game.
- `SeedsAccountedFor` holds without the keys of the seed bank. `Board::KeyChar`
  clears the cursor (a digit, `Board.cpp:7907`) or makes it a shovel
  (`Board.cpp:7921`) without `DroppedUsableSeed`: a seed that was in it remains
  *being collected* and can never be picked up again.
- `InitZombieWaves` does not reset `mRiseFromGraveCounter`: graves that were about
  to rise at the end of a stage rise at the start of the next. It breaks nothing
  that is promised.
- `PacketsUsable` excepts seeds that Last Stand bans when the cheat keys are on:
  with them the chooser lets them be picked.
- `ProgressKept` does not cover what is in memory only. The main menu button of the
  game over dialog (`LawnDialog.cpp:444`) and the end of a quick play level
  (`LawnApp.cpp:1606`) kill the board without `WriteCurrentUserConfig`; if the
  player is then chosen again in the user dialog, or renamed, before anything is
  written, `GetProfile` puts the older file over the profile and the coins of that
  level are gone.
- `FilesBelong` excepts a disk on which `users.dat` was torn: `Load` then forgets
  everyone and ids are given out from 1 again, while the files of the former
  players stay. `WriteBytesToFile` writes in place, and its result is ignored.
- `TroupeOneSide` asks only of a backup dancer that still belongs to the dancer
  that it is on its side. Butter cuts a backup dancer's tie to its dancer
  (`Zombie.cpp:6833` cuts both ways, `ApplyButter` one way), so a buttered one that is
  hypnotised afterwards keeps its place in the list of the dancer it has left,
  which does not summon another for it. And a hypnotised dancer that eats a
  second hypno-shroom forgets its backup dancers, which keep dancing for it.
- A follower whose leader was dying when the sled crashed is let go by it when the
  crash is over; if the leader's body fades first, the followers die of it on
  their feet. It breaks nothing that is promised.

## 6. Proofs

TLC checks small instances; the following holds for every value of the constants
that satisfies the named assumptions of the modules.

**DataArrayProofs** (`SizeAssumption`, `KeyAssumption`). The free list is an
intrusive one, so the invariant has to exhibit it: `FreeListExact` says that
there is a chain from the head over the free slots below `mMaxUsedCount`, each
once, to `mMaxUsedCount`, and that the live slots are the others. Every lemma
of the first part gives the chain after one change of the block: a slot pushed,
the head popped, a fresh slot used. The saved pool must be sound too, since it
may be loaded, and `UnvisitedAhead` says that a loop's unvisited items are ahead
of it. `AgesTellKeys` relates the age of each handle to the distance of its key
from the counter; without it `NoEarlyReuse` is not inductive, as the keys alone
do not tell whether the counter has gone round. The refinement maps each
operation to one of `HandleTable` or to a stutter.

**PlantingProofs** (`SeedsAssumption`, `CoinsAssumption`, `SunAssumption`,
`NumPacketsAssumption`, `ModesAssumption`). First the lemmas *which steps change
what* split the 20 actions by the variable they change. `IInv` joins the
promises with two facts of their own: `CursorNames`, what each kind of cursor
names (a packet and no coin, a coin, or nothing), and `CollectedDoesNotFade`. A
packet is only put back to the right place because the cursor's index is in the
bank; a belt only has no gap because the packet planted is the one the cursor
shows; the coin in the cursor is only there because what is collected does not
fade. On top of `IInv` the sun is counted: `BalanceChange` says that the sun the
player has and is about to have never shrinks but by planting, or is at the
counter's maximum, and no price is above that. The seeds on a belt are counted by
maps from the places that show a seed before a step to those that show it after: a
step keeps them, adds one at the end of the belt, or moves those behind the planted
one down. With `PacketsAccountedFor` the planted one is where the cursor says, so
`BeltLosesOnlyPlanted` and `BeltMakesRoom` follow.

**LevelFlowProofs** (`ModesAssumption`, `WavesAssumption`, `TimesAssumption`; any
number of zombies, finite or not). The saved game is a copy of the board, so what
is invariant is first stated of a board, `Sound`, and holds of the board in play
and of the one on file. None of the promises is inductive by itself.
`NoEnemiesAfterAward` needs `EndsSound`: at most one end is under way, and each
comes after the last wave. `MowersPaidOnce` needs `PaysSound` and `CoinsLand`: the
mowers that are left, at `MowerNext` frames each, and the flight of their coins fit
into what is left of the victory sequence, which is where the times of the source
enter (200 + 40 · 5 + 80 < 500). `NoFinishedLevelOnFile` and `QuitKeepsProgress` need
`FileInPlay` and `StageOnFile`: when a board is in play and a game is on file as
well, the board was just loaded, or one stage of Survival goes over into the next
and then the finished stage is what is on file. `NoWaveDuringWarning` and
`SpawnInRange` rest on `WavesSound`. The zombies' part of the frame is a
composition of functions from board to board, so a relation, `Goes`, says how a
board may change meanwhile; each function is shown to change it only so
(`FateDies`, `SpawningGoes`), and `GoesKeeps` that this keeps the invariant. What a
step may not do is one formula, `Steps`, proved of every action together with the
invariant; `EveryStep` states it of the program and the action properties follow.
`SpawnInRange` is proved for the modes without Whack a Zombie, since it is false
there (`whack_overrun`).

**SeedChooserProofs** (`SeedsAssumption`, `PacketsAssumption`; any set of seeds, any
size of bank). `BankIsExact` is nearly inductive, since a click lands what flies
before it looks: `FindAtClick` says that `FindSeedInBank` then finds the seed of
every place. What the Imitater copies needs more: the code takes it from
`mPreviousType`, noted when the seed was taken, and `PreviousIsLast` says that this is
the seed in the last place whenever the Imitater can be clicked. `ImitaterCopies` and
`NothingBanned` carry that to the packets the level starts with.

**ProfilesProofs** (`ProfilesAssumption`, `OrderAssumption`, `FilesAssumption`). A
handler changes memory at once and the disk write by write, so the invariant is
about the writes still to be done: `RosterCurrent` (the last of them makes the
roster on disk the one in memory), `ErasedFirst` (the files of whoever leaves the
roster are erased before it is written) and `WritesBelong` (a file is written for a
player who is on the roster on disk, by a handler that does not write the
roster). `FilesBelong` follows after a crash at any of them. All three are asked only
while `users.dat` was never torn, as the code does not keep them after that. That
ids have a largest one is carried along for every set of profiles, because it
would need induction.

**ProfilesProgressProofs** (the same assumptions). What a player has achieved is in the
map and in `user<id>.dat`, and `GetProfile` copies the file over the map whenever the
player is chosen. `KeptSafe` says where what is kept of a player is meanwhile: in
their file or in a write of it that is still to be done, and no write to come erases
it. A read falls between two handlers, when no write is left, so it finds at
least that (`ReadKeeps`), and `PlayerKeeps` follows. `DiskKeeps` needs `InStep`: the
current player is never behind their file, so that a write takes nothing back.
`WritesInStep` says the same of the writes to be done: they are what the current
player has. Files are told by their person, not by their id, which is used again
(`PersonsApart`). That there are never more players than the user dialog has lines for
is the part of `TypeOK` that the types alone do not give: the list whose length the
dialog asks about is exact (`PlayerListed`), and the other way to a new player, which
asks nothing, is open only where nobody plays, which is where there are no players
(`FewPlayers`). `ResumesPlayer` compares a start with the last
Shutdown, and `LeftOnDisk` says what the disk and the writes to be done hold between
the two. `users.dat` may be torn here: progress is not lost by it, only players are.

**SquadsProofs** (`SquadsAssumption`; any pool, any size of team). The handlers are
compositions too, so the invariant is stated of the zombies in the middle of one,
`Sound`, and each function keeps it: most keep the ties (`SameTiesSound`), the rest
kill a team or one of it, cut ties, or use fresh handles. `KindsAgree` (what a
handle names, by the kind of who holds it), `FollowersFollow` (a follower leads
nobody) and `BungeesSound` (a bungee that can be hurt carries nobody) are the
strengthening: without the first, a handle that outlived its zombie could name a
new one of another kind.

**SquadsSledProofs** (the same assumption) shows that the two disagreements about zombies are
about bobsleds alone, and how far they go. Each step that takes slots leaves at most
`MaxZombies - 1` in use, but for `AddBobsled`, which may leave
`MaxZombies + NumFollowers - 1` (`OverfilledByATeam`): two too many in the game. And a
zombie without health that does not fall, burn or lie dead came on a sled: every
handler keeps `AllFit`, a set of records, function by function, and only
`BobsledCrash` puts a fallen zombie on its feet, which `SledsWhole` shows to be one
of the team. A level that sends no bobsled keeps both promises (`PoolHasRoom`,
`HealthyUnlessCrashing`).

It also proves the safety half of `SledBreaksUp` (`SledCrashRunsOut`). `FramesLeft`
bounds the frames until the leader of a crashed sled lets go of its followers or is
gone: the rest of the crash, then of a fall, then of fading. No zombie becomes a leader
but at birth; a leader that crashes or falls does nothing else while it leads; no step
makes `FramesLeft` greater, and every step in which the frame's loop is done with the
leader makes it less. Again each function of a handler is shown to do so (`AllSettle`), which
needs that a follower that is let go leads nobody (`FollowersFollow`) and that the loop
skips those who died earlier in the frame (`LoopLive`). What is left to TLC is that
frames do follow one another.

**Only model-checked**: `LevelEnds` and `SledBreaksUp`, which are liveness (of the
second the variant is proved, see above). Liveness under fairness, `ENABLED` and
induction over data are out of the prover's reach. `SpawnInRange`, `PoolHasRoom` and
`HealthyUnlessCrashing` are false of the program as it is; they are proved for the
levels named above.

## 7. What is not modelled

Besides the parts the plan has still to reach: movement, collision, damage and
targeting (numbers and geometry, with little control); drawing, animation,
particles' looks; text and layout; parsing of definitions and resources; the
framework, image and archive libraries, DirectX and Discord, which are
third-party. `PROJECT.json` gives the reason for each.
