------------------------------- MODULE Squads -------------------------------
(***************************************************************************)
(* The zombies that hold handles of each other (Zombie.cpp): the four on a   *)
(* bobsled, a dancer and the backup dancers it summons, a bungee and the     *)
(* zombie it drops. One field, mRelatedZombieID, says three things: who      *)
(* leads me, whom I dance for, whom I carry.                                 *)
(*                                                                           *)
(* A frame updates every zombie once, in the order of the pool, which is any *)
(* order once slots have been used again. What plants, mowers and other      *)
(* zombies do to a zombie may come at any point of the frame. A zombie that  *)
(* dies is marked and stays in the pool until the next frame begins.         *)
(*                                                                           *)
(* A handle is a member of Zombie. It names one zombie only (DataArray.tla), *)
(* so it is given out again only when nobody holds it.                       *)
(*                                                                           *)
(* Of a health there is only whether it is above 0. How much damage is done, *)
(* where a zombie stands and how long it dances are left open; how long a    *)
(* crash and a fall last is counted, in frames.                              *)
(***************************************************************************)
EXTENDS Naturals, FiniteSets, Functions

CONSTANTS
  Zombie,        \* the handles
  None,          \* ZOMBIEID_NULL
  Sent,          \* the kinds of zombies the level sends
  NumFollowers,  \* NUM_BOBSLED_FOLLOWERS, 3
  NumBackups,    \* NUM_BACKUP_DANCERS, 4
  Beside,        \* the places of backup dancers in the rows above and below
  MaxZombies,    \* mMaxSize of the pool, 1024
  CrashTime,     \* BOBSLED_CRASH_TIME
  DeathTime,     \* bound: the longest that a zombie falls, burns or lies mowed
  FadeTime       \* the frames a fallen zombie takes to fade

\* A "dropped" zombie comes with a bungee that carries it.
Arrivals == {"normal", "bobsled", "dancer", "bungee", "dropped"}

ASSUME SquadsAssumption ==
  /\ None \notin Zombie /\ Sent \subseteq Arrivals
  /\ NumFollowers \in Nat \ {0} /\ NumBackups \in Nat /\ NumFollowers <= NumBackups
  /\ Beside \subseteq 1..NumBackups
  /\ MaxZombies \in Nat
  /\ CrashTime \in Nat \ {0} /\ DeathTime \in Nat \ {0} /\ FadeTime \in Nat \ {0}

VARIABLES
  mZombies,  \* the handles in use
  zombie,    \* what each names
  toUpdate   \* the zombies the frame's loop has not come to yet

vars == <<mZombies, zombie, toUpdate>>

Kinds == {"normal", "bobsled", "dancer", "backup", "bungee"}

Corpse == {"dying", "burned", "mowered"}

\* "climbing" is PHASE_BUNGEE_RISING, "rising" PHASE_DANCER_RISING; "hold" is
\* DANCER_SNAPPING_FINGERS_HOLD; "normal" is every other way of walking.
Phases == {"normal", "sliding", "crashing", "dancing_in", "snapping", "hold", "rising",
           "diving", "bottom", "climbing"} \union Corpse

Places == 1..NumBackups
Followers == 1..NumFollowers

\* mBodyHealth is TRUE above 0. mHanging is HEIGHT_GETTING_BUNGEE_DROPPED.
\* mPhaseCounter also counts the frames of a fall, which the code reads off its
\* animation. mZombieFade is 0 where the code has -1.
Record ==
  [mZombieType : Kinds, mZombiePhase : Phases, mPhaseCounter : 0..CrashTime + DeathTime,
   mDead : BOOLEAN, mHasHead : BOOLEAN, mBodyHealth : BOOLEAN, mMindControlled : BOOLEAN,
   mHanging : BOOLEAN, mSummonCounter : BOOLEAN, mZombieFade : 0..FadeTime,
   mRelatedZombieID : Zombie \union {None},
   mFollowerZombieID : [Places -> Zombie \union {None}]]

Nobody ==
  [mZombieType |-> "normal", mZombiePhase |-> "normal", mPhaseCounter |-> 0,
   mDead |-> FALSE, mHasHead |-> TRUE, mBodyHealth |-> TRUE, mMindControlled |-> FALSE,
   mHanging |-> FALSE, mSummonCounter |-> FALSE, mZombieFade |-> 0,
   mRelatedZombieID |-> None, mFollowerZombieID |-> [p \in Places |-> None]]

TypeOK ==
  /\ mZombies \subseteq Zombie
  /\ zombie \in [Zombie -> Record]
  /\ toUpdate \subseteq mZombies

Init ==
  /\ mZombies = {} /\ toUpdate = {}
  /\ zombie = [z \in Zombie |-> Nobody]

----------------------------------------------------------------------------
(* Who belongs to whom. "zs" is the zombies in the middle of a handler. *)

IsDeadOrDying(zs, z) == zs[z].mDead \/ zs[z].mZombiePhase \in Corpse

IsFollower(zs, z) == zs[z].mZombieType = "bobsled" /\ zs[z].mRelatedZombieID # None

IsLeader(zs, z) ==
  /\ zs[z].mZombieType = "bobsled" /\ zs[z].mRelatedZombieID = None
  /\ zs[z].mFollowerZombieID[1] # None

IsBobsledTeamWithSled(zs, z) == IsFollower(zs, z) \/ IsLeader(zs, z)

\* The sled is the leader's helmet.
HasSled(zs, z) == IsLeader(zs, z) /\ zs[z].mZombiePhase = "sliding"

FollowersOf(zs, l) == {zs[l].mFollowerZombieID[i] : i \in Followers}

\* A mutant: a follower dies without its team.
DiesAlone(zs, z) ==
  IF IsLeader(zs, z) THEN FollowersOf(zs, z)
  ELSE IF zs[z].mZombieType = "bungee" THEN mZombies \intersect {zs[z].mRelatedZombieID}
  ELSE {}

\* Whom DieNoLoot kills besides: the team of a sled, what a bungee still carries.
DiesWith(zs, z) ==
  IF IsBobsledTeamWithSled(zs, z)
  THEN LET l == IF IsFollower(zs, z) THEN zs[z].mRelatedZombieID ELSE z
       IN  {l} \union FollowersOf(zs, l)
  ELSE IF zs[z].mZombieType = "bungee" THEN mZombies \intersect {zs[z].mRelatedZombieID}
  ELSE {}

\* Nothing that asks what a zombie does or how it is asks a dead one: of that
\* there is only whom it led, followed or carried, and for which side.
Dead(zs, dead) ==
  [y \in Zombie |->
     IF y \in dead
     THEN [zs[y] EXCEPT !.mDead = TRUE, !.mZombiePhase = "dying", !.mPhaseCounter = 0,
                        !.mHasHead = FALSE, !.mBodyHealth = FALSE, !.mHanging = FALSE,
                        !.mSummonCounter = FALSE, !.mZombieFade = 0]
     ELSE zs[y]]

DieNoLoot(zs, z) == Dead(zs, {z} \union DiesWith(zs, z))

Set(zs, z, phase, counter) ==
  [zs EXCEPT ![z] = [@ EXCEPT !.mZombiePhase = phase, !.mPhaseCounter = counter]]

\* Everyone on the sled, whatever he was doing.
BobsledCrash(zs, l) ==
  [y \in Zombie |-> IF y \in {l} \union FollowersOf(zs, l)
                    THEN [zs[y] EXCEPT !.mZombiePhase = "crashing", !.mPhaseCounter = CrashTime]
                    ELSE zs[y]]

----------------------------------------------------------------------------
(* What is done to a zombie. *)

CanLoseBodyParts(zs, z) ==
  zs[z].mZombieType # "bungee" /\ ~IsBobsledTeamWithSled(zs, z)

Beheaded(zs, z) ==
  IF CanLoseBodyParts(zs, z) THEN [zs EXCEPT ![z].mHasHead = FALSE] ELSE zs

\* PlayDeathAnim: the zombie falls for some frames, or is gone at once where
\* DAMAGE_DOESNT_LEAVE_BODY is set.
PlayDeathAnim(zs, z, leavesBody) ==
  LET killed == [zs EXCEPT ![z].mBodyHealth = FALSE]
  IN  IF leavesBody THEN {Set(killed, z, "dying", t) : t \in 1..DeathTime}
      ELSE {DieNoLoot(killed, z)}

\* TakeDamage: the outcomes, by how much it was. The sled is hit first; a hit
\* that leaves no body does not let it crash.
TakeDamage(zs, z, leavesBody) ==
  LET hit == IF HasSled(zs, z) /\ leavesBody THEN BobsledCrash(zs, z) ELSE zs
  IN  {hit, Beheaded(hit, z)} \union PlayDeathAnim(Beheaded(hit, z), z, leavesBody)

\* A follower is out of reach of plants and mowers; so is what hangs or climbs.
EffectedByDamage(zs, z) ==
  /\ ~zs[z].mDead /\ ~zs[z].mMindControlled /\ ~zs[z].mHanging
  /\ ~IsFollower(zs, z)
  /\ zs[z].mZombieType = "bungee" => zs[z].mZombiePhase = "bottom"

\* A burnt team is dead to the last: BobsledBurn chars the leader and then kills
\* the followers, which kills the leader.
ApplyBurn(zs, z) ==
  IF zs[z].mZombiePhase = "burned" THEN {zs}
  ELSE IF /\ zs[z].mZombiePhase \notin {"dying", "mowered", "rising"}
          /\ ~IsBobsledTeamWithSled(zs, z)
          /\ zs[z].mZombieType = "bungee" \/ ~zs[z].mHasHead
  THEN {Set(zs, z, "burned", t) : t \in 1..DeathTime}
  ELSE {DieNoLoot(zs, z)}

MowDown(zs, z) ==
  IF zs[z].mZombiePhase = "mowered" THEN {zs}
  ELSE IF \/ zs[z].mZombiePhase \in {"dying", "burned", "rising"}
          \/ zs[z].mZombieType = "bungee" \/ IsBobsledTeamWithSled(zs, z)
  THEN {DieNoLoot(zs, z)}
  ELSE {Set(zs, z, "mowered", t) : t \in 1..DeathTime}

\* Butter cuts a backup dancer's tie to its dancer, but the dancer's not to it.
ApplyButter(zs, z) ==
  LET other == zs[z].mRelatedZombieID
  IN  IF other \in mZombies
      THEN [y \in Zombie |-> IF y \in {z, other}
                             THEN [zs[y] EXCEPT !.mRelatedZombieID = None] ELSE zs[y]]
      ELSE zs

\* Of mFollowerZombieID without z.
Without(followers, z) == [p \in DOMAIN followers |-> IF followers[p] = z THEN None ELSE followers[p]]

\* A mutant: a dancer that changes sides keeps counting on its followers.
TurnedWithTroupe(zs, z) ==
  LET other  == zs[z].mRelatedZombieID
  IN  [y \in Zombie |->
         IF y = z THEN [zs[y] EXCEPT !.mMindControlled = TRUE, !.mRelatedZombieID = None]
         ELSE IF y = other /\ y \in mZombies
         THEN [zs[y] EXCEPT !.mFollowerZombieID = Without(@, z)]
         ELSE zs[y]]

\* A dancer that changes sides forgets its followers, a backup dancer leaves.
StartMindControlled(zs, z) ==
  LET other  == zs[z].mRelatedZombieID
      turned == [zs EXCEPT ![z].mMindControlled = TRUE]
  IN  IF zs[z].mZombieType = "dancer"
      THEN [turned EXCEPT ![z].mFollowerZombieID = [p \in Places |-> None]]
      ELSE IF zs[z].mZombieType = "backup"
      THEN [y \in Zombie |->
              IF y = z THEN [turned[y] EXCEPT !.mRelatedZombieID = None]
              ELSE IF y = other /\ y \in mZombies
              THEN [zs[y] EXCEPT !.mFollowerZombieID = Without(@, z)]
              ELSE zs[y]]
      ELSE IF other \in mZombies
      THEN [y \in Zombie |-> IF y \in {z, other}
                             THEN [turned[y] EXCEPT !.mRelatedZombieID = None] ELSE turned[y]]
      ELSE turned

\* CheckIfPreyCaught and what keeps a zombie from eating.
CanEat(zs, z) ==
  /\ ~IsDeadOrDying(zs, z) /\ zs[z].mHasHead /\ ~zs[z].mHanging
  /\ zs[z].mZombieType # "bungee" /\ ~IsBobsledTeamWithSled(zs, z)
  /\ zs[z].mZombiePhase \in {"normal", "crashing", "dancing_in"}

\* FindZombieTarget asks neither EffectedByDamage nor whether it rides a sled.
CanBeEaten(zs, z) ==
  ~IsDeadOrDying(zs, z) /\ ~zs[z].mHanging /\ zs[z].mZombiePhase \notin {"diving", "climbing"}

----------------------------------------------------------------------------
(* Zombies come. *)

\* A handle that nobody holds.
Fresh ==
  {y \in Zombie \ mZombies : \A z \in mZombies :
     /\ zombie[z].mRelatedZombieID # y
     /\ \A p \in Places : zombie[z].mFollowerZombieID[p] # y}

\* AddZombieInRow refuses when the pool is full, but for one.
PoolIsFull(size) == size >= MaxZombies - 1

Born(kind) ==
  [Nobody EXCEPT
    !.mZombieType = kind,
    !.mZombiePhase = CASE kind = "bobsled" -> "sliding" [] kind = "dancer" -> "dancing_in"
                       [] kind = "bungee" -> "diving" [] OTHER -> "normal"]

AddZombie(kind) ==
  /\ ~PoolIsFull(Cardinality(mZombies))
  /\ \E z \in Fresh : /\ mZombies' = mZombies \union {z}
                      /\ zombie' = [zombie EXCEPT ![z] = Born(kind)]
  /\ UNCHANGED toUpdate

\* The leader and its followers, who are not asked whether there is room.
AddBobsled ==
  /\ "bobsled" \in Sent /\ ~PoolIsFull(Cardinality(mZombies))
  /\ \E l \in Fresh : \E team \in [Followers -> Fresh \ {l}] :
       /\ IsInjective(team)
       /\ mZombies' = mZombies \union {l} \union Range(team)
       /\ zombie' =
            [y \in Zombie |->
               IF y = l
               THEN [Born("bobsled") EXCEPT !.mFollowerZombieID =
                       [p \in Places |-> IF p \in Followers THEN team[p] ELSE None]]
               ELSE IF y \in Range(team) THEN [Born("bobsled") EXCEPT !.mRelatedZombieID = l]
               ELSE zombie[y]]
  /\ UNCHANGED toUpdate

\* A bungee with the zombie it is to drop.
BungeeDropZombie ==
  /\ "dropped" \in Sent /\ ~PoolIsFull(Cardinality(mZombies) + 1)
  /\ \E b \in Fresh : \E z \in Fresh \ {b} :
       /\ mZombies' = mZombies \union {b, z}
       /\ zombie' = [zombie EXCEPT ![b] = [Born("bungee") EXCEPT !.mRelatedZombieID = z],
                                   ![z] = [Born("normal") EXCEPT !.mHanging = TRUE]]
  /\ UNCHANGED toUpdate

----------------------------------------------------------------------------
(* What happens to them, at any point of the frame. *)

\* The loop passes over the dead.
Becomes(zs) ==
  /\ zombie' = zs
  /\ toUpdate' = {z \in toUpdate : ~zs[z].mDead}
  /\ UNCHANGED mZombies

\* A shot, a squash, a spike.
Hit(z) ==
  /\ EffectedByDamage(zombie, z) /\ ~IsDeadOrDying(zombie, z)
  /\ \E leavesBody \in BOOLEAN : \E zs \in TakeDamage(zombie, z, leavesBody) : Becomes(zs)

Burn(z) == EffectedByDamage(zombie, z) /\ \E zs \in ApplyBurn(zombie, z) : Becomes(zs)

MowZombie(z) == EffectedByDamage(zombie, z) /\ \E zs \in MowDown(zombie, z) : Becomes(zs)

\* A chomper. With the leader of a sled it swallows the team.
Swallow(z) ==
  /\ EffectedByDamage(zombie, z) /\ ~IsDeadOrDying(zombie, z) /\ zombie[z].mHasHead
  /\ Becomes(DieNoLoot(zombie, z))

\* A kernel-pult's butter, on what CanBeFrozen.
Butter(z) ==
  /\ ~IsDeadOrDying(zombie, z) /\ zombie[z].mHasHead /\ ~zombie[z].mMindControlled
  /\ ~zombie[z].mHanging /\ ~IsBobsledTeamWithSled(zombie, z)
  /\ zombie[z].mZombiePhase \notin {"rising", "crashing", "diving", "climbing"}
  /\ Becomes(ApplyButter(zombie, z))

\* AnimateChewSound; that the zombie has changed sides before is not asked.
EatHypnoshroom(z) ==
  CanEat(zombie, z) /\ Becomes(StartMindControlled(zombie, z))

EatZombie(e, z) ==
  /\ CanEat(zombie, e) /\ CanBeEaten(zombie, z)
  /\ zombie[e].mMindControlled # zombie[z].mMindControlled
  /\ \E zs \in TakeDamage(zombie, z, TRUE) : Becomes(zs)

\* RemoveAllZombies: each that does not die already, in turn.
RemoveAllZombies ==
  LET removed == {z \in mZombies : ~IsDeadOrDying(zombie, z)}
      gone    == removed \union UNION {DiesWith(zombie, z) : z \in removed}
  IN  Becomes(Dead(zombie, gone))

----------------------------------------------------------------------------
(* The frame. *)

\* A mutant: the loop is over those who were there before.
BeginFrameEarly ==
  LET live == {z \in mZombies : ~zombie[z].mDead}
  IN  /\ toUpdate = {}
      /\ mZombies' = live /\ toUpdate' = mZombies
      /\ zombie' = [z \in Zombie |-> IF z \in live THEN zombie[z] ELSE Nobody]

\* ProcessDeleteQueue, and the loop begins.
BeginFrame ==
  LET live == {z \in mZombies : ~zombie[z].mDead}
  IN  /\ toUpdate = {}
      /\ mZombies' = live /\ toUpdate' = live
      /\ zombie' = [z \in Zombie |-> IF z \in live THEN zombie[z] ELSE Nobody]

\* The end of Zombie::Update: a zombie that has begun to fade goes on fading,
\* whatever it does.
Faded(zs, z) ==
  LET fade  == zs[z].mZombieFade
      older == [zs EXCEPT ![z].mZombieFade = IF fade > 0 THEN fade - 1 ELSE 0]
  IN  IF fade = 1 /\ ~zs[z].mDead THEN DieNoLoot(older, z) ELSE older

\* What UpdatePlaying does after the actions of its kind: a hypnotised zombie walks
\* off the lawn, one without a head falls in time.
Walked(zs, z) ==
  {zs} \union (IF ~IsDeadOrDying(zs, z) /\ zs[z].mMindControlled THEN {DieNoLoot(zs, z)} ELSE {})
       \union (IF ~IsDeadOrDying(zs, z) /\ ~zs[z].mHasHead THEN TakeDamage(zs, z, TRUE) ELSE {})

Updated(z, zs) ==
  /\ z \in toUpdate
  /\ zombie' = Faded(zs, z)
  /\ toUpdate' = {y \in toUpdate \ {z} : ~Faded(zs, z)[y].mDead}
  /\ UNCHANGED mZombies

CountDown(zs, z) == [zs EXCEPT ![z].mPhaseCounter = IF @ > 0 THEN @ - 1 ELSE 0]

\* UpdateBurn, UpdateMowered.
UpdateBurnt(z) ==
  /\ zombie[z].mZombiePhase \in {"burned", "mowered"}
  /\ LET later == CountDown(zombie, z)
     IN  Updated(z, IF later[z].mPhaseCounter = 0 THEN DieNoLoot(later, z) ELSE later)

\* UpdateDeath: when it has fallen it begins to fade.
UpdateDeath(z) ==
  /\ zombie[z].mZombiePhase = "dying"
  /\ LET later == CountDown(zombie, z)
     IN  Updated(z, IF later[z].mPhaseCounter = 0 /\ zombie[z].mZombieFade = 0
                    THEN [later EXCEPT ![z].mZombieFade = FadeTime] ELSE later)

\* A mutant: nobody lets go.
UpdateCrashHolding(z) ==
  /\ zombie[z].mZombieType = "bobsled" /\ zombie[z].mZombiePhase = "crashing"
  /\ LET later == CountDown(zombie, z)
     IN  \E zs \in Walked(IF later[z].mPhaseCounter > 0 THEN later
                          ELSE Set(later, z, "normal", 0), z) : Updated(z, zs)

\* UpdateZombieBobsled, crashing: the leader lets go of its followers.
UpdateCrash(z) ==
  /\ zombie[z].mZombieType = "bobsled" /\ zombie[z].mZombiePhase = "crashing"
  /\ LET later == CountDown(zombie, z)
         up    == Set(later, z, "normal", 0)
         alone == [y \in Zombie |->
                     IF y = z
                     THEN [up[y] EXCEPT !.mFollowerZombieID =
                             [p \in Places |-> IF p \in Followers THEN None ELSE @[p]]]
                     ELSE IF y \in FollowersOf(zombie, z)
                     THEN [up[y] EXCEPT !.mRelatedZombieID = None]
                     ELSE up[y]]
     IN  \E zs \in Walked(IF later[z].mPhaseCounter > 0 THEN later
                          ELSE IF IsLeader(zombie, z) THEN alone ELSE up, z) : Updated(z, zs)

\* UpdateZombieBobsled, on the ice or past its end.
UpdateSled(z) ==
  /\ zombie[z].mZombieType = "bobsled" /\ zombie[z].mZombiePhase = "sliding"
  /\ \/ Updated(z, zombie)
     \/ IsLeader(zombie, z) /\ \E zs \in TakeDamage(zombie, z, TRUE) : Updated(z, zs)

\* NeedsMoreBackupDancers and SummonBackupDancers see a dead dancer until it is
\* deleted.
Missing(z) == {p \in Places : zombie[z].mFollowerZombieID[p] \notin mZombies}

\* UpdateZombieDancer but for the moment it summons. It does nothing while the
\* dancer eats or cannot move, and waits for the music and the clock.
UpdateDancer(z) ==
  /\ zombie[z].mZombieType = "dancer" /\ zombie[z].mZombiePhase \notin Corpse
  /\ LET d == zombie[z]
         calls    == /\ d.mHasHead
                     /\ \/ d.mZombiePhase = "dancing_in"
                        \/ d.mZombiePhase = "normal" /\ d.mSummonCounter
         dances   == d.mZombiePhase \in {"hold", "normal"}
         snapping == [Set(zombie, z, "snapping", 0) EXCEPT ![z].mSummonCounter = FALSE]
         dancing  == Set(zombie, z, "normal", 0)
         needing  == [dancing EXCEPT ![z].mSummonCounter = TRUE]
     IN  \E acted \in {zombie} \union (IF calls THEN {snapping} ELSE {})
                   \union (IF dances THEN {dancing} ELSE {})
                   \union (IF dances /\ d.mHasHead /\ Missing(z) # {} THEN {needing} ELSE {}) :
           \E zs \in Walked(acted, z) : Updated(z, zs)

\* SummonBackupDancers: a place in its own row is filled unless the pool is
\* full; there may be no row above or below. What comes into a slot the loop
\* has yet to reach is updated in this frame already.
SummonBackupDancers(z) ==
  /\ z \in toUpdate
  /\ zombie[z].mZombieType = "dancer" /\ zombie[z].mZombiePhase = "snapping"
  /\ \E places \in SUBSET Missing(z) : \E troupe \in [places -> Fresh] :
       /\ IsInjective(troupe)
       /\ ~zombie[z].mHasHead => places = {}
       /\ places # {} => ~PoolIsFull(Cardinality(mZombies) + Cardinality(places) - 1)
       /\ zombie[z].mHasHead => \/ Missing(z) \ Beside \subseteq places
                                \/ PoolIsFull(Cardinality(mZombies) + Cardinality(places))
       /\ mZombies' = mZombies \union Range(troupe)
       /\ \E reached \in SUBSET Range(troupe) : toUpdate' = (toUpdate \ {z}) \union reached
       /\ zombie' \in Walked(
            [y \in Zombie |->
               IF y = z
               THEN [zombie[y] EXCEPT
                       !.mZombiePhase = "hold", !.mPhaseCounter = 0,
                       !.mFollowerZombieID =
                         [p \in Places |-> IF p \in places THEN troupe[p]
                                           ELSE IF p \in Missing(z) /\ zombie[z].mHasHead
                                           THEN None ELSE @[p]]]
               ELSE IF y \in Range(troupe)
               THEN [Born("backup") EXCEPT
                       !.mZombiePhase = "rising", !.mRelatedZombieID = z,
                       !.mMindControlled = zombie[z].mMindControlled]
               ELSE zombie[y]], z)

\* UpdateZombieBackupDancer.
UpdateBackupDancer(z) ==
  /\ zombie[z].mZombieType = "backup" /\ zombie[z].mZombiePhase = "rising"
  /\ \E acted \in {zombie, Set(zombie, z, "normal", 0)} :
       \E zs \in Walked(acted, z) : Updated(z, zs)

\* A mutant: what has been set down is still the bungee's.
LandingHolds(z) ==
  LET load == zombie[z].mRelatedZombieID
      up   == Set(zombie, z, "climbing", 0)
  IN  /\ zombie[z].mZombiePhase = "diving"
      /\ \/ load \in mZombies /\ Updated(z, [up EXCEPT ![load].mHanging = FALSE])
         \/ load \notin mZombies /\ Updated(z, Set(zombie, z, "bottom", 0))

\* BungeeLanding: it lets go of what it carries, or is turned away by an umbrella
\* leaf with it.
BungeeLanding(z) ==
  LET load == zombie[z].mRelatedZombieID
      up   == Set(zombie, z, "climbing", 0)
  IN  /\ zombie[z].mZombiePhase = "diving"
      /\ \/ Updated(z, up)
         \/ /\ load \in mZombies
            /\ Updated(z, [up EXCEPT ![load].mHanging = FALSE, ![z].mRelatedZombieID = None])
         \/ load \notin mZombies /\ Updated(z, Set(zombie, z, "bottom", 0))

UpdateZombieBungee(z) ==
  /\ zombie[z].mZombieType = "bungee"
  /\ \/ BungeeLanding(z)
     \/ zombie[z].mZombiePhase \notin Corpse /\ Updated(z, zombie)
     \/ zombie[z].mZombiePhase = "bottom" /\ Updated(z, Set(zombie, z, "climbing", 0))
     \/ zombie[z].mZombiePhase = "climbing" /\ Updated(z, DieNoLoot(zombie, z))

\* Any other zombie: it walks, eats, hangs or cannot move.
UpdateWalk(z) ==
  /\ zombie[z].mZombiePhase = "normal" /\ zombie[z].mZombieType # "dancer"
  /\ \E zs \in Walked(zombie, z) : Updated(z, zs)

Update(z) ==
  \/ UpdateBurnt(z) \/ UpdateDeath(z) \/ UpdateCrash(z) \/ UpdateSled(z)
  \/ UpdateDancer(z) \/ SummonBackupDancers(z) \/ UpdateBackupDancer(z)
  \/ UpdateZombieBungee(z) \/ UpdateWalk(z)

Next ==
  \/ BeginFrame
  \/ \E kind \in Sent \ {"bobsled", "dropped"} : AddZombie(kind)
  \/ AddBobsled \/ BungeeDropZombie \/ RemoveAllZombies
  \/ \E z \in mZombies :
       \/ Update(z)
       \/ Hit(z) \/ Burn(z) \/ MowZombie(z) \/ Swallow(z) \/ Butter(z) \/ EatHypnoshroom(z)
       \/ \E e \in mZombies : EatZombie(e, z)

Spec == Init /\ [][Next]_vars

\* Frames follow one another as long as the level is played (UpdateFrames), and
\* a frame updates each zombie in turn.
FairSpec == Spec /\ WF_vars(BeginFrame \/ \E z \in mZombies : Update(z))

----------------------------------------------------------------------------
(* Properties. *)

\* Every handle that the code follows without asking whether it is still good
\* (ZombieGet: GetBobsledPosition, BobsledCrash, BobsledDie, BobsledBurn) is: a
\* follower's leader is in the pool and lists it, and a leader's followers are
\* in the pool, follow it, and are dead exactly if it is.
SledsWhole ==
  \A z \in mZombies :
    /\ IsFollower(zombie, z) =>
         LET l == zombie[z].mRelatedZombieID
         IN  l \in mZombies /\ IsLeader(zombie, l) /\ z \in FollowersOf(zombie, l)
    /\ IsLeader(zombie, z) =>
         \A f \in FollowersOf(zombie, z) :
           /\ f \in mZombies /\ zombie[f].mZombieType = "bobsled"
           /\ zombie[f].mRelatedZombieID = z /\ zombie[f].mDead = zombie[z].mDead

\* Hypnosis splits a troupe cleanly: a backup dancer that still belongs to a
\* dancer which counts on it is on the dancer's side, and none counts on a
\* dancer that belongs to another.
TroupeOneSide ==
  \A d \in mZombies : \A p \in Places :
    LET b == zombie[d].mFollowerZombieID[p]
    IN  zombie[d].mZombieType = "dancer" /\ b \in mZombies =>
          /\ zombie[b].mRelatedZombieID \in {d, None}
          /\ zombie[b].mRelatedZombieID = d =>
               zombie[b].mMindControlled = zombie[d].mMindControlled

\* What hangs in the air, where nothing can hurt it, is carried by a bungee that
\* will land, or die and take it along: no level waits for a zombie that was let
\* go of without a landing. And nothing that has landed dies with the bungee.
HangingIsCarried ==
  \A z \in mZombies : ~zombie[z].mDead =>
    (zombie[z].mHanging <=>
       \E b \in mZombies : /\ zombie[b].mZombieType = "bungee" /\ ~zombie[b].mDead
                           /\ zombie[b].mRelatedZombieID = z)

\* A follower on a sled cannot be hurt by plants. After the crash of the sled
\* that ends: in time each is on its own or dead.
SledBreaksUp ==
  \A z \in Zombie :
    z \in mZombies /\ IsBobsledTeamWithSled(zombie, z) /\ zombie[z].mZombiePhase = "crashing"
      ~> ~(z \in mZombies /\ IsBobsledTeamWithSled(zombie, z))

\* What UpdatePlaying asserts of a zombie it is about to move: it has some health
\* left, or is crashing.
HealthyUnlessCrashing ==
  \A z \in toUpdate :
    ~IsDeadOrDying(zombie, z) => \/ zombie[z].mBodyHealth
                                \/ zombie[z].mZombiePhase = "crashing"

\* What DataArrayAlloc asserts: there is a slot left for the zombie it makes.
PoolHasRoom == Cardinality(mZombies) <= MaxZombies
=============================================================================
