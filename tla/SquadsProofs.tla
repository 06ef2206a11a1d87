---------------------------- MODULE SquadsProofs ----------------------------
(***************************************************************************)
(* The invariants of Squads for every number of zombies, size of team and    *)
(* length of crash.                                                          *)
(*                                                                           *)
(* A handler is a composition of functions from zombies to zombies, so what  *)
(* is invariant is stated of the zombies in the middle of a handler, Sound,  *)
(* and each function is shown to keep it. Most keep the ties: who is tied to *)
(* whom, who is dead, who hangs and on which side a troupe is. The rest kill *)
(* (DieNoLoot), cut ties, or make zombies under handles that nobody holds.   *)
(***************************************************************************)
EXTENDS Squads, TLAPS

Times == 0..CrashTime + DeathTime

LEMMA Constants ==
  /\ None \notin Zombie /\ 1 \in Followers /\ 1 \in Places /\ Followers \subseteq Places
  /\ CrashTime \in Times /\ 0 \in Times /\ 1..DeathTime \subseteq Times
  /\ FadeTime \in 0..FadeTime /\ 0 \in 0..FadeTime
BY SquadsAssumption DEF Followers, Places, Times

----------------------------------------------------------------------------
(* What is invariant, of the zombies zs under the handles Z.                *)

Air == {"diving", "climbing"}

Carries(zs, b, z) == zs[b].mZombieType = "bungee" /\ zs[b].mRelatedZombieID = z

\* What a tie between two handles in use is, by the kinds they name. It is the
\* reason why a handle found where a dancer is expected is not a follower's.
KindsAgree(Z, zs) ==
  \A z \in Z :
    /\ zs[z].mZombieType \in {"normal", "dancer"} => zs[z].mRelatedZombieID = None
    /\ zs[z].mZombieType = "backup" /\ zs[z].mRelatedZombieID \in Z =>
         zs[zs[z].mRelatedZombieID].mZombieType = "dancer"
    /\ zs[z].mZombieType = "bungee" /\ zs[z].mRelatedZombieID \in Z =>
         zs[zs[z].mRelatedZombieID].mZombieType = "normal"
    /\ zs[z].mZombieType = "dancer" =>
         \A p \in Places : zs[z].mFollowerZombieID[p] \in Z =>
           zs[zs[z].mFollowerZombieID[p]].mZombieType = "backup"

\* A follower leads nobody: when it is let go, it is not a leader.
FollowersFollow(Z, zs) == \A z \in Z : IsFollower(zs, z) => zs[z].mFollowerZombieID[1] = None

\* A bungee that can be hurt carries nobody, and no two carry the same.
BungeesSound(Z, zs) ==
  /\ \A b \in Z : zs[b].mZombieType = "bungee" /\ ~zs[b].mDead /\ zs[b].mZombiePhase \notin Air =>
       zs[b].mRelatedZombieID \notin Z
  /\ \A b, c \in Z : \A z \in Z : Carries(zs, b, z) /\ Carries(zs, c, z) => b = c

Whole(Z, zs) ==
  \A z \in Z :
    /\ IsFollower(zs, z) =>
         LET l == zs[z].mRelatedZombieID IN l \in Z /\ IsLeader(zs, l) /\ z \in FollowersOf(zs, l)
    /\ IsLeader(zs, z) =>
         \A f \in FollowersOf(zs, z) :
           /\ f \in Z /\ zs[f].mZombieType = "bobsled"
           /\ zs[f].mRelatedZombieID = z /\ zs[f].mDead = zs[z].mDead

OneSide(Z, zs) ==
  \A d \in Z : \A p \in Places :
    LET b == zs[d].mFollowerZombieID[p]
    IN  zs[d].mZombieType = "dancer" /\ b \in Z =>
          /\ zs[b].mRelatedZombieID \in {d, None}
          /\ zs[b].mRelatedZombieID = d => zs[b].mMindControlled = zs[d].mMindControlled

Carried(Z, zs) ==
  \A z \in Z : ~zs[z].mDead =>
    (zs[z].mHanging <=> \E b \in Z : ~zs[b].mDead /\ Carries(zs, b, z))

Sound(Z, zs) ==
  /\ Z \subseteq Zombie /\ zs \in [Zombie -> Record]
  /\ KindsAgree(Z, zs) /\ FollowersFollow(Z, zs) /\ BungeesSound(Z, zs)
  /\ Whole(Z, zs) /\ OneSide(Z, zs) /\ Carried(Z, zs)

IInv == toUpdate \subseteq mZombies /\ Sound(mZombies, zombie)

\* The invariant gives the promises.
LEMMA IInvPromises == IInv => TypeOK /\ SledsWhole /\ TroupeOneSide /\ HangingIsCarried
BY DEF IInv, Sound, TypeOK, Whole, SledsWhole, OneSide, TroupeOneSide, Carried, Carries,
       HangingIsCarried

----------------------------------------------------------------------------
(* Functions that keep the ties.                                            *)

SameTie(r, old) ==
  /\ r.mZombieType = old.mZombieType
  /\ r.mRelatedZombieID = old.mRelatedZombieID
  /\ r.mFollowerZombieID = old.mFollowerZombieID
  /\ old.mZombieType \in {"dancer", "backup"} => r.mMindControlled = old.mMindControlled
  /\ r.mDead = old.mDead
  /\ r.mHanging = old.mHanging

SameTies(Z, zs, ws) == \A y \in Z : SameTie(ws[y], zs[y])

\* A bungee that comes down to where it can be hurt carries nobody.
ComesDownEmpty(Z, zs, ws) ==
  \A b \in Z : zs[b].mZombieType = "bungee" /\ zs[b].mZombiePhase \in Air
                 /\ ws[b].mZombiePhase \notin Air => zs[b].mRelatedZombieID \notin Z

LEMMA SameTiesSound ==
  ASSUME NEW Z, NEW zs, NEW ws, Sound(Z, zs), ws \in [Zombie -> Record],
         SameTies(Z, zs, ws), ComesDownEmpty(Z, zs, ws)
  PROVE  Sound(Z, ws)
<1> USE DEF Sound
<1>1. KindsAgree(Z, ws)
  BY DEF KindsAgree, SameTies, SameTie
<1>2. FollowersFollow(Z, ws)
  BY DEF FollowersFollow, SameTie, SameTies, IsFollower
<1>3. BungeesSound(Z, ws)
  BY DEF BungeesSound, SameTie, SameTies, Carries, ComesDownEmpty
<1>4. Whole(Z, ws)
  <2>1. ASSUME NEW y \in Z
        PROVE  /\ IsFollower(ws, y) = IsFollower(zs, y) /\ IsLeader(ws, y) = IsLeader(zs, y)
               /\ FollowersOf(ws, y) = FollowersOf(zs, y)
    BY DEF SameTie, SameTies, IsFollower, IsLeader, FollowersOf
  <2>2. ASSUME NEW z \in Z, IsFollower(ws, z)
        PROVE  LET l == ws[z].mRelatedZombieID
               IN  l \in Z /\ IsLeader(ws, l) /\ z \in FollowersOf(ws, l)
    BY <2>1, <2>2 DEF SameTie, SameTies, Whole
  <2>3. ASSUME NEW z \in Z, IsLeader(ws, z), NEW f \in FollowersOf(ws, z)
        PROVE  /\ f \in Z /\ ws[f].mZombieType = "bobsled"
               /\ ws[f].mRelatedZombieID = z /\ ws[f].mDead = ws[z].mDead
    BY <2>1, <2>3 DEF SameTie, SameTies, Whole
  <2> QED
    BY <2>2, <2>3 DEF Whole
<1>5. OneSide(Z, ws)
  BY DEF KindsAgree, OneSide, SameTies, SameTie
<1>6. Carried(Z, ws)
  BY DEF Carried, SameTie, SameTies, Carries
<1> QED
  BY <1>1, <1>2, <1>3, <1>4, <1>5, <1>6

----------------------------------------------------------------------------
(* Death.                                                                   *)

\* DiesWith, for any set of handles.
DiesIn(Z, zs, z) ==
  IF IsBobsledTeamWithSled(zs, z)
  THEN LET l == IF IsFollower(zs, z) THEN zs[z].mRelatedZombieID ELSE z
       IN  {l} \union FollowersOf(zs, l)
  ELSE IF zs[z].mZombieType = "bungee" THEN Z \intersect {zs[z].mRelatedZombieID}
  ELSE {}

\* Z is the handles in use; while a dancer is updated, with those it gives out.
InUse(Z, zs, z) == Z = mZombies \/ zs[z].mZombieType = "dancer"

\* The team of a sled, for everyone on it.
Team(zs, l) == {l} \union FollowersOf(zs, l)

LEMMA TeamFacts ==
  ASSUME NEW Z, NEW zs, Sound(Z, zs), NEW l \in Z, IsLeader(zs, l), NEW y \in Team(zs, l)
  PROVE  /\ y \in Z /\ zs[y].mZombieType = "bobsled" /\ zs[y].mDead = zs[l].mDead
         /\ DiesIn(Z, zs, y) = Team(zs, l)
<1>1. y \in Z /\ zs[y].mZombieType = "bobsled" /\ zs[y].mDead = zs[l].mDead
  BY DEF Sound, Whole, Team, IsLeader
<1>2. CASE y = l
  <2>1. ~IsFollower(zs, l)
    BY DEF IsFollower, IsLeader
  <2> QED
    BY <1>1, <1>2, <2>1 DEF DiesIn, Team, IsBobsledTeamWithSled
<1>3. CASE y # l
  <2>1. zs[y].mRelatedZombieID = l
    BY <1>3 DEF Sound, Whole, Team
  <2>2. IsFollower(zs, y)
    BY <1>1, <2>1, Constants DEF IsFollower, Sound
  <2> QED
    BY <1>1, <2>1, <2>2 DEF DiesIn, Team, IsBobsledTeamWithSled
<1> QED
  BY <1>1, <1>2, <1>3

LEMMA LeaderOfFollower ==
  ASSUME NEW Z, NEW zs, Sound(Z, zs), NEW z \in Z, IsBobsledTeamWithSled(zs, z)
  PROVE  \E l \in Z : IsLeader(zs, l) /\ z \in Team(zs, l) /\ DiesIn(Z, zs, z) = Team(zs, l)
<1>1. CASE IsFollower(zs, z)
  BY <1>1 DEF Sound, Whole, Team, DiesIn, IsBobsledTeamWithSled
<1>2. CASE ~IsFollower(zs, z)
  BY <1>2 DEF Team, DiesIn, IsBobsledTeamWithSled
<1> QED
  BY <1>1, <1>2

\* Whom DieNoLoot kills does not matter who of them dies first.
LEMMA DiesInClosed ==
  ASSUME NEW Z, NEW zs, Sound(Z, zs), NEW z \in Z, NEW y \in DiesIn(Z, zs, z)
  PROVE  y \in Z /\ DiesIn(Z, zs, y) \subseteq {z} \union DiesIn(Z, zs, z)
<1>1. CASE IsBobsledTeamWithSled(zs, z)
  BY <1>1, LeaderOfFollower, TeamFacts
<1>2. CASE ~IsBobsledTeamWithSled(zs, z)
  <2>1. /\ zs[z].mZombieType = "bungee" /\ y = zs[z].mRelatedZombieID /\ y \in Z
    BY <1>2 DEF DiesIn
  <2>2. zs[y].mZombieType = "normal"
    BY <2>1 DEF Sound, KindsAgree
  <2> QED
    BY <2>1, <2>2 DEF DiesIn, IsBobsledTeamWithSled, IsFollower, IsLeader
<1> QED
  BY <1>1, <1>2

LEMMA DeadFacts ==
  ASSUME NEW zs \in [Zombie -> Record], NEW D
  PROVE  /\ Dead(zs, D) \in [Zombie -> Record]
         /\ \A y \in Zombie :
              /\ Dead(zs, D)[y].mZombieType = zs[y].mZombieType
              /\ Dead(zs, D)[y].mRelatedZombieID = zs[y].mRelatedZombieID
              /\ Dead(zs, D)[y].mFollowerZombieID = zs[y].mFollowerZombieID
              /\ Dead(zs, D)[y].mMindControlled = zs[y].mMindControlled
              /\ y \in D => Dead(zs, D)[y].mDead = TRUE
              /\ y \notin D => Dead(zs, D)[y] = zs[y]
<1>1. ASSUME NEW y \in Zombie
      PROVE  [zs[y] EXCEPT !.mDead = TRUE, !.mZombiePhase = "dying", !.mPhaseCounter = 0,
                           !.mHasHead = FALSE, !.mBodyHealth = FALSE, !.mHanging = FALSE,
                           !.mSummonCounter = FALSE, !.mZombieFade = 0] \in Record
  <2> DEFINE r == zs[y]
  <2>1. r \in Record
    OBVIOUS
  <2> HIDE DEF r
  <2>2. [r EXCEPT !.mDead = TRUE, !.mZombiePhase = "dying", !.mPhaseCounter = 0,
                  !.mHasHead = FALSE, !.mBodyHealth = FALSE, !.mHanging = FALSE,
                  !.mSummonCounter = FALSE, !.mZombieFade = 0] \in Record
    BY <2>1, Constants DEF Record, Phases, Corpse, Times
  <2> QED
    BY <2>2 DEF r
<1>2. Dead(zs, D) \in [Zombie -> Record]
  BY <1>1 DEF Dead
<1>3. ASSUME NEW y \in Zombie
      PROVE  /\ Dead(zs, D)[y].mZombieType = zs[y].mZombieType
             /\ Dead(zs, D)[y].mRelatedZombieID = zs[y].mRelatedZombieID
             /\ Dead(zs, D)[y].mFollowerZombieID = zs[y].mFollowerZombieID
             /\ Dead(zs, D)[y].mMindControlled = zs[y].mMindControlled
             /\ y \in D => Dead(zs, D)[y].mDead = TRUE
             /\ y \notin D => Dead(zs, D)[y] = zs[y]
  BY DEF Dead, Record
<1> QED
  BY <1>2, <1>3

\* Killing a set of zombies with all that die with them is sound.
LEMMA DeadSound ==
  ASSUME NEW Z, NEW zs, Sound(Z, zs), NEW D,
         \A y \in Z \intersect D : DiesIn(Z, zs, y) \subseteq D
  PROVE  Sound(Z, Dead(zs, D))
<1> DEFINE ws == Dead(zs, D)
<1>0. zs \in [Zombie -> Record] /\ Z \subseteq Zombie
  BY DEF Sound
<1>1. /\ ws \in [Zombie -> Record]
      /\ \A y \in Zombie :
           /\ ws[y].mZombieType = zs[y].mZombieType
           /\ ws[y].mRelatedZombieID = zs[y].mRelatedZombieID
           /\ ws[y].mFollowerZombieID = zs[y].mFollowerZombieID
           /\ ws[y].mMindControlled = zs[y].mMindControlled
           /\ y \in D => ws[y].mDead = TRUE
           /\ y \notin D => ws[y] = zs[y]
  BY <1>0, DeadFacts
<1> HIDE DEF ws
<1>2. KindsAgree(Z, ws)
  BY <1>0, <1>1 DEF KindsAgree, Sound
<1>3. FollowersFollow(Z, ws)
  BY <1>0, <1>1 DEF FollowersFollow, Sound, IsFollower
<1>4. BungeesSound(Z, ws)
  <2>1. ASSUME NEW b \in Z, ws[b].mZombieType = "bungee", ~ws[b].mDead,
               ws[b].mZombiePhase \notin Air
        PROVE  ws[b].mRelatedZombieID \notin Z
    BY <1>0, <1>1, <2>1 DEF Sound, BungeesSound
  <2>2. ASSUME NEW b \in Z, NEW c \in Z, NEW z \in Z,
               Carries(ws, b, z), Carries(ws, c, z)
        PROVE  b = c
    BY <1>0, <1>1, <2>2 DEF Sound, BungeesSound, Carries
  <2> QED
    BY <2>1, <2>2 DEF BungeesSound
<1>5. Whole(Z, ws)
  <2>1. ASSUME NEW y \in Zombie
        PROVE  /\ IsFollower(ws, y) = IsFollower(zs, y) /\ IsLeader(ws, y) = IsLeader(zs, y)
               /\ FollowersOf(ws, y) = FollowersOf(zs, y)
    BY <1>1 DEF IsFollower, IsLeader, FollowersOf
  <2>2. ASSUME NEW z \in Z, IsFollower(ws, z)
        PROVE  LET l == ws[z].mRelatedZombieID
               IN  l \in Z /\ IsLeader(ws, l) /\ z \in FollowersOf(ws, l)
    BY <1>0, <1>1, <2>1, <2>2 DEF Sound, Whole
  <2>3. ASSUME NEW z \in Z, IsLeader(ws, z), NEW f \in FollowersOf(ws, z)
        PROVE  /\ f \in Z /\ ws[f].mZombieType = "bobsled"
               /\ ws[f].mRelatedZombieID = z /\ ws[f].mDead = ws[z].mDead
    <3>1. IsLeader(zs, z) /\ f \in Team(zs, z) /\ z \in Team(zs, z)
      BY <1>0, <2>1, <2>3 DEF Team
    <3>2. /\ f \in Z /\ zs[f].mZombieType = "bobsled"
          /\ zs[f].mRelatedZombieID = z /\ zs[f].mDead = zs[z].mDead
      BY <1>0, <2>1, <2>3 DEF Sound, Whole
    <3>3. f \in D <=> z \in D
      BY <3>1, <3>2, TeamFacts
    <3> QED
      BY <1>0, <1>1, <3>2, <3>3
  <2> QED
    BY <2>2, <2>3 DEF Whole
<1>6. OneSide(Z, ws)
  BY <1>0, <1>1 DEF OneSide, Sound
<1>7. Carried(Z, ws)
  <2> SUFFICES ASSUME NEW z \in Z, ~ws[z].mDead
               PROVE  ws[z].mHanging <=> \E b \in Z : ~ws[b].mDead /\ Carries(ws, b, z)
    BY DEF Carried
  <2>1. z \notin D /\ ws[z] = zs[z]
    BY <1>0, <1>1
  <2>2. zs[z].mHanging <=> \E b \in Z : ~zs[b].mDead /\ Carries(zs, b, z)
    BY <2>1 DEF Sound, Carried
  <2>3. ASSUME NEW b \in Z, Carries(zs, b, z)
        PROVE  b \notin D
    <3>1. ~IsBobsledTeamWithSled(zs, b)
      BY <2>3 DEF Carries, IsBobsledTeamWithSled, IsFollower, IsLeader
    <3>2. z \in DiesIn(Z, zs, b)
      BY <2>3, <3>1 DEF Carries, DiesIn
    <3> QED
      BY <2>1, <3>2
  <2>4. ASSUME NEW b \in Z
        PROVE  Carries(ws, b, z) = Carries(zs, b, z)
    BY <1>0, <1>1 DEF Carries
  <2> QED
    BY <1>0, <1>1, <2>1, <2>2, <2>3, <2>4
<1> QED
  BY <1>0, <1>1, <1>2, <1>3, <1>4, <1>5, <1>6, <1>7 DEF Sound, ws

LEMMA DieSound ==
  ASSUME NEW Z, NEW zs, Sound(Z, zs), NEW z \in Z, InUse(Z, zs, z)
  PROVE  Sound(Z, DieNoLoot(zs, z))
<1>1. \A y \in Z \intersect ({z} \union DiesIn(Z, zs, z)) :
        DiesIn(Z, zs, y) \subseteq {z} \union DiesIn(Z, zs, z)
  BY DiesInClosed
<1>2. DiesWith(zs, z) = DiesIn(Z, zs, z)
  BY DEF InUse, DiesWith, DiesIn, IsBobsledTeamWithSled, IsFollower, IsLeader
<1> QED
  BY <1>1, <1>2, DeadSound DEF DieNoLoot

----------------------------------------------------------------------------
(* Changes to one zombie that cut no tie.                                   *)

\* Whatever happens to z now does not reach it with a load in the air.
Low(zs, z) == zs[z].mZombieType = "bungee" => zs[z].mZombiePhase \notin Air

LEMMA ChangeSound ==
  ASSUME NEW Z, NEW zs, Sound(Z, zs), NEW z \in Zombie, NEW r \in Record,
         SameTie(r, zs[z]),
         Low(zs, z) \/ r.mZombiePhase = zs[z].mZombiePhase \/ r.mZombiePhase \in Air
           \/ zs[z].mRelatedZombieID \notin Z
  PROVE  Sound(Z, [zs EXCEPT ![z] = r])
<1> DEFINE ws == [zs EXCEPT ![z] = r]
<1>1. zs \in [Zombie -> Record] /\ Z \subseteq Zombie
  BY DEF Sound
<1>2. /\ ws \in [Zombie -> Record] /\ ws[z] = r
      /\ \A y \in Zombie : y # z => ws[y] = zs[y]
  BY <1>1
<1> HIDE DEF ws
<1>3. SameTies(Z, zs, ws)
  BY <1>1, <1>2 DEF SameTies, SameTie
<1>4. ComesDownEmpty(Z, zs, ws)
  BY <1>1, <1>2 DEF ComesDownEmpty, Low, Sound
<1> QED
  BY <1>2, <1>3, <1>4, SameTiesSound DEF ws

LEMMA SetSound ==
  ASSUME NEW Z, NEW zs, Sound(Z, zs), NEW z \in Zombie, NEW phase \in Phases, NEW t \in Times,
         Low(zs, z) \/ phase = zs[z].mZombiePhase \/ phase \in Air
           \/ zs[z].mRelatedZombieID \notin Z
  PROVE  Sound(Z, Set(zs, z, phase, t))
<1> DEFINE r == [zs[z] EXCEPT !.mZombiePhase = phase, !.mPhaseCounter = t]
<1>1. zs[z] \in Record
  BY DEF Sound
<1>2. /\ r \in Record /\ r.mZombiePhase = phase
      /\ SameTie(r, zs[z])
  BY <1>1 DEF SameTie, Record, Times
<1>3. Set(zs, z, phase, t) = [zs EXCEPT ![z] = r]
  BY DEF Set
<1> HIDE DEF r
<1>4. \/ Low(zs, z) \/ r.mZombiePhase = zs[z].mZombiePhase \/ r.mZombiePhase \in Air
      \/ zs[z].mRelatedZombieID \notin Z
  BY <1>2
<1>5. Sound(Z, [zs EXCEPT ![z] = r])
  BY <1>2, <1>4, ChangeSound
<1> QED
  BY <1>3, <1>5

LEMMA CountDownFacts ==
  ASSUME NEW Z, NEW zs, Sound(Z, zs), NEW z \in Zombie
  PROVE  /\ Sound(Z, CountDown(zs, z))
         /\ SameTies(Z, zs, CountDown(zs, z))
         /\ \A y \in Zombie : CountDown(zs, z)[y].mZombiePhase = zs[y].mZombiePhase
<1> DEFINE r == [zs[z] EXCEPT !.mPhaseCounter = IF @ > 0 THEN @ - 1 ELSE 0]
<1>1. zs \in [Zombie -> Record] /\ zs[z] \in Record /\ Z \subseteq Zombie
  BY DEF Sound
<1>2. /\ r \in Record /\ r.mZombiePhase = zs[z].mZombiePhase
      /\ SameTie(r, zs[z])
  BY <1>1, SquadsAssumption DEF SameTie, Record
<1>3. CountDown(zs, z) = [zs EXCEPT ![z] = r]
  BY DEF CountDown
<1> HIDE DEF r
<1>4. /\ SameTies(Z, zs, CountDown(zs, z))
      /\ \A y \in Zombie : CountDown(zs, z)[y].mZombiePhase = zs[y].mZombiePhase
  BY <1>1, <1>2, <1>3 DEF SameTies, SameTie
<1>5. Sound(Z, [zs EXCEPT ![z] = r])
  BY <1>2, ChangeSound
<1> QED
  BY <1>3, <1>4, <1>5

LEMMA BeheadedFacts ==
  ASSUME NEW Z, NEW zs, Sound(Z, zs), NEW z \in Zombie
  PROVE  /\ Sound(Z, Beheaded(zs, z))
         /\ Beheaded(zs, z)[z].mZombieType = zs[z].mZombieType
         /\ Beheaded(zs, z)[z].mZombiePhase = zs[z].mZombiePhase
<1>1. CASE ~CanLoseBodyParts(zs, z)
  BY <1>1 DEF Beheaded
<1>2. CASE CanLoseBodyParts(zs, z)
  <2> DEFINE r == [zs[z] EXCEPT !.mHasHead = FALSE]
  <2>1. zs \in [Zombie -> Record] /\ zs[z] \in Record
    BY DEF Sound
  <2>2. /\ r \in Record /\ r.mZombiePhase = zs[z].mZombiePhase
        /\ SameTie(r, zs[z])
    BY <2>1 DEF SameTie, Record
  <2>3. Beheaded(zs, z) = [zs EXCEPT ![z] = r]
    BY <1>2 DEF Beheaded
  <2> HIDE DEF r
  <2>4. Beheaded(zs, z)[z] = r
    BY <2>1, <2>3
  <2>5. Sound(Z, [zs EXCEPT ![z] = r])
    BY <2>1, <2>2, ChangeSound
  <2> QED
    BY <2>2, <2>3, <2>4, <2>5 DEF SameTie
<1> QED
  BY <1>1, <1>2

LEMMA CrashFacts ==
  ASSUME NEW Z, NEW zs, Sound(Z, zs), NEW l \in Z, IsLeader(zs, l)
  PROVE  Sound(Z, BobsledCrash(zs, l)) /\ Low(BobsledCrash(zs, l), l)
<1> DEFINE ws == BobsledCrash(zs, l)
<1>1. zs \in [Zombie -> Record] /\ Z \subseteq Zombie
  BY DEF Sound
<1>2. ASSUME NEW y \in Zombie
      PROVE  [zs[y] EXCEPT !.mZombiePhase = "crashing", !.mPhaseCounter = CrashTime] \in Record
  <2> DEFINE r == zs[y]
  <2>1. r \in Record
    BY <1>1
  <2> HIDE DEF r
  <2>2. [r EXCEPT !.mZombiePhase = "crashing", !.mPhaseCounter = CrashTime] \in Record
    BY <2>1, Constants DEF Record, Phases, Times
  <2> QED
    BY <2>2 DEF r
<1>3. ws \in [Zombie -> Record]
  BY <1>1, <1>2 DEF BobsledCrash
<1>4. SameTies(Z, zs, ws)
  <2> SUFFICES ASSUME NEW y \in Z
               PROVE  SameTie(ws[y], zs[y])
    BY DEF SameTies
  <2> DEFINE r == zs[y]
  <2>1. r \in Record
    BY <1>1
  <2>2. ws[y] \in {r, [r EXCEPT !.mZombiePhase = "crashing", !.mPhaseCounter = CrashTime]}
    BY <1>1 DEF BobsledCrash
  <2> HIDE DEF r, ws
  <2>3. /\ ws[y].mZombieType = r.mZombieType /\ ws[y].mRelatedZombieID = r.mRelatedZombieID
        /\ ws[y].mFollowerZombieID = r.mFollowerZombieID
        /\ ws[y].mMindControlled = r.mMindControlled
        /\ ws[y].mDead = r.mDead /\ ws[y].mHanging = r.mHanging
    BY <2>1, <2>2 DEF Record
  <2> QED
    BY <2>3 DEF SameTie, r
<1>5. ASSUME NEW y \in Z, zs[y].mZombieType = "bungee"
      PROVE  ws[y] = zs[y]
  <2>1. y \notin Team(zs, l)
    BY <1>5, TeamFacts
  <2> QED
    BY <1>1, <2>1 DEF BobsledCrash, Team
<1>6. ComesDownEmpty(Z, zs, ws)
  BY <1>5 DEF ComesDownEmpty
<1>7. Low(ws, l)
  BY <1>1, <1>4 DEF Low, SameTie, SameTies, IsLeader
<1> HIDE DEF ws
<1>8. Sound(Z, ws)
  BY <1>3, <1>4, <1>6, SameTiesSound
<1> QED
  BY <1>7, <1>8 DEF ws

LEMMA PlayDeathAnimSound ==
  ASSUME NEW Z, NEW zs, Sound(Z, zs), NEW z \in Z, Low(zs, z), InUse(Z, zs, z), NEW leaves,
         NEW ws \in PlayDeathAnim(zs, z, leaves)
  PROVE  Sound(Z, ws)
<1> DEFINE r == [zs[z] EXCEPT !.mBodyHealth = FALSE]
           killed == [zs EXCEPT ![z].mBodyHealth = FALSE]
<1>1. zs \in [Zombie -> Record] /\ zs[z] \in Record /\ z \in Zombie
  BY DEF Sound
<1>2. /\ r \in Record /\ r.mZombiePhase = zs[z].mZombiePhase
      /\ SameTie(r, zs[z])
  BY <1>1 DEF SameTie, Record
<1>3. killed = [zs EXCEPT ![z] = r]
  OBVIOUS
<1>4. ws \in IF leaves THEN {Set(killed, z, "dying", t) : t \in 1..DeathTime}
                       ELSE {DieNoLoot(killed, z)}
  BY DEF PlayDeathAnim
<1> HIDE DEF r, killed
<1>5. Sound(Z, killed)
  BY <1>1, <1>2, <1>3, ChangeSound
<1>6. Low(killed, z) /\ InUse(Z, killed, z)
  BY <1>1, <1>2, <1>3 DEF Low, InUse, SameTie
<1>7. "dying" \in Phases
  BY DEF Phases, Corpse
<1>8. ASSUME NEW t \in 1..DeathTime
      PROVE  Sound(Z, Set(killed, z, "dying", t))
  BY <1>1, <1>5, <1>6, <1>7, SetSound, Constants
<1>9. Sound(Z, DieNoLoot(killed, z))
  BY <1>5, <1>6, DieSound
<1> QED
  BY <1>4, <1>8, <1>9

\* Damage of every kind keeps the zombies sound.
LEMMA TakeDamageSound ==
  ASSUME NEW Z, NEW zs, Sound(Z, zs), NEW z \in Z, Low(zs, z), InUse(Z, zs, z), NEW leaves,
         NEW ws \in TakeDamage(zs, z, leaves)
  PROVE  Sound(Z, ws)
<1> DEFINE hit == IF HasSled(zs, z) /\ leaves THEN BobsledCrash(zs, z) ELSE zs
<1>1. Sound(Z, hit) /\ Low(hit, z) /\ InUse(Z, hit, z) /\ z \in Zombie
  BY CrashFacts DEF HasSled, Sound, InUse, IsLeader
<1>2. ws \in {hit, Beheaded(hit, z)} \union PlayDeathAnim(Beheaded(hit, z), z, leaves)
  BY DEF TakeDamage
<1> HIDE DEF hit
<1>3. /\ Sound(Z, Beheaded(hit, z)) /\ Low(Beheaded(hit, z), z)
      /\ InUse(Z, Beheaded(hit, z), z)
  BY <1>1, BeheadedFacts DEF Low, InUse
<1> QED
  BY <1>1, <1>2, <1>3, PlayDeathAnimSound

LEMMA ApplyBurnSound ==
  ASSUME NEW Z, NEW zs, Sound(Z, zs), NEW z \in Z, Low(zs, z), InUse(Z, zs, z),
         NEW ws \in ApplyBurn(zs, z)
  PROVE  Sound(Z, ws)
<1>1. "burned" \in Phases /\ z \in Zombie
  BY DEF Phases, Corpse, Sound
<1>2. ws = zs \/ ws = DieNoLoot(zs, z) \/ \E t \in Times : ws = Set(zs, z, "burned", t)
  BY Constants DEF ApplyBurn
<1> QED
  BY <1>1, <1>2, SetSound, DieSound

LEMMA MowDownSound ==
  ASSUME NEW Z, NEW zs, Sound(Z, zs), NEW z \in Z, Low(zs, z), InUse(Z, zs, z),
         NEW ws \in MowDown(zs, z)
  PROVE  Sound(Z, ws)
<1>1. "mowered" \in Phases /\ z \in Zombie
  BY DEF Phases, Corpse, Sound
<1>2. ws = zs \/ ws = DieNoLoot(zs, z) \/ \E t \in Times : ws = Set(zs, z, "mowered", t)
  BY Constants DEF MowDown
<1> QED
  BY <1>1, <1>2, SetSound, DieSound

----------------------------------------------------------------------------
(* Ties that are cut.                                                       *)

\* Only a backup dancer is tied to somebody by mRelatedZombieID when butter or
\* hypnosis reaches it.
LEMMA TiedIsBackup ==
  ASSUME NEW zs, Sound(mZombies, zs), NEW z \in mZombies, ~zs[z].mDead, Low(zs, z),
         ~IsBobsledTeamWithSled(zs, z), zs[z].mRelatedZombieID \in mZombies
  PROVE  /\ zs[z].mZombieType = "backup"
         /\ zs[zs[z].mRelatedZombieID].mZombieType = "dancer"
         /\ zs[zs[z].mRelatedZombieID].mRelatedZombieID = None
<1>1. zs[z].mRelatedZombieID # None
  BY Constants DEF Sound
<1>2. zs[z].mZombieType \notin {"normal", "dancer"}
  BY <1>1 DEF Sound, KindsAgree
<1>3. zs[z].mZombieType # "bobsled"
  BY <1>1 DEF IsBobsledTeamWithSled, IsFollower
<1>4. zs[z].mZombieType # "bungee"
  BY DEF Sound, BungeesSound, Low
<1>5. zs[z].mZombieType \in Kinds
  BY DEF Sound, Record
<1>6. zs[z].mZombieType = "backup"
  BY <1>2, <1>3, <1>4, <1>5 DEF Kinds
<1> QED
  BY <1>6 DEF Sound, KindsAgree

\* Everything that Whole and FollowersFollow say is about zombies on bobsleds.
SameBobsleds(zs, ws) ==
  \A y \in Zombie :
    /\ ws[y].mZombieType = zs[y].mZombieType /\ ws[y].mDead = zs[y].mDead
    /\ zs[y].mZombieType = "bobsled" =>
         /\ ws[y].mRelatedZombieID = zs[y].mRelatedZombieID
         /\ ws[y].mFollowerZombieID = zs[y].mFollowerZombieID

LEMMA SameBobsledsWhole ==
  ASSUME NEW Z, NEW zs, Sound(Z, zs), NEW ws, SameBobsleds(zs, ws)
  PROVE  Whole(Z, ws) /\ FollowersFollow(Z, ws)
<1>1. zs \in [Zombie -> Record] /\ Z \subseteq Zombie
  BY DEF Sound
<1>2. ASSUME NEW y \in Zombie, zs[y].mZombieType = "bobsled"
      PROVE  /\ ws[y].mZombieType = "bobsled"
             /\ ws[y].mRelatedZombieID = zs[y].mRelatedZombieID
             /\ ws[y].mFollowerZombieID = zs[y].mFollowerZombieID
             /\ ws[y].mDead = zs[y].mDead
             /\ FollowersOf(ws, y) = FollowersOf(zs, y)
  BY <1>2 DEF SameBobsleds, FollowersOf
<1>3. ASSUME NEW y \in Zombie
      PROVE  /\ IsFollower(ws, y) <=> IsFollower(zs, y)
             /\ IsLeader(ws, y) <=> IsLeader(zs, y)
  BY DEF IsFollower, IsLeader, SameBobsleds
<1>4. FollowersFollow(Z, ws)
  BY <1>1, <1>2, <1>3 DEF Sound, FollowersFollow, IsFollower
<1>5. ASSUME NEW y \in Z, IsFollower(ws, y)
      PROVE  LET l == ws[y].mRelatedZombieID
             IN  l \in Z /\ IsLeader(ws, l) /\ y \in FollowersOf(ws, l)
  <2>1. IsFollower(zs, y) /\ zs[y].mZombieType = "bobsled"
    BY <1>1, <1>3, <1>5 DEF IsFollower
  <2>2. LET l == zs[y].mRelatedZombieID
        IN  l \in Z /\ IsLeader(zs, l) /\ y \in FollowersOf(zs, l)
    BY <2>1 DEF Sound, Whole
  <2> QED
    BY <1>1, <1>2, <1>3, <2>1, <2>2 DEF IsLeader
<1>6. ASSUME NEW y \in Z, IsLeader(ws, y), NEW f \in FollowersOf(ws, y)
      PROVE  /\ f \in Z /\ ws[f].mZombieType = "bobsled"
             /\ ws[f].mRelatedZombieID = y /\ ws[f].mDead = ws[y].mDead
  <2>1. IsLeader(zs, y) /\ zs[y].mZombieType = "bobsled"
    BY <1>1, <1>3, <1>6 DEF IsLeader
  <2>2. f \in FollowersOf(zs, y)
    BY <1>1, <1>2, <1>6, <2>1
  <2>3. /\ f \in Z /\ zs[f].mZombieType = "bobsled"
        /\ zs[f].mRelatedZombieID = y /\ zs[f].mDead = zs[y].mDead
    BY <2>1, <2>2 DEF Sound, Whole
  <2> QED
    BY <1>1, <1>2, <2>1, <2>3
<1> QED
  BY <1>4, <1>5, <1>6 DEF Whole

\* A backup dancer leaves its troupe; its dancer may forget it.
LEMMA LeavesSound ==
  ASSUME NEW zs, Sound(mZombies, zs), NEW z \in mZombies, zs[z].mZombieType = "backup",
         NEW ws \in [Zombie -> Record], ws[z].mRelatedZombieID = None,
         \A y \in Zombie :
           /\ ws[y].mZombieType = zs[y].mZombieType /\ ws[y].mDead = zs[y].mDead
           /\ ws[y].mHanging = zs[y].mHanging /\ ws[y].mZombiePhase = zs[y].mZombiePhase
           /\ y # z => /\ ws[y].mRelatedZombieID = zs[y].mRelatedZombieID
                       /\ ws[y].mMindControlled = zs[y].mMindControlled
           /\ \/ ws[y].mFollowerZombieID = zs[y].mFollowerZombieID
              \/ /\ zs[y].mZombieType = "dancer"
                 /\ ws[y].mFollowerZombieID = Without(zs[y].mFollowerZombieID, z)
  PROVE  Sound(mZombies, ws)
<1>1. zs \in [Zombie -> Record] /\ mZombies \subseteq Zombie
  BY DEF Sound
<1>2. ASSUME NEW y \in Zombie, NEW p \in Places
      PROVE  ws[y].mFollowerZombieID[p] \in {zs[y].mFollowerZombieID[p], None}
  <2>1. DOMAIN zs[y].mFollowerZombieID = Places
    BY <1>1 DEF Record
  <2>2. Without(zs[y].mFollowerZombieID, z)[p] \in {zs[y].mFollowerZombieID[p], None}
    BY <2>1 DEF Without
  <2> QED
    BY <2>2
<1>3. None \notin mZombies
  BY <1>1, Constants
<1>4. KindsAgree(mZombies, ws)
  BY <1>1, <1>2, <1>3 DEF Sound, KindsAgree
<1>5. SameBobsleds(zs, ws)
  BY <1>1 DEF SameBobsleds
<1>6. BungeesSound(mZombies, ws)
  BY <1>1 DEF Sound, BungeesSound, Carries
<1>7. OneSide(mZombies, ws)
  <2> SUFFICES ASSUME NEW d \in mZombies, NEW p \in Places, ws[d].mZombieType = "dancer",
                      ws[d].mFollowerZombieID[p] \in mZombies
               PROVE  LET b == ws[d].mFollowerZombieID[p]
                      IN  /\ ws[b].mRelatedZombieID \in {d, None}
                          /\ ws[b].mRelatedZombieID = d =>
                               ws[b].mMindControlled = ws[d].mMindControlled
    BY DEF OneSide
  <2> DEFINE b == zs[d].mFollowerZombieID[p]
  <2>1. ws[d].mFollowerZombieID[p] = b /\ b \in mZombies /\ zs[d].mZombieType = "dancer"
    BY <1>1, <1>2, <1>3
  <2>2. /\ zs[b].mRelatedZombieID \in {d, None}
        /\ zs[b].mRelatedZombieID = d => zs[b].mMindControlled = zs[d].mMindControlled
    BY <2>1 DEF Sound, OneSide
  <2>3. d # z /\ d # None
    BY <1>3, <2>1
  <2> HIDE DEF b
  <2>4. CASE b = z
    BY <2>1, <2>3, <2>4
  <2>5. CASE b # z
    BY <1>1, <2>1, <2>2, <2>3, <2>5
  <2> QED
    BY <2>4, <2>5
<1>8. Carried(mZombies, ws)
  <2>1. ASSUME NEW b \in mZombies, NEW y \in mZombies
        PROVE  Carries(ws, b, y) = Carries(zs, b, y)
    BY <1>1 DEF Carries
  <2> QED
    BY <1>1, <2>1 DEF Sound, Carried
<1> QED
  BY <1>1, <1>4, <1>5, <1>6, <1>7, <1>8, SameBobsledsWhole DEF Sound

LEMMA ApplyButterSound ==
  ASSUME NEW zs, Sound(mZombies, zs), NEW z \in mZombies, ~zs[z].mDead, Low(zs, z),
         ~IsBobsledTeamWithSled(zs, z)
  PROVE  Sound(mZombies, ApplyButter(zs, z))
<1> DEFINE other == zs[z].mRelatedZombieID
           ws == [y \in Zombie |-> IF y \in {z, other}
                                   THEN [zs[y] EXCEPT !.mRelatedZombieID = None] ELSE zs[y]]
<1>1. zs \in [Zombie -> Record] /\ mZombies \subseteq Zombie
  BY DEF Sound
<1>2. CASE other \notin mZombies
  BY <1>2 DEF ApplyButter
<1>3. CASE other \in mZombies
  <2>1. /\ zs[z].mZombieType = "backup" /\ zs[other].mZombieType = "dancer"
        /\ zs[other].mRelatedZombieID = None
    BY <1>3, TiedIsBackup
  <2>2. ApplyButter(zs, z) = ws
    BY <1>3 DEF ApplyButter
  <2>3. ws \in [Zombie -> Record] /\ ws[z].mRelatedZombieID = None
    BY <1>1 DEF Record
  <2>4. ASSUME NEW y \in Zombie
        PROVE  /\ ws[y].mZombieType = zs[y].mZombieType /\ ws[y].mDead = zs[y].mDead
               /\ ws[y].mHanging = zs[y].mHanging /\ ws[y].mZombiePhase = zs[y].mZombiePhase
               /\ y # z => /\ ws[y].mRelatedZombieID = zs[y].mRelatedZombieID
                           /\ ws[y].mMindControlled = zs[y].mMindControlled
               /\ ws[y].mFollowerZombieID = zs[y].mFollowerZombieID
    BY <1>1, <2>1 DEF Record
  <2> HIDE DEF ws
  <2> QED
    BY <2>1, <2>2, <2>3, <2>4, LeavesSound
<1> QED
  BY <1>2, <1>3

\* A dancer that forgets its backup dancers.
LEMMA ForgetsSound ==
  ASSUME NEW zs, Sound(mZombies, zs), NEW z \in mZombies, zs[z].mZombieType = "dancer",
         NEW r \in Record, r.mZombieType = "dancer",
         r.mRelatedZombieID = zs[z].mRelatedZombieID,
         r.mDead = zs[z].mDead, r.mHanging = zs[z].mHanging,
         \A p \in Places : r.mFollowerZombieID[p] = None
  PROVE  Sound(mZombies, [zs EXCEPT ![z] = r])
<1> DEFINE ws == [zs EXCEPT ![z] = r]
<1>1. zs \in [Zombie -> Record] /\ mZombies \subseteq Zombie /\ None \notin mZombies
  BY Constants DEF Sound
<1>2. /\ ws \in [Zombie -> Record] /\ ws[z] = r
      /\ \A y \in Zombie : y # z => ws[y] = zs[y]
  BY <1>1
<1> HIDE DEF ws
<1>3. \A y \in Zombie : /\ ws[y].mZombieType = zs[y].mZombieType
                        /\ ws[y].mRelatedZombieID = zs[y].mRelatedZombieID
                        /\ ws[y].mDead = zs[y].mDead /\ ws[y].mHanging = zs[y].mHanging
  BY <1>1, <1>2
<1>4. KindsAgree(mZombies, ws)
  BY <1>1, <1>2, <1>3 DEF Sound, KindsAgree
<1>5. SameBobsleds(zs, ws)
  BY <1>1, <1>2, <1>3 DEF SameBobsleds
<1>6. BungeesSound(mZombies, ws)
  BY <1>1, <1>2, <1>3 DEF Sound, BungeesSound, Carries
<1>7. OneSide(mZombies, ws)
  <2> SUFFICES ASSUME NEW d \in mZombies, NEW p \in Places, ws[d].mZombieType = "dancer",
                      ws[d].mFollowerZombieID[p] \in mZombies
               PROVE  LET b == ws[d].mFollowerZombieID[p]
                      IN  /\ ws[b].mRelatedZombieID \in {d, None}
                          /\ ws[b].mRelatedZombieID = d =>
                               ws[b].mMindControlled = ws[d].mMindControlled
    BY DEF OneSide
  <2>1. d # z /\ ws[d] = zs[d]
    BY <1>1, <1>2
  <2> DEFINE b == zs[d].mFollowerZombieID[p]
  <2>2. b \in mZombies /\ zs[b].mZombieType = "backup"
    BY <2>1 DEF Sound, KindsAgree
  <2>3. ws[b] = zs[b]
    BY <1>1, <1>2, <2>2
  <2> QED
    BY <2>1, <2>2, <2>3 DEF Sound, OneSide
<1>8. Carried(mZombies, ws)
  <2>1. ASSUME NEW b \in mZombies, NEW y \in mZombies
        PROVE  Carries(ws, b, y) = Carries(zs, b, y)
    BY <1>1, <1>3 DEF Carries
  <2> QED
    BY <1>1, <1>3, <2>1 DEF Sound, Carried
<1> QED
  BY <1>1, <1>2, <1>4, <1>5, <1>6, <1>7, <1>8, SameBobsledsWhole DEF Sound, ws

LEMMA StartMindControlledSound ==
  ASSUME NEW zs, Sound(mZombies, zs), NEW z \in mZombies, ~zs[z].mDead, Low(zs, z),
         ~IsBobsledTeamWithSled(zs, z)
  PROVE  Sound(mZombies, StartMindControlled(zs, z))
<1> DEFINE other == zs[z].mRelatedZombieID
           turned == [zs EXCEPT ![z].mMindControlled = TRUE]
<1>1. zs \in [Zombie -> Record] /\ mZombies \subseteq Zombie /\ zs[z] \in Record
  BY DEF Sound
<1>2. CASE zs[z].mZombieType = "dancer"
  <2> DEFINE r == [zs[z] EXCEPT !.mMindControlled = TRUE,
                                !.mFollowerZombieID = [p \in Places |-> None]]
  <2>1. StartMindControlled(zs, z) = [zs EXCEPT ![z] = r]
    BY <1>1, <1>2 DEF StartMindControlled
  <2>2. /\ r \in Record /\ r.mZombieType = "dancer"
        /\ r.mRelatedZombieID = zs[z].mRelatedZombieID
        /\ r.mDead = zs[z].mDead /\ r.mHanging = zs[z].mHanging
        /\ \A p \in Places : r.mFollowerZombieID[p] = None
    BY <1>1, <1>2 DEF Record
  <2> HIDE DEF r
  <2>3. Sound(mZombies, [zs EXCEPT ![z] = r])
    BY <1>2, <2>2, ForgetsSound
  <2> QED
    BY <2>1, <2>3
<1>3. CASE zs[z].mZombieType = "backup"
  <2> DEFINE ws == [y \in Zombie |->
              IF y = z THEN [turned[y] EXCEPT !.mRelatedZombieID = None]
              ELSE IF y = other /\ y \in mZombies
              THEN [zs[y] EXCEPT !.mFollowerZombieID = Without(@, z)]
              ELSE zs[y]]
  <2>1. StartMindControlled(zs, z) = ws
    BY <1>3 DEF StartMindControlled
  <2>2. other \in mZombies => zs[other].mZombieType = "dancer"
    BY <1>3 DEF Sound, KindsAgree
  <2>3. ASSUME NEW y \in Zombie
        PROVE  Without(zs[y].mFollowerZombieID, z) \in [Places -> Zombie \union {None}]
    BY <1>1 DEF Without, Record
  <2>4. ws \in [Zombie -> Record] /\ ws[z].mRelatedZombieID = None
    <3>1. ASSUME NEW y \in Zombie
          PROVE  /\ [turned[y] EXCEPT !.mRelatedZombieID = None] \in Record
                 /\ [zs[y] EXCEPT !.mFollowerZombieID = Without(@, z)] \in Record
                 /\ zs[y] \in Record
      BY <1>1, <2>3 DEF Record
    <3>2. [turned[z] EXCEPT !.mRelatedZombieID = None].mRelatedZombieID = None
      BY <1>1 DEF Record
    <3> QED
      BY <1>1, <3>1, <3>2
  <2>5. ASSUME NEW y \in Zombie
        PROVE  /\ ws[y].mZombieType = zs[y].mZombieType /\ ws[y].mDead = zs[y].mDead
               /\ ws[y].mHanging = zs[y].mHanging /\ ws[y].mZombiePhase = zs[y].mZombiePhase
               /\ y # z => /\ ws[y].mRelatedZombieID = zs[y].mRelatedZombieID
                           /\ ws[y].mMindControlled = zs[y].mMindControlled
               /\ \/ ws[y].mFollowerZombieID = zs[y].mFollowerZombieID
                  \/ /\ zs[y].mZombieType = "dancer"
                     /\ ws[y].mFollowerZombieID = Without(zs[y].mFollowerZombieID, z)
    BY <1>1, <2>2 DEF Record
  <2> HIDE DEF ws
  <2> QED
    BY <1>3, <2>1, <2>4, <2>5, LeavesSound
<1>4. CASE zs[z].mZombieType \notin {"dancer", "backup"}
  <2> DEFINE r == [zs[z] EXCEPT !.mMindControlled = TRUE]
  <2>1. other \notin mZombies
    BY <1>4, TiedIsBackup
  <2>2. StartMindControlled(zs, z) = [zs EXCEPT ![z] = r]
    BY <1>4, <2>1 DEF StartMindControlled
  <2>3. r \in Record /\ SameTie(r, zs[z]) /\ r.mZombiePhase = zs[z].mZombiePhase
    BY <1>1, <1>4 DEF SameTie, Record
  <2> HIDE DEF r
  <2>4. Sound(mZombies, [zs EXCEPT ![z] = r])
    BY <1>1, <2>3, ChangeSound
  <2> QED
    BY <2>2, <2>4
<1> QED
  BY <1>2, <1>3, <1>4

LEMMA LetsGoSound ==
  ASSUME NEW zs, Sound(mZombies, zs), NEW l \in mZombies, IsLeader(zs, l)
  PROVE  Sound(mZombies,
           [y \in Zombie |->
              IF y = l
              THEN [zs[y] EXCEPT !.mFollowerZombieID =
                      [p \in Places |-> IF p \in Followers THEN None ELSE @[p]]]
              ELSE IF y \in FollowersOf(zs, l)
              THEN [zs[y] EXCEPT !.mRelatedZombieID = None]
              ELSE zs[y]])
<1> DEFINE ws == [y \in Zombie |->
              IF y = l
              THEN [zs[y] EXCEPT !.mFollowerZombieID =
                      [p \in Places |-> IF p \in Followers THEN None ELSE @[p]]]
              ELSE IF y \in FollowersOf(zs, l)
              THEN [zs[y] EXCEPT !.mRelatedZombieID = None]
              ELSE zs[y]]
<1>1. zs \in [Zombie -> Record] /\ mZombies \subseteq Zombie /\ None \notin mZombies
  BY Constants DEF Sound
<1>2. /\ l \notin FollowersOf(zs, l)
      /\ \A f \in FollowersOf(zs, l) :
           /\ f \in mZombies /\ zs[f].mZombieType = "bobsled" /\ zs[f].mRelatedZombieID = l
           /\ IsFollower(zs, f) /\ zs[f].mFollowerZombieID[1] = None
  BY <1>1 DEF Sound, Whole, FollowersFollow, IsLeader, IsFollower
<1>3. ws \in [Zombie -> Record]
  <2>1. [p \in Places |-> IF p \in Followers THEN None ELSE zs[l].mFollowerZombieID[p]]
          \in [Places -> Zombie \union {None}]
    BY <1>1 DEF Record
  <2> QED
    BY <1>1, <2>1 DEF Record
<1>4. /\ ws[l].mFollowerZombieID[1] = None
      /\ ws[l].mRelatedZombieID = None
      /\ \A f \in FollowersOf(zs, l) :
           ws[f].mRelatedZombieID = None /\ ws[f].mFollowerZombieID[1] = None
      /\ \A y \in Zombie \ Team(zs, l) : ws[y] = zs[y]
  BY <1>1, <1>2, Constants DEF Record, Team, IsLeader
<1>5. \A y \in Zombie :
        /\ ws[y].mZombieType = zs[y].mZombieType /\ ws[y].mDead = zs[y].mDead
        /\ ws[y].mHanging = zs[y].mHanging /\ ws[y].mMindControlled = zs[y].mMindControlled
        /\ ws[y].mZombiePhase = zs[y].mZombiePhase
        /\ zs[y].mZombieType # "bobsled" => ws[y] = zs[y]
  BY <1>1, <1>2 DEF Record, IsLeader
<1> HIDE DEF ws
<1>6. KindsAgree(mZombies, ws)
  BY <1>1, <1>5 DEF Sound, KindsAgree
<1>7. BungeesSound(mZombies, ws)
  BY <1>1, <1>5 DEF Sound, BungeesSound, Carries
<1>8. OneSide(mZombies, ws)
  BY <1>1, <1>5 DEF Sound, OneSide, KindsAgree
<1>9. Carried(mZombies, ws)
  <2>1. ASSUME NEW b \in mZombies, NEW y \in mZombies
        PROVE  Carries(ws, b, y) = Carries(zs, b, y)
    BY <1>1, <1>5 DEF Carries
  <2> QED
    BY <1>1, <1>5, <2>1 DEF Sound, Carried
<1>10. ASSUME NEW y \in mZombies, IsFollower(ws, y) \/ IsLeader(ws, y)
       PROVE  y \notin Team(zs, l) /\ ws[y] = zs[y]
  BY <1>1, <1>4, <1>10 DEF Team, IsFollower, IsLeader
<1>11. FollowersFollow(mZombies, ws)
  BY <1>10 DEF Sound, FollowersFollow, IsFollower
<1>12. ASSUME NEW y \in mZombies, IsFollower(ws, y)
       PROVE  LET m == ws[y].mRelatedZombieID
              IN  m \in mZombies /\ IsLeader(ws, m) /\ y \in FollowersOf(ws, m)
  <2> DEFINE m == zs[y].mRelatedZombieID
  <2>1. IsFollower(zs, y) /\ ws[y] = zs[y] /\ y \notin Team(zs, l)
    BY <1>10, <1>12 DEF IsFollower
  <2>2. m \in mZombies /\ IsLeader(zs, m) /\ y \in FollowersOf(zs, m)
    BY <2>1 DEF Sound, Whole
  <2>3. m \notin Team(zs, l)
    BY <1>2, <2>1, <2>2 DEF Team, IsFollower, IsLeader
  <2>4. ws[m] = zs[m]
    BY <1>1, <1>4, <2>2, <2>3
  <2> QED
    BY <2>1, <2>2, <2>4 DEF IsLeader, FollowersOf
<1>13. ASSUME NEW y \in mZombies, IsLeader(ws, y), NEW f \in FollowersOf(ws, y)
       PROVE  /\ f \in mZombies /\ ws[f].mZombieType = "bobsled"
              /\ ws[f].mRelatedZombieID = y /\ ws[f].mDead = ws[y].mDead
  <2>1. ws[y] = zs[y] /\ y \notin Team(zs, l)
    BY <1>10, <1>13
  <2>2. IsLeader(zs, y) /\ f \in FollowersOf(zs, y)
    BY <1>13, <2>1 DEF IsLeader, FollowersOf
  <2>3. /\ f \in mZombies /\ zs[f].mZombieType = "bobsled"
        /\ zs[f].mRelatedZombieID = y /\ zs[f].mDead = zs[y].mDead
    BY <2>2 DEF Sound, Whole
  <2>4. f \notin Team(zs, l)
    BY <1>1, <1>2, <2>1, <2>3 DEF Team, IsLeader
  <2> QED
    BY <1>1, <1>4, <2>1, <2>3, <2>4
<1>14. Whole(mZombies, ws)
  BY <1>12, <1>13 DEF Whole
<1> QED
  BY <1>1, <1>3, <1>6, <1>7, <1>8, <1>9, <1>11, <1>14 DEF Sound, ws

\* A bungee sets down what it carries.
LEMMA SetsDownSound ==
  ASSUME NEW zs, Sound(mZombies, zs), NEW b \in mZombies, NEW z \in mZombies, Carries(zs, b, z)
  PROVE  Sound(mZombies, [zs EXCEPT ![z].mHanging = FALSE, ![b].mRelatedZombieID = None])
<1> DEFINE ws == [zs EXCEPT ![z].mHanging = FALSE, ![b].mRelatedZombieID = None]
<1>1. zs \in [Zombie -> Record] /\ mZombies \subseteq Zombie /\ None \notin mZombies
  BY Constants DEF Sound
<1>2. zs[b].mZombieType = "bungee" /\ zs[z].mZombieType = "normal" /\ b # z
  BY DEF Sound, KindsAgree, Carries
<1>3. ws \in [Zombie -> Record]
  <2> DEFINE down == [zs[z] EXCEPT !.mHanging = FALSE]
             empty == [zs[b] EXCEPT !.mRelatedZombieID = None]
  <2>0. zs[z] \in Record /\ zs[b] \in Record
    BY <1>1
  <2>1. down \in Record /\ empty \in Record
    <3>1. down \in Record
      BY <2>0 DEF Record
    <3>2. empty \in Record
      BY <2>0 DEF Record
    <3> QED
      BY <3>1, <3>2
  <2>2. ws = [zs EXCEPT ![z] = down, ![b] = empty]
    BY <1>1, <1>2
  <2> HIDE DEF ws, down, empty
  <2> QED
    BY <1>1, <2>1, <2>2
<1>4. /\ \A y \in Zombie : /\ ws[y].mZombieType = zs[y].mZombieType
                           /\ ws[y].mDead = zs[y].mDead
                           /\ ws[y].mMindControlled = zs[y].mMindControlled
                           /\ ws[y].mZombiePhase = zs[y].mZombiePhase
                           /\ ws[y].mFollowerZombieID = zs[y].mFollowerZombieID
                           /\ y # b => ws[y].mRelatedZombieID = zs[y].mRelatedZombieID
                           /\ y # z => ws[y].mHanging = zs[y].mHanging
      /\ ws[b].mRelatedZombieID = None /\ ws[z].mHanging = FALSE
  BY <1>1, <1>2 DEF Record
<1> HIDE DEF ws
<1>5. KindsAgree(mZombies, ws)
  BY <1>1, <1>2, <1>4 DEF Sound, KindsAgree
<1>6. SameBobsleds(zs, ws)
  BY <1>1, <1>2, <1>4 DEF SameBobsleds
<1>7. BungeesSound(mZombies, ws)
  BY <1>1, <1>2, <1>4 DEF Sound, BungeesSound, Carries
<1>8. OneSide(mZombies, ws)
  BY <1>1, <1>2, <1>4 DEF Sound, OneSide, KindsAgree
<1>9. Carried(mZombies, ws)
  <2>1. ASSUME NEW c \in mZombies
        PROVE  ~Carries(ws, c, z)
    BY <1>1, <1>4 DEF Sound, BungeesSound, Carries
  <2>2. ASSUME NEW c \in mZombies, NEW y \in mZombies, y # z
        PROVE  Carries(ws, c, y) = Carries(zs, c, y)
    BY <1>1, <1>4, <2>2 DEF Carries
  <2> QED
    BY <1>1, <1>4, <2>1, <2>2 DEF Sound, Carried
<1> QED
  BY <1>1, <1>3, <1>5, <1>6, <1>7, <1>8, <1>9, SameBobsledsWhole DEF Sound, ws

----------------------------------------------------------------------------
(* Zombies that go and come.                                                *)

\* A team is deleted together, and a load with its bungee or after it.
LEMMA DeletedSound ==
  ASSUME NEW Z, NEW zs, Sound(Z, zs)
  PROVE  Sound({z \in Z : ~zs[z].mDead}, zs)
<1> DEFINE L == {z \in Z : ~zs[z].mDead}
<1>1. L \subseteq Z
  OBVIOUS
<1>2. KindsAgree(L, zs) /\ FollowersFollow(L, zs) /\ BungeesSound(L, zs) /\ OneSide(L, zs)
  BY <1>1 DEF Sound, KindsAgree, FollowersFollow, BungeesSound, OneSide
<1>3. Whole(L, zs)
  <2>1. ASSUME NEW y \in L, IsFollower(zs, y)
        PROVE  LET m == zs[y].mRelatedZombieID
               IN  m \in L /\ IsLeader(zs, m) /\ y \in FollowersOf(zs, m)
    BY <2>1 DEF Sound, Whole
  <2>2. ASSUME NEW y \in L, IsLeader(zs, y), NEW f \in FollowersOf(zs, y)
        PROVE  /\ f \in L /\ zs[f].mZombieType = "bobsled"
               /\ zs[f].mRelatedZombieID = y /\ zs[f].mDead = zs[y].mDead
    BY <2>2 DEF Sound, Whole
  <2> QED
    BY <2>1, <2>2 DEF Whole
<1>4. Carried(L, zs)
  BY DEF Sound, Carried
<1> QED
  BY <1>1, <1>2, <1>3, <1>4 DEF Sound

\* What is sound depends on the zombies in use only.
LEMMA AgreeSound ==
  ASSUME NEW Z, NEW zs, Sound(Z, zs), NEW ws \in [Zombie -> Record], \A y \in Z : ws[y] = zs[y]
  PROVE  Sound(Z, ws)
BY SameTiesSound DEF SameTies, SameTie, ComesDownEmpty

\* Nobody in A holds a handle of B.
Apart(A, B, zs) ==
  \A y \in A : /\ zs[y].mRelatedZombieID \notin B
               /\ \A p \in Places : zs[y].mFollowerZombieID[p] \notin B

\* Two sets of zombies that hold no handles of each other.
LEMMA UnionSound ==
  ASSUME NEW A, NEW B, NEW zs, Sound(A, zs), Sound(B, zs), A \intersect B = {},
         Apart(A, B, zs), Apart(B, A, zs)
  PROVE  Sound(A \union B, zs)
<1> DEFINE Z == A \union B
<1>1. KindsAgree(Z, zs)
  BY DEF Sound, KindsAgree, Apart
<1>2. FollowersFollow(Z, zs)
  BY DEF Sound, FollowersFollow
<1>3. BungeesSound(Z, zs)
  BY DEF Sound, BungeesSound, Apart, Carries
<1>4. Whole(Z, zs)
  <2>1. ASSUME NEW y \in Z, IsFollower(zs, y)
        PROVE  LET m == zs[y].mRelatedZombieID
               IN  m \in Z /\ IsLeader(zs, m) /\ y \in FollowersOf(zs, m)
    BY <2>1 DEF Sound, Whole
  <2>2. ASSUME NEW y \in Z, IsLeader(zs, y), NEW f \in FollowersOf(zs, y)
        PROVE  /\ f \in Z /\ zs[f].mZombieType = "bobsled"
               /\ zs[f].mRelatedZombieID = y /\ zs[f].mDead = zs[y].mDead
    BY <2>2 DEF Sound, Whole
  <2> QED
    BY <2>1, <2>2 DEF Whole
<1>5. OneSide(Z, zs)
  BY DEF Sound, OneSide, Apart
<1>6. Carried(Z, zs)
  BY DEF Sound, Carried, Apart, Carries
<1> QED
  BY <1>1, <1>2, <1>3, <1>4, <1>5, <1>6 DEF Sound

\* Zombies made under handles that nobody holds, beside those that were there.
LEMMA BirthSound ==
  ASSUME Sound(mZombies, zombie), NEW N \in SUBSET Fresh, NEW ws \in [Zombie -> Record],
         \A y \in Zombie \ N : ws[y] = zombie[y],
         Sound(N, ws), Apart(N, mZombies, ws)
  PROVE  Sound(mZombies \union N, ws)
<1>1. mZombies \subseteq Zombie /\ mZombies \intersect N = {}
  BY DEF Sound, Fresh
<1>2. Sound(mZombies, ws)
  BY <1>1, AgreeSound
<1>3. Apart(mZombies, N, ws)
  BY <1>1 DEF Fresh, Apart
<1> QED
  BY <1>1, <1>2, <1>3, UnionSound

LEMMA NobodyTyped == Nobody \in Record
BY SquadsAssumption DEF Nobody, Record, Kinds, Phases

LEMMA BornFacts ==
  ASSUME NEW kind \in Kinds
  PROVE  /\ Born(kind) \in Record
         /\ Born(kind).mZombieType = kind /\ Born(kind).mRelatedZombieID = None
         /\ Born(kind).mDead = FALSE /\ Born(kind).mHanging = FALSE
         /\ Born(kind).mMindControlled = FALSE
         /\ \A p \in Places : Born(kind).mFollowerZombieID[p] = None
         /\ kind = "bungee" => Born(kind).mZombiePhase = "diving"
<1> DEFINE phase == CASE kind = "bobsled" -> "sliding" [] kind = "dancer" -> "dancing_in"
                      [] kind = "bungee" -> "diving" [] OTHER -> "normal"
<1>1. phase \in Phases /\ (kind = "bungee" => phase = "diving")
  BY DEF Phases
<1>2. Born(kind) = [Nobody EXCEPT !.mZombieType = kind, !.mZombiePhase = phase]
  BY DEF Born
<1> HIDE DEF phase
<1>3. Born(kind) \in Record
  BY <1>1, <1>2, NobodyTyped DEF Record
<1> QED
  BY <1>1, <1>2, <1>3 DEF Nobody

LEMMA AddZombieSound ==
  ASSUME Sound(mZombies, zombie), NEW z \in Fresh, NEW kind \in {"normal", "dancer", "bungee"}
  PROVE  Sound(mZombies \union {z}, [zombie EXCEPT ![z] = Born(kind)])
<1> DEFINE ws == [zombie EXCEPT ![z] = Born(kind)]
<1>1. zombie \in [Zombie -> Record] /\ mZombies \subseteq Zombie /\ z \in Zombie
  BY DEF Sound, Fresh
<1>2. /\ ws[z] \in Record
      /\ ws[z].mZombieType = kind /\ ws[z].mRelatedZombieID = None
      /\ ws[z].mDead = FALSE /\ ws[z].mHanging = FALSE
      /\ \A p \in Places : ws[z].mFollowerZombieID[p] = None
  BY <1>1, BornFacts DEF Kinds
<1>3. ws \in [Zombie -> Record] /\ \A y \in Zombie \ {z} : ws[y] = zombie[y]
  BY <1>1, <1>2
<1> HIDE DEF ws
<1>4. Sound({z}, ws)
  <2>1. ~IsFollower(ws, z) /\ ~IsLeader(ws, z)
    BY <1>2 DEF IsFollower, IsLeader
  <2> QED
    BY <1>1, <1>2, <1>3, <2>1, Constants
       DEF Sound, KindsAgree, FollowersFollow, BungeesSound, Whole, OneSide, Carried, Carries
<1>5. Apart({z}, mZombies, ws)
  BY <1>1, <1>2, Constants DEF Apart
<1> QED
  BY <1>3, <1>4, <1>5, BirthSound DEF ws

LEMMA BungeeDropSound ==
  ASSUME Sound(mZombies, zombie), NEW b \in Fresh, NEW z \in Fresh \ {b}
  PROVE  Sound(mZombies \union {b, z},
               [zombie EXCEPT ![b] = [Born("bungee") EXCEPT !.mRelatedZombieID = z],
                              ![z] = [Born("normal") EXCEPT !.mHanging = TRUE]])
<1> DEFINE ws == [zombie EXCEPT ![b] = [Born("bungee") EXCEPT !.mRelatedZombieID = z],
                                ![z] = [Born("normal") EXCEPT !.mHanging = TRUE]]
<1>1. /\ zombie \in [Zombie -> Record] /\ mZombies \subseteq Zombie
      /\ b \in Zombie /\ z \in Zombie /\ b # z /\ z \notin mZombies
  BY DEF Sound, Fresh
<1>2. /\ ws[b] = [Born("bungee") EXCEPT !.mRelatedZombieID = z]
      /\ ws[z] = [Born("normal") EXCEPT !.mHanging = TRUE]
      /\ \A y \in Zombie \ {b, z} : ws[y] = zombie[y]
  BY <1>1
<1>3. /\ ws[b] \in Record /\ ws[b].mZombieType = "bungee" /\ ws[b].mRelatedZombieID = z
      /\ ws[b].mDead = FALSE /\ ws[b].mHanging = FALSE /\ ws[b].mZombiePhase = "diving"
      /\ \A p \in Places : ws[b].mFollowerZombieID[p] = None
  <2> DEFINE r == Born("bungee")
  <2>1. /\ r \in Record /\ r.mZombieType = "bungee" /\ r.mDead = FALSE /\ r.mHanging = FALSE
        /\ r.mZombiePhase = "diving" /\ \A p \in Places : r.mFollowerZombieID[p] = None
    BY BornFacts DEF Kinds
  <2>2. ws[b] = [r EXCEPT !.mRelatedZombieID = z]
    BY <1>2
  <2> HIDE DEF r, ws
  <2> QED
    BY <1>1, <2>1, <2>2 DEF Record
<1>4. /\ ws[z] \in Record /\ ws[z].mZombieType = "normal" /\ ws[z].mRelatedZombieID = None
      /\ ws[z].mDead = FALSE /\ ws[z].mHanging = TRUE
      /\ \A p \in Places : ws[z].mFollowerZombieID[p] = None
  <2> DEFINE r == Born("normal")
  <2>1. /\ r \in Record /\ r.mZombieType = "normal" /\ r.mRelatedZombieID = None
        /\ r.mDead = FALSE /\ \A p \in Places : r.mFollowerZombieID[p] = None
    BY BornFacts DEF Kinds
  <2>2. ws[z] = [r EXCEPT !.mHanging = TRUE]
    BY <1>2
  <2> HIDE DEF r, ws
  <2> QED
    BY <2>1, <2>2 DEF Record
<1>5. ws \in [Zombie -> Record]
  BY <1>1, <1>3, <1>4
<1> HIDE DEF ws
<1>6. Sound({b, z}, ws)
  <2>1. \A y \in {b, z} : ~IsFollower(ws, y) /\ ~IsLeader(ws, y)
    BY <1>3, <1>4 DEF IsFollower, IsLeader
  <2>2. KindsAgree({b, z}, ws) /\ BungeesSound({b, z}, ws) /\ OneSide({b, z}, ws)
    BY <1>1, <1>3, <1>4, Constants DEF KindsAgree, BungeesSound, OneSide, Carries, Air
  <2>3. Carried({b, z}, ws)
    BY <1>1, <1>3, <1>4, Constants DEF Carried, Carries
  <2> QED
    BY <1>1, <1>5, <2>1, <2>2, <2>3 DEF Sound, FollowersFollow, Whole
<1>7. Apart({b, z}, mZombies, ws)
  BY <1>1, <1>3, <1>4, Constants DEF Apart
<1>8. {b, z} \in SUBSET Fresh
  OBVIOUS
<1> QED
  BY <1>2, <1>5, <1>6, <1>7, <1>8, BirthSound DEF ws

LEMMA AddBobsledSound ==
  ASSUME Sound(mZombies, zombie), NEW l \in Fresh, NEW team \in [Followers -> Fresh \ {l}]
  PROVE  Sound(mZombies \union {l} \union Range(team),
           [y \in Zombie |->
              IF y = l
              THEN [Born("bobsled") EXCEPT !.mFollowerZombieID =
                      [p \in Places |-> IF p \in Followers THEN team[p] ELSE None]]
              ELSE IF y \in Range(team) THEN [Born("bobsled") EXCEPT !.mRelatedZombieID = l]
              ELSE zombie[y]])
<1> DEFINE N == {l} \union Range(team)
           list == [p \in Places |-> IF p \in Followers THEN team[p] ELSE None]
           ws == [y \in Zombie |->
                    IF y = l THEN [Born("bobsled") EXCEPT !.mFollowerZombieID = list]
                    ELSE IF y \in Range(team)
                    THEN [Born("bobsled") EXCEPT !.mRelatedZombieID = l]
                    ELSE zombie[y]]
<1>1. /\ zombie \in [Zombie -> Record] /\ mZombies \subseteq Zombie /\ None \notin mZombies
      /\ l \in Zombie /\ l \notin Range(team) /\ l # None
      /\ Range(team) \subseteq Fresh /\ Fresh \subseteq Zombie \ mZombies
      /\ Range(team) = {team[i] : i \in Followers}
  BY Constants DEF Sound, Fresh, Range
<1>2. list \in [Places -> Zombie \union {None}]
  BY <1>1 DEF Fresh
<1>3. /\ Born("bobsled") \in Record
      /\ Born("bobsled").mZombieType = "bobsled" /\ Born("bobsled").mRelatedZombieID = None
      /\ Born("bobsled").mDead = FALSE /\ Born("bobsled").mHanging = FALSE
      /\ \A p \in Places : Born("bobsled").mFollowerZombieID[p] = None
  BY BornFacts DEF Kinds
<1> HIDE DEF list
<1>4. /\ ws[l] = [Born("bobsled") EXCEPT !.mFollowerZombieID = list]
      /\ \A f \in Range(team) : ws[f] = [Born("bobsled") EXCEPT !.mRelatedZombieID = l]
      /\ \A y \in Zombie \ N : ws[y] = zombie[y]
  BY <1>1
<1>5. /\ ws[l] \in Record /\ ws[l].mZombieType = "bobsled" /\ ws[l].mRelatedZombieID = None
      /\ ws[l].mDead = FALSE /\ ws[l].mHanging = FALSE /\ ws[l].mFollowerZombieID = list
  BY <1>2, <1>3, <1>4 DEF Record
<1>6. ASSUME NEW f \in Range(team)
      PROVE  /\ ws[f] \in Record /\ ws[f].mZombieType = "bobsled" /\ ws[f].mRelatedZombieID = l
             /\ ws[f].mDead = FALSE /\ ws[f].mHanging = FALSE
             /\ \A p \in Places : ws[f].mFollowerZombieID[p] = None
  BY <1>1, <1>3, <1>4 DEF Record
<1>7. ws \in [Zombie -> Record]
  <2>1. ws = [y \in Zombie |-> ws[y]]
    OBVIOUS
  <2>2. \A y \in Zombie : ws[y] \in Record
    BY <1>1, <1>4, <1>5, <1>6
  <2> HIDE DEF ws
  <2> QED
    BY <2>1, <2>2
<1> HIDE DEF ws
<1>8. /\ FollowersOf(ws, l) = Range(team)
      /\ \A p \in Places : list[p] \in Range(team) \union {None}
      /\ list[1] \in Range(team)
  BY <1>1, <1>5, Constants DEF FollowersOf, list
<1>9. Sound(N, ws)
  <2>1. KindsAgree(N, ws) /\ BungeesSound(N, ws) /\ OneSide(N, ws) /\ Carried(N, ws)
    BY <1>5, <1>6 DEF KindsAgree, BungeesSound, OneSide, Carried, Carries
  <2>2. IsLeader(ws, l) /\ ~IsFollower(ws, l)
    BY <1>1, <1>5, <1>8, Constants DEF IsLeader, IsFollower, Fresh
  <2>3. \A f \in Range(team) : IsFollower(ws, f) /\ ~IsLeader(ws, f)
    BY <1>1, <1>6 DEF IsLeader, IsFollower
  <2>4. FollowersFollow(N, ws)
    BY <1>6, <2>2, Constants DEF FollowersFollow
  <2>5. Whole(N, ws)
    <3> SUFFICES ASSUME NEW z \in N
                 PROVE  /\ IsFollower(ws, z) =>
                             LET k == ws[z].mRelatedZombieID
                             IN  k \in N /\ IsLeader(ws, k) /\ z \in FollowersOf(ws, k)
                        /\ IsLeader(ws, z) =>
                             \A f \in FollowersOf(ws, z) :
                               /\ f \in N /\ ws[f].mZombieType = "bobsled"
                               /\ ws[f].mRelatedZombieID = z /\ ws[f].mDead = ws[z].mDead
      BY DEF Whole
    <3>1. CASE z = l
      BY <1>5, <1>6, <1>8, <2>2, <3>1
    <3>2. CASE z \in Range(team)
      BY <1>6, <1>8, <2>2, <2>3, <3>2
    <3> QED
      BY <3>1, <3>2
  <2> QED
    BY <1>1, <1>7, <2>1, <2>4, <2>5 DEF Sound
<1>10. Apart(N, mZombies, ws)
  <2>1. (Range(team) \union {None, l}) \intersect mZombies = {}
    BY <1>1 DEF Fresh
  <2>2. /\ ws[l].mRelatedZombieID \notin mZombies
        /\ \A p \in Places : ws[l].mFollowerZombieID[p] \notin mZombies
    BY <1>5, <1>8, <2>1
  <2>3. ASSUME NEW f \in Range(team)
        PROVE  /\ ws[f].mRelatedZombieID \notin mZombies
               /\ \A p \in Places : ws[f].mFollowerZombieID[p] \notin mZombies
    BY <1>6, <2>1
  <2> QED
    BY <2>2, <2>3 DEF Apart
<1>11. N \in SUBSET Fresh
  BY <1>1
<1>12. Sound(mZombies \union N, ws)
  BY <1>4, <1>7, <1>9, <1>10, <1>11, BirthSound
<1>13. mZombies \union N = mZombies \union {l} \union Range(team)
  OBVIOUS
<1> QED
  BY <1>12, <1>13 DEF ws, list

\* A dancer with the backup dancers it has just summoned.
LEMMA SummonedSound ==
  ASSUME Sound(mZombies, zombie), NEW z \in mZombies, zombie[z].mZombieType = "dancer",
         NEW N \in SUBSET Fresh, NEW ws \in [Zombie -> Record],
         \A y \in Zombie \ (N \union {z}) : ws[y] = zombie[y],
         ws[z].mZombieType = "dancer",
         ws[z].mRelatedZombieID = zombie[z].mRelatedZombieID,
         ws[z].mDead = zombie[z].mDead, ws[z].mHanging = zombie[z].mHanging,
         ws[z].mMindControlled = zombie[z].mMindControlled,
         \A p \in Places :
           ws[z].mFollowerZombieID[p] \in N \union {zombie[z].mFollowerZombieID[p], None},
         \A n \in N : /\ ws[n].mZombieType = "backup" /\ ws[n].mRelatedZombieID = z
                      /\ ws[n].mDead = FALSE /\ ws[n].mHanging = FALSE
                      /\ ws[n].mMindControlled = zombie[z].mMindControlled
  PROVE  Sound(mZombies \union N, ws)
<1> DEFINE Z == mZombies \union N
<1>1. /\ zombie \in [Zombie -> Record] /\ mZombies \subseteq Zombie /\ N \subseteq Zombie
      /\ mZombies \intersect N = {} /\ None \notin Z
  BY Constants DEF Sound, Fresh
<1>2. \A y \in mZombies : /\ zombie[y].mRelatedZombieID \notin N
                          /\ \A p \in Places : zombie[y].mFollowerZombieID[p] \notin N
  BY DEF Fresh
<1>3. \A y \in mZombies : y # z => ws[y] = zombie[y]
  BY <1>1
<1>4. KindsAgree(Z, ws)
  BY <1>1, <1>2, <1>3 DEF Sound, KindsAgree
<1>5. ASSUME NEW y \in Z, IsFollower(ws, y) \/ IsLeader(ws, y)
      PROVE  y \in mZombies /\ y # z /\ ws[y] = zombie[y]
  BY <1>3, <1>5 DEF IsFollower, IsLeader
<1>6. FollowersFollow(Z, ws)
  BY <1>5 DEF Sound, FollowersFollow, IsFollower
<1>7. BungeesSound(Z, ws)
  BY <1>1, <1>2, <1>3 DEF Sound, BungeesSound, Carries
<1>8. Whole(Z, ws)
  <2>1. ASSUME NEW y \in Z, IsFollower(ws, y)
        PROVE  LET m == ws[y].mRelatedZombieID
               IN  m \in Z /\ IsLeader(ws, m) /\ y \in FollowersOf(ws, m)
    <3> DEFINE m == zombie[y].mRelatedZombieID
    <3>1. y \in mZombies /\ ws[y] = zombie[y] /\ IsFollower(zombie, y)
      BY <1>5, <2>1 DEF IsFollower
    <3>2. m \in mZombies /\ IsLeader(zombie, m) /\ y \in FollowersOf(zombie, m)
      BY <3>1 DEF Sound, Whole
    <3>3. ws[m] = zombie[m]
      BY <1>3, <3>2 DEF IsLeader
    <3> QED
      BY <3>1, <3>2, <3>3 DEF IsLeader, FollowersOf
  <2>2. ASSUME NEW y \in Z, IsLeader(ws, y), NEW f \in FollowersOf(ws, y)
        PROVE  /\ f \in Z /\ ws[f].mZombieType = "bobsled"
               /\ ws[f].mRelatedZombieID = y /\ ws[f].mDead = ws[y].mDead
    <3>1. y \in mZombies /\ ws[y] = zombie[y] /\ IsLeader(zombie, y) /\ f \in FollowersOf(zombie, y)
      BY <1>5, <2>2 DEF IsLeader, FollowersOf
    <3>2. /\ f \in mZombies /\ zombie[f].mZombieType = "bobsled"
          /\ zombie[f].mRelatedZombieID = y /\ zombie[f].mDead = zombie[y].mDead
      BY <3>1 DEF Sound, Whole
    <3> QED
      BY <1>3, <3>1, <3>2
  <2> QED
    BY <2>1, <2>2 DEF Whole
<1>9. OneSide(Z, ws)
  <2> SUFFICES ASSUME NEW d \in Z, NEW p \in Places, ws[d].mZombieType = "dancer",
                      ws[d].mFollowerZombieID[p] \in Z
               PROVE  LET b == ws[d].mFollowerZombieID[p]
                      IN  /\ ws[b].mRelatedZombieID \in {d, None}
                          /\ ws[b].mRelatedZombieID = d =>
                               ws[b].mMindControlled = ws[d].mMindControlled
    BY DEF OneSide
  <2> DEFINE b == ws[d].mFollowerZombieID[p]
  <2>1. d \in mZombies /\ zombie[d].mZombieType = "dancer"
    BY <1>3
  <2>2. CASE b \in N
    <3>1. d = z
      BY <1>2, <1>3, <2>1, <2>2
    <3> QED
      BY <2>2, <3>1
  <2>3. CASE b \notin N
    <3>1. b \in mZombies /\ b = zombie[d].mFollowerZombieID[p]
      BY <1>1, <1>3, <2>1, <2>3
    <3>2. zombie[b].mZombieType = "backup"
      BY <2>1, <3>1 DEF Sound, KindsAgree
    <3>3. ws[b] = zombie[b]
      BY <1>3, <3>1, <3>2
    <3>4. ws[d].mMindControlled = zombie[d].mMindControlled
      BY <1>3, <2>1
    <3> QED
      BY <2>1, <3>1, <3>3, <3>4 DEF Sound, OneSide
  <2> QED
    BY <2>2, <2>3
<1>10. Carried(Z, ws)
  <2>1. ASSUME NEW c \in Z, NEW y \in Z, Carries(ws, c, y)
        PROVE  c \in mZombies /\ ws[c] = zombie[c] /\ y \in mZombies
    BY <1>2, <1>3, <2>1 DEF Carries
  <2>2. ASSUME NEW c \in mZombies, NEW y \in Z, Carries(zombie, c, y)
        PROVE  ws[c] = zombie[c] /\ y \in mZombies
    BY <1>2, <1>3, <2>2 DEF Carries
  <2>3. \A y \in mZombies : ws[y].mHanging = zombie[y].mHanging /\ ws[y].mDead = zombie[y].mDead
    BY <1>3
  <2> QED
    BY <2>1, <2>2, <2>3 DEF Sound, Carried, Carries
<1> QED
  BY <1>1, <1>4, <1>6, <1>7, <1>8, <1>9, <1>10 DEF Sound

----------------------------------------------------------------------------
(* What every update ends with.                                             *)

LEMMA WalkedSound ==
  ASSUME NEW Z, NEW zs, Sound(Z, zs), NEW z \in Z, Low(zs, z), InUse(Z, zs, z),
         NEW ws \in Walked(zs, z)
  PROVE  Sound(Z, ws)
BY DieSound, TakeDamageSound DEF Walked

LEMMA FadedSound ==
  ASSUME NEW zs, Sound(mZombies, zs), NEW z \in mZombies
  PROVE  Sound(mZombies, Faded(zs, z))
<1> DEFINE fade == zs[z].mZombieFade
           r == [zs[z] EXCEPT !.mZombieFade = IF fade > 0 THEN fade - 1 ELSE 0]
           older == [zs EXCEPT ![z].mZombieFade = IF fade > 0 THEN fade - 1 ELSE 0]
<1>1. zs \in [Zombie -> Record] /\ zs[z] \in Record /\ z \in Zombie
  BY DEF Sound
<1>2. (IF fade > 0 THEN fade - 1 ELSE 0) \in 0..FadeTime
  BY <1>1, SquadsAssumption DEF Record
<1>3. r \in Record /\ SameTie(r, zs[z]) /\ r.mZombiePhase = zs[z].mZombiePhase
  BY <1>1, <1>2 DEF Record, SameTie
<1>4. older = [zs EXCEPT ![z] = r]
  OBVIOUS
<1>5. Faded(zs, z) \in {older, DieNoLoot(older, z)}
  BY DEF Faded
<1> HIDE DEF older, r, fade
<1>6. Sound(mZombies, older)
  BY <1>1, <1>3, <1>4, ChangeSound
<1> QED
  BY <1>5, <1>6, DieSound DEF InUse

LEMMA UpdatedInv ==
  ASSUME IInv, NEW zs, Sound(mZombies, zs), NEW z \in mZombies, Updated(z, zs)
  PROVE  IInv'
<1>1. Sound(mZombies, Faded(zs, z))
  BY FadedSound
<1>2. mZombies' = mZombies /\ zombie' = Faded(zs, z) /\ toUpdate' \subseteq toUpdate
  BY DEF Updated
<1>3. Sound(mZombies', zombie')
  BY <1>1, <1>2
<1> QED
  BY <1>2, <1>3 DEF IInv

LEMMA BecomesInv ==
  ASSUME IInv, NEW zs, Sound(mZombies, zs), Becomes(zs)
  PROVE  IInv'
<1>1. mZombies' = mZombies /\ zombie' = zs /\ toUpdate' \subseteq toUpdate
  BY DEF Becomes
<1>2. Sound(mZombies', zombie')
  BY <1>1
<1> QED
  BY <1>1, <1>2 DEF IInv

----------------------------------------------------------------------------
(* The steps: what is done to zombies.                                      *)

LEMMA HitInv == ASSUME IInv, NEW z \in mZombies, Hit(z) PROVE IInv'
<1>1. Low(zombie, z) /\ InUse(mZombies, zombie, z)
  BY DEF Hit, EffectedByDamage, Low, InUse, Air
<1>2. PICK leavesBody \in BOOLEAN : \E zs \in TakeDamage(zombie, z, leavesBody) : Becomes(zs)
  BY DEF Hit
<1>3. PICK zs \in TakeDamage(zombie, z, leavesBody) : Becomes(zs)
  BY <1>2
<1>4. Sound(mZombies, zs)
  BY <1>1, TakeDamageSound DEF IInv
<1> QED
  BY <1>3, <1>4, BecomesInv

LEMMA BurnInv == ASSUME IInv, NEW z \in mZombies, Burn(z) PROVE IInv'
<1>1. Low(zombie, z) /\ InUse(mZombies, zombie, z)
  BY DEF Burn, EffectedByDamage, Low, InUse, Air
<1>2. PICK zs \in ApplyBurn(zombie, z) : Becomes(zs)
  BY DEF Burn
<1>3. Sound(mZombies, zs)
  BY <1>1, ApplyBurnSound DEF IInv
<1> QED
  BY <1>2, <1>3, BecomesInv

LEMMA MowInv == ASSUME IInv, NEW z \in mZombies, MowZombie(z) PROVE IInv'
<1>1. Low(zombie, z) /\ InUse(mZombies, zombie, z)
  BY DEF MowZombie, EffectedByDamage, Low, InUse, Air
<1>2. PICK zs \in MowDown(zombie, z) : Becomes(zs)
  BY DEF MowZombie
<1>3. Sound(mZombies, zs)
  BY <1>1, MowDownSound DEF IInv
<1> QED
  BY <1>2, <1>3, BecomesInv

LEMMA SwallowInv == ASSUME IInv, NEW z \in mZombies, Swallow(z) PROVE IInv'
<1>1. Sound(mZombies, DieNoLoot(zombie, z))
  BY DieSound DEF IInv, InUse
<1> QED
  BY <1>1, BecomesInv DEF Swallow

LEMMA ButterInv == ASSUME IInv, NEW z \in mZombies, Butter(z) PROVE IInv'
<1>1. Sound(mZombies, ApplyButter(zombie, z))
  BY ApplyButterSound DEF IInv, Butter, IsDeadOrDying, Low, Air
<1> QED
  BY <1>1, BecomesInv DEF Butter

LEMMA HypnosisInv == ASSUME IInv, NEW z \in mZombies, EatHypnoshroom(z) PROVE IInv'
<1>1. Sound(mZombies, StartMindControlled(zombie, z))
  BY StartMindControlledSound DEF IInv, EatHypnoshroom, CanEat, IsDeadOrDying, Low
<1> QED
  BY <1>1, BecomesInv DEF EatHypnoshroom

LEMMA EatZombieInv ==
  ASSUME IInv, NEW e \in mZombies, NEW z \in mZombies, EatZombie(e, z)
  PROVE  IInv'
<1>1. Low(zombie, z) /\ InUse(mZombies, zombie, z)
  BY DEF EatZombie, CanBeEaten, Low, InUse, Air
<1>2. PICK zs \in TakeDamage(zombie, z, TRUE) : Becomes(zs)
  BY DEF EatZombie
<1>3. Sound(mZombies, zs)
  BY <1>1, TakeDamageSound DEF IInv
<1> QED
  BY <1>2, <1>3, BecomesInv

LEMMA RemoveAllInv == ASSUME IInv, RemoveAllZombies PROVE IInv'
<1> DEFINE removed == {z \in mZombies : ~IsDeadOrDying(zombie, z)}
           gone == removed \union UNION {DiesWith(zombie, z) : z \in removed}
<1>1. \A z \in mZombies : DiesWith(zombie, z) = DiesIn(mZombies, zombie, z)
  BY DEF DiesWith, DiesIn
<1>2. ASSUME NEW y \in mZombies \intersect gone
      PROVE  DiesIn(mZombies, zombie, y) \subseteq gone
  <2>1. CASE y \in removed
    BY <1>1, <2>1
  <2>2. CASE y \notin removed
    <3>1. PICK z \in removed : y \in DiesIn(mZombies, zombie, z)
      BY <1>1, <2>2
    <3>2. DiesIn(mZombies, zombie, y) \subseteq {z} \union DiesIn(mZombies, zombie, z)
      BY <3>1, DiesInClosed DEF IInv
    <3> QED
      BY <1>1, <3>2
  <2> QED
    BY <2>1, <2>2
<1>3. Sound(mZombies, Dead(zombie, gone))
  BY <1>2, DeadSound DEF IInv
<1>4. Becomes(Dead(zombie, gone))
  BY DEF RemoveAllZombies
<1> QED
  BY <1>3, <1>4, BecomesInv

----------------------------------------------------------------------------
(* The steps: zombies come and go.                                          *)

LEMMA BeginFrameInv == ASSUME IInv, BeginFrame PROVE IInv'
<1> DEFINE live == {z \in mZombies : ~zombie[z].mDead}
           ws == [z \in Zombie |-> IF z \in live THEN zombie[z] ELSE Nobody]
<1>1. mZombies' = live /\ toUpdate' = live /\ zombie' = ws
  BY DEF BeginFrame
<1>2. Sound(live, zombie)
  BY DeletedSound DEF IInv
<1>3. ws \in [Zombie -> Record] /\ live \subseteq Zombie
  BY NobodyTyped DEF IInv, Sound
<1>4. \A y \in live : ws[y] = zombie[y]
  BY <1>3
<1> HIDE DEF ws, live
<1>5. Sound(live, ws)
  BY <1>2, <1>3, <1>4, AgreeSound
<1>6. Sound(mZombies', zombie') /\ toUpdate' \subseteq mZombies'
  BY <1>1, <1>5
<1> QED
  BY <1>6 DEF IInv

LEMMA AddZombieInv ==
  ASSUME IInv, NEW kind \in Sent \ {"bobsled", "dropped"}, AddZombie(kind)
  PROVE  IInv'
<1>1. kind \in {"normal", "dancer", "bungee"}
  BY SquadsAssumption DEF Arrivals
<1>2. PICK z \in Fresh : /\ mZombies' = mZombies \union {z}
                         /\ zombie' = [zombie EXCEPT ![z] = Born(kind)]
  BY DEF AddZombie
<1>3. Sound(mZombies', zombie')
  BY <1>1, <1>2, AddZombieSound DEF IInv
<1> QED
  BY <1>2, <1>3 DEF IInv, AddZombie

LEMMA AddBobsledInv == ASSUME IInv, AddBobsled PROVE IInv'
<1>1. PICK l \in Fresh : \E team \in [Followers -> Fresh \ {l}] :
       /\ IsInjective(team)
       /\ mZombies' = mZombies \union {l} \union Range(team)
       /\ zombie' =
            [y \in Zombie |->
               IF y = l
               THEN [Born("bobsled") EXCEPT !.mFollowerZombieID =
                       [p \in Places |-> IF p \in Followers THEN team[p] ELSE None]]
               ELSE IF y \in Range(team) THEN [Born("bobsled") EXCEPT !.mRelatedZombieID = l]
               ELSE zombie[y]]
  BY DEF AddBobsled
<1>2. PICK team \in [Followers -> Fresh \ {l}] :
       /\ mZombies' = mZombies \union {l} \union Range(team)
       /\ zombie' =
            [y \in Zombie |->
               IF y = l
               THEN [Born("bobsled") EXCEPT !.mFollowerZombieID =
                       [p \in Places |-> IF p \in Followers THEN team[p] ELSE None]]
               ELSE IF y \in Range(team) THEN [Born("bobsled") EXCEPT !.mRelatedZombieID = l]
               ELSE zombie[y]]
  BY <1>1
<1>3. Sound(mZombies', zombie')
  BY <1>2, AddBobsledSound DEF IInv
<1>4. toUpdate' = toUpdate
  BY DEF AddBobsled
<1> QED
  BY <1>2, <1>3, <1>4 DEF IInv

LEMMA BungeeDropInv == ASSUME IInv, BungeeDropZombie PROVE IInv'
<1>1. PICK b \in Fresh : \E z \in Fresh \ {b} :
       /\ mZombies' = mZombies \union {b, z}
       /\ zombie' = [zombie EXCEPT ![b] = [Born("bungee") EXCEPT !.mRelatedZombieID = z],
                                   ![z] = [Born("normal") EXCEPT !.mHanging = TRUE]]
  BY DEF BungeeDropZombie
<1>2. PICK z \in Fresh \ {b} :
       /\ mZombies' = mZombies \union {b, z}
       /\ zombie' = [zombie EXCEPT ![b] = [Born("bungee") EXCEPT !.mRelatedZombieID = z],
                                   ![z] = [Born("normal") EXCEPT !.mHanging = TRUE]]
  BY <1>1
<1>3. Sound(mZombies', zombie')
  BY <1>2, BungeeDropSound DEF IInv
<1>4. toUpdate' = toUpdate
  BY DEF BungeeDropZombie
<1> QED
  BY <1>2, <1>3, <1>4 DEF IInv

----------------------------------------------------------------------------
(* The steps: updates.                                                      *)

LEMMA UpdateBurntInv == ASSUME IInv, NEW z \in mZombies, UpdateBurnt(z) PROVE IInv'
<1> DEFINE later == CountDown(zombie, z)
           zs == IF later[z].mPhaseCounter = 0 THEN DieNoLoot(later, z) ELSE later
<1>1. Updated(z, zs)
  BY DEF UpdateBurnt
<1>2. Sound(mZombies, later)
  BY CountDownFacts DEF IInv, Sound
<1> HIDE DEF later
<1>3. Sound(mZombies, zs)
  BY <1>2, DieSound DEF InUse
<1> QED
  BY <1>1, <1>3, UpdatedInv

LEMMA UpdateDeathInv == ASSUME IInv, NEW z \in mZombies, UpdateDeath(z) PROVE IInv'
<1> DEFINE later == CountDown(zombie, z)
           r == [later[z] EXCEPT !.mZombieFade = FadeTime]
           zs == IF later[z].mPhaseCounter = 0 /\ zombie[z].mZombieFade = 0
                 THEN [later EXCEPT ![z].mZombieFade = FadeTime] ELSE later
<1>1. Updated(z, zs)
  BY DEF UpdateDeath
<1>2. Sound(mZombies, later) /\ z \in Zombie
  BY CountDownFacts DEF IInv, Sound
<1> HIDE DEF later
<1>3. r \in Record /\ SameTie(r, later[z]) /\ r.mZombiePhase = later[z].mZombiePhase
  BY <1>2, Constants DEF Sound, Record, SameTie
<1>4. [later EXCEPT ![z].mZombieFade = FadeTime] = [later EXCEPT ![z] = r]
  OBVIOUS
<1> HIDE DEF r
<1>5. Sound(mZombies, [later EXCEPT ![z] = r])
  BY <1>2, <1>3, ChangeSound
<1>6. Sound(mZombies, zs)
  BY <1>2, <1>4, <1>5
<1> QED
  BY <1>1, <1>6, UpdatedInv

LEMMA UpdateCrashInv == ASSUME IInv, NEW z \in mZombies, UpdateCrash(z) PROVE IInv'
<1> DEFINE later == CountDown(zombie, z)
           up    == Set(later, z, "normal", 0)
           alone == [y \in Zombie |->
                     IF y = z
                     THEN [up[y] EXCEPT !.mFollowerZombieID =
                             [p \in Places |-> IF p \in Followers THEN None ELSE @[p]]]
                     ELSE IF y \in FollowersOf(zombie, z)
                     THEN [up[y] EXCEPT !.mRelatedZombieID = None]
                     ELSE up[y]]
           lets  == [y \in Zombie |->
                     IF y = z
                     THEN [up[y] EXCEPT !.mFollowerZombieID =
                             [p \in Places |-> IF p \in Followers THEN None ELSE @[p]]]
                     ELSE IF y \in FollowersOf(up, z)
                     THEN [up[y] EXCEPT !.mRelatedZombieID = None]
                     ELSE up[y]]
           acted == IF later[z].mPhaseCounter > 0 THEN later
                    ELSE IF IsLeader(zombie, z) THEN alone ELSE up
<1>1. PICK zs \in Walked(acted, z) : Updated(z, zs)
  BY DEF UpdateCrash
<1>2. /\ zombie \in [Zombie -> Record] /\ z \in Zombie
      /\ zombie[z].mZombieType = "bobsled"
  BY DEF UpdateCrash, IInv, Sound
<1>3. /\ Sound(mZombies, later) /\ SameTies(mZombies, zombie, later)
      /\ later \in [Zombie -> Record]
  BY <1>2, CountDownFacts DEF IInv, Sound
<1> HIDE DEF later
<1>4. later[z].mZombieType = "bobsled"
  BY <1>2, <1>3 DEF SameTies, SameTie
<1>5. Sound(mZombies, up)
  BY <1>2, <1>3, <1>4, Constants, SetSound DEF Low, Phases
<1>6. /\ up[z].mZombieType = "bobsled"
      /\ up[z].mRelatedZombieID = later[z].mRelatedZombieID
      /\ up[z].mFollowerZombieID = later[z].mFollowerZombieID
  <2> DEFINE r == later[z]
  <2>1. r \in Record /\ r.mZombieType = "bobsled"
    BY <1>2, <1>3, <1>4
  <2>2. up[z] = [r EXCEPT !.mZombiePhase = "normal", !.mPhaseCounter = 0]
    BY <1>2, <1>3 DEF Set
  <2> HIDE DEF r, up
  <2>3. /\ up[z].mZombieType = r.mZombieType /\ up[z].mRelatedZombieID = r.mRelatedZombieID
        /\ up[z].mFollowerZombieID = r.mFollowerZombieID
    BY <2>1, <2>2 DEF Record
  <2> QED
    BY <2>1, <2>3 DEF r
<1>7. FollowersOf(up, z) = FollowersOf(zombie, z) /\ IsLeader(up, z) = IsLeader(zombie, z)
  BY <1>2, <1>3, <1>6 DEF SameTies, SameTie, FollowersOf, IsLeader
<1>8. lets = alone
  BY <1>7
<1>9. up \in [Zombie -> Record]
  BY <1>5 DEF Sound
<1> HIDE DEF up
<1>10. IsLeader(zombie, z) => Sound(mZombies, lets)
  BY <1>5, <1>7, LetsGoSound
<1>11. alone[z].mZombieType = "bobsled"
  BY <1>2, <1>6, <1>9 DEF Record
<1> HIDE DEF alone, lets
<1>12. Sound(mZombies, acted) /\ acted[z].mZombieType = "bobsled"
  BY <1>3, <1>4, <1>5, <1>6, <1>8, <1>10, <1>11
<1> HIDE DEF acted
<1>13. Sound(mZombies, zs)
  BY <1>1, <1>12, WalkedSound DEF Low, InUse
<1> QED
  BY <1>1, <1>13, UpdatedInv

LEMMA UpdateSledInv == ASSUME IInv, NEW z \in mZombies, UpdateSled(z) PROVE IInv'
<1>1. Low(zombie, z)
  BY DEF UpdateSled, Low
<1>2. \E zs \in {zombie} \union TakeDamage(zombie, z, TRUE) : Updated(z, zs)
  BY DEF UpdateSled
<1>3. PICK zs \in {zombie} \union TakeDamage(zombie, z, TRUE) : Updated(z, zs)
  BY <1>2
<1>4. Sound(mZombies, zs)
  BY <1>1, TakeDamageSound DEF IInv, InUse
<1> QED
  BY <1>3, <1>4, UpdatedInv

LEMMA SummonCounterSound ==
  ASSUME NEW zs, Sound(mZombies, zs), NEW z \in mZombies, NEW due \in BOOLEAN
  PROVE  /\ Sound(mZombies, [zs EXCEPT ![z].mSummonCounter = due])
         /\ [zs EXCEPT ![z].mSummonCounter = due][z].mZombieType = zs[z].mZombieType
<1> DEFINE r == [zs[z] EXCEPT !.mSummonCounter = due]
<1>1. zs \in [Zombie -> Record] /\ zs[z] \in Record /\ z \in Zombie
  BY DEF Sound
<1>2. r \in Record /\ SameTie(r, zs[z]) /\ r.mZombiePhase = zs[z].mZombiePhase
  BY <1>1 DEF Record, SameTie
<1>3. [zs EXCEPT ![z].mSummonCounter = due] = [zs EXCEPT ![z] = r]
  OBVIOUS
<1> HIDE DEF r
<1>4. Sound(mZombies, [zs EXCEPT ![z] = r])
  BY <1>1, <1>2, ChangeSound
<1>5. [zs EXCEPT ![z] = r][z] = r
  BY <1>1
<1> QED
  BY <1>2, <1>3, <1>4, <1>5 DEF SameTie

\* A dancer that takes up another step is still a sound dancer.
LEMMA StepsSound ==
  ASSUME IInv, NEW z \in mZombies, zombie[z].mZombieType \notin {"bungee"}, NEW phase \in Phases
  PROVE  /\ Sound(mZombies, Set(zombie, z, phase, 0))
         /\ Set(zombie, z, phase, 0)[z].mZombieType = zombie[z].mZombieType
<1>1. zombie \in [Zombie -> Record] /\ z \in Zombie
  BY DEF IInv, Sound
<1>2. Sound(mZombies, Set(zombie, z, phase, 0))
  BY <1>1, Constants, SetSound DEF IInv, Low
<1>3. Set(zombie, z, phase, 0)[z].mZombieType = zombie[z].mZombieType
  BY <1>1 DEF Set, Record
<1> QED
  BY <1>2, <1>3

LEMMA UpdateDancerInv == ASSUME IInv, NEW z \in mZombies, UpdateDancer(z) PROVE IInv'
<1> DEFINE snapping == [Set(zombie, z, "snapping", 0) EXCEPT ![z].mSummonCounter = FALSE]
           dancing  == Set(zombie, z, "normal", 0)
           needing  == [dancing EXCEPT ![z].mSummonCounter = TRUE]
           any      == {zombie, snapping, dancing, needing}
<1>1. PICK acted \in any : \E zs \in Walked(acted, z) : Updated(z, zs)
  BY DEF UpdateDancer
<1>2. PICK zs \in Walked(acted, z) : Updated(z, zs)
  BY <1>1
<1>3. zombie[z].mZombieType = "dancer"
  BY DEF UpdateDancer
<1>4. "snapping" \in Phases /\ "normal" \in Phases
  BY DEF Phases
<1>5. Sound(mZombies, snapping) /\ snapping[z].mZombieType = "dancer"
  <2> DEFINE snap == Set(zombie, z, "snapping", 0)
  <2>1. Sound(mZombies, snap) /\ snap[z].mZombieType = "dancer"
    BY <1>3, <1>4, StepsSound
  <2> HIDE DEF snap
  <2>2. /\ Sound(mZombies, [snap EXCEPT ![z].mSummonCounter = FALSE])
        /\ [snap EXCEPT ![z].mSummonCounter = FALSE][z].mZombieType = snap[z].mZombieType
    BY <2>1, SummonCounterSound
  <2> QED
    BY <2>1, <2>2 DEF snap
<1>6. Sound(mZombies, dancing) /\ dancing[z].mZombieType = "dancer"
  BY <1>3, <1>4, StepsSound
<1> HIDE DEF dancing, snapping
<1>7. Sound(mZombies, needing) /\ needing[z].mZombieType = "dancer"
  BY <1>6, SummonCounterSound
<1>8. Sound(mZombies, zombie)
  BY DEF IInv
<1> HIDE DEF needing
<1>9. Sound(mZombies, acted) /\ acted[z].mZombieType = "dancer"
  BY <1>1, <1>3, <1>5, <1>6, <1>7, <1>8
<1>10. Sound(mZombies, zs)
  BY <1>2, <1>9, WalkedSound DEF Low, InUse
<1> QED
  BY <1>2, <1>10, UpdatedInv

LEMMA UpdateBackupInv == ASSUME IInv, NEW z \in mZombies, UpdateBackupDancer(z) PROVE IInv'
<1>1. PICK acted \in {zombie, Set(zombie, z, "normal", 0)} :
        \E zs \in Walked(acted, z) : Updated(z, zs)
  BY DEF UpdateBackupDancer
<1>2. PICK zs \in Walked(acted, z) : Updated(z, zs)
  BY <1>1
<1>3. zombie[z].mZombieType = "backup" /\ "normal" \in Phases
  BY DEF UpdateBackupDancer, Phases
<1>4. Sound(mZombies, acted) /\ acted[z].mZombieType = "backup"
  BY <1>1, <1>3, StepsSound DEF IInv
<1>5. Sound(mZombies, zs)
  BY <1>2, <1>4, WalkedSound DEF Low, InUse
<1> QED
  BY <1>2, <1>5, UpdatedInv

LEMMA UpdateBungeeInv == ASSUME IInv, NEW z \in mZombies, UpdateZombieBungee(z) PROVE IInv'
<1> DEFINE load == zombie[z].mRelatedZombieID
           up   == Set(zombie, z, "climbing", 0)
<1>1. /\ zombie[z].mZombieType = "bungee" /\ Sound(mZombies, zombie)
      /\ zombie \in [Zombie -> Record] /\ z \in Zombie
  BY DEF UpdateZombieBungee, IInv, Sound
<1>2. Sound(mZombies, up)
  BY <1>1, Constants, SetSound DEF Phases, Air
<1>3. Carries(up, z, load)
  BY <1>1 DEF Set, Carries, Record
<1>4. load \in mZombies =>
        Sound(mZombies, [up EXCEPT ![load].mHanging = FALSE, ![z].mRelatedZombieID = None])
  BY <1>2, <1>3, SetsDownSound
<1>5. load \notin mZombies => Sound(mZombies, Set(zombie, z, "bottom", 0))
  BY <1>1, Constants, SetSound DEF Phases
<1>6. Sound(mZombies, DieNoLoot(zombie, z))
  BY <1>1, DieSound DEF InUse
<1>7. \/ Updated(z, up) \/ Updated(z, zombie) \/ Updated(z, DieNoLoot(zombie, z))
      \/ /\ load \in mZombies
         /\ Updated(z, [up EXCEPT ![load].mHanging = FALSE, ![z].mRelatedZombieID = None])
      \/ load \notin mZombies /\ Updated(z, Set(zombie, z, "bottom", 0))
  BY DEF UpdateZombieBungee, BungeeLanding
<1> HIDE DEF load, up
<1> QED
  BY <1>1, <1>2, <1>4, <1>5, <1>6, <1>7, UpdatedInv

LEMMA UpdateWalkInv == ASSUME IInv, NEW z \in mZombies, UpdateWalk(z) PROVE IInv'
<1>1. PICK zs \in Walked(zombie, z) : Updated(z, zs)
  BY DEF UpdateWalk
<1>2. Low(zombie, z)
  BY DEF UpdateWalk, Low, Air
<1>3. Sound(mZombies, zs)
  BY <1>1, <1>2, WalkedSound DEF IInv, InUse
<1> QED
  BY <1>1, <1>3, UpdatedInv

LEMMA SummonInv == ASSUME IInv, NEW z \in mZombies, SummonBackupDancers(z) PROVE IInv'
<1> DEFINE List(y, places, troupe) ==
             [p \in Places |-> IF p \in places THEN troupe[p]
                               ELSE IF p \in Missing(z) /\ zombie[z].mHasHead
                               THEN None ELSE zombie[y].mFollowerZombieID[p]]
           Troupe(places, troupe) ==
             [y \in Zombie |->
               IF y = z
               THEN [zombie[y] EXCEPT !.mZombiePhase = "hold", !.mPhaseCounter = 0,
                                      !.mFollowerZombieID = List(y, places, troupe)]
               ELSE IF y \in Range(troupe)
               THEN [Born("backup") EXCEPT
                       !.mZombiePhase = "rising", !.mRelatedZombieID = z,
                       !.mMindControlled = zombie[z].mMindControlled]
               ELSE zombie[y]]
<1>1. PICK places \in SUBSET Missing(z) : \E troupe \in [places -> Fresh] :
        /\ mZombies' = mZombies \union Range(troupe)
        /\ \E reached \in SUBSET Range(troupe) : toUpdate' = (toUpdate \ {z}) \union reached
        /\ zombie' \in Walked(Troupe(places, troupe), z)
  BY DEF SummonBackupDancers
<1>2. PICK troupe \in [places -> Fresh] :
        /\ mZombies' = mZombies \union Range(troupe)
        /\ \E reached \in SUBSET Range(troupe) : toUpdate' = (toUpdate \ {z}) \union reached
        /\ zombie' \in Walked(Troupe(places, troupe), z)
  BY <1>1
<1> DEFINE N == Range(troupe)
           list == List(z, places, troupe)
           ws == Troupe(places, troupe)
           new == [Born("backup") EXCEPT !.mZombiePhase = "rising", !.mRelatedZombieID = z,
                                         !.mMindControlled = zombie[z].mMindControlled]
<1>3. /\ zombie \in [Zombie -> Record] /\ mZombies \subseteq Zombie /\ z \in Zombie
      /\ zombie[z].mZombieType = "dancer" /\ zombie[z] \in Record
  BY DEF SummonBackupDancers, IInv, Sound
<1>4. /\ N \subseteq Fresh /\ z \notin N /\ N \subseteq Zombie
      /\ \A p \in places : troupe[p] \in N
  BY DEF Fresh, Range
<1>5. /\ list \in [Places -> Zombie \union {None}]
      /\ \A p \in Places : list[p] \in N \union {zombie[z].mFollowerZombieID[p], None}
  <2>1. \A p \in Places : zombie[z].mFollowerZombieID[p] \in Zombie \union {None}
    BY <1>3 DEF Record
  <2> QED
    BY <1>4, <2>1
<1>6. /\ Born("backup") \in Record /\ Born("backup").mZombieType = "backup"
      /\ Born("backup").mDead = FALSE /\ Born("backup").mHanging = FALSE
  BY BornFacts DEF Kinds
<1>7. /\ new \in Record /\ new.mZombieType = "backup" /\ new.mRelatedZombieID = z
      /\ new.mDead = FALSE /\ new.mHanging = FALSE
      /\ new.mMindControlled = zombie[z].mMindControlled
  BY <1>3, <1>6 DEF Record, Phases
<1> HIDE DEF list, new
<1>8. ws = [y \in Zombie |->
              IF y = z THEN [zombie[y] EXCEPT !.mZombiePhase = "hold", !.mPhaseCounter = 0,
                                              !.mFollowerZombieID = list]
              ELSE IF y \in N THEN new ELSE zombie[y]]
  BY DEF list, new
<1> HIDE DEF ws
<1>9. /\ ws[z] \in Record /\ ws[z].mZombieType = "dancer"
      /\ ws[z].mRelatedZombieID = zombie[z].mRelatedZombieID
      /\ ws[z].mDead = zombie[z].mDead /\ ws[z].mHanging = zombie[z].mHanging
      /\ ws[z].mMindControlled = zombie[z].mMindControlled
      /\ ws[z].mFollowerZombieID = list
  BY <1>3, <1>5, <1>8, Constants DEF Record, Phases, Times
<1>10. /\ \A y \in N : ws[y] = new
       /\ \A y \in Zombie \ (N \union {z}) : ws[y] = zombie[y]
  BY <1>4, <1>8
<1>11. ws \in [Zombie -> Record]
  <2>1. ws = [y \in Zombie |-> ws[y]]
    BY <1>8
  <2>2. \A y \in Zombie : ws[y] \in Record
    BY <1>3, <1>7, <1>9, <1>10
  <2> QED
    BY <2>1, <2>2
<1>12. Sound(mZombies \union N, ws)
  <2>1. Sound(mZombies, zombie) /\ N \in SUBSET Fresh
    BY <1>4 DEF IInv
  <2>2. \A n \in N : /\ ws[n].mZombieType = "backup" /\ ws[n].mRelatedZombieID = z
                     /\ ws[n].mDead = FALSE /\ ws[n].mHanging = FALSE
                     /\ ws[n].mMindControlled = zombie[z].mMindControlled
    BY <1>7, <1>10
  <2>3. \A p \in Places :
          ws[z].mFollowerZombieID[p] \in N \union {zombie[z].mFollowerZombieID[p], None}
    BY <1>5, <1>9
  <2> HIDE DEF N
  <2> QED
    BY <1>3, <1>9, <1>10, <1>11, <2>1, <2>2, <2>3, SummonedSound
<1>13. zombie' \in Walked(ws, z)
  BY <1>2 DEF ws
<1>14. Sound(mZombies \union N, zombie')
  BY <1>9, <1>12, <1>13, WalkedSound DEF Low, InUse
<1>15. Sound(mZombies', zombie') /\ toUpdate' \subseteq mZombies'
  BY <1>2, <1>14 DEF IInv
<1> QED
  BY <1>15 DEF IInv

LEMMA UpdateInv == ASSUME IInv, NEW z \in mZombies, Update(z) PROVE IInv'
BY UpdateBurntInv, UpdateDeathInv, UpdateCrashInv, UpdateSledInv, UpdateDancerInv, SummonInv,
   UpdateBackupInv, UpdateBungeeInv, UpdateWalkInv DEF Update

----------------------------------------------------------------------------
(* The theorems.                                                            *)

LEMMA InitInv == Init => IInv
<1> SUFFICES ASSUME Init PROVE IInv
  OBVIOUS
<1>1. zombie \in [Zombie -> Record]
  BY NobodyTyped DEF Init
<1> QED
  BY <1>1 DEF Init, IInv, Sound, KindsAgree, FollowersFollow, BungeesSound, Whole, OneSide,
              Carried

LEMMA NextInv == IInv /\ [Next]_vars => IInv'
<1> SUFFICES ASSUME IInv, [Next]_vars PROVE IInv'
  OBVIOUS
<1>1. CASE Next
  BY <1>1, BeginFrameInv, AddZombieInv, AddBobsledInv, BungeeDropInv, RemoveAllInv, UpdateInv,
     HitInv, BurnInv, MowInv, SwallowInv, ButterInv, HypnosisInv, EatZombieInv DEF Next
<1>2. CASE UNCHANGED vars
  <2>1. mZombies' = mZombies /\ zombie' = zombie /\ toUpdate' = toUpdate
    BY <1>2 DEF vars
  <2> QED
    BY <2>1 DEF IInv
<1> QED
  BY <1>1, <1>2

LEMMA Invariance == Spec => []IInv
BY InitInv, NextInv, PTL DEF Spec

\* The zombies and the loop over them keep their types.
THEOREM TypeCorrect == Spec => []TypeOK
BY Invariance, IInvPromises, PTL

\* However a team of any size is hurt, and in whichever order its members are updated,
\* what BobsledCrash, BobsledDie and BobsledBurn follow unchecked is there.
THEOREM SledsAlwaysWhole == Spec => []SledsWhole
BY Invariance, IInvPromises, PTL

\* StartMindControlled and ApplyButter leave no dancer with a backup dancer that
\* dances for it from the other side.
THEOREM TroupesOnOneSide == Spec => []TroupeOneSide
BY Invariance, IInvPromises, PTL

\* Only what a bungee carries hangs, and nothing that was set down is carried.
THEOREM HangingAlwaysCarried == Spec => []HangingIsCarried
BY Invariance, IInvPromises, PTL
=============================================================================
