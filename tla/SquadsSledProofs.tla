-------------------------- MODULE SquadsSledProofs --------------------------
(***************************************************************************)
(* Two promises of Squads fail once there are bobsleds: the pool may be      *)
(* asked for more zombies than it holds, and UpdatePlaying may be about to   *)
(* move a zombie without health. Here is how far they fail: the pool by      *)
(* fewer zombies than a team has followers, and no zombie but a bobsled's is *)
(* without health. A level that sends no bobsled keeps both.                 *)
(*                                                                           *)
(* And the crash of a sled comes to an end: the frames that are left of it   *)
(* become fewer with each frame, whatever else is done to its leader.        *)
(***************************************************************************)
EXTENDS SquadsProofs, FiniteSetTheorems

----------------------------------------------------------------------------
(* The pool.                                                                *)

\* The zombies in use are at most n.
AtMost(n) == IsFiniteSet(mZombies) /\ Cardinality(mZombies) <= n

LEMMA RangeIsNoLarger ==
  ASSUME NEW S, NEW T, NEW f \in [S -> T], IsFiniteSet(S)
  PROVE  IsFiniteSet(Range(f)) /\ Cardinality(Range(f)) <= Cardinality(S)
<1>1. f \in Surjection(S, Range(f))
  BY DEF Surjection, Range
<1> QED
  BY <1>1, FS_Surjection

LEMMA UnionIsNoLarger ==
  ASSUME NEW S, NEW T, IsFiniteSet(S), IsFiniteSet(T)
  PROVE  IsFiniteSet(S \union T) /\ Cardinality(S \union T) <= Cardinality(S) + Cardinality(T)
<1>1. /\ Cardinality(S) \in Nat /\ Cardinality(T) \in Nat
      /\ IsFiniteSet(S \intersect T) /\ Cardinality(S \intersect T) \in Nat
  BY FS_CardinalityType, FS_Intersection
<1> QED
  BY <1>1, FS_Union

LEMMA OneMore ==
  ASSUME NEW S, NEW x, IsFiniteSet(S)
  PROVE  IsFiniteSet(S \union {x}) /\ Cardinality(S \union {x}) <= Cardinality(S) + 1
<1>1. Cardinality(S) \in Nat
  BY FS_CardinalityType
<1> QED
  BY <1>1, FS_AddElement

LEMMA TeamSize ==
  IsFiniteSet(Followers) /\ Cardinality(Followers) = NumFollowers
BY SquadsAssumption, FS_Interval DEF Followers

\* The steps that take a slot, by what they ask.
LEMMA AddZombieRoom ==
  ASSUME IsFiniteSet(mZombies), NEW kind, AddZombie(kind)
  PROVE  IsFiniteSet(mZombies') /\ Cardinality(mZombies') <= MaxZombies - 1
<1>1. PICK z \in Fresh : mZombies' = mZombies \union {z}
  BY DEF AddZombie
<1>2. Cardinality(mZombies) \in Nat /\ Cardinality(mZombies) < MaxZombies - 1
  BY SquadsAssumption, FS_CardinalityType DEF AddZombie, PoolIsFull
<1>3. IsFiniteSet(mZombies') /\ Cardinality(mZombies') <= Cardinality(mZombies) + 1
  BY <1>1, OneMore
<1>4. Cardinality(mZombies') \in Nat
  BY <1>3, FS_CardinalityType
<1> QED
  BY <1>2, <1>3, <1>4, SquadsAssumption

\* The followers come on top of what was asked for.
LEMMA AddBobsledRoom ==
  ASSUME IsFiniteSet(mZombies), AddBobsled
  PROVE  IsFiniteSet(mZombies') /\ Cardinality(mZombies') <= MaxZombies + NumFollowers - 1
<1>1. PICK l \in Fresh : \E team \in [Followers -> Fresh \ {l}] :
        mZombies' = mZombies \union {l} \union Range(team)
  BY DEF AddBobsled
<1>2. PICK team \in [Followers -> Fresh \ {l}] :
        mZombies' = mZombies \union {l} \union Range(team)
  BY <1>1
<1>3. Cardinality(mZombies) \in Nat /\ Cardinality(mZombies) < MaxZombies - 1
  BY SquadsAssumption, FS_CardinalityType DEF AddBobsled, PoolIsFull
<1>4. /\ IsFiniteSet(mZombies \union {l})
      /\ Cardinality(mZombies \union {l}) <= Cardinality(mZombies) + 1
      /\ Cardinality(mZombies \union {l}) \in Nat
  BY OneMore, FS_CardinalityType
<1>5. /\ IsFiniteSet(Range(team)) /\ Cardinality(Range(team)) <= NumFollowers
      /\ Cardinality(Range(team)) \in Nat
  BY RangeIsNoLarger, TeamSize, FS_CardinalityType
<1>6. /\ IsFiniteSet(mZombies')
      /\ Cardinality(mZombies') <= Cardinality(mZombies \union {l}) + Cardinality(Range(team))
      /\ Cardinality(mZombies') \in Nat
  BY <1>2, <1>4, <1>5, UnionIsNoLarger, FS_CardinalityType
<1> QED
  BY <1>3, <1>4, <1>5, <1>6, SquadsAssumption

\* A bungee asks for its load as well.
LEMMA BungeeDropRoom ==
  ASSUME IsFiniteSet(mZombies), BungeeDropZombie
  PROVE  IsFiniteSet(mZombies') /\ Cardinality(mZombies') <= MaxZombies - 1
<1>1. PICK b \in Fresh : \E z \in Fresh \ {b} : mZombies' = mZombies \union {b, z}
  BY DEF BungeeDropZombie
<1>2. PICK z \in Fresh \ {b} : mZombies' = mZombies \union {b, z}
  BY <1>1
<1>3. Cardinality(mZombies) \in Nat /\ Cardinality(mZombies) + 1 < MaxZombies - 1
  BY SquadsAssumption, FS_CardinalityType DEF BungeeDropZombie, PoolIsFull
<1>4. /\ IsFiniteSet(mZombies \union {b})
      /\ Cardinality(mZombies \union {b}) <= Cardinality(mZombies) + 1
      /\ Cardinality(mZombies \union {b}) \in Nat
  BY OneMore, FS_CardinalityType
<1>5. mZombies' = (mZombies \union {b}) \union {z}
  BY <1>2
<1>6. /\ IsFiniteSet(mZombies')
      /\ Cardinality(mZombies') <= Cardinality(mZombies \union {b}) + 1
      /\ Cardinality(mZombies') \in Nat
  BY <1>4, <1>5, OneMore, FS_CardinalityType
<1> QED
  BY <1>3, <1>4, <1>6, SquadsAssumption

\* A dancer is refused one by one: the last that came still found room.
LEMMA SummonRoom ==
  ASSUME IsFiniteSet(mZombies), NEW z, SummonBackupDancers(z)
  PROVE  /\ IsFiniteSet(mZombies')
         /\ Cardinality(mZombies') <= MaxZombies - 1 \/ mZombies' = mZombies
<1>1. PICK places \in SUBSET Missing(z) : \E troupe \in [places -> Fresh] :
        /\ places # {} => ~PoolIsFull(Cardinality(mZombies) + Cardinality(places) - 1)
        /\ mZombies' = mZombies \union Range(troupe)
  BY DEF SummonBackupDancers
<1>2. PICK troupe \in [places -> Fresh] :
        /\ places # {} => ~PoolIsFull(Cardinality(mZombies) + Cardinality(places) - 1)
        /\ mZombies' = mZombies \union Range(troupe)
  BY <1>1
<1>3. CASE places = {}
  <2>1. Range(troupe) = {}
    BY <1>3 DEF Range
  <2> QED
    BY <1>2, <2>1
<1>4. CASE places # {}
  <2>1. IsFiniteSet(places)
    <3>1. places \in SUBSET (1..NumBackups)
      BY DEF Missing, Places
    <3>2. IsFiniteSet(1..NumBackups)
      BY SquadsAssumption, FS_Interval
    <3> QED
      BY <3>1, <3>2, FS_Subset
  <2>2. /\ Cardinality(mZombies) \in Nat /\ Cardinality(places) \in Nat
        /\ Cardinality(mZombies) + Cardinality(places) - 1 < MaxZombies - 1
    BY <1>2, <1>4, <2>1, SquadsAssumption, FS_CardinalityType DEF PoolIsFull
  <2>3. /\ IsFiniteSet(Range(troupe)) /\ Cardinality(Range(troupe)) <= Cardinality(places)
        /\ Cardinality(Range(troupe)) \in Nat
    BY <2>1, RangeIsNoLarger, FS_CardinalityType
  <2>4. /\ IsFiniteSet(mZombies')
        /\ Cardinality(mZombies') <= Cardinality(mZombies) + Cardinality(Range(troupe))
        /\ Cardinality(mZombies') \in Nat
    BY <1>2, <2>3, UnionIsNoLarger, FS_CardinalityType
  <2> QED
    BY <2>2, <2>3, <2>4, SquadsAssumption
<1> QED
  BY <1>3, <1>4

\* Every other step keeps the zombies or deletes some.
LEMMA OthersTakeNoSlot ==
  ASSUME NEW z, Update(z), ~SummonBackupDancers(z)
  PROVE  mZombies' = mZombies
BY DEF Update, UpdateBurnt, UpdateDeath, UpdateCrash, UpdateSled, UpdateDancer,
       UpdateBackupDancer, UpdateZombieBungee, BungeeLanding, UpdateWalk, Updated

LEMMA HarmTakesNoSlot ==
  ASSUME NEW z \in mZombies,
         \/ Hit(z) \/ Burn(z) \/ MowZombie(z) \/ Swallow(z) \/ Butter(z) \/ EatHypnoshroom(z)
         \/ \E e \in mZombies : EatZombie(e, z)
  PROVE  mZombies' = mZombies
BY DEF Hit, Burn, MowZombie, Swallow, Butter, EatHypnoshroom, EatZombie, Becomes

\* With room for n, and for a team if there are any.
LEMMA RoomNext ==
  ASSUME NEW n \in Int, n >= MaxZombies - 1,
         "bobsled" \in Sent => n >= MaxZombies + NumFollowers - 1,
         AtMost(n), [Next]_vars
  PROVE  AtMost(n)'
<1>1. IsFiniteSet(mZombies) /\ Cardinality(mZombies) <= n
  BY DEF AtMost
<1>2. CASE BeginFrame
  <2>1. mZombies' \in SUBSET mZombies
    BY <1>2 DEF BeginFrame
  <2>2. /\ IsFiniteSet(mZombies') /\ Cardinality(mZombies') <= Cardinality(mZombies)
        /\ Cardinality(mZombies') \in Nat /\ Cardinality(mZombies) \in Nat
    BY <1>1, <2>1, FS_Subset, FS_CardinalityType
  <2> QED
    BY <1>1, <2>2 DEF AtMost
<1>3. ASSUME NEW kind \in Sent \ {"bobsled", "dropped"}, AddZombie(kind)
      PROVE  AtMost(n)'
  <2>1. /\ IsFiniteSet(mZombies') /\ Cardinality(mZombies') <= MaxZombies - 1
        /\ Cardinality(mZombies') \in Nat
    BY <1>1, <1>3, AddZombieRoom, FS_CardinalityType
  <2> QED
    BY <2>1, SquadsAssumption DEF AtMost
<1>4. CASE AddBobsled
  <2>1. "bobsled" \in Sent
    BY <1>4 DEF AddBobsled
  <2>2. /\ IsFiniteSet(mZombies') /\ Cardinality(mZombies') <= MaxZombies + NumFollowers - 1
        /\ Cardinality(mZombies') \in Nat
    BY <1>1, <1>4, AddBobsledRoom, FS_CardinalityType
  <2> QED
    BY <2>1, <2>2, SquadsAssumption DEF AtMost
<1>5. CASE BungeeDropZombie
  <2>1. /\ IsFiniteSet(mZombies') /\ Cardinality(mZombies') <= MaxZombies - 1
        /\ Cardinality(mZombies') \in Nat
    BY <1>1, <1>5, BungeeDropRoom, FS_CardinalityType
  <2> QED
    BY <2>1, SquadsAssumption DEF AtMost
<1>6. CASE RemoveAllZombies
  <2>1. mZombies' = mZombies
    BY <1>6 DEF RemoveAllZombies, Becomes
  <2> QED
    BY <1>1, <2>1 DEF AtMost
<1>7. ASSUME NEW z \in mZombies, Update(z)
      PROVE  AtMost(n)'
  <2>1. CASE SummonBackupDancers(z)
    <3>1. /\ IsFiniteSet(mZombies')
          /\ Cardinality(mZombies') <= MaxZombies - 1 \/ mZombies' = mZombies
          /\ Cardinality(mZombies') \in Nat
      BY <1>1, <2>1, SummonRoom, FS_CardinalityType
    <3> QED
      BY <1>1, <3>1, SquadsAssumption DEF AtMost
  <2>2. CASE ~SummonBackupDancers(z)
    <3>1. mZombies' = mZombies
      BY <1>7, <2>2, OthersTakeNoSlot
    <3> QED
      BY <1>1, <3>1 DEF AtMost
  <2> QED
    BY <2>1, <2>2
<1>8. ASSUME NEW z \in mZombies,
             \/ Hit(z) \/ Burn(z) \/ MowZombie(z) \/ Swallow(z) \/ Butter(z)
             \/ EatHypnoshroom(z) \/ \E e \in mZombies : EatZombie(e, z)
      PROVE  AtMost(n)'
  <2>1. mZombies' = mZombies
    BY <1>8, HarmTakesNoSlot
  <2> QED
    BY <1>1, <2>1 DEF AtMost
<1>9. CASE UNCHANGED vars
  BY <1>1, <1>9 DEF AtMost, vars
<1> QED
  BY <1>2, <1>3, <1>4, <1>5, <1>6, <1>7, <1>8, <1>9 DEF Next

LEMMA RoomInit ==
  ASSUME NEW n \in Nat, Init
  PROVE  AtMost(n)
BY FS_EmptySet DEF Init, AtMost

\* A pool of MaxZombies is asked for at most NumFollowers - 1 zombies more than it
\* holds: AddZombieInRow keeps one slot free, and does not ask whether there is room
\* for the followers of a bobsled. With so many slots more than the limit it asks
\* for, the assertion in DataArrayAlloc would hold.
THEOREM OverfilledByATeam ==
  Spec => [](Cardinality(mZombies) <= MaxZombies + NumFollowers - 1)
<1> DEFINE n == MaxZombies + NumFollowers - 1
<1>1. n \in Nat /\ n >= MaxZombies - 1 /\ n >= MaxZombies + NumFollowers - 1
  BY SquadsAssumption
<1>2. AtMost(n) => Cardinality(mZombies) <= n
  BY DEF AtMost
<1> HIDE DEF n
<1>3. Init => AtMost(n)
  BY <1>1, RoomInit
<1>4. AtMost(n) /\ [Next]_vars => AtMost(n)'
  BY <1>1, RoomNext
<1>5. Spec => [](Cardinality(mZombies) <= n)
  BY <1>2, <1>3, <1>4, PTL DEF Spec
<1> QED
  BY <1>5 DEF n

\* Without bobsleds the pool has room for every zombie that comes, troupes and what
\* bungees drop included.
THEOREM PoolHasRoomWithoutSleds ==
  ASSUME "bobsled" \notin Sent
  PROVE  Spec => []PoolHasRoom
<1> DEFINE n == MaxZombies
<1>1. n \in Nat /\ n >= MaxZombies - 1
  BY SquadsAssumption
<1>2. AtMost(n) => PoolHasRoom
  BY DEF AtMost, PoolHasRoom
<1> HIDE DEF n
<1>3. Init => AtMost(n)
  BY <1>1, RoomInit
<1>4. AtMost(n) /\ [Next]_vars => AtMost(n)'
  BY <1>1, RoomNext
<1> QED
  BY <1>2, <1>3, <1>4, PTL DEF Spec

----------------------------------------------------------------------------
(* The zombie about to move.                                                *)

\* A bobsled's zombie comes with a bobsled only.
Sendable == {r \in Record : r.mZombieType = "bobsled" => "bobsled" \in Sent}

\* A zombie without health falls, burns or is dead, unless it came on a sled.
Fit == {r \in Sendable : \/ r.mZombieType = "bobsled" \/ r.mBodyHealth
                         \/ r.mDead \/ r.mZombiePhase \in Corpse}

AllFit(zs) == zs \in [Zombie -> Fit]

LEMMA AllFitTyped ==
  ASSUME NEW zs, AllFit(zs)
  PROVE  zs \in [Zombie -> Sendable] /\ zs \in [Zombie -> Record]
BY DEF AllFit, Fit, Sendable

LEMMA ChangeFit ==
  ASSUME NEW zs, AllFit(zs), NEW z, NEW r \in Fit
  PROVE  AllFit([zs EXCEPT ![z] = r])
BY DEF AllFit

\* Whoever is not fit is among the dead.
LEMMA DeadFit ==
  ASSUME NEW zs \in [Zombie -> Sendable], NEW D, \A y \in Zombie : y \in D \/ zs[y] \in Fit
  PROVE  AllFit(Dead(zs, D))
<1> DEFINE ws == Dead(zs, D)
<1>0. zs \in [Zombie -> Record]
  BY DEF Sendable
<1>1. /\ ws \in [Zombie -> Record]
      /\ \A y \in Zombie : /\ ws[y].mZombieType = zs[y].mZombieType
                           /\ y \in D => ws[y].mDead = TRUE
                           /\ y \notin D => ws[y] = zs[y]
  <2>1. /\ ws \in [Zombie -> Record]
        /\ \A y \in Zombie :
              /\ ws[y].mZombieType = zs[y].mZombieType
              /\ ws[y].mRelatedZombieID = zs[y].mRelatedZombieID
              /\ ws[y].mFollowerZombieID = zs[y].mFollowerZombieID
              /\ ws[y].mMindControlled = zs[y].mMindControlled
              /\ y \in D => ws[y].mDead = TRUE
              /\ y \notin D => ws[y] = zs[y]
    BY <1>0, DeadFacts, Zenon
  <2> QED
    BY <2>1
<1> HIDE DEF ws
<1>2. \A y \in Zombie : ws[y] \in Fit
  BY <1>1 DEF Fit, Sendable
<1> QED
  BY <1>1, <1>2 DEF AllFit, ws

LEMMA DieFit ==
  ASSUME NEW zs, AllFit(zs), NEW z
  PROVE  AllFit(DieNoLoot(zs, z))
BY AllFitTyped, DeadFit DEF AllFit, DieNoLoot

\* Nobody gets up from a fall but what came on a sled.
LEMMA SetFit ==
  ASSUME NEW zs, AllFit(zs), NEW z \in Zombie, NEW phase \in Phases, NEW t \in Times,
         \/ phase \in Corpse \/ zs[z].mZombiePhase \notin Corpse
         \/ zs[z].mZombieType = "bobsled"
  PROVE  AllFit(Set(zs, z, phase, t))
<1> DEFINE r == zs[z]
           new == [r EXCEPT !.mZombiePhase = phase, !.mPhaseCounter = t]
<1>1. r \in Fit /\ r \in Record
  BY DEF AllFit, Fit, Sendable
<1>2. phase \in Corpse \/ r.mZombiePhase \notin Corpse \/ r.mZombieType = "bobsled"
  OBVIOUS
<1>3. Set(zs, z, phase, t) = [zs EXCEPT ![z] = new]
  BY DEF Set
<1> HIDE DEF r
<1>4. new \in Fit
  BY <1>1, <1>2 DEF Fit, Sendable, Record, Times
<1> HIDE DEF new
<1>5. AllFit([zs EXCEPT ![z] = new])
  BY <1>4, ChangeFit
<1> QED
  BY <1>3, <1>5

\* A change that is neither to the kind nor to what keeps a zombie on its feet.
SameFitness(r, old) ==
  /\ r.mZombieType = old.mZombieType /\ r.mBodyHealth = old.mBodyHealth
  /\ r.mDead = old.mDead /\ r.mZombiePhase = old.mZombiePhase

LEMMA SameFit ==
  ASSUME NEW zs, AllFit(zs), NEW ws \in [Zombie -> Record],
         \A y \in Zombie : SameFitness(ws[y], zs[y])
  PROVE  AllFit(ws)
<1>1. \A y \in Zombie : ws[y] \in Fit
  BY DEF AllFit, Fit, Sendable, SameFitness
<1> QED
  BY <1>1 DEF AllFit

LEMMA CountDownFit ==
  ASSUME NEW zs, AllFit(zs), NEW z \in Zombie
  PROVE  /\ AllFit(CountDown(zs, z))
         /\ CountDown(zs, z)[z].mZombiePhase = zs[z].mZombiePhase
         /\ CountDown(zs, z)[z].mZombieType = zs[z].mZombieType
<1> DEFINE r == zs[z]
           new == [r EXCEPT !.mPhaseCounter = IF @ > 0 THEN @ - 1 ELSE 0]
<1>1. r \in Fit /\ r \in Record /\ zs \in [Zombie -> Record]
  BY AllFitTyped DEF AllFit
<1>2. CountDown(zs, z) = [zs EXCEPT ![z] = new]
  BY DEF CountDown
<1> HIDE DEF r
<1>3. new \in Fit /\ new.mZombiePhase = r.mZombiePhase /\ new.mZombieType = r.mZombieType
  BY <1>1, SquadsAssumption DEF Fit, Sendable, Record
<1> HIDE DEF new
<1>4. CountDown(zs, z)[z] = new
  BY <1>1, <1>2
<1>5. AllFit([zs EXCEPT ![z] = new])
  BY <1>3, ChangeFit
<1> QED
  BY <1>2, <1>3, <1>4, <1>5 DEF r

LEMMA BeheadedFit ==
  ASSUME NEW zs, AllFit(zs), NEW z \in Zombie
  PROVE  AllFit(Beheaded(zs, z))
<1> DEFINE r == zs[z]
           new == [r EXCEPT !.mHasHead = FALSE]
<1>1. r \in Fit /\ r \in Record
  BY DEF AllFit, Fit, Sendable
<1>2. Beheaded(zs, z) = zs \/ Beheaded(zs, z) = [zs EXCEPT ![z] = new]
  BY DEF Beheaded
<1> HIDE DEF r
<1>3. new \in Fit
  BY <1>1 DEF Fit, Sendable, Record
<1> HIDE DEF new
<1> QED
  BY <1>2, <1>3, ChangeFit

LEMMA PlayDeathAnimFit ==
  ASSUME NEW zs, AllFit(zs), NEW z \in Zombie, NEW leaves, NEW ws \in PlayDeathAnim(zs, z, leaves)
  PROVE  AllFit(ws)
<1> DEFINE r == zs[z]
           hurt == [r EXCEPT !.mBodyHealth = FALSE]
           killed == [zs EXCEPT ![z].mBodyHealth = FALSE]
           fallen(t) == [hurt EXCEPT !.mZombiePhase = "dying", !.mPhaseCounter = t]
<1>1. r \in Sendable /\ r \in Record /\ zs \in [Zombie -> Sendable] /\ zs \in [Zombie -> Record]
  BY AllFitTyped
<1>2. killed = [zs EXCEPT ![z] = hurt]
  OBVIOUS
<1> HIDE DEF r
<1>3. hurt \in Sendable
  BY <1>1 DEF Sendable, Record
<1>4. \A t \in 1..DeathTime : fallen(t) \in Fit
  BY <1>3, Constants DEF Fit, Sendable, Record, Phases, Corpse, Times
<1> HIDE DEF hurt
<1>5. /\ killed \in [Zombie -> Sendable] /\ killed[z] = hurt
      /\ \A y \in Zombie : y # z => killed[y] \in Fit
  BY <1>1, <1>2, <1>3 DEF AllFit
<1>6. ASSUME NEW t \in 1..DeathTime
      PROVE  Set(killed, z, "dying", t) = [zs EXCEPT ![z] = fallen(t)]
  BY <1>1, <1>2, <1>5 DEF Set
<1> HIDE DEF killed
<1>7. AllFit(DieNoLoot(killed, z))
  BY <1>5, DeadFit DEF DieNoLoot
<1>8. ws = DieNoLoot(killed, z) \/ \E t \in 1..DeathTime : ws = Set(killed, z, "dying", t)
  BY DEF PlayDeathAnim, killed
<1> HIDE DEF fallen
<1>9. \A t \in 1..DeathTime : AllFit([zs EXCEPT ![z] = fallen(t)])
  BY <1>4, ChangeFit
<1> QED
  BY <1>6, <1>7, <1>8, <1>9

\* A hit on a sled makes its team crash, unhurt or not.
LEMMA TakeDamageFit ==
  ASSUME NEW zs, AllFit(zs), NEW z \in Zombie, NEW leaves,
         HasSled(zs, z) => \A y \in Team(zs, z) : zs[y].mZombieType = "bobsled",
         NEW ws \in TakeDamage(zs, z, leaves)
  PROVE  AllFit(ws)
<1> DEFINE hit == IF HasSled(zs, z) /\ leaves THEN BobsledCrash(zs, z) ELSE zs
<1>1. AllFit(hit)
  <2>1. ASSUME HasSled(zs, z), NEW y \in Zombie, y \in Team(zs, z)
        PROVE  [zs[y] EXCEPT !.mZombiePhase = "crashing", !.mPhaseCounter = CrashTime] \in Fit
    <3> DEFINE r == zs[y]
    <3>1. r \in Record /\ r \in Sendable /\ r.mZombieType = "bobsled"
      BY <2>1, AllFitTyped
    <3> HIDE DEF r
    <3>2. [r EXCEPT !.mZombiePhase = "crashing", !.mPhaseCounter = CrashTime] \in Fit
      BY <3>1, Constants DEF Fit, Sendable, Record, Phases, Times
    <3> QED
      BY <3>2 DEF r
  <2>2. HasSled(zs, z) => AllFit(BobsledCrash(zs, z))
    BY <2>1 DEF AllFit, BobsledCrash, Team
  <2> QED
    BY <2>2
<1>2. ws \in {hit, Beheaded(hit, z)} \union PlayDeathAnim(Beheaded(hit, z), z, leaves)
  BY DEF TakeDamage
<1> HIDE DEF hit
<1>3. AllFit(Beheaded(hit, z))
  BY <1>1, BeheadedFit
<1> QED
  BY <1>1, <1>2, <1>3, PlayDeathAnimFit

LEMMA WalkedFit ==
  ASSUME NEW zs, AllFit(zs), NEW z \in Zombie, ~HasSled(zs, z), NEW ws \in Walked(zs, z)
  PROVE  AllFit(ws)
BY DieFit, TakeDamageFit DEF Walked

LEMMA FadedFit ==
  ASSUME NEW zs, AllFit(zs), NEW z \in Zombie
  PROVE  AllFit(Faded(zs, z))
<1> DEFINE fade == zs[z].mZombieFade
           r == zs[z]
           new == [r EXCEPT !.mZombieFade = IF fade > 0 THEN fade - 1 ELSE 0]
           older == [zs EXCEPT ![z].mZombieFade = IF fade > 0 THEN fade - 1 ELSE 0]
<1>1. r \in Fit /\ r \in Record /\ fade = r.mZombieFade
  BY DEF AllFit, Fit, Sendable
<1>2. older = [zs EXCEPT ![z] = new]
  OBVIOUS
<1>3. Faded(zs, z) = older \/ Faded(zs, z) = DieNoLoot(older, z)
  BY DEF Faded
<1> HIDE DEF r, fade, older
<1>4. (IF fade > 0 THEN fade - 1 ELSE 0) \in 0..FadeTime
  BY <1>1, SquadsAssumption DEF Record
<1>5. new \in Fit
  BY <1>1, <1>4 DEF Fit, Sendable, Record
<1> HIDE DEF new
<1>6. AllFit(older)
  BY <1>2, <1>5, ChangeFit
<1> QED
  BY <1>3, <1>6, DieFit

----------------------------------------------------------------------------
(* The steps keep every zombie fit.                                         *)

\* What rides on a sled is a bobsled's: SledsWhole.
LEMMA TeamRides ==
  ASSUME IInv, NEW z \in mZombies, HasSled(zombie, z), NEW y \in Team(zombie, z)
  PROVE  zombie[y].mZombieType = "bobsled"
BY TeamFacts DEF IInv, HasSled

LEMMA UpdatedFit ==
  ASSUME NEW zs, AllFit(zs), NEW z \in Zombie, Updated(z, zs)
  PROVE  AllFit(zombie')
BY FadedFit DEF Updated

LEMMA HarmFit ==
  ASSUME IInv, AllFit(zombie), NEW z \in mZombies,
         \/ Hit(z) \/ Burn(z) \/ MowZombie(z) \/ Swallow(z) \/ \E e \in mZombies : EatZombie(e, z)
  PROVE  AllFit(zombie')
<1>1. z \in Zombie
  BY DEF IInv, Sound
<1>2. ASSUME NEW leaves \in BOOLEAN, NEW zs \in TakeDamage(zombie, z, leaves)
      PROVE  AllFit(zs)
  BY <1>1, TeamRides, TakeDamageFit
<1>3. CASE Hit(z)
  <2>1. PICK leaves \in BOOLEAN : \E zs \in TakeDamage(zombie, z, leaves) : Becomes(zs)
    BY <1>3 DEF Hit
  <2> QED
    BY <1>2, <2>1 DEF Becomes
<1>4. CASE Burn(z)
  <2>1. PICK zs \in ApplyBurn(zombie, z) : zombie' = zs
    BY <1>4 DEF Burn, Becomes
  <2>2. zs = zombie \/ zs = DieNoLoot(zombie, z) \/ \E t \in Times : zs = Set(zombie, z, "burned", t)
    BY Constants DEF ApplyBurn
  <2> QED
    BY <1>1, <2>1, <2>2, DieFit, SetFit DEF Phases, Corpse
<1>5. CASE MowZombie(z)
  <2>1. PICK zs \in MowDown(zombie, z) : zombie' = zs
    BY <1>5 DEF MowZombie, Becomes
  <2>2. zs = zombie \/ zs = DieNoLoot(zombie, z) \/ \E t \in Times : zs = Set(zombie, z, "mowered", t)
    BY Constants DEF MowDown
  <2> QED
    BY <1>1, <2>1, <2>2, DieFit, SetFit DEF Phases, Corpse
<1>6. CASE Swallow(z)
  BY <1>6, DieFit DEF Swallow, Becomes
<1>7. CASE \E e \in mZombies : EatZombie(e, z)
  BY <1>2, <1>7 DEF EatZombie, Becomes
<1> QED
  BY <1>3, <1>4, <1>5, <1>6, <1>7

\* Butter and hypnosis change ties and sides; IInv gives the type of what they leave.
LEMMA TurnedFit ==
  ASSUME IInv, IInv', AllFit(zombie), NEW z \in mZombies, Butter(z) \/ EatHypnoshroom(z)
  PROVE  AllFit(zombie')
<1>1. zombie \in [Zombie -> Record] /\ zombie' \in [Zombie -> Record]
  BY DEF IInv, Sound
<1>2. ASSUME NEW y \in Zombie
      PROVE  SameFitness(zombie'[y], zombie[y])
  <2>1. zombie[y] \in Record
    BY <1>1
  <2>2. CASE Butter(z)
    BY <1>1, <2>1, <2>2 DEF Butter, Becomes, ApplyButter, SameFitness, Record
  <2>3. CASE EatHypnoshroom(z)
    <3>1. zombie' = StartMindControlled(zombie, z)
      BY <2>3 DEF EatHypnoshroom, Becomes
    <3> QED
      BY <1>1, <2>1, <3>1 DEF StartMindControlled, SameFitness, Record
  <2> QED
    BY <2>2, <2>3
<1> QED
  BY <1>1, <1>2, SameFit

LEMMA NobodyFit == Nobody \in Fit
BY NobodyTyped DEF Fit, Sendable, Nobody

LEMMA BornFit ==
  ASSUME NEW kind \in Kinds, kind = "bobsled" => "bobsled" \in Sent
  PROVE  Born(kind) \in Fit
<1>1. Born(kind).mBodyHealth = TRUE
  BY DEF Born, Nobody
<1> QED
  BY <1>1, BornFacts DEF Fit, Sendable

LEMMA ComeAndGoFit ==
  ASSUME IInv, IInv', AllFit(zombie),
         \/ BeginFrame \/ (\E kind \in Sent \ {"bobsled", "dropped"} : AddZombie(kind))
         \/ AddBobsled \/ BungeeDropZombie \/ RemoveAllZombies
  PROVE  AllFit(zombie')
<1>1. zombie' \in [Zombie -> Record]
  BY DEF IInv, Sound
<1>2. CASE BeginFrame
  BY <1>2, NobodyFit DEF BeginFrame, AllFit
<1>3. CASE \E kind \in Sent \ {"bobsled", "dropped"} : AddZombie(kind)
  <2>1. PICK kind \in Sent \ {"bobsled", "dropped"} :
          \E z \in Fresh : zombie' = [zombie EXCEPT ![z] = Born(kind)]
    BY <1>3 DEF AddZombie
  <2>2. kind \in Kinds
    BY SquadsAssumption DEF Arrivals, Kinds
  <2>3. PICK z \in Fresh : zombie' = [zombie EXCEPT ![z] = Born(kind)]
    BY <2>1
  <2>4. AllFit([zombie EXCEPT ![z] = Born(kind)])
    BY <2>2, BornFit, ChangeFit
  <2> QED
    BY <2>3, <2>4
<1>4. CASE AddBobsled
  <2>1. PICK l \in Fresh : \E team \in [Followers -> Fresh \ {l}] :
          zombie' =
            [y \in Zombie |->
               IF y = l
               THEN [Born("bobsled") EXCEPT !.mFollowerZombieID =
                       [p \in Places |-> IF p \in Followers THEN team[p] ELSE None]]
               ELSE IF y \in Range(team) THEN [Born("bobsled") EXCEPT !.mRelatedZombieID = l]
               ELSE zombie[y]]
    BY <1>4 DEF AddBobsled
  <2>2. \A y \in Zombie : zombie'[y].mZombieType = "bobsled" \/ zombie'[y] = zombie[y]
    <3>1. Born("bobsled") \in Record /\ Born("bobsled").mZombieType = "bobsled"
      BY BornFacts DEF Kinds
    <3> QED
      BY <2>1, <3>1 DEF Record
  <2> QED
    BY <1>1, <1>4, <2>2 DEF AllFit, Fit, Sendable, AddBobsled
<1>5. CASE BungeeDropZombie
  <2>1. PICK b \in Fresh : \E z \in Fresh \ {b} :
          zombie' = [zombie EXCEPT ![b] = [Born("bungee") EXCEPT !.mRelatedZombieID = z],
                                   ![z] = [Born("normal") EXCEPT !.mHanging = TRUE]]
    BY <1>5 DEF BungeeDropZombie
  <2>2. \A y \in Zombie : \/ zombie'[y].mBodyHealth = TRUE /\ zombie'[y].mZombieType # "bobsled"
                          \/ zombie'[y] = zombie[y]
    <3>1. /\ Born("bungee") \in Record /\ Born("bungee").mBodyHealth = TRUE
          /\ Born("normal") \in Record /\ Born("normal").mBodyHealth = TRUE
          /\ Born("bungee").mZombieType = "bungee" /\ Born("normal").mZombieType = "normal"
      BY BornFacts DEF Kinds, Born, Nobody
    <3> DEFINE carrier(y) == [Born("bungee") EXCEPT !.mRelatedZombieID = y]
               load == [Born("normal") EXCEPT !.mHanging = TRUE]
    <3>2. /\ \A y : carrier(y).mBodyHealth = TRUE /\ carrier(y).mZombieType = "bungee"
          /\ load.mBodyHealth = TRUE /\ load.mZombieType = "normal"
      BY <3>1 DEF Record
    <3>3. PICK z \in Fresh \ {b} : zombie' = [zombie EXCEPT ![b] = carrier(z), ![z] = load]
      BY <2>1
    <3> HIDE DEF carrier, load
    <3>4. \A y \in Zombie : zombie'[y] \in {carrier(z), load, zombie[y]}
      BY <3>3, AllFitTyped
    <3> QED
      BY <3>2, <3>4
  <2> QED
    BY <1>1, <2>2 DEF AllFit, Fit, Sendable
<1>6. CASE RemoveAllZombies
  BY <1>6, AllFitTyped, DeadFit DEF RemoveAllZombies, Becomes, AllFit
<1> QED
  BY <1>2, <1>3, <1>4, <1>5, <1>6

----------------------------------------------------------------------------
(* The updates keep every zombie fit.                                       *)

LEMMA UpdateFallenFit ==
  ASSUME AllFit(zombie), NEW z \in Zombie, UpdateBurnt(z) \/ UpdateDeath(z)
  PROVE  AllFit(zombie')
<1> DEFINE later == CountDown(zombie, z)
           r == later[z]
           fades == [later EXCEPT ![z].mZombieFade = FadeTime]
           new == [r EXCEPT !.mZombieFade = FadeTime]
<1>1. AllFit(later)
  BY CountDownFit
<1>2. \/ Updated(z, later) \/ Updated(z, DieNoLoot(later, z)) \/ Updated(z, fades)
  BY DEF UpdateBurnt, UpdateDeath
<1>3. fades = [later EXCEPT ![z] = new]
  OBVIOUS
<1> HIDE DEF later
<1>4. r \in Fit /\ r \in Record
  BY <1>1 DEF AllFit, Fit, Sendable
<1> HIDE DEF r, fades
<1>5. new \in Fit
  BY <1>4, Constants DEF Fit, Sendable, Record
<1> HIDE DEF new
<1>6. AllFit([later EXCEPT ![z] = new])
  BY <1>1, <1>5, ChangeFit
<1> QED
  BY <1>1, <1>2, <1>3, <1>6, DieFit, UpdatedFit

\* UpdateCrash but for walking: the team that is let go, and the zombies after it.
Alone(up, z) ==
  [y \in Zombie |->
     IF y = z
     THEN [up[y] EXCEPT !.mFollowerZombieID =
             [p \in Places |-> IF p \in Followers THEN None ELSE @[p]]]
     ELSE IF y \in FollowersOf(zombie, z)
     THEN [up[y] EXCEPT !.mRelatedZombieID = None]
     ELSE up[y]]

Crashed(z) ==
  LET later == CountDown(zombie, z)
      up    == Set(later, z, "normal", 0)
  IN  IF later[z].mPhaseCounter > 0 THEN later
      ELSE IF IsLeader(zombie, z) THEN Alone(up, z) ELSE up

LEMMA UpdateCrashActs ==
  ASSUME NEW z, UpdateCrash(z)
  PROVE  \E zs \in Walked(Crashed(z), z) : Updated(z, zs)
BY DEF UpdateCrash, Crashed, Alone

\* When a sled has crashed its members walk, each with the health it has.
LEMMA CrashedFit ==
  ASSUME AllFit(zombie), NEW z \in Zombie, UpdateCrash(z)
  PROVE  AllFit(Crashed(z)) /\ ~HasSled(Crashed(z), z)
<1> DEFINE later == CountDown(zombie, z)
           up    == Set(later, z, "normal", 0)
           alone == Alone(up, z)
<1>1. Crashed(z) = IF later[z].mPhaseCounter > 0 THEN later
                   ELSE IF IsLeader(zombie, z) THEN alone ELSE up
  BY DEF Crashed
<1>2. zombie[z].mZombieType = "bobsled" /\ zombie[z].mZombiePhase = "crashing"
  BY DEF UpdateCrash
<1>3. /\ AllFit(later) /\ later[z].mZombiePhase = "crashing"
      /\ later[z].mZombieType = "bobsled"
  BY <1>2, CountDownFit
<1> HIDE DEF later
<1>4. AllFit(up)
  BY <1>2, <1>3, SetFit, Constants DEF Phases
<1>5. up[z].mZombiePhase = "normal"
  <2> DEFINE r == later[z]
  <2>1. r \in Record /\ later \in [Zombie -> Record]
    BY <1>2, <1>3, AllFitTyped
  <2>2. up[z] = [r EXCEPT !.mZombiePhase = "normal", !.mPhaseCounter = 0]
    BY <1>2, <2>1 DEF Set
  <2> HIDE DEF r, up
  <2> QED
    BY <2>1, <2>2 DEF Record
<1> HIDE DEF up
<1>6. up \in [Zombie -> Record]
  BY <1>4, AllFitTyped
<1>7. alone \in [Zombie -> Record]
  <2>1. ASSUME NEW y \in Zombie
        PROVE  alone[y] \in Record
    <3> DEFINE r == up[y]
               list == [p \in Places |-> IF p \in Followers THEN None ELSE r.mFollowerZombieID[p]]
    <3>1. r \in Record
      BY <1>6
    <3>2. alone[y] \in {r, [r EXCEPT !.mFollowerZombieID = list],
                        [r EXCEPT !.mRelatedZombieID = None]}
      BY DEF Alone
    <3> HIDE DEF r, alone
    <3>3. list \in [Places -> Zombie \union {None}]
      BY <3>1 DEF Record
    <3> HIDE DEF list
    <3> QED
      BY <3>1, <3>2, <3>3 DEF Record
  <2>2. alone = [y \in Zombie |-> alone[y]]
    BY DEF Alone
  <2> HIDE DEF alone
  <2> QED
    BY <2>1, <2>2
<1>8. \A y \in Zombie : SameFitness(alone[y], up[y])
  BY <1>6 DEF SameFitness, Record, Alone
<1>9. alone[z].mZombiePhase = "normal"
  BY <1>5, <1>8 DEF SameFitness
<1> HIDE DEF alone
<1>10. AllFit(alone)
  BY <1>4, <1>7, <1>8, SameFit
<1> QED
  BY <1>1, <1>3, <1>4, <1>5, <1>9, <1>10 DEF HasSled

LEMMA UpdateCrashFit ==
  ASSUME AllFit(zombie), NEW z \in Zombie, UpdateCrash(z)
  PROVE  AllFit(zombie')
<1>1. PICK zs \in Walked(Crashed(z), z) : Updated(z, zs)
  BY UpdateCrashActs
<1>2. AllFit(zs)
  BY <1>1, CrashedFit, WalkedFit
<1> QED
  BY <1>1, <1>2, UpdatedFit

LEMMA UpdateSledFit ==
  ASSUME IInv, AllFit(zombie), NEW z \in mZombies, UpdateSled(z)
  PROVE  AllFit(zombie')
<1>1. z \in Zombie
  BY DEF IInv, Sound
<1>2. \A zs \in TakeDamage(zombie, z, TRUE) : AllFit(zs)
  BY <1>1, TeamRides, TakeDamageFit
<1> QED
  BY <1>1, <1>2, UpdatedFit DEF UpdateSled

LEMMA StepsFit ==
  ASSUME AllFit(zombie), NEW z \in Zombie, zombie[z].mZombiePhase \notin Corpse,
         NEW phase \in Phases
  PROVE  /\ AllFit(Set(zombie, z, phase, 0))
         /\ Set(zombie, z, phase, 0)[z].mZombieType = zombie[z].mZombieType
<1>1. AllFit(Set(zombie, z, phase, 0))
  BY Constants, SetFit
<1>2. Set(zombie, z, phase, 0)[z].mZombieType = zombie[z].mZombieType
  BY AllFitTyped DEF Set, Record
<1> QED
  BY <1>1, <1>2

LEMMA SummonCounterFit ==
  ASSUME NEW zs, AllFit(zs), NEW z \in Zombie, NEW due \in BOOLEAN
  PROVE  /\ AllFit([zs EXCEPT ![z].mSummonCounter = due])
         /\ [zs EXCEPT ![z].mSummonCounter = due][z].mZombieType = zs[z].mZombieType
<1> DEFINE r == zs[z]
           new == [r EXCEPT !.mSummonCounter = due]
<1>1. r \in Fit /\ r \in Record /\ zs \in [Zombie -> Record]
  BY AllFitTyped DEF AllFit
<1>2. [zs EXCEPT ![z].mSummonCounter = due] = [zs EXCEPT ![z] = new]
  OBVIOUS
<1> HIDE DEF r
<1>3. new \in Fit /\ new.mZombieType = r.mZombieType
  BY <1>1 DEF Fit, Sendable, Record
<1> HIDE DEF new
<1>4. AllFit([zs EXCEPT ![z] = new])
  BY <1>3, ChangeFit
<1>5. [zs EXCEPT ![z] = new][z] = new
  BY <1>1
<1> QED
  BY <1>2, <1>3, <1>4, <1>5 DEF r

\* z acts and walks; nobody else is concerned.
ActsAlone(z, acted) ==
  /\ AllFit(acted) /\ acted[z].mZombieType = zombie[z].mZombieType
  /\ \A y \in Zombie : y # z => acted[y] = zombie[y]
  /\ \E zs \in Walked(acted, z) : Updated(z, zs)

LEMMA UpdateDancerActs ==
  ASSUME AllFit(zombie), NEW z \in Zombie, UpdateDancer(z)
  PROVE  \E acted : ActsAlone(z, acted)
<1> DEFINE snap == Set(zombie, z, "snapping", 0)
           snapping == [snap EXCEPT ![z].mSummonCounter = FALSE]
           dancing  == Set(zombie, z, "normal", 0)
           needing  == [dancing EXCEPT ![z].mSummonCounter = TRUE]
           any      == {zombie, snapping, dancing, needing}
<1>1. PICK acted \in any : \E zs \in Walked(acted, z) : Updated(z, zs)
  BY DEF UpdateDancer
<1>2. zombie[z].mZombieType = "dancer" /\ zombie[z].mZombiePhase \notin Corpse
  BY DEF UpdateDancer
<1>3. \A y \in Zombie : y # z => snap[y] = zombie[y] /\ dancing[y] = zombie[y]
  BY AllFitTyped DEF Set
<1>4. /\ AllFit(snap) /\ snap[z].mZombieType = "dancer"
      /\ AllFit(dancing) /\ dancing[z].mZombieType = "dancer"
  BY <1>2, StepsFit DEF Phases
<1> HIDE DEF snap, dancing
<1>5. \A y \in Zombie : y # z => snapping[y] = zombie[y] /\ needing[y] = zombie[y]
  BY <1>3, <1>4, AllFitTyped
<1>6. /\ AllFit(snapping) /\ snapping[z].mZombieType = "dancer"
      /\ AllFit(needing) /\ needing[z].mZombieType = "dancer"
  BY <1>4, SummonCounterFit
<1> HIDE DEF snapping, needing
<1>7. ActsAlone(z, acted)
  BY <1>1, <1>2, <1>3, <1>4, <1>5, <1>6 DEF ActsAlone
<1> QED
  BY <1>7

LEMMA UpdateBackupActs ==
  ASSUME AllFit(zombie), NEW z \in Zombie, UpdateBackupDancer(z)
  PROVE  \E acted : ActsAlone(z, acted)
<1>1. PICK acted \in {zombie, Set(zombie, z, "normal", 0)} :
        \E zs \in Walked(acted, z) : Updated(z, zs)
  BY DEF UpdateBackupDancer
<1>2. zombie[z].mZombieType = "backup" /\ zombie[z].mZombiePhase \notin Corpse
  BY DEF UpdateBackupDancer, Corpse
<1>3. AllFit(acted) /\ acted[z].mZombieType = "backup"
  BY <1>1, <1>2, StepsFit DEF Phases
<1>4. \A y \in Zombie : y # z => acted[y] = zombie[y]
  BY <1>1, AllFitTyped DEF Set
<1> QED
  BY <1>1, <1>2, <1>3, <1>4 DEF ActsAlone

LEMMA UpdateWalkActs ==
  ASSUME AllFit(zombie), NEW z \in Zombie, UpdateWalk(z)
  PROVE  ActsAlone(z, zombie)
BY DEF UpdateWalk, ActsAlone

LEMMA ActsAloneFit ==
  ASSUME NEW z \in Zombie, NEW acted, ActsAlone(z, acted), ~HasSled(acted, z)
  PROVE  AllFit(zombie')
<1>1. PICK zs \in Walked(acted, z) : Updated(z, zs)
  BY DEF ActsAlone
<1>2. AllFit(zs)
  BY <1>1, WalkedFit DEF ActsAlone
<1> QED
  BY <1>1, <1>2, UpdatedFit

LEMMA UpdateAloneFit ==
  ASSUME AllFit(zombie), NEW z \in Zombie,
         UpdateDancer(z) \/ UpdateBackupDancer(z) \/ UpdateWalk(z)
  PROVE  AllFit(zombie')
<1>1. CASE UpdateDancer(z) \/ UpdateBackupDancer(z)
  <2>1. PICK acted : ActsAlone(z, acted)
    BY <1>1, UpdateDancerActs, UpdateBackupActs
  <2>2. ~HasSled(acted, z)
    BY <1>1, <2>1 DEF ActsAlone, UpdateDancer, UpdateBackupDancer, HasSled, IsLeader
  <2> QED
    BY <2>1, <2>2, ActsAloneFit
<1>2. CASE UpdateWalk(z)
  BY <1>2, UpdateWalkActs, ActsAloneFit DEF UpdateWalk, HasSled
<1> QED
  BY <1>1, <1>2

\* A bungee dies, or only its load may notice what it does.
LEMMA UpdateBungeeActs ==
  ASSUME AllFit(zombie), NEW z \in Zombie, UpdateZombieBungee(z)
  PROVE  \E zs : /\ Updated(z, zs) /\ AllFit(zs)
                 /\ \/ zs = DieNoLoot(zombie, z)
                    \/ /\ zs[z].mZombieType = "bungee"
                       /\ \A y \in Zombie \ {z} :
                            zs[y] \in {zombie[y], [zombie[y] EXCEPT !.mHanging = FALSE]}
<1> DEFINE load == zombie[z].mRelatedZombieID
           up   == Set(zombie, z, "climbing", 0)
           down == [up EXCEPT ![load].mHanging = FALSE, ![z].mRelatedZombieID = None]
           onto == Set(zombie, z, "bottom", 0)
<1>1. PICK zs : Updated(z, zs) /\ zs \in {up, zombie, DieNoLoot(zombie, z), down, onto}
  BY DEF UpdateZombieBungee, BungeeLanding
<1>2. zombie[z].mZombieType = "bungee" /\ zombie[z].mZombiePhase \notin Corpse
  BY DEF UpdateZombieBungee, BungeeLanding, Corpse
<1>3. /\ AllFit(up) /\ up[z].mZombieType = "bungee"
      /\ AllFit(onto) /\ onto[z].mZombieType = "bungee"
      /\ \A y \in Zombie \ {z} : up[y] = zombie[y] /\ onto[y] = zombie[y]
  <2>1. \A y \in Zombie \ {z} : up[y] = zombie[y] /\ onto[y] = zombie[y]
    BY AllFitTyped DEF Set
  <2> QED
    BY <1>2, <2>1, StepsFit DEF Phases
<1> HIDE DEF up, onto
<1>4. up \in [Zombie -> Record]
  BY <1>3, AllFitTyped
<1> DEFINE set == [up EXCEPT ![load].mHanging = FALSE]
<1>5. \A y \in Zombie : set[y] = IF y = load THEN [up[y] EXCEPT !.mHanging = FALSE] ELSE up[y]
  BY <1>4
<1>6. set \in [Zombie -> Record] /\ \A y \in Zombie : SameFitness(set[y], up[y])
  <2>1. ASSUME NEW r \in Record
        PROVE  /\ [r EXCEPT !.mHanging = FALSE] \in Record
               /\ SameFitness([r EXCEPT !.mHanging = FALSE], r)
    BY DEF SameFitness, Record
  <2>2. \A y \in Zombie : set[y] \in Record /\ SameFitness(set[y], up[y])
    BY <1>4, <1>5, <2>1 DEF SameFitness
  <2>3. set = [y \in Zombie |-> set[y]]
    BY <1>4
  <2> HIDE DEF set
  <2> QED
    BY <2>2, <2>3
<1>7. down = [set EXCEPT ![z].mRelatedZombieID = None]
  OBVIOUS
<1> HIDE DEF set, down
<1>8. /\ down \in [Zombie -> Record] /\ \A y \in Zombie : SameFitness(down[y], up[y])
      /\ \A y \in Zombie \ {z} : down[y] = set[y]
  BY <1>6, <1>7 DEF SameFitness, Record
<1>9. AllFit(down) /\ down[z].mZombieType = "bungee"
  <2>1. AllFit(down)
    BY <1>3, <1>8, SameFit
  <2> QED
    BY <1>3, <1>8, <2>1 DEF SameFitness
<1>10. \A y \in Zombie \ {z} : down[y] \in {zombie[y], [zombie[y] EXCEPT !.mHanging = FALSE]}
  BY <1>3, <1>5, <1>8
<1> QED
  BY <1>1, <1>2, <1>3, <1>9, <1>10, DieFit

LEMMA UpdateBungeeFit ==
  ASSUME AllFit(zombie), NEW z \in Zombie, UpdateZombieBungee(z)
  PROVE  AllFit(zombie')
BY UpdateBungeeActs, UpdatedFit

\* Those summoned are born fit, and the dancer is no corpse.
LEMMA SummonActs ==
  ASSUME IInv, AllFit(zombie), NEW z \in mZombies, SummonBackupDancers(z)
  PROVE  \E ws : /\ AllFit(ws) /\ ws[z].mZombieType = "dancer" /\ zombie' \in Walked(ws, z)
                 /\ \A y \in mZombies : y # z => ws[y] = zombie[y]
                 /\ z \notin toUpdate' /\ \A y \in toUpdate' : y \in toUpdate \/ ~ws[y].mDead
<1> DEFINE List(y, places, troupe) ==
             [p \in Places |-> IF p \in places THEN troupe[p]
                               ELSE IF p \in Missing(z) /\ zombie[z].mHasHead
                               THEN None ELSE zombie[y].mFollowerZombieID[p]]
           Troupe(places, troupe) ==
             [y \in Zombie |->
               IF y = z
               THEN [zombie[y] EXCEPT !.mZombiePhase = "hold", !.mPhaseCounter = 0,
                                      !.mFollowerZombieID = List(y, places, troupe)]
               ELSE IF y \in Range(troupe)
               THEN [Born("backup") EXCEPT
                       !.mZombiePhase = "rising", !.mRelatedZombieID = z,
                       !.mMindControlled = zombie[z].mMindControlled]
               ELSE zombie[y]]
<1>1. PICK places \in SUBSET Missing(z) : \E troupe \in [places -> Fresh] :
        /\ zombie' \in Walked(Troupe(places, troupe), z)
        /\ \E reached \in SUBSET Range(troupe) : toUpdate' = (toUpdate \ {z}) \union reached
  BY DEF SummonBackupDancers
<1>2. PICK troupe \in [places -> Fresh] :
        /\ zombie' \in Walked(Troupe(places, troupe), z)
        /\ \E reached \in SUBSET Range(troupe) : toUpdate' = (toUpdate \ {z}) \union reached
  BY <1>1
<1> DEFINE list == List(z, places, troupe)
           N == Range(troupe)
           ws == Troupe(places, troupe)
           r == zombie[z]
           holds == [r EXCEPT !.mZombiePhase = "hold", !.mPhaseCounter = 0,
                              !.mFollowerZombieID = list]
           new == [Born("backup") EXCEPT !.mZombiePhase = "rising", !.mRelatedZombieID = z,
                                         !.mMindControlled = r.mMindControlled]
<1>3. /\ z \in Zombie /\ r \in Fit /\ r \in Record
      /\ r.mZombieType = "dancer" /\ r.mZombiePhase = "snapping"
  BY AllFitTyped DEF SummonBackupDancers, IInv, Sound, AllFit
<1>4. list \in [Places -> Zombie \union {None}]
  BY <1>3 DEF Fresh, Record
<1>5. ws = [y \in Zombie |-> IF y = z THEN holds ELSE IF y \in N THEN new ELSE zombie[y]]
  OBVIOUS
<1>6. /\ zombie' \in Walked(ws, z)
      /\ \E reached \in SUBSET N : toUpdate' = (toUpdate \ {z}) \union reached
  BY <1>2
<1> HIDE DEF list, N, ws, r
<1>7. holds \in Fit /\ holds.mZombieType = "dancer"
  BY <1>3, <1>4, Constants DEF Fit, Sendable, Record, Phases, Corpse, Times
<1>8. new \in Fit /\ new.mDead = FALSE
  <2>1. /\ Born("backup") \in Record /\ Born("backup").mBodyHealth = TRUE
        /\ Born("backup").mZombieType = "backup" /\ Born("backup").mDead = FALSE
    BY BornFacts DEF Kinds, Born, Nobody
  <2> QED
    BY <1>3, <2>1 DEF Fit, Sendable, Record, Phases
<1> HIDE DEF holds, new
<1>9. AllFit(ws) /\ ws[z].mZombieType = "dancer"
  BY <1>3, <1>5, <1>7, <1>8 DEF AllFit
<1>10. mZombies \subseteq Zombie /\ N \subseteq Zombie /\ N \intersect mZombies = {}
  BY DEF IInv, Sound, N, Range, Fresh
<1>11. \A y \in mZombies : y # z => ws[y] = zombie[y]
  BY <1>5, <1>10
<1>12. z \notin toUpdate' /\ \A y \in toUpdate' : y \in toUpdate \/ ~ws[y].mDead
  BY <1>5, <1>6, <1>8, <1>10
<1> QED
  BY <1>6, <1>9, <1>11, <1>12

LEMMA SummonFit ==
  ASSUME IInv, AllFit(zombie), NEW z \in mZombies, SummonBackupDancers(z)
  PROVE  AllFit(zombie')
<1>1. z \in Zombie
  BY DEF IInv, Sound
<1>2. PICK ws : AllFit(ws) /\ ws[z].mZombieType = "dancer" /\ zombie' \in Walked(ws, z)
  BY SummonActs
<1> QED
  BY <1>1, <1>2, WalkedFit DEF HasSled, IsLeader

----------------------------------------------------------------------------
(* The theorems on health.                                                  *)

LEMMA UpdateFit ==
  ASSUME IInv, AllFit(zombie), NEW z \in mZombies, Update(z)
  PROVE  AllFit(zombie')
<1>1. z \in Zombie
  BY DEF IInv, Sound
<1> QED
  BY <1>1, UpdateFallenFit, UpdateCrashFit, UpdateSledFit, UpdateAloneFit, SummonFit,
     UpdateBungeeFit DEF Update

LEMMA FitInit == Init => AllFit(zombie)
BY NobodyFit DEF Init, AllFit

LEMMA FitNext == IInv /\ AllFit(zombie) /\ [Next]_vars => AllFit(zombie)'
<1> SUFFICES ASSUME IInv, AllFit(zombie), [Next]_vars PROVE AllFit(zombie')
  BY DEF AllFit
<1>1. IInv'
  BY NextInv
<1>2. CASE Next
  BY <1>1, <1>2, ComeAndGoFit, UpdateFit, HarmFit, TurnedFit DEF Next
<1>3. CASE UNCHANGED vars
  BY <1>3 DEF vars
<1> QED
  BY <1>2, <1>3

LEMMA FitInvariance == Spec => [](IInv /\ AllFit(zombie))
<1>1. Spec => []AllFit(zombie)
  BY Invariance, FitInit, FitNext, PTL DEF Spec
<1> QED
  BY <1>1, Invariance, PTL

\* What UpdatePlaying asserts of a zombie it is about to move, of every zombie that
\* did not come on a sled, whatever else is on the lawn.
OnlySledsUnhealthy ==
  \A z \in toUpdate :
    ~IsDeadOrDying(zombie, z) => zombie[z].mBodyHealth \/ zombie[z].mZombieType = "bobsled"

LEMMA FitPromises ==
  ASSUME IInv, AllFit(zombie)
  PROVE  OnlySledsUnhealthy /\ ("bobsled" \notin Sent => HealthyUnlessCrashing)
<1>1. toUpdate \subseteq Zombie
  BY DEF IInv, Sound
<1> QED
  BY <1>1 DEF AllFit, Fit, Sendable, OnlySledsUnhealthy, HealthyUnlessCrashing, IsDeadOrDying

\* Only a zombie of a bobsled, eaten while it rides, is moved without health.
THEOREM UnhealthyCameOnSleds == Spec => []OnlySledsUnhealthy
BY FitInvariance, FitPromises, PTL

\* On a lawn that no bobsled is sent to the assertion in UpdatePlaying holds.
THEOREM HealthyWithoutSleds ==
  ASSUME "bobsled" \notin Sent
  PROVE  Spec => []HealthyUnlessCrashing
<1>1. IInv /\ AllFit(zombie) => HealthyUnlessCrashing
  BY FitPromises
<1> QED
  BY <1>1, FitInvariance, PTL

----------------------------------------------------------------------------
(* The crash of a sled comes to an end.                                     *)

Leads(r) ==
  r.mZombieType = "bobsled" /\ r.mRelatedZombieID = None /\ r.mFollowerZombieID[1] # None

\* A leader whose sled has crashed lets go of its followers, or falls and dies first.
Ending == {"crashing", "dying"}

\* The frames until then, if nothing else happens to it, and some.
FramesLeft(r) ==
  IF r.mDead THEN 0
  ELSE IF r.mZombiePhase = "crashing" THEN r.mPhaseCounter + DeathTime + FadeTime + 2
  ELSE IF r.mZombieFade = 0 THEN r.mPhaseCounter + FadeTime + 1
  ELSE r.mZombieFade

\* A change after which a zombie leads only if it led, and has no more frames left.
Settles(r, old) ==
  Leads(r) => /\ Leads(old)
              /\ old.mZombiePhase \in Ending =>
                   r.mZombiePhase \in Ending /\ FramesLeft(r) <= FramesLeft(old)

AllSettle(ws, zs) == \A y \in Zombie : Settles(ws[y], zs[y])

LEMMA FramesLeftType ==
  ASSUME NEW r \in Record
  PROVE  /\ FramesLeft(r) \in Nat
         /\ ~r.mDead => FramesLeft(r) > 0
BY SquadsAssumption DEF FramesLeft, Record

LEMMA SettleAgain ==
  ASSUME NEW zs, AllFit(zs), NEW ws, AllFit(ws), NEW xs, AllFit(xs),
         AllSettle(ws, zs), AllSettle(xs, ws)
  PROVE  AllSettle(xs, zs)
<1> SUFFICES ASSUME NEW y \in Zombie PROVE Settles(xs[y], zs[y])
  BY DEF AllSettle
<1>1. zs[y] \in Record /\ ws[y] \in Record /\ xs[y] \in Record
  BY AllFitTyped
<1>2. FramesLeft(zs[y]) \in Nat /\ FramesLeft(ws[y]) \in Nat /\ FramesLeft(xs[y]) \in Nat
  BY <1>1, FramesLeftType
<1>3. Settles(ws[y], zs[y]) /\ Settles(xs[y], ws[y])
  BY DEF AllSettle
<1> QED
  BY <1>2, <1>3 DEF Settles

LEMMA SettleSelf ==
  ASSUME NEW zs, AllFit(zs)
  PROVE  AllSettle(zs, zs)
<1>1. \A y \in Zombie : FramesLeft(zs[y]) \in Nat
  BY AllFitTyped, FramesLeftType
<1> QED
  BY <1>1 DEF AllSettle, Settles

\* What is not a matter of time: only who leads may change.
SameTime(r, old) ==
  /\ r.mDead = old.mDead /\ r.mZombiePhase = old.mZombiePhase
  /\ r.mPhaseCounter = old.mPhaseCounter /\ r.mZombieFade = old.mZombieFade

LEMMA SameTimeSettles ==
  ASSUME NEW old \in Record, NEW r, SameTime(r, old), Leads(r) => Leads(old)
  PROVE  Settles(r, old)
<1>1. FramesLeft(r) = FramesLeft(old) /\ FramesLeft(old) \in Nat
  BY FramesLeftType DEF SameTime, FramesLeft
<1> QED
  BY <1>1 DEF SameTime, Settles

LEMMA ChangeSettles ==
  ASSUME NEW zs, AllFit(zs), NEW z \in Zombie, NEW r, Settles(r, zs[z])
  PROVE  AllSettle([zs EXCEPT ![z] = r], zs)
<1>1. AllSettle(zs, zs)
  BY SettleSelf
<1>2. \A y \in Zombie : [zs EXCEPT ![z] = r][y] = IF y = z THEN r ELSE zs[y]
  BY DEF AllFit
<1> QED
  BY <1>1, <1>2 DEF AllSettle

\* Who is not killed is as fit and as settled as before.
LEMMA DeadSettles ==
  ASSUME NEW zs \in [Zombie -> Record], NEW D, NEW old \in [Zombie -> Record],
         \A y \in Zombie : (Leads(zs[y]) => Leads(old[y])) /\ (y \in D \/ Settles(zs[y], old[y]))
  PROVE  AllSettle(Dead(zs, D), old)
<1> SUFFICES ASSUME NEW y \in Zombie PROVE Settles(Dead(zs, D)[y], old[y])
  BY DEF AllSettle
<1> DEFINE r == zs[y]
           dead == [r EXCEPT !.mDead = TRUE, !.mZombiePhase = "dying", !.mPhaseCounter = 0,
                             !.mHasHead = FALSE, !.mBodyHealth = FALSE, !.mHanging = FALSE,
                             !.mSummonCounter = FALSE, !.mZombieFade = 0]
<1>1. r \in Record
  OBVIOUS
<1>2. Dead(zs, D)[y] = IF y \in D THEN dead ELSE r
  BY DEF Dead
<1>3. /\ Leads(r) => Leads(old[y])
      /\ y \in D \/ Settles(r, old[y])
  OBVIOUS
<1> HIDE DEF r
<1>4. /\ dead.mZombiePhase = "dying" /\ dead.mDead = TRUE
      /\ dead.mZombieType = r.mZombieType /\ dead.mRelatedZombieID = r.mRelatedZombieID
      /\ dead.mFollowerZombieID = r.mFollowerZombieID
  BY <1>1 DEF Record
<1>5. CASE y \in D
  <2> HIDE DEF dead
  <2>1. (Leads(dead) => Leads(r)) /\ FramesLeft(dead) = 0 /\ FramesLeft(old[y]) \in Nat
    BY <1>4, FramesLeftType DEF Leads, FramesLeft
  <2> QED
    BY <1>2, <1>3, <1>4, <1>5, <2>1 DEF Settles, Ending
<1>6. CASE y \notin D
  BY <1>2, <1>3, <1>6
<1> QED
  BY <1>5, <1>6

LEMMA DieSettles ==
  ASSUME NEW zs, AllFit(zs), NEW z
  PROVE  AllSettle(DieNoLoot(zs, z), zs)
<1>1. zs \in [Zombie -> Record] /\ AllSettle(zs, zs)
  BY AllFitTyped, SettleSelf
<1> QED
  BY <1>1, DeadSettles DEF AllSettle, DieNoLoot

LEMMA BeheadedSettles ==
  ASSUME NEW zs, AllFit(zs), NEW z \in Zombie
  PROVE  /\ AllSettle(Beheaded(zs, z), zs)
         /\ Beheaded(zs, z)[z].mZombiePhase = zs[z].mZombiePhase
<1> DEFINE r == zs[z]
           new == [r EXCEPT !.mHasHead = FALSE]
<1>1. r \in Record /\ zs \in [Zombie -> Record]
  BY AllFitTyped
<1>2. Beheaded(zs, z) = zs \/ Beheaded(zs, z) = [zs EXCEPT ![z] = new]
  BY DEF Beheaded
<1> HIDE DEF r
<1>3. new.mZombiePhase = r.mZombiePhase /\ SameTime(new, r) /\ (Leads(new) => Leads(r))
  BY <1>1 DEF Record, SameTime, Leads
<1> HIDE DEF new
<1>4. Settles(new, r)
  BY <1>1, <1>3, SameTimeSettles
<1>5. AllSettle([zs EXCEPT ![z] = new], zs) /\ AllSettle(zs, zs)
  BY <1>4, ChangeSettles, SettleSelf DEF r
<1>6. [zs EXCEPT ![z] = new][z] = new
  BY <1>1
<1>7. CASE Beheaded(zs, z) = zs
  BY <1>5, <1>7
<1>8. CASE Beheaded(zs, z) = [zs EXCEPT ![z] = new]
  BY <1>3, <1>5, <1>6, <1>8 DEF r
<1> QED
  BY <1>2, <1>7, <1>8

\* A fall takes no longer than what a crash had left.
LEMMA PlayDeathAnimSettles ==
  ASSUME NEW zs, AllFit(zs), NEW z \in Zombie, zs[z].mZombiePhase # "dying", NEW leaves,
         NEW ws \in PlayDeathAnim(zs, z, leaves)
  PROVE  AllSettle(ws, zs)
<1> DEFINE r == zs[z]
           hurt == [r EXCEPT !.mBodyHealth = FALSE]
           killed == [zs EXCEPT ![z].mBodyHealth = FALSE]
           fallen(t) == [hurt EXCEPT !.mZombiePhase = "dying", !.mPhaseCounter = t]
<1>1. r \in Record /\ zs \in [Zombie -> Record] /\ r.mZombiePhase # "dying" /\ AllSettle(zs, zs)
  BY AllFitTyped, SettleSelf
<1>2. killed = [zs EXCEPT ![z] = hurt]
  OBVIOUS
<1> HIDE DEF r
<1>3. hurt \in Record /\ SameTime(hurt, r) /\ (Leads(hurt) => Leads(r))
  BY <1>1 DEF Record, SameTime, Leads
<1> HIDE DEF hurt
<1>4. /\ killed \in [Zombie -> Record] /\ killed[z] = hurt
      /\ \A y \in Zombie : y # z => killed[y] = zs[y]
  BY <1>1, <1>2, <1>3
<1>5. ASSUME NEW t \in 1..DeathTime
      PROVE  Set(killed, z, "dying", t) = [zs EXCEPT ![z] = fallen(t)]
  BY <1>1, <1>2, <1>4 DEF Set
<1>6. ASSUME NEW t \in 1..DeathTime
      PROVE  Settles(fallen(t), r)
  <2>1. /\ fallen(t).mZombiePhase = "dying" /\ fallen(t).mPhaseCounter = t
        /\ fallen(t).mDead = r.mDead /\ fallen(t).mZombieFade = r.mZombieFade
        /\ Leads(fallen(t)) => Leads(r)
    BY <1>3 DEF Record, SameTime, Leads
  <2> HIDE DEF fallen
  <2>2. r.mPhaseCounter \in Nat /\ r.mZombieFade \in 0..FadeTime
    BY <1>1, SquadsAssumption DEF Record
  <2>3. r.mZombiePhase = "crashing" => FramesLeft(fallen(t)) <= FramesLeft(r)
    BY <2>1, <2>2, SquadsAssumption DEF FramesLeft
  <2> QED
    BY <1>1, <2>1, <2>3 DEF Settles, Ending
<1> HIDE DEF killed
<1>7. AllSettle(DieNoLoot(killed, z), zs)
  <2>1. \A y \in Zombie : /\ Leads(killed[y]) => Leads(zs[y])
                          /\ y = z \/ Settles(killed[y], zs[y])
    BY <1>1, <1>3, <1>4 DEF AllSettle, r
  <2> QED
    BY <1>1, <1>4, <2>1, DeadSettles DEF DieNoLoot
<1>8. ws = DieNoLoot(killed, z) \/ \E t \in 1..DeathTime : ws = Set(killed, z, "dying", t)
  BY DEF PlayDeathAnim, killed
<1> HIDE DEF fallen
<1>9. \A t \in 1..DeathTime : AllSettle([zs EXCEPT ![z] = fallen(t)], zs)
  BY <1>6, ChangeSettles DEF r
<1> QED
  BY <1>5, <1>7, <1>8, <1>9

\* A sled that slides is not crashing yet, and only its leader leads.
LEMMA CrashSettles ==
  ASSUME NEW zs, AllFit(zs), NEW z \in Zombie, HasSled(zs, z),
         \A y \in FollowersOf(zs, z) : ~Leads(zs[y])
  PROVE  /\ AllSettle(BobsledCrash(zs, z), zs)
         /\ BobsledCrash(zs, z)[z].mZombiePhase = "crashing"
<1> DEFINE new(r) == [r EXCEPT !.mZombiePhase = "crashing", !.mPhaseCounter = CrashTime]
<1>1. \A y \in Zombie : BobsledCrash(zs, z)[y] = IF y \in {z} \union FollowersOf(zs, z)
                                                 THEN new(zs[y]) ELSE zs[y]
  BY DEF BobsledCrash
<1>2. ASSUME NEW r \in Record
      PROVE  new(r).mZombiePhase = "crashing" /\ (Leads(new(r)) => Leads(r))
  BY <1>2 DEF Record, Leads
<1> HIDE DEF new
<1>3. zs \in [Zombie -> Record] /\ AllSettle(zs, zs) /\ zs[z].mZombiePhase = "sliding"
  BY AllFitTyped, SettleSelf DEF HasSled
<1>4. ASSUME NEW y \in Zombie
      PROVE  Settles(BobsledCrash(zs, z)[y], zs[y])
  <2>1. CASE y = z
    BY <1>1, <1>2, <1>3, <2>1 DEF Settles, Ending
  <2>2. CASE y # z /\ y \in FollowersOf(zs, z)
    BY <1>1, <1>2, <1>3, <2>2 DEF Settles
  <2>3. CASE y # z /\ y \notin FollowersOf(zs, z)
    BY <1>1, <1>3, <2>3 DEF AllSettle
  <2> QED
    BY <2>1, <2>2, <2>3
<1> QED
  BY <1>1, <1>2, <1>3, <1>4 DEF AllSettle

LEMMA TakeDamageSettles ==
  ASSUME NEW zs, AllFit(zs), NEW z \in Zombie, zs[z].mZombiePhase # "dying", NEW leaves,
         HasSled(zs, z) => \A y \in Team(zs, z) : zs[y].mZombieType = "bobsled",
         HasSled(zs, z) => \A y \in FollowersOf(zs, z) : ~Leads(zs[y]),
         NEW ws \in TakeDamage(zs, z, leaves)
  PROVE  AllSettle(ws, zs)
<1> DEFINE hit == IF HasSled(zs, z) /\ leaves THEN BobsledCrash(zs, z) ELSE zs
           hurt == Beheaded(hit, z)
<1>1. hit \in TakeDamage(zs, z, leaves) /\ hurt \in TakeDamage(zs, z, leaves)
  BY DEF TakeDamage
<1>2. AllFit(hit) /\ AllFit(hurt) /\ AllFit(ws)
  BY <1>1, TakeDamageFit
<1>3. AllSettle(hit, zs) /\ hit[z].mZombiePhase # "dying"
  BY CrashSettles, SettleSelf
<1>4. ws \in {hit, hurt} \union PlayDeathAnim(hurt, z, leaves)
  BY DEF TakeDamage
<1> HIDE DEF hit
<1>5. AllSettle(hurt, hit) /\ hurt[z].mZombiePhase # "dying"
  BY <1>2, <1>3, BeheadedSettles
<1> HIDE DEF hurt
<1>6. AllSettle(hurt, zs)
  BY <1>2, <1>3, <1>5, SettleAgain
<1>7. ws \in PlayDeathAnim(hurt, z, leaves) => AllSettle(ws, hurt)
  BY <1>2, <1>5, PlayDeathAnimSettles
<1>8. ws \in PlayDeathAnim(hurt, z, leaves) => AllSettle(ws, zs)
  BY <1>2, <1>6, <1>7, SettleAgain
<1> QED
  BY <1>3, <1>4, <1>6, <1>8

LEMMA WalkedSettles ==
  ASSUME NEW zs, AllFit(zs), NEW z \in Zombie, ~HasSled(zs, z), NEW ws \in Walked(zs, z)
  PROVE  AllSettle(ws, zs)
<1>1. \/ ws = zs \/ ws = DieNoLoot(zs, z)
      \/ ws \in TakeDamage(zs, z, TRUE) /\ ~IsDeadOrDying(zs, z)
  BY DEF Walked
<1>2. ~IsDeadOrDying(zs, z) => zs[z].mZombiePhase # "dying"
  BY DEF IsDeadOrDying, Corpse
<1> QED
  BY <1>1, <1>2, SettleSelf, DieSettles, TakeDamageSettles

\* Fading is the last of the frames left.
LEMMA FadedSettles ==
  ASSUME NEW zs, AllFit(zs), NEW z \in Zombie
  PROVE  /\ AllSettle(Faded(zs, z), zs)
         /\ zs[z].mZombiePhase = "dying" /\ zs[z].mZombieFade > 0 /\ ~zs[z].mDead
              => FramesLeft(Faded(zs, z)[z]) < FramesLeft(zs[z])
<1> DEFINE fade == zs[z].mZombieFade
           less == IF fade > 0 THEN fade - 1 ELSE 0
           r == zs[z]
           new == [r EXCEPT !.mZombieFade = less]
           older == [zs EXCEPT ![z].mZombieFade = less]
<1>1. r \in Record /\ zs \in [Zombie -> Record] /\ fade = r.mZombieFade /\ AllSettle(zs, zs)
  BY AllFitTyped, SettleSelf
<1>2. older = [zs EXCEPT ![z] = new]
  OBVIOUS
<1>3. Faded(zs, z) = IF fade = 1 /\ ~r.mDead THEN DieNoLoot(older, z) ELSE older
  BY DEF Faded
<1> HIDE DEF r, fade, older
<1>4. fade \in 0..FadeTime /\ less \in 0..FadeTime
  BY <1>1, SquadsAssumption DEF Record
<1>5. /\ new \in Record
      /\ new.mDead = r.mDead /\ new.mZombiePhase = r.mZombiePhase
      /\ new.mPhaseCounter = r.mPhaseCounter /\ new.mZombieFade = less
      /\ Leads(new) => Leads(r)
  <2> HIDE DEF less
  <2> QED
    BY <1>1, <1>4 DEF Record, Leads
<1> HIDE DEF new
<1>6. /\ older \in [Zombie -> Record] /\ older[z] = new
      /\ \A y \in Zombie : y # z => older[y] = zs[y]
  BY <1>1, <1>2, <1>5
<1>7. CASE fade = 1 /\ ~r.mDead
  <2>1. Faded(zs, z) = DieNoLoot(older, z)
    BY <1>3, <1>7
  <2>2. \A y \in Zombie : /\ Leads(older[y]) => Leads(zs[y])
                          /\ y = z \/ Settles(older[y], zs[y])
    BY <1>1, <1>5, <1>6 DEF AllSettle, r
  <2>3. AllSettle(DieNoLoot(older, z), zs)
    BY <1>1, <1>6, <2>2, DeadSettles DEF DieNoLoot
  <2>4. DieNoLoot(older, z)[z].mDead = TRUE
    BY <1>6, DeadFacts DEF DieNoLoot
  <2>5. FramesLeft(DieNoLoot(older, z)[z]) = 0 /\ FramesLeft(r) > 0
    BY <1>1, <1>7, <2>4, FramesLeftType DEF FramesLeft
  <2> QED
    BY <2>1, <2>3, <2>5 DEF r
<1>8. CASE ~(fade = 1 /\ ~r.mDead)
  <2>1. Faded(zs, z) = older
    BY <1>3, <1>8
  <2>2. r.mPhaseCounter \in Nat
    BY <1>1 DEF Record
  <2>3. /\ FramesLeft(new) <= FramesLeft(r)
        /\ r.mZombiePhase = "dying" /\ fade > 0 /\ ~r.mDead => FramesLeft(new) < FramesLeft(r)
    BY <1>1, <1>4, <1>5, <1>8, <2>2, SquadsAssumption DEF FramesLeft
  <2>4. Settles(new, r)
    BY <1>5, <2>3 DEF Settles
  <2>5. AllSettle(older, zs)
    BY <1>2, <2>4, ChangeSettles DEF r
  <2> QED
    BY <1>1, <1>6, <2>1, <2>3, <2>5 DEF r
<1> QED
  BY <1>7, <1>8

----------------------------------------------------------------------------
(* The steps keep to what is left of a crash.                               *)

\* The loop has only the living before it: whoever dies leaves it.
LoopLive == \A z \in toUpdate : ~zombie[z].mDead

\* What a step may do to a zombie; if the frame's loop is done with it, it has
\* fewer frames left.
CrashStep ==
  \A l \in mZombies \intersect mZombies' :
    /\ Settles(zombie'[l], zombie[l])
    /\ l \in toUpdate /\ l \notin toUpdate' /\ Leads(zombie'[l])
         /\ zombie[l].mZombiePhase \in Ending
         => FramesLeft(zombie'[l]) < FramesLeft(zombie[l])

LEMMA BecomesSettles ==
  ASSUME IInv, AllFit(zombie), LoopLive, NEW zs, AllSettle(zs, zombie), Becomes(zs)
  PROVE  CrashStep /\ LoopLive'
<1>1. mZombies \subseteq Zombie /\ zombie' = zs /\ toUpdate' = {y \in toUpdate : ~zs[y].mDead}
  BY DEF IInv, Sound, Becomes
<1>2. \A y \in mZombies : Settles(zs[y], zombie[y])
  BY <1>1 DEF AllSettle
<1>3. ASSUME NEW y \in mZombies, y \in toUpdate, y \notin toUpdate'
      PROVE  FramesLeft(zs[y]) < FramesLeft(zombie[y])
  <2>1. zs[y].mDead /\ ~zombie[y].mDead
    BY <1>1, <1>3 DEF LoopLive
  <2> QED
    BY <1>1, <2>1, AllFitTyped, FramesLeftType DEF FramesLeft
<1> QED
  BY <1>1, <1>2, <1>3 DEF CrashStep, LoopLive

\* An update of z, whatever it is, that ends with less time for z.
LEMMA UpdatedSettles ==
  ASSUME IInv, AllFit(zombie), LoopLive, NEW z \in mZombies,
         NEW zs, AllFit(zs), AllSettle(zs, zombie), Updated(z, zs),
         Leads(zombie'[z]) /\ zombie[z].mZombiePhase \in Ending
           => FramesLeft(zombie'[z]) < FramesLeft(zombie[z])
  PROVE  CrashStep /\ LoopLive'
<1>1. /\ mZombies \subseteq Zombie /\ zombie' = Faded(zs, z)
      /\ toUpdate' = {y \in toUpdate \ {z} : ~zombie'[y].mDead}
  BY DEF IInv, Sound, Updated
<1>2. AllSettle(zombie', zombie)
  <2>1. AllFit(zombie') /\ AllSettle(zombie', zs)
    BY <1>1, FadedFit, FadedSettles
  <2> QED
    BY <2>1, SettleAgain
<1>3. \A y \in mZombies : Settles(zombie'[y], zombie[y])
  BY <1>1, <1>2 DEF AllSettle
<1>4. ASSUME NEW y \in mZombies, y # z, y \in toUpdate, y \notin toUpdate'
      PROVE  FramesLeft(zombie'[y]) < FramesLeft(zombie[y])
  <2>1. zombie'[y].mDead /\ ~zombie[y].mDead
    BY <1>1, <1>4 DEF LoopLive
  <2> QED
    BY <1>1, <2>1, AllFitTyped, FramesLeftType DEF FramesLeft
<1> QED
  BY <1>1, <1>3, <1>4 DEF CrashStep, LoopLive

\* Followers have a leader: SledsWhole.
LEMMA TeamFollows ==
  ASSUME IInv, NEW z \in mZombies, HasSled(zombie, z), NEW y \in FollowersOf(zombie, z)
  PROVE  ~Leads(zombie[y])
BY Constants DEF IInv, Sound, Whole, HasSled, Leads

LEMMA SetSettles ==
  ASSUME NEW zs, AllFit(zs), NEW z \in Zombie, NEW phase, NEW t,
         ~Leads(zs[z]) \/ zs[z].mZombiePhase \notin Ending
  PROVE  AllSettle(Set(zs, z, phase, t), zs)
<1> DEFINE r == zs[z]
           new == [r EXCEPT !.mZombiePhase = phase, !.mPhaseCounter = t]
<1>1. r \in Record
  BY AllFitTyped
<1>2. Set(zs, z, phase, t) = [zs EXCEPT ![z] = new]
  BY DEF Set
<1>3. ~Leads(r) \/ r.mZombiePhase \notin Ending
  OBVIOUS
<1> HIDE DEF r
<1>4. Leads(new) => Leads(r)
  BY <1>1 DEF Record, Leads
<1>5. Settles(new, r)
  BY <1>3, <1>4 DEF Settles
<1> QED
  BY <1>2, <1>5, ChangeSettles DEF r

LEMMA HarmSettles ==
  ASSUME IInv, AllFit(zombie), LoopLive, NEW z \in mZombies,
         \/ Hit(z) \/ Burn(z) \/ MowZombie(z) \/ Swallow(z) \/ \E e \in mZombies : EatZombie(e, z)
  PROVE  CrashStep /\ LoopLive'
<1>1. z \in Zombie /\ AllSettle(zombie, zombie) /\ AllSettle(DieNoLoot(zombie, z), zombie)
  BY SettleSelf, DieSettles DEF IInv, Sound
<1>2. ASSUME NEW leaves \in BOOLEAN, NEW zs \in TakeDamage(zombie, z, leaves),
             ~IsDeadOrDying(zombie, z)
      PROVE  AllSettle(zs, zombie)
  BY <1>1, <1>2, TeamRides, TeamFollows, TakeDamageSettles DEF IsDeadOrDying, Corpse
<1>3. CASE Hit(z)
  <2>1. PICK leaves \in BOOLEAN : \E zs \in TakeDamage(zombie, z, leaves) : Becomes(zs)
    BY <1>3 DEF Hit
  <2> QED
    BY <1>2, <1>3, <2>1, BecomesSettles DEF Hit
<1>4. CASE Burn(z)
  <2>1. PICK zs \in ApplyBurn(zombie, z) : Becomes(zs)
    BY <1>4 DEF Burn
  <2>2. \/ zs = zombie \/ zs = DieNoLoot(zombie, z)
        \/ ~Leads(zombie[z]) /\ \E t \in 1..DeathTime : zs = Set(zombie, z, "burned", t)
    BY DEF ApplyBurn, IsBobsledTeamWithSled, IsLeader, Leads
  <2>3. AllSettle(zs, zombie)
    BY <1>1, <2>2, SetSettles
  <2> QED
    BY <2>1, <2>3, BecomesSettles
<1>5. CASE MowZombie(z)
  <2>1. PICK zs \in MowDown(zombie, z) : Becomes(zs)
    BY <1>5 DEF MowZombie
  <2>2. \/ zs = zombie \/ zs = DieNoLoot(zombie, z)
        \/ ~Leads(zombie[z]) /\ \E t \in 1..DeathTime : zs = Set(zombie, z, "mowered", t)
    BY DEF MowDown, IsBobsledTeamWithSled, IsLeader, Leads
  <2>3. AllSettle(zs, zombie)
    BY <1>1, <2>2, SetSettles
  <2> QED
    BY <2>1, <2>3, BecomesSettles
<1>6. CASE Swallow(z)
  BY <1>1, <1>6, BecomesSettles DEF Swallow
<1>7. CASE \E e \in mZombies : EatZombie(e, z)
  BY <1>2, <1>7, BecomesSettles DEF EatZombie, CanBeEaten
<1> QED
  BY <1>3, <1>4, <1>5, <1>6, <1>7

\* Butter and hypnosis cut ties; a follower that is let go leads nobody.
LEMMA TurnedSettles ==
  ASSUME IInv, AllFit(zombie), LoopLive, NEW z \in mZombies, Butter(z) \/ EatHypnoshroom(z)
  PROVE  CrashStep /\ LoopLive'
<1>1. zombie \in [Zombie -> Record] /\ z \in Zombie /\ Becomes(zombie')
  BY DEF IInv, Sound, Butter, EatHypnoshroom, Becomes
<1>2. ASSUME NEW y \in mZombies, zombie[y].mZombieType = "bobsled",
             zombie[y].mFollowerZombieID[1] # None
      PROVE  Leads(zombie[y])
  BY <1>2 DEF IInv, Sound, FollowersFollow, IsFollower, Leads
<1>3. ASSUME NEW y \in Zombie
      PROVE  /\ SameTime(zombie'[y], zombie[y]) /\ zombie'[y].mZombieType = zombie[y].mZombieType
             /\ zombie'[y].mFollowerZombieID[1] # None => zombie[y].mFollowerZombieID[1] # None
             /\ y \in mZombies \/ zombie'[y] = zombie[y]
  <2>1. zombie[y] \in Record
    BY <1>1
  <2>2. CASE Butter(z)
    BY <1>1, <2>1, <2>2 DEF Butter, Becomes, ApplyButter, SameTime, Record
  <2>3. CASE EatHypnoshroom(z)
    <3>1. zombie' = StartMindControlled(zombie, z)
      BY <2>3 DEF EatHypnoshroom, Becomes
    <3>2. DOMAIN zombie[y].mFollowerZombieID = Places /\ 1 \in Places
      BY <2>1, Constants DEF Record
    <3> QED
      BY <1>1, <2>1, <3>1, <3>2 DEF StartMindControlled, SameTime, Record, Without
  <2> QED
    BY <2>2, <2>3
<1>4. \A y \in Zombie : Leads(zombie'[y]) => Leads(zombie[y])
  BY <1>2, <1>3 DEF Leads
<1>5. AllSettle(zombie', zombie)
  BY <1>1, <1>3, <1>4, SameTimeSettles DEF AllSettle
<1> QED
  BY <1>1, <1>5, BecomesSettles

LEMMA ComeAndGoSettles ==
  ASSUME IInv, AllFit(zombie), LoopLive,
         \/ BeginFrame \/ (\E kind \in Sent \ {"bobsled", "dropped"} : AddZombie(kind))
         \/ AddBobsled \/ BungeeDropZombie \/ RemoveAllZombies
  PROVE  CrashStep /\ LoopLive'
<1>1. /\ mZombies \subseteq Zombie /\ toUpdate \subseteq mZombies
      /\ zombie \in [Zombie -> Record] /\ AllSettle(zombie, zombie)
  BY SettleSelf DEF IInv, Sound
<1>2. ASSUME \A y \in mZombies \intersect mZombies' : zombie'[y] = zombie[y],
             toUpdate' = toUpdate \/ toUpdate = {}
      PROVE  CrashStep
  BY <1>1, <1>2 DEF CrashStep, AllSettle
<1>3. CASE BeginFrame
  <2>1. /\ \A y \in mZombies \intersect mZombies' : zombie'[y] = zombie[y]
        /\ toUpdate = {} /\ LoopLive'
    BY <1>1, <1>3 DEF BeginFrame, LoopLive
  <2> QED
    BY <1>2, <2>1
<1>4. ASSUME \A y \in mZombies : zombie'[y] = zombie[y], toUpdate' = toUpdate
      PROVE  CrashStep /\ LoopLive'
  BY <1>1, <1>2, <1>4 DEF LoopLive
<1>5. \A y \in Fresh : y \notin mZombies
  BY DEF Fresh
<1>6. CASE \E kind \in Sent \ {"bobsled", "dropped"} : AddZombie(kind)
  BY <1>1, <1>4, <1>5, <1>6 DEF AddZombie
<1>7. CASE AddBobsled
  <2>1. PICK l \in Fresh : \E team \in [Followers -> Fresh \ {l}] :
          \A y \in Zombie : y = l \/ y \in Range(team) \/ zombie'[y] = zombie[y]
    BY <1>7 DEF AddBobsled
  <2>2. PICK team \in [Followers -> Fresh \ {l}] :
          \A y \in Zombie : y = l \/ y \in Range(team) \/ zombie'[y] = zombie[y]
    BY <2>1
  <2>3. \A y \in Range(team) : y \in Fresh
    BY DEF Range
  <2> QED
    BY <1>1, <1>4, <1>5, <1>7, <2>2, <2>3 DEF AddBobsled
<1>8. CASE BungeeDropZombie
  <2>1. PICK b \in Fresh : \E y \in Fresh :
          zombie' = [zombie EXCEPT ![b] = [Born("bungee") EXCEPT !.mRelatedZombieID = y],
                                   ![y] = [Born("normal") EXCEPT !.mHanging = TRUE]]
    BY <1>8 DEF BungeeDropZombie
  <2>2. \A y \in mZombies : zombie'[y] = zombie[y]
    BY <1>1, <1>5, <2>1
  <2> QED
    BY <1>4, <1>8, <2>2 DEF BungeeDropZombie
<1>9. CASE RemoveAllZombies
  <2>1. PICK D : Becomes(Dead(zombie, D))
    BY <1>9 DEF RemoveAllZombies
  <2>2. AllSettle(Dead(zombie, D), zombie)
    BY <1>1, DeadSettles DEF AllSettle
  <2> QED
    BY <2>1, <2>2, BecomesSettles
<1> QED
  BY <1>3, <1>6, <1>7, <1>8, <1>9

----------------------------------------------------------------------------
(* The updates take a frame from what is left of a crash.                   *)

\* The record of a zombie that has counted a frame down.
LEMMA CountDownSettles ==
  ASSUME NEW zs, AllFit(zs), NEW z \in Zombie
  PROVE  LET later == CountDown(zs, z)
         IN  /\ AllSettle(later, zs)
             /\ later[z].mZombiePhase = zs[z].mZombiePhase
             /\ later[z].mDead = zs[z].mDead /\ later[z].mZombieFade = zs[z].mZombieFade
             /\ Leads(later[z]) => Leads(zs[z])
             /\ later[z].mPhaseCounter = IF zs[z].mPhaseCounter > 0
                                         THEN zs[z].mPhaseCounter - 1 ELSE 0
<1> DEFINE r == zs[z]
           new == [r EXCEPT !.mPhaseCounter = IF @ > 0 THEN @ - 1 ELSE 0]
<1>1. r \in Record /\ zs \in [Zombie -> Record]
  BY AllFitTyped
<1>2. CountDown(zs, z) = [zs EXCEPT ![z] = new]
  BY DEF CountDown
<1> HIDE DEF r
<1>3. /\ new.mZombiePhase = r.mZombiePhase /\ new.mDead = r.mDead
      /\ new.mZombieFade = r.mZombieFade /\ (Leads(new) => Leads(r))
      /\ new.mPhaseCounter = IF r.mPhaseCounter > 0 THEN r.mPhaseCounter - 1 ELSE 0
  BY <1>1 DEF Record, Leads
<1> HIDE DEF new
<1>4. CountDown(zs, z)[z] = new
  BY <1>1, <1>2
<1>5. r.mPhaseCounter \in Nat /\ r.mZombieFade \in Nat
  BY <1>1 DEF Record
<1>6. FramesLeft(new) <= FramesLeft(r)
  BY <1>3, <1>5, SquadsAssumption DEF FramesLeft
<1>7. Settles(new, r)
  BY <1>3, <1>6 DEF Settles
<1>8. AllSettle([zs EXCEPT ![z] = new], zs)
  BY <1>7, ChangeSettles DEF r
<1> QED
  BY <1>2, <1>3, <1>4, <1>8 DEF r

LEMMA UpdateBurntSettles ==
  ASSUME IInv, AllFit(zombie), LoopLive, NEW z \in mZombies, UpdateBurnt(z)
  PROVE  CrashStep /\ LoopLive'
<1> DEFINE later == CountDown(zombie, z)
<1>1. z \in Zombie /\ zombie[z].mZombiePhase \notin Ending
  BY DEF IInv, Sound, UpdateBurnt, Ending
<1>2. Updated(z, later) \/ Updated(z, DieNoLoot(later, z))
  BY DEF UpdateBurnt
<1>3. AllFit(later) /\ AllSettle(later, zombie)
  BY <1>1, CountDownFit, CountDownSettles
<1> HIDE DEF later
<1>4. AllFit(DieNoLoot(later, z)) /\ AllSettle(DieNoLoot(later, z), zombie)
  <2>1. AllFit(DieNoLoot(later, z)) /\ AllSettle(DieNoLoot(later, z), later)
    BY <1>3, DieFit, DieSettles
  <2> QED
    BY <1>3, <2>1, SettleAgain
<1> QED
  BY <1>1, <1>2, <1>3, <1>4, UpdatedSettles

\* It falls for a frame less, or begins to fade, or fades.
LEMMA UpdateDeathSettles ==
  ASSUME IInv, AllFit(zombie), LoopLive, NEW z \in mZombies, UpdateDeath(z)
  PROVE  CrashStep /\ LoopLive'
<1> DEFINE later == CountDown(zombie, z)
           old == zombie[z]
           r == later[z]
           new == [r EXCEPT !.mZombieFade = FadeTime]
           fades == [later EXCEPT ![z].mZombieFade = FadeTime]
           fallen == r.mPhaseCounter = 0 /\ old.mZombieFade = 0
           zs == IF fallen THEN fades ELSE later
<1>1. /\ z \in Zombie /\ z \in toUpdate /\ old.mZombiePhase = "dying" /\ Updated(z, zs)
      /\ ~old.mDead /\ old \in Record
  BY AllFitTyped DEF IInv, Sound, UpdateDeath, Updated, LoopLive
<1>2. /\ AllFit(later) /\ AllSettle(later, zombie)
      /\ r.mZombiePhase = "dying" /\ r.mDead = old.mDead /\ r.mZombieFade = old.mZombieFade
      /\ Leads(r) => Leads(old)
      /\ r.mPhaseCounter = IF old.mPhaseCounter > 0 THEN old.mPhaseCounter - 1 ELSE 0
  BY <1>1, CountDownFit, CountDownSettles
<1>3. fades = [later EXCEPT ![z] = new]
  OBVIOUS
<1>4. r \in Fit /\ r \in Record /\ later \in [Zombie -> Record]
  BY <1>1, <1>2, AllFitTyped DEF AllFit
<1>5. zs = IF fallen THEN fades ELSE later
  OBVIOUS
<1>6. fallen <=> r.mPhaseCounter = 0 /\ old.mZombieFade = 0
  OBVIOUS
<1> HIDE DEF later, old, fades, fallen, zs
<1>7. r = later[z]
  OBVIOUS
<1> HIDE DEF r
<1>8. /\ new \in Fit /\ new.mZombieFade = FadeTime /\ new.mZombiePhase = "dying"
      /\ new.mDead = r.mDead /\ (Leads(new) => Leads(r))
  BY <1>2, <1>4, Constants DEF Fit, Sendable, Record, Leads
<1> HIDE DEF new
<1>9. old.mPhaseCounter \in Nat /\ old.mZombieFade \in 0..FadeTime
  BY <1>1 DEF Record
<1>10. fallen => FramesLeft(new) < FramesLeft(old)
  BY <1>1, <1>2, <1>6, <1>8, <1>9, SquadsAssumption DEF FramesLeft
<1>11. ~fallen => /\ FramesLeft(r) <= FramesLeft(old)
                  /\ old.mZombieFade = 0 => FramesLeft(r) < FramesLeft(old)
  BY <1>1, <1>2, <1>6, <1>9, SquadsAssumption DEF FramesLeft
<1>12. fallen => AllFit(fades) /\ AllSettle(fades, zombie) /\ fades[z] = new
  <2>1. ASSUME fallen
        PROVE  Settles(new, old)
    <3>1. FramesLeft(new) \in Nat /\ FramesLeft(old) \in Nat
      BY <1>1, <1>8, FramesLeftType DEF Fit, Sendable
    <3> QED
      BY <1>2, <1>8, <1>10, <2>1, <3>1 DEF Settles, Ending
  <2>2. \A y \in Zombie : fades[y] = IF y = z THEN new ELSE later[y]
    BY <1>3, <1>4
  <2>3. AllFit(fades)
    BY <1>2, <1>3, <1>8, ChangeFit
  <2> QED
    BY <1>1, <1>2, <2>1, <2>2, <2>3 DEF AllSettle, old
<1>13. /\ AllFit(zs) /\ AllSettle(zs, zombie)
       /\ zs[z].mZombiePhase = "dying" /\ ~zs[z].mDead
       /\ zs[z].mZombieFade = 0 => FramesLeft(zs[z]) < FramesLeft(old)
       /\ FramesLeft(zs[z]) <= FramesLeft(old)
  <2>1. CASE fallen
    BY <1>1, <1>2, <1>5, <1>8, <1>10, <1>12, <2>1, FramesLeftType, <1>4 DEF Fit, Sendable
  <2>2. CASE ~fallen
    BY <1>1, <1>2, <1>5, <1>7, <1>11, <2>2
  <2> QED
    BY <2>1, <2>2
<1>14. zombie' = Faded(zs, z)
  BY <1>1 DEF Updated
<1>15. FramesLeft(zombie'[z]) < FramesLeft(old) \/ ~Leads(zombie'[z])
  <2>1. AllFit(zombie') /\ AllSettle(zombie', zs)
    BY <1>1, <1>13, <1>14, FadedFit, FadedSettles
  <2>2. Leads(zombie'[z]) => FramesLeft(zombie'[z]) <= FramesLeft(zs[z])
    BY <1>1, <1>13, <2>1 DEF AllSettle, Settles, Ending
  <2>3. zs[z].mZombieFade > 0 => FramesLeft(zombie'[z]) < FramesLeft(zs[z])
    BY <1>1, <1>13, <1>14, FadedSettles
  <2>4. /\ zombie'[z] \in Record /\ zs[z] \in Record /\ zs[z].mZombieFade \in Nat
        /\ FramesLeft(zombie'[z]) \in Nat /\ FramesLeft(zs[z]) \in Nat /\ FramesLeft(old) \in Nat
    BY <1>1, <1>13, <2>1, AllFitTyped, FramesLeftType DEF Record
  <2> QED
    BY <1>13, <2>2, <2>3, <2>4
<1> QED
  BY <1>1, <1>13, <1>15, UpdatedSettles DEF old

\* A frame less of the crash, until the leader leads no more.
LEMMA UpdateCrashSettles ==
  ASSUME IInv, AllFit(zombie), LoopLive, NEW z \in mZombies, UpdateCrash(z)
  PROVE  CrashStep /\ LoopLive'
<1> DEFINE later == CountDown(zombie, z)
           up    == Set(later, z, "normal", 0)
           alone == Alone(up, z)
           acted == Crashed(z)
           old   == zombie[z]
<1>1. /\ z \in Zombie /\ zombie \in [Zombie -> Record]
      /\ old.mZombieType = "bobsled" /\ old.mZombiePhase = "crashing"
  BY DEF IInv, Sound, UpdateCrash
<1>2. PICK zs \in Walked(acted, z) : Updated(z, zs)
  BY UpdateCrashActs
<1>3. ~old.mDead
  BY <1>2 DEF Updated, LoopLive
<1>4. /\ AllFit(acted) /\ ~HasSled(acted, z) /\ AllFit(later) /\ AllSettle(later, zombie)
      /\ later[z].mZombiePhase = old.mZombiePhase /\ later[z].mDead = old.mDead
      /\ (Leads(later[z]) => Leads(old))
      /\ later[z].mPhaseCounter = IF old.mPhaseCounter > 0 THEN old.mPhaseCounter - 1 ELSE 0
  BY <1>1, CrashedFit, CountDownFit, CountDownSettles
<1>5. acted = IF later[z].mPhaseCounter > 0 THEN later
              ELSE IF IsLeader(zombie, z) THEN alone ELSE up
  BY DEF Crashed
<1>6. /\ up \in [Zombie -> Record] /\ \A y \in Zombie : y # z => up[y] = zombie[y]
      /\ (Leads(up[z]) => Leads(old))
  <2> DEFINE r == later[z]
             new == [r EXCEPT !.mZombiePhase = "normal", !.mPhaseCounter = 0]
  <2>1. /\ r \in Record /\ later \in [Zombie -> Record]
        /\ \A y \in Zombie : y # z => later[y] = zombie[y]
    BY <1>1, <1>4, AllFitTyped DEF CountDown
  <2>2. up = [later EXCEPT ![z] = new]
    BY DEF Set
  <2>3. Leads(r) => Leads(old)
    BY <1>4
  <2> HIDE DEF r, later, up
  <2>4. new \in Record /\ (Leads(new) => Leads(r))
    BY <2>1, Constants DEF Record, Phases, Leads, Times
  <2> HIDE DEF new
  <2> QED
    BY <1>1, <2>1, <2>2, <2>3, <2>4
<1> HIDE DEF later, up
<1>7. ~Leads(alone[z])
  <2> DEFINE r == up[z]
             list == [p \in Places |-> IF p \in Followers THEN None ELSE r.mFollowerZombieID[p]]
             new == [r EXCEPT !.mFollowerZombieID = list]
  <2>1. alone[z] = new /\ r \in Record
    BY <1>1, <1>6 DEF Alone
  <2>2. list[1] = None
    BY Constants
  <2> HIDE DEF r, list
  <2>3. new.mFollowerZombieID = list
    BY <2>1 DEF Record
  <2> QED
    BY <2>1, <2>2, <2>3 DEF Leads
<1>8. IsLeader(zombie, z) => AllSettle(alone, zombie)
  <2>1. ASSUME IsLeader(zombie, z), NEW y \in Zombie
        PROVE  Settles(alone[y], zombie[y])
    <3>1. zombie[y] \in Record /\ (y # z => up[y] = zombie[y])
      BY <1>1, <1>6
    <3>2. CASE y # z /\ y \notin FollowersOf(zombie, z)
      <4>1. alone[y] = zombie[y]
        BY <3>1, <3>2 DEF Alone
      <4> QED
        BY <4>1, SettleSelf DEF AllSettle
    <3>3. CASE y # z /\ y \in FollowersOf(zombie, z)
      <4>1. zombie[y].mFollowerZombieID[1] = None
        BY <1>1, <2>1, <3>3, Constants DEF IInv, Sound, Whole, FollowersFollow, IsFollower
      <4>2. alone[y] = [zombie[y] EXCEPT !.mRelatedZombieID = None]
        BY <3>1, <3>3 DEF Alone
      <4>3. alone[y].mFollowerZombieID[1] = None
        BY <3>1, <4>1, <4>2 DEF Record
      <4> QED
        BY <4>3 DEF Settles, Leads
    <3>4. CASE y = z
      BY <1>7, <3>4 DEF Settles
    <3> QED
      BY <3>2, <3>3, <3>4
  <2> QED
    BY <2>1 DEF AllSettle
<1>9. ~IsLeader(zombie, z) => AllSettle(up, zombie) /\ ~Leads(up[z])
  <2>1. ASSUME ~IsLeader(zombie, z)
        PROVE  ~Leads(up[z])
    BY <1>6, <2>1 DEF IsLeader, Leads
  <2>2. \A y \in Zombie : y # z => Settles(up[y], zombie[y])
    BY <1>6, SettleSelf DEF AllSettle
  <2> QED
    BY <2>1, <2>2 DEF AllSettle, Settles
<1> HIDE DEF alone, acted
<1>10. /\ AllSettle(acted, zombie)
       /\ Leads(acted[z]) => /\ acted[z].mZombiePhase = "crashing"
                             /\ FramesLeft(acted[z]) < FramesLeft(old)
  <2>1. CASE later[z].mPhaseCounter > 0
    <3>1. old.mPhaseCounter \in Nat
      BY <1>1 DEF Record
    <3>2. FramesLeft(later[z]) < FramesLeft(old)
      BY <1>1, <1>3, <1>4, <2>1, <3>1, SquadsAssumption DEF FramesLeft
    <3> QED
      BY <1>1, <1>4, <1>5, <2>1, <3>2
  <2>2. CASE ~(later[z].mPhaseCounter > 0)
    BY <1>5, <1>7, <1>8, <1>9, <2>2
  <2> QED
    BY <2>1, <2>2
<1>11. AllFit(zs) /\ AllSettle(zs, acted)
  BY <1>1, <1>2, <1>4, WalkedFit, WalkedSettles
<1>12. AllSettle(zs, zombie)
  BY <1>4, <1>10, <1>11, SettleAgain
<1>13. AllFit(zombie') /\ AllSettle(zombie', zs)
  BY <1>1, <1>2, <1>11, FadedFit, FadedSettles DEF Updated
<1>14. AllSettle(zombie', acted)
  BY <1>4, <1>11, <1>13, SettleAgain
<1>15. Leads(zombie'[z]) => FramesLeft(zombie'[z]) < FramesLeft(old)
  <2>1. Settles(zombie'[z], acted[z])
    BY <1>1, <1>14 DEF AllSettle
  <2>2. /\ FramesLeft(zombie'[z]) \in Nat /\ FramesLeft(acted[z]) \in Nat
        /\ FramesLeft(old) \in Nat
    BY <1>1, <1>4, <1>13, AllFitTyped, FramesLeftType
  <2> QED
    BY <1>10, <2>1, <2>2 DEF Settles, Ending
<1> QED
  BY <1>2, <1>11, <1>12, <1>15, UpdatedSettles DEF old

LEMMA UpdateSledSettles ==
  ASSUME IInv, AllFit(zombie), LoopLive, NEW z \in mZombies, UpdateSled(z)
  PROVE  CrashStep /\ LoopLive'
<1>1. z \in Zombie /\ zombie[z].mZombiePhase = "sliding" /\ AllSettle(zombie, zombie)
  BY SettleSelf DEF IInv, Sound, UpdateSled
<1>2. ASSUME NEW zs \in TakeDamage(zombie, z, TRUE)
      PROVE  AllFit(zs) /\ AllSettle(zs, zombie)
  BY <1>1, TeamRides, TeamFollows, TakeDamageFit, TakeDamageSettles
<1> QED
  BY <1>1, <1>2, UpdatedSettles DEF UpdateSled, Ending

\* Neither dancers nor those who walk have crashed.
LEMMA ActsAloneSettles ==
  ASSUME IInv, AllFit(zombie), LoopLive, NEW z \in mZombies, NEW acted, ActsAlone(z, acted),
         \/ zombie[z].mZombieType # "bobsled"
         \/ acted = zombie /\ zombie[z].mZombiePhase = "normal"
  PROVE  CrashStep /\ LoopLive'
<1>1. z \in Zombie /\ AllFit(acted)
  BY DEF IInv, Sound, ActsAlone
<1>2. PICK zs \in Walked(acted, z) : Updated(z, zs)
  BY DEF ActsAlone
<1>3. AllSettle(acted, zombie)
  BY SettleSelf DEF AllSettle, ActsAlone, Settles, Leads
<1>4. ~HasSled(acted, z)
  BY DEF ActsAlone, HasSled, IsLeader
<1>5. AllFit(zs) /\ AllSettle(zs, acted)
  BY <1>1, <1>2, <1>4, WalkedFit, WalkedSettles
<1>6. AllSettle(zs, zombie)
  BY <1>1, <1>3, <1>5, SettleAgain
<1>7. ~Leads(zombie'[z]) \/ zombie[z].mZombiePhase \notin Ending
  <2>1. AllFit(zombie') /\ AllSettle(zombie', zs)
    BY <1>1, <1>2, <1>5, FadedFit, FadedSettles DEF Updated
  <2>2. Leads(zombie'[z]) => Leads(zombie[z])
    BY <1>1, <1>6, <2>1 DEF AllSettle, Settles
  <2> QED
    BY <2>2 DEF Leads, Ending
<1> QED
  BY <1>2, <1>5, <1>6, <1>7, UpdatedSettles

LEMMA UpdateAloneSettles ==
  ASSUME IInv, AllFit(zombie), LoopLive, NEW z \in mZombies,
         UpdateDancer(z) \/ UpdateBackupDancer(z) \/ UpdateWalk(z)
  PROVE  CrashStep /\ LoopLive'
<1>1. z \in Zombie
  BY DEF IInv, Sound
<1>2. CASE UpdateDancer(z) \/ UpdateBackupDancer(z)
  <2>1. zombie[z].mZombieType # "bobsled"
    BY <1>2 DEF UpdateDancer, UpdateBackupDancer
  <2> QED
    BY <1>1, <1>2, <2>1, UpdateDancerActs, UpdateBackupActs, ActsAloneSettles
<1>3. CASE UpdateWalk(z)
  BY <1>1, <1>3, UpdateWalkActs, ActsAloneSettles DEF UpdateWalk
<1> QED
  BY <1>2, <1>3

\* A bungee leads nobody, and setting its load down takes the load no time.
LEMMA UpdateBungeeSettles ==
  ASSUME IInv, AllFit(zombie), LoopLive, NEW z \in mZombies, UpdateZombieBungee(z)
  PROVE  CrashStep /\ LoopLive'
<1>1. PICK zs : /\ Updated(z, zs) /\ AllFit(zs)
                /\ \/ zs = DieNoLoot(zombie, z)
                   \/ /\ zs[z].mZombieType = "bungee"
                      /\ \A y \in Zombie \ {z} :
                           zs[y] \in {zombie[y], [zombie[y] EXCEPT !.mHanging = FALSE]}
  BY UpdateBungeeActs DEF IInv, Sound
<1>2. z \in Zombie /\ zombie[z].mZombieType = "bungee" /\ AllSettle(zombie, zombie)
  BY SettleSelf DEF IInv, Sound, UpdateZombieBungee
<1>3. AllSettle(zs, zombie)
  <2>1. CASE zs = DieNoLoot(zombie, z)
    BY <2>1, DieSettles
  <2>2. CASE zs # DieNoLoot(zombie, z)
    <3>1. ASSUME NEW y \in Zombie \ {z}
          PROVE  Settles(zs[y], zombie[y])
      <4> DEFINE r == zombie[y]
                 new == [r EXCEPT !.mHanging = FALSE]
      <4>1. r \in Record /\ zs[y] \in {r, new} /\ Settles(r, r)
        BY <1>1, <1>2, <2>2, AllFitTyped DEF AllSettle
      <4> HIDE DEF r
      <4>2. SameTime(new, r) /\ (Leads(new) => Leads(r))
        BY <4>1 DEF Record, SameTime, Leads
      <4> HIDE DEF new
      <4>3. Settles(new, r)
        BY <4>1, <4>2, SameTimeSettles
      <4> QED
        BY <4>1, <4>3 DEF r
    <3>2. Settles(zs[z], zombie[z])
      BY <1>1, <2>2 DEF Settles, Leads
    <3> QED
      BY <3>1, <3>2 DEF AllSettle
  <2> QED
    BY <2>1, <2>2
<1>4. ~Leads(zombie'[z])
  <2>1. AllSettle(zombie', zombie)
    <3>1. AllFit(zombie') /\ AllSettle(zombie', zs)
      BY <1>1, <1>2, FadedFit, FadedSettles DEF Updated
    <3> QED
      BY <1>1, <1>3, <3>1, SettleAgain
  <2> QED
    BY <1>2, <2>1 DEF AllSettle, Settles, Leads
<1> QED
  BY <1>1, <1>3, <1>4, UpdatedSettles

\* Walking takes nobody but the dancer along.
LEMMA WalkedAlone ==
  ASSUME NEW zs, AllFit(zs), NEW z \in Zombie, zs[z].mZombieType = "dancer",
         NEW ws \in Walked(zs, z), NEW y \in Zombie, y # z
  PROVE  ws[y] = zs[y]
<1>1. zs \in [Zombie -> Record]
  BY AllFitTyped
<1>2. DiesWith(zs, z) = {} /\ ~HasSled(zs, z)
  BY DEF DiesWith, IsBobsledTeamWithSled, IsFollower, IsLeader, HasSled
<1>3. DieNoLoot(zs, z)[y] = zs[y]
  BY <1>2 DEF DieNoLoot, Dead
<1>4. ASSUME NEW xs \in TakeDamage(zs, z, TRUE)
      PROVE  xs[y] = zs[y]
  <2> DEFINE hurt == Beheaded(zs, z)
             killed == [hurt EXCEPT ![z].mBodyHealth = FALSE]
  <2>1. \/ xs = zs \/ xs = hurt
        \/ \E t \in 1..DeathTime : xs = Set(killed, z, "dying", t)
    BY <1>2 DEF TakeDamage, PlayDeathAnim
  <2>2. hurt \in [Zombie -> Record] /\ hurt[y] = zs[y]
    <3>1. AllFit(hurt)
      BY BeheadedFit
    <3>2. hurt[y] = zs[y]
      BY <1>1 DEF Beheaded
    <3> QED
      BY <3>1, <3>2, AllFitTyped
  <2> HIDE DEF hurt
  <2>3. DOMAIN killed = Zombie /\ killed[y] = zs[y]
    BY <2>2
  <2> HIDE DEF killed
  <2> QED
    BY <2>1, <2>2, <2>3 DEF Set
<1> QED
  BY <1>3, <1>4 DEF Walked

LEMMA SummonSettles ==
  ASSUME IInv, AllFit(zombie), LoopLive, NEW z \in mZombies, SummonBackupDancers(z)
  PROVE  CrashStep /\ LoopLive'
<1>1. z \in Zombie /\ mZombies \subseteq Zombie
  BY DEF IInv, Sound
<1>2. PICK ws : /\ AllFit(ws) /\ ws[z].mZombieType = "dancer" /\ zombie' \in Walked(ws, z)
                /\ \A y \in mZombies : y # z => ws[y] = zombie[y]
                /\ z \notin toUpdate' /\ \A y \in toUpdate' : y \in toUpdate \/ ~ws[y].mDead
  BY SummonActs
<1>3. AllSettle(zombie', ws)
  BY <1>1, <1>2, WalkedSettles DEF HasSled, IsLeader
<1>4. \A y \in mZombies : y # z => zombie'[y] = zombie[y]
  BY <1>1, <1>2, WalkedAlone
<1>5. ~Leads(zombie'[z])
  BY <1>1, <1>2, <1>3 DEF AllSettle, Settles, Leads
<1>6. toUpdate \subseteq mZombies /\ toUpdate \ {z} \subseteq toUpdate'
  BY DEF IInv, SummonBackupDancers
<1>7. CrashStep
  <2>1. \A y \in mZombies : Settles(zombie'[y], zombie[y])
    BY <1>1, <1>4, <1>5, SettleSelf DEF AllSettle, Settles
  <2> QED
    BY <1>5, <1>6, <2>1 DEF CrashStep
<1>8. LoopLive'
  <2>1. ASSUME NEW y \in toUpdate'
        PROVE  ~zombie'[y].mDead
    <3>1. y \in Zombie
      BY <2>1, SummonInv DEF IInv, Sound
    <3>2. zombie'[y] = ws[y]
      BY <1>1, <1>2, <2>1, <3>1, WalkedAlone
    <3>3. y \in toUpdate => ws[y] = zombie[y] /\ ~zombie[y].mDead
      BY <1>2, <1>6, <2>1 DEF LoopLive
    <3> QED
      BY <1>2, <2>1, <3>2, <3>3
  <2> QED
    BY <2>1 DEF LoopLive
<1> QED
  BY <1>7, <1>8

----------------------------------------------------------------------------
(* The theorem on the crash.                                                *)

LEMMA UpdateSettles ==
  ASSUME IInv, AllFit(zombie), LoopLive, NEW z \in mZombies, Update(z)
  PROVE  CrashStep /\ LoopLive'
BY UpdateBurntSettles, UpdateDeathSettles, UpdateCrashSettles, UpdateSledSettles,
   UpdateAloneSettles, SummonSettles, UpdateBungeeSettles DEF Update

LEMMA NextSettles ==
  ASSUME IInv, AllFit(zombie), LoopLive, [Next]_vars
  PROVE  CrashStep /\ LoopLive'
<1>1. CASE Next
  BY <1>1, ComeAndGoSettles, UpdateSettles, HarmSettles, TurnedSettles DEF Next
<1>2. CASE UNCHANGED vars
  <2>1. CrashStep
    BY <1>2, SettleSelf DEF CrashStep, AllSettle, IInv, Sound, vars
  <2>2. LoopLive'
    BY <1>2 DEF LoopLive, vars
  <2> QED
    BY <2>1, <2>2
<1> QED
  BY <1>1, <1>2

\* The loop never updates a zombie that has died in the same frame.
LEMMA LoopAlwaysLive == Spec => []LoopLive
<1>1. Init => LoopLive
  BY DEF Init, LoopLive
<1>2. IInv /\ AllFit(zombie) /\ LoopLive /\ [Next]_vars => LoopLive'
  BY NextSettles
<1> QED
  BY <1>1, <1>2, FitInvariance, PTL DEF Spec

\* Nobody becomes the leader of a sled but at birth. A leader whose sled has crashed
\* goes on crashing or falls, whatever else is done to it: the frames until it lets go
\* or is gone never get more, and every frame that updates it leaves fewer. So each
\* crash ends as long as frames follow one another.
CrashRunsOut ==
  [][\A l \in mZombies \intersect mZombies' : IsLeader(zombie', l) =>
       /\ IsLeader(zombie, l)
       /\ zombie[l].mZombiePhase \in Ending =>
            /\ zombie'[l].mZombiePhase \in Ending
            /\ FramesLeft(zombie'[l]) <= FramesLeft(zombie[l])
            /\ l \in toUpdate /\ l \notin toUpdate' =>
                 FramesLeft(zombie'[l]) < FramesLeft(zombie[l])]_vars

THEOREM SledCrashRunsOut == Spec => CrashRunsOut
<1>1. IInv /\ AllFit(zombie) /\ LoopLive /\ [Next]_vars =>
        \A l \in mZombies \intersect mZombies' : IsLeader(zombie', l) =>
          /\ IsLeader(zombie, l)
          /\ zombie[l].mZombiePhase \in Ending =>
               /\ zombie'[l].mZombiePhase \in Ending
               /\ FramesLeft(zombie'[l]) <= FramesLeft(zombie[l])
               /\ l \in toUpdate /\ l \notin toUpdate' =>
                    FramesLeft(zombie'[l]) < FramesLeft(zombie[l])
  BY NextSettles DEF CrashStep, Settles, Leads, IsLeader
<1> QED
  BY <1>1, FitInvariance, LoopAlwaysLive, PTL DEF Spec, CrashRunsOut

=============================================================================
