--------------------------- MODULE ProfilesProofs ---------------------------
(***************************************************************************)
(* Proofs about Profiles, for any names and any number of players.           *)
(*                                                                           *)
(* While the game runs, the roster on disk is the map in memory, or the last  *)
(* write of the handler will make it so. What is under an id on disk belongs  *)
(* to a player of the roster on disk: a handler that takes a player off the   *)
(* roster has the erasures in front of that write, and one that writes a file *)
(* for a player does not write the roster.                                   *)
(*                                                                           *)
(* That ids have a largest one would need induction over finite sets, which   *)
(* the provers cannot do: the invariant carries it along instead, for every   *)
(* set of profiles of a map.                                                 *)
(***************************************************************************)
EXTENDS Profiles, FiniteSetTheorems, SequenceTheorems, TLAPS

IdsIn(roster) == IF roster \in {NoFile, Torn} THEN {} ELSE {roster[k].mId : k \in DOMAIN roster}

\* What is true of profiles in memory and of summaries on disk alike.
DistinctIds(map) == \A k, l \in DOMAIN map : map[k].mId = map[l].mId => k = l

HaveLargest(map) ==
  \A S \in SUBSET DOMAIN map : S # {} => \E k \in S : \A l \in S : map[l].mId <= map[k].mId

Owned(map) == \A k \in DOMAIN map : map[k].person = owner[map[k].mId]

Sound(map) == DistinctIds(map) /\ HaveLargest(map) /\ Owned(map)

IsRoster(w) == w.file = "users"

Contents == Rosters \union Details \union Person \union Keys \union {NoFile}
Writes == [file : {"users", "details", "saved", "curUser"}, id : Ids \union {0}, content : Contents]

\* The types the proofs need.
Types ==
  /\ running \in {"off", "menu", "board"} /\ mDialog \in {"none", "user", "create"}
  /\ mUserList \in Seq(Name)
  /\ mProfileMap \in ProfileMaps
  /\ mNextProfileId \in 1..MaxId + 1
  /\ mPlayerInfo \in Keys \union {None}
  /\ writes \in Seq(Writes) /\ \A i \in DOMAIN writes : WriteOK(writes[i])
  /\ users \in Rosters \union {NoFile, Torn}
  /\ details \in [Ids -> Details \union {NoFile, Torn}]
  /\ saved \in [Ids -> Person \union {NoFile, Torn}]
  /\ curUser \in Keys \union {None}
  /\ persons \in 0..MaxPersons
  /\ owner \in [Ids -> Person \union {0}]
  /\ rosterTorn \in BOOLEAN

\* A program that does not run remembers nothing; a level is played without a dialog.
Scenes ==
  /\ running = "off" => mProfileMap = <<>> /\ mPlayerInfo = None
  /\ running = "board" => mDialog = "none"

Sounds == Sound(mProfileMap) /\ (users \notin {NoFile, Torn} => Sound(users))

RosterIs(map) ==
  \/ users \notin {NoFile, Torn} /\ users = RosterOf(map)
  \/ users \in {NoFile, Torn} /\ DOMAIN map = {}

\* The roster on disk is the one in memory, or will be when the handler has ended.
RosterCurrent ==
  /\ \A i \in DOMAIN writes : IsRoster(writes[i]) =>
       /\ running # "off" /\ i = Len(writes) /\ writes[i].content = RosterOf(mProfileMap)
  /\ running # "off" => RosterIs(mProfileMap) \/ \E i \in DOMAIN writes : IsRoster(writes[i])

\* A file is there only under the id of a player of the roster on disk.
FilesListed ==
  \A id \in Ids : details[id] # NoFile \/ saved[id] # NoFile => id \in IdsIn(users)

\* The handler erases the files of whom it takes off the roster before it does so.
ErasedFirst ==
  \A i \in DOMAIN writes : IsRoster(writes[i]) => \A id \in Ids \ IdsIn(writes[i].content) :
    /\ details[id] = NoFile \/ \E j \in 1..i - 1 :
         writes[j].file = "details" /\ writes[j].id = id
    /\ saved[id] = NoFile \/ \E j \in 1..i - 1 :
         writes[j].file = "saved" /\ writes[j].id = id

\* What it writes for a player is under the id of that player, who is on the roster on
\* disk; then it does not write the roster.
WritesBelong ==
  \A i \in DOMAIN writes : writes[i].file \in {"details", "saved"} /\ writes[i].content # NoFile =>
    /\ writes[i].id \in IdsIn(users)
    /\ \A j \in DOMAIN writes : ~IsRoster(writes[j])
    /\ writes[i].file = "details" => writes[i].content.person = owner[writes[i].id]
    /\ writes[i].file = "saved" => writes[i].content = owner[writes[i].id]

IInv ==
  /\ Types /\ Scenes /\ PlayerListed /\ Sounds /\ RosterCurrent
  /\ rosterTorn \/ (FilesListed /\ ErasedFirst /\ WritesBelong)
  /\ FilesBelong

-----------------------------------------------------------------------------
(* Maps of profiles.                                                         *)

\* The profiles of n are those of m but for what the players have achieved.
Like(n, m) ==
  /\ n \in ProfileMaps /\ DOMAIN n = DOMAIN m
  /\ \A k \in DOMAIN m : /\ n[k].form = m[k].form
                         /\ n[k].mId = m[k].mId /\ n[k].person = m[k].person

LEMMA MapOfProfiles ==
  ASSUME NEW m \in ProfileMaps
  PROVE  DOMAIN m \subseteq Keys /\ m \in [DOMAIN m -> Profile]
BY DEF ProfileMaps

LEMMA ProfilesMap ==
  ASSUME NEW K \in SUBSET Keys, NEW m \in [K -> Profile]
  PROVE  m \in ProfileMaps /\ DOMAIN m = K
BY DEF ProfileMaps

LEMMA MapOfSummaries ==
  ASSUME NEW r \in Rosters
  PROVE  /\ DOMAIN r \subseteq Keys /\ r \in [DOMAIN r -> Summary]
         /\ r \notin {NoFile, Torn}
BY FilesAssumption DEF Rosters

LEMMA LoadKeeps ==
  ASSUME Types, NEW p \in Profile
  PROVE  /\ LoadDetails(p) \in Profile /\ LoadDetails(p).form = p.form
         /\ LoadDetails(p).mId = p.mId /\ LoadDetails(p).person = p.person
<1>1. p.mId \in Ids
  BY DEF Profile
<1>2. details[p.mId] \in Details \union {NoFile, Torn}
  BY <1>1 DEF Types
<1>3. 0 \in Progress
  BY ProfilesAssumption DEF Progress
<1>4. CASE details[p.mId] \in {NoFile, Torn}
  BY <1>3, <1>4, FilesAssumption DEF LoadDetails, Profile
<1>5. CASE details[p.mId] \notin {NoFile, Torn}
  <2>1. details[p.mId].progress \in Progress
    BY <1>2, <1>5 DEF Details
  <2> QED
    BY <1>5, <2>1 DEF LoadDetails, Profile
<1> QED
  BY <1>4, <1>5

LEMMA GetProfileLike ==
  ASSUME Types, NEW m \in ProfileMaps, NEW k
  PROVE  Like(GetProfile(m, k), m)
<1>1. DOMAIN m \subseteq Keys /\ m \in [DOMAIN m -> Profile]
  BY MapOfProfiles
<1>2. CASE k \in DOMAIN m
  <2>1. m[k] \in Profile
    BY <1>1, <1>2
  <2> DEFINE p == LoadDetails(m[k])
  <2>2. /\ p \in Profile /\ p.form = m[k].form
        /\ p.mId = m[k].mId /\ p.person = m[k].person
    BY <2>1, LoadKeeps
  <2>3. GetProfile(m, k) = [m EXCEPT ![k] = p]
    BY <1>2 DEF GetProfile
  <2> HIDE DEF p
  <2>4. [m EXCEPT ![k] = p] \in [DOMAIN m -> Profile]
    BY <1>1, <2>2
  <2>5. [m EXCEPT ![k] = p] \in ProfileMaps
    BY <1>1, <2>4, ProfilesMap
  <2> QED
    BY <1>1, <2>2, <2>3, <2>4, <2>5 DEF Like
<1>3. CASE k \notin DOMAIN m
  BY <1>3 DEF GetProfile, Like
<1> QED
  BY <1>2, <1>3

LEMMA LikeSound ==
  ASSUME NEW m, NEW n, Like(n, m)
  PROVE  /\ Sound(m) => Sound(n)
         /\ RosterOf(n) = RosterOf(m)
         /\ \A k \in DOMAIN m : NameOf(n, k) = NameOf(m, k)
<1>1. DistinctIds(m) => DistinctIds(n)
  BY DEF DistinctIds, Like
<1>2. HaveLargest(m) => HaveLargest(n)
  <2> SUFFICES ASSUME HaveLargest(m), NEW S \in SUBSET DOMAIN n, S # {}
               PROVE  \E k \in S : \A l \in S : n[l].mId <= n[k].mId
    BY DEF HaveLargest
  <2>1. PICK k \in S : \A l \in S : m[l].mId <= m[k].mId
    BY DEF HaveLargest, Like
  <2>2. \A l \in S : n[l].mId <= n[k].mId
    BY <2>1 DEF Like
  <2> QED
    BY <2>2
<1>3. Owned(m) => Owned(n)
  BY DEF Owned, Like
<1> QED
  BY <1>1, <1>2, <1>3 DEF Sound, RosterOf, NameOf, Like

LEMMA RosterOfSound ==
  ASSUME NEW m \in ProfileMaps
  PROVE  /\ RosterOf(m) \in Rosters /\ DOMAIN RosterOf(m) = DOMAIN m
         /\ RosterOf(m) \notin {NoFile, Torn}
         /\ IdsIn(RosterOf(m)) = {m[k].mId : k \in DOMAIN m}
         /\ Sound(m) => Sound(RosterOf(m))
<1> DEFINE r == RosterOf(m)
<1>1. DOMAIN m \subseteq Keys /\ m \in [DOMAIN m -> Profile]
  BY MapOfProfiles
<1>2. /\ DOMAIN r = DOMAIN m
      /\ \A k \in DOMAIN m : r[k].mId = m[k].mId /\ r[k].person = m[k].person
  BY DEF RosterOf
<1>3. r \in [DOMAIN m -> Summary]
  BY <1>1 DEF RosterOf, Summary, Profile
<1>4. r \in Rosters
  BY <1>1, <1>3 DEF Rosters
<1>5. r \notin {NoFile, Torn}
  BY <1>4, MapOfSummaries
<1> HIDE DEF r
<1>6. IdsIn(r) = {m[k].mId : k \in DOMAIN m}
  BY <1>2, <1>5 DEF IdsIn
<1>7. HaveLargest(m) => HaveLargest(r)
  <2> SUFFICES ASSUME HaveLargest(m), NEW S \in SUBSET DOMAIN r, S # {}
               PROVE  \E k \in S : \A l \in S : r[l].mId <= r[k].mId
    BY DEF HaveLargest
  <2>1. PICK k \in S : \A l \in S : m[l].mId <= m[k].mId
    BY <1>2 DEF HaveLargest
  <2>2. \A l \in S : r[l].mId <= r[k].mId
    BY <1>2, <2>1
  <2> QED
    BY <2>2
<1>8. Sound(m) => Sound(r)
  BY <1>2, <1>7 DEF Sound, DistinctIds, Owned
<1> QED
  BY <1>2, <1>4, <1>5, <1>6, <1>8 DEF r

LEMMA RestrictSound ==
  ASSUME NEW m \in ProfileMaps, NEW g
  PROVE  LET rest == [k \in DOMAIN m \ {g} |-> m[k]]
         IN  rest \in ProfileMaps /\ (Sound(m) => Sound(rest))
<1> DEFINE rest == [k \in DOMAIN m \ {g} |-> m[k]]
<1>1. DOMAIN m \subseteq Keys /\ m \in [DOMAIN m -> Profile]
  BY MapOfProfiles
<1>2. rest \in [DOMAIN m \ {g} -> Profile]
  BY <1>1
<1>3. rest \in ProfileMaps
  BY <1>1, <1>2, ProfilesMap
<1>4. DOMAIN rest = DOMAIN m \ {g} /\ \A k \in DOMAIN rest : rest[k] = m[k]
  OBVIOUS
<1> HIDE DEF rest
<1>5. HaveLargest(m) => HaveLargest(rest)
  <2> SUFFICES ASSUME HaveLargest(m), NEW S \in SUBSET DOMAIN rest, S # {}
               PROVE  \E k \in S : \A l \in S : rest[l].mId <= rest[k].mId
    BY DEF HaveLargest
  <2>1. PICK k \in S : \A l \in S : m[l].mId <= m[k].mId
    BY <1>4 DEF HaveLargest
  <2>2. \A l \in S : rest[l].mId <= rest[k].mId
    BY <1>4, <2>1
  <2> QED
    BY <2>2
<1>6. Sound(m) => Sound(rest)
  BY <1>4, <1>5 DEF Sound, DistinctIds, Owned
<1> QED
  BY <1>3, <1>6 DEF rest

LEMMA RenameSound ==
  ASSUME NEW m \in ProfileMaps, NEW old \in DOMAIN m, NEW name \in Name,
         name.key \notin DOMAIN m \ {old}
  PROVE  LET renamed == RenameProfile(m, old, name)
         IN  /\ renamed \in ProfileMaps /\ (Sound(m) => Sound(renamed))
             /\ DOMAIN renamed = (DOMAIN m \ {old}) \union {name.key}
             /\ renamed[name.key].mId = m[old].mId /\ renamed[name.key].form = name.form
             /\ \A k \in DOMAIN m \ {old} : renamed[k] = m[k]
<1> DEFINE renamed == RenameProfile(m, old, name)
           from(k) == IF k = name.key THEN old ELSE k
<1>1. DOMAIN m \subseteq Keys /\ m \in [DOMAIN m -> Profile]
  BY MapOfProfiles
<1>2. name.key \in Keys /\ name.form \in Forms
  BY DEF Name
<1>3. [m[old] EXCEPT !.form = name.form] \in Profile
  BY <1>1, <1>2 DEF Profile
<1>4. renamed \in [(DOMAIN m \ {old}) \union {name.key} -> Profile]
  BY <1>1, <1>3 DEF RenameProfile
<1>5. renamed \in ProfileMaps /\ DOMAIN renamed = (DOMAIN m \ {old}) \union {name.key}
  <2> HIDE DEF renamed
  <2>1. (DOMAIN m \ {old}) \union {name.key} \in SUBSET Keys
    BY <1>1, <1>2
  <2> QED
    BY <1>4, <2>1, ProfilesMap
<1>6. renamed[name.key] = [m[old] EXCEPT !.form = name.form]
  BY DEF RenameProfile
<1>7. /\ renamed[name.key].mId = m[old].mId /\ renamed[name.key].form = name.form
      /\ renamed[name.key].person = m[old].person
  <2>1. m[old] \in Profile
    BY <1>1
  <2> HIDE DEF renamed
  <2> QED
    BY <1>6, <2>1 DEF Profile
<1>8. \A k \in DOMAIN m \ {old} : renamed[k] = m[k] /\ k # name.key
  BY DEF RenameProfile
<1> HIDE DEF renamed
<1>9. \A k \in DOMAIN renamed :
        /\ from(k) \in DOMAIN m
        /\ renamed[k].mId = m[from(k)].mId /\ renamed[k].person = m[from(k)].person
  BY <1>5, <1>7, <1>8
<1>10. \A k, l \in DOMAIN renamed : from(k) = from(l) => k = l
  BY <1>5, <1>8
<1> HIDE DEF from
<1>11. HaveLargest(m) => HaveLargest(renamed)
  <2> SUFFICES ASSUME HaveLargest(m), NEW S \in SUBSET DOMAIN renamed, S # {}
               PROVE  \E k \in S : \A l \in S : renamed[l].mId <= renamed[k].mId
    BY DEF HaveLargest
  <2> DEFINE T == {from(k) : k \in S}
  <2>1. T \in SUBSET DOMAIN m /\ T # {}
    BY <1>9
  <2>2. PICK t \in T : \A l \in T : m[l].mId <= m[t].mId
    BY <2>1 DEF HaveLargest
  <2>3. PICK k \in S : t = from(k)
    OBVIOUS
  <2>4. \A l \in S : renamed[l].mId <= renamed[k].mId
    BY <1>9, <2>2, <2>3
  <2> QED
    BY <2>4
<1>12. DistinctIds(m) => DistinctIds(renamed)
  BY <1>9, <1>10 DEF DistinctIds
<1>13. Owned(m) => Owned(renamed)
  BY <1>9 DEF Owned
<1> QED
  BY <1>5, <1>7, <1>8, <1>11, <1>12, <1>13 DEF Sound, renamed

LEMMA NextIdBound ==
  ASSUME NEW m \in ProfileMaps, HaveLargest(m)
  PROVE  NextId(m) \in 1..MaxId + 1 /\ \A k \in DOMAIN m : m[k].mId < NextId(m)
<1>1. m \in [DOMAIN m -> Profile]
  BY MapOfProfiles
<1>2. \A k \in DOMAIN m : m[k].mId \in 1..MaxId
  BY <1>1 DEF Profile, Ids
<1>3. CASE DOMAIN m = {}
  BY <1>3, ProfilesAssumption DEF NextId
<1>4. CASE DOMAIN m # {}
  <2> DEFINE largest == CHOOSE n \in {m[k].mId : k \in DOMAIN m} : \A k \in DOMAIN m : m[k].mId <= n
  <2>1. PICK k \in DOMAIN m : \A l \in DOMAIN m : m[l].mId <= m[k].mId
    BY <1>4 DEF HaveLargest
  <2>2. \E n \in {m[l].mId : l \in DOMAIN m} : \A l \in DOMAIN m : m[l].mId <= n
    BY <2>1
  <2>3. largest \in {m[l].mId : l \in DOMAIN m} /\ \A l \in DOMAIN m : m[l].mId <= largest
    BY <2>2
  <2>4. NextId(m) = 1 + largest
    BY <1>4 DEF NextId
  <2> HIDE DEF largest
  <2> QED
    BY <1>2, <2>3, <2>4, ProfilesAssumption
<1> QED
  BY <1>3, <1>4

LEMMA FirstInMap ==
  ASSUME NEW m \in ProfileMaps, DOMAIN m # {}
  PROVE  First(m) \in DOMAIN m
<1>1. DOMAIN m \in SUBSET Keys
  BY MapOfProfiles
<1>2. \E k \in DOMAIN m : \A l \in DOMAIN m : k <= l
  BY <1>1, OrderAssumption
<1> QED
  BY <1>2 DEF First

LEMMA LoadSound ==
  ASSUME Types, users \notin {NoFile, Torn} => Sound(users)
  PROVE  Load \in ProfileMaps /\ Sound(Load) /\ RosterIs(Load)
<1>1. CASE users \in {NoFile, Torn}
  <2>1. Load = <<>>
    BY <1>1 DEF Load
  <2>2. DOMAIN Load = {}
    BY <2>1
  <2>3. Load \in [{} -> Profile]
    BY <2>1
  <2>4. Load \in ProfileMaps
    BY <2>3, ProfilesMap
  <2> QED
    BY <1>1, <2>2, <2>4 DEF Sound, DistinctIds, HaveLargest, Owned, RosterIs
<1>2. CASE users \notin {NoFile, Torn}
  <2>1. users \in Rosters
    BY <1>2 DEF Types
  <2>2. DOMAIN users \subseteq Keys /\ users \in [DOMAIN users -> Summary]
    BY <2>1, MapOfSummaries
  <2>3. 0 \in Progress
    BY ProfilesAssumption DEF Progress
  <2>4. Load = [k \in DOMAIN users |->
                  [form |-> users[k].form, mId |-> users[k].mId,
                   person |-> users[k].person, progress |-> 0]]
    BY <1>2 DEF Load
  <2>5. Load \in [DOMAIN users -> Profile]
    BY <2>2, <2>3, <2>4 DEF Profile, Summary
  <2>6. Load \in ProfileMaps /\ DOMAIN Load = DOMAIN users
    BY <2>2, <2>5, ProfilesMap
  <2>7. \A k \in DOMAIN users : /\ Load[k].form = users[k].form /\ Load[k].mId = users[k].mId
                                /\ Load[k].person = users[k].person
    BY <2>4
  <2>8. users = RosterOf(Load)
    <3>1. \A k \in DOMAIN users : users[k] = [form |-> users[k].form, mId |-> users[k].mId,
                                            person |-> users[k].person]
      BY <2>2 DEF Summary
    <3> QED
      BY <2>2, <2>6, <2>7, <3>1 DEF RosterOf
  <2>9. HaveLargest(Load)
    <3> SUFFICES ASSUME NEW S \in SUBSET DOMAIN Load, S # {}
                 PROVE  \E k \in S : \A l \in S : Load[l].mId <= Load[k].mId
      BY DEF HaveLargest
    <3>1. PICK k \in S : \A l \in S : users[l].mId <= users[k].mId
      BY <1>2, <2>6 DEF Sound, HaveLargest
    <3>2. \A l \in S : Load[l].mId <= Load[k].mId
      BY <2>6, <2>7, <3>1
    <3> QED
      BY <3>2
  <2>10. DistinctIds(Load) /\ Owned(Load)
    BY <1>2, <2>6, <2>7 DEF Sound, DistinctIds, Owned
  <2> QED
    BY <1>2, <2>6, <2>8, <2>9, <2>10 DEF Sound, RosterIs
<1> QED
  BY <1>1, <1>2

-----------------------------------------------------------------------------
(* What the handlers write.                                                  *)

LEMMA ProfileWrites ==
  ASSUME NEW p \in Profile
  PROVE  /\ p.mId \in Ids /\ p.person \in Person /\ DetailsOf(p) \in Details
         /\ \A w \in {WriteSaved(p), WriteDetails(p), EraseSaved(p), EraseDetails(p)} :
              w \in Writes /\ WriteOK(w) /\ ~IsRoster(w) /\ w.id = p.mId
         /\ WriteSaved(p).file = "saved" /\ WriteSaved(p).content = p.person
         /\ WriteDetails(p).file = "details" /\ WriteDetails(p).content = DetailsOf(p)
         /\ EraseSaved(p).file = "saved" /\ EraseSaved(p).content = NoFile
         /\ EraseDetails(p).file = "details" /\ EraseDetails(p).content = NoFile
         /\ DetailsOf(p).person = p.person
<1>1. p.mId \in Ids /\ p.person \in Person /\ p.progress \in Progress
  BY DEF Profile
<1>2. DetailsOf(p) \in Details /\ DetailsOf(p).person = p.person
  BY <1>1 DEF DetailsOf, Details
<1> QED
  BY <1>1, <1>2
     DEF WriteSaved, WriteDetails, EraseSaved, EraseDetails, Writes, Contents, WriteOK, IsRoster

LEMMA RosterWrites ==
  ASSUME NEW m \in ProfileMaps
  PROVE  /\ WriteRoster(m) \in Writes /\ WriteOK(WriteRoster(m)) /\ IsRoster(WriteRoster(m))
         /\ WriteRoster(m).content = RosterOf(m)
BY RosterOfSound DEF WriteRoster, Writes, Contents, WriteOK, IsRoster

LEMMA CurUserWrites ==
  ASSUME NEW k \in Keys
  PROVE  /\ WriteCurUser(k) \in Writes /\ WriteOK(WriteCurUser(k))
         /\ WriteCurUser(k).file = "curUser"
BY DEF WriteCurUser, Writes, Contents, WriteOK

\* Between two handlers the players in memory are those of the roster on disk.
LEMMA IdleRoster ==
  ASSUME IInv, running # "off", writes = <<>>
  PROVE  /\ RosterIs(mProfileMap)
         /\ IdsIn(users) = {mProfileMap[k].mId : k \in DOMAIN mProfileMap}
         /\ \A k \in DOMAIN mProfileMap :
              /\ mProfileMap[k] \in Profile /\ mProfileMap[k].mId \in IdsIn(users)
              /\ mProfileMap[k].person = owner[mProfileMap[k].mId]
<1>1. DOMAIN writes = {}
  OBVIOUS
<1>2. RosterIs(mProfileMap)
  BY <1>1 DEF IInv, RosterCurrent
<1>3. mProfileMap \in ProfileMaps /\ Sound(mProfileMap)
  BY DEF IInv, Types, Sounds
<1>4. IdsIn(users) = {mProfileMap[k].mId : k \in DOMAIN mProfileMap}
  <2>1. CASE users \in {NoFile, Torn}
    BY <1>2, <2>1 DEF RosterIs, IdsIn
  <2>2. CASE users \notin {NoFile, Torn}
    BY <1>2, <1>3, <2>2, RosterOfSound DEF RosterIs
  <2> QED
    BY <2>1, <2>2
<1> QED
  BY <1>2, <1>3, <1>4, MapOfProfiles DEF Sound, Owned

\* A handler that writes only files of the player p, and CurUser.
LEMMA OwnWrites ==
  ASSUME IInv, NEW p \in Profile, p.mId \in IdsIn(users), p.person = owner[p.mId],
         NEW q \in Seq(Writes), writes' = q,
         \A i \in DOMAIN q : \/ q[i] \in {WriteSaved(p), WriteDetails(p), EraseSaved(p)}
                             \/ \E k \in Keys : q[i] = WriteCurUser(k),
         UNCHANGED <<disk, owner, rosterTorn>>
  PROVE  /\ \A i \in DOMAIN q : WriteOK(q[i]) /\ ~IsRoster(q[i])
         /\ (rosterTorn \/ (FilesListed /\ ErasedFirst /\ WritesBelong))'
         /\ FilesBelong'
<1>1. \A i \in DOMAIN q : WriteOK(q[i]) /\ ~IsRoster(q[i])
  BY ProfileWrites, CurUserWrites DEF IsRoster
<1>2. FilesBelong' /\ (rosterTorn \/ FilesListed)'
  BY DEF IInv, FilesBelong, FilesListed, IdsIn, disk
<1>3. ErasedFirst'
  BY <1>1 DEF ErasedFirst
<1>4. WritesBelong'
  <2> SUFFICES ASSUME NEW i \in DOMAIN q, q[i].file \in {"details", "saved"}, q[i].content # NoFile
               PROVE  /\ q[i].id \in IdsIn(users)
                      /\ q[i].file = "details" => q[i].content.person = owner[q[i].id]
                      /\ q[i].file = "saved" => q[i].content = owner[q[i].id]
    BY <1>1, ZenonT(40) DEF WritesBelong, IdsIn, disk
  <2>1. q[i] \in {WriteSaved(p), WriteDetails(p)}
    BY ProfileWrites, CurUserWrites
  <2> QED
    BY <2>1, ProfileWrites
<1> QED
  BY <1>1, <1>2, <1>3, <1>4

-----------------------------------------------------------------------------
(* Every step keeps the invariant.                                           *)

LEMMA InitInv == Init => IInv
<1> SUFFICES ASSUME Init PROVE IInv
  OBVIOUS
<1>1. <<>> \in ProfileMaps /\ DOMAIN mProfileMap = {}
  <2>1. <<>> \in [{} -> Profile]
    OBVIOUS
  <2> QED
    BY <2>1, ProfilesMap DEF Init
<1>2. Types
  <2>1. mUserList \in Seq(Name) /\ writes \in Seq(Writes) /\ DOMAIN writes = {}
    BY DEF Init
  <2>2. mNextProfileId \in 1..MaxId + 1 /\ persons \in 0..MaxPersons
    BY ProfilesAssumption DEF Init
  <2>3. /\ details \in [Ids -> Details \union {NoFile, Torn}]
        /\ saved \in [Ids -> Person \union {NoFile, Torn}] /\ owner \in [Ids -> Person \union {0}]
    BY DEF Init
  <2> QED
    BY <1>1, <2>1, <2>2, <2>3 DEF Init, Types
<1>3. PlayerListed
  BY <1>1 DEF Init, PlayerListed
<1>4. Sounds
  BY <1>1 DEF Init, Sounds, Sound, DistinctIds, HaveLargest, Owned
<1>5. Scenes /\ RosterCurrent /\ FilesListed /\ ErasedFirst /\ WritesBelong
  BY <1>1 DEF Init, Scenes, RosterCurrent, FilesListed, ErasedFirst, WritesBelong
<1>6. FilesBelong
  BY DEF Init, FilesBelong
<1> QED
  BY <1>2, <1>3, <1>4, <1>5, <1>6 DEF IInv

LEMMA WriteInv == IInv /\ Write => IInv'
<1> SUFFICES ASSUME IInv, Write PROVE IInv'
  OBVIOUS
<1> DEFINE w == writes[1]
<1>0. writes \in Seq(Writes) /\ writes # <<>>
  BY DEF IInv, Types, Write
<1>1. /\ 1 \in DOMAIN writes /\ Head(writes) = w /\ w \in Writes
      /\ writes' \in Seq(Writes) /\ Len(writes') = Len(writes) - 1
      /\ DOMAIN writes' = 1..Len(writes) - 1 /\ DOMAIN writes = 1..Len(writes)
      /\ \A i \in DOMAIN writes' : writes'[i] = writes[i + 1]
  BY <1>0 DEF Write
<1>2. WriteOK(w)
  BY <1>1 DEF IInv, Types
<1>3. Becomes(w, w.content)
  BY <1>1 DEF Write
<1>4. UNCHANGED <<running, mDialog, mUserList, mProfileMap, mNextProfileId, mPlayerInfo,
                  persons, owner, rosterTorn>>
  BY DEF Write, memory, history
<1> HIDE DEF w
<1>5. Types'
  <2>1. users' \in Rosters \union {NoFile, Torn} /\ curUser' \in Keys \union {None}
    BY <1>2, <1>3 DEF IInv, Types, Becomes, WriteOK
  <2>2. details' \in [Ids -> Details \union {NoFile, Torn}]
    BY <1>2, <1>3 DEF IInv, Types, Becomes, WriteOK
  <2>3. saved' \in [Ids -> Person \union {NoFile, Torn}]
    BY <1>2, <1>3 DEF IInv, Types, Becomes, WriteOK
  <2>4. ASSUME NEW i \in DOMAIN writes'
        PROVE  WriteOK(writes'[i])
    <3>1. i + 1 \in DOMAIN writes /\ writes'[i] = writes[i + 1]
      BY <1>1
    <3>2. WriteOK(writes[i + 1])
      BY <3>1 DEF IInv, Types
    <3> QED
      BY <3>1, <3>2 DEF WriteOK
  <2> QED
    BY <1>1, <1>4, <2>1, <2>2, <2>3, <2>4 DEF IInv, Types
<1>6. Scenes' /\ PlayerListed'
  BY <1>4 DEF IInv, Scenes, PlayerListed, NameOf
<1>7. IsRoster(w) => /\ running # "off" /\ Len(writes) = 1 /\ writes' = <<>>
                     /\ w.content = RosterOf(mProfileMap) /\ users' = RosterOf(mProfileMap)
                     /\ users' \notin {NoFile, Torn}
                     /\ details' = details /\ saved' = saved
  <2> SUFFICES ASSUME IsRoster(w)
               PROVE  /\ running # "off" /\ Len(writes) = 1 /\ writes' = <<>>
                      /\ w.content = RosterOf(mProfileMap) /\ users' = RosterOf(mProfileMap)
                      /\ users' \notin {NoFile, Torn}
                      /\ details' = details /\ saved' = saved
    OBVIOUS
  <2>1. running # "off" /\ Len(writes) = 1 /\ w.content = RosterOf(mProfileMap)
    BY <1>1 DEF IInv, RosterCurrent, w
  <2>2. writes' = <<>>
    BY <1>1, <2>1
  <2>3. users' = RosterOf(mProfileMap) /\ details' = details /\ saved' = saved
    BY <1>3, <2>1 DEF Becomes, IsRoster
  <2>4. mProfileMap \in ProfileMaps
    BY DEF IInv, Types
  <2> QED
    BY <2>1, <2>2, <2>3, <2>4, RosterOfSound
<1>8. ~IsRoster(w) => users' = users
  BY <1>3 DEF Becomes, IsRoster
<1>9. Sound(mProfileMap) /\ mProfileMap \in ProfileMaps
  BY DEF IInv, Sounds, Types
<1>10. Sounds'
  <2>1. Sound(mProfileMap)'
    BY <1>4, <1>9 DEF Sound, DistinctIds, HaveLargest, Owned
  <2>2. CASE IsRoster(w)
    <3>1. Sound(RosterOf(mProfileMap))
      BY <1>9, RosterOfSound
    <3>2. Sound(users)'
      BY <1>4, <1>7, <2>2, <3>1 DEF Sound, DistinctIds, HaveLargest, Owned
    <3> QED
      BY <2>1, <3>2 DEF Sounds
  <2>3. CASE ~IsRoster(w)
    <3>1. (users \notin {NoFile, Torn} => Sound(users))'
      BY <1>4, <1>8, <2>3 DEF IInv, Sounds, Sound, DistinctIds, HaveLargest, Owned
    <3> QED
      BY <2>1, <3>1 DEF Sounds
  <2> QED
    BY <2>2, <2>3
<1>11. RosterCurrent'
  <2>1. CASE IsRoster(w)
    BY <1>4, <1>7, <2>1 DEF RosterCurrent, RosterIs
  <2>2. CASE ~IsRoster(w)
    <3>1. \A i \in DOMAIN writes' : IsRoster(writes'[i]) =>
            running # "off" /\ i = Len(writes') /\ writes'[i].content = RosterOf(mProfileMap)
      BY <1>1 DEF IInv, RosterCurrent
    <3>2. running # "off" => RosterIs(mProfileMap)
                             \/ \E i \in DOMAIN writes : IsRoster(writes[i])
      BY DEF IInv, RosterCurrent
    <3>3. ASSUME NEW i \in DOMAIN writes, IsRoster(writes[i])
          PROVE  i - 1 \in DOMAIN writes' /\ IsRoster(writes'[i - 1])
      BY <1>1, <2>2, <3>3 DEF w
    <3>4. running # "off" => RosterIs(mProfileMap)
                             \/ \E i \in DOMAIN writes' : IsRoster(writes'[i])
      BY <3>2, <3>3
    <3> QED
      BY <1>4, <1>8, <2>2, <3>1, <3>4 DEF RosterCurrent, RosterIs
  <2> QED
    BY <2>1, <2>2
<1>12. ASSUME ~rosterTorn
       PROVE  (FilesListed /\ ErasedFirst /\ WritesBelong)' /\ FilesBelong'
  <2>1. FilesListed /\ ErasedFirst /\ WritesBelong /\ FilesBelong
    BY <1>12 DEF IInv
  <2>2. CASE IsRoster(w)
    <3>1. FilesListed'
      BY <1>1, <1>7, <2>1, <2>2 DEF FilesListed, ErasedFirst, w
    <3>2. ErasedFirst' /\ WritesBelong'
      BY <1>7, <2>2 DEF ErasedFirst, WritesBelong
    <3>3. FilesBelong'
      BY <1>4, <1>7, <2>1, <2>2 DEF FilesBelong
    <3> QED
      BY <3>1, <3>2, <3>3
  <2>3. CASE ~IsRoster(w)
    <3>0. IdsIn(users)' = IdsIn(users) /\ details \in [Ids -> Details \union {NoFile, Torn}]
          /\ saved \in [Ids -> Person \union {NoFile, Torn}]
      BY <1>8, <2>3 DEF IdsIn, IInv, Types
    <3>1. \A id \in Ids : /\ details'[id] = details[id] \/ (w.file = "details" /\ w.id = id
                                                           /\ details'[id] = w.content)
                          /\ saved'[id] = saved[id] \/ (w.file = "saved" /\ w.id = id
                                                       /\ saved'[id] = w.content)
      BY <1>3, <3>0 DEF Becomes
    <3>2. w.file \in {"details", "saved"} /\ w.content # NoFile =>
            /\ w.id \in IdsIn(users) /\ \A j \in DOMAIN writes : ~IsRoster(writes[j])
            /\ w.file = "details" => w.content.person = owner[w.id]
            /\ w.file = "saved" => w.content = owner[w.id]
      BY <1>1, <2>1 DEF WritesBelong, w
    <3>3. FilesListed'
      BY <2>1, <3>0, <3>1, <3>2 DEF FilesListed
    <3>4. ErasedFirst'
      <4> SUFFICES ASSUME NEW i \in DOMAIN writes', IsRoster(writes'[i]),
                          NEW id \in Ids \ IdsIn(writes'[i].content)
                   PROVE  /\ details'[id] = NoFile \/ \E j \in 1..i - 1 :
                               writes'[j].file = "details" /\ writes'[j].id = id
                          /\ saved'[id] = NoFile \/ \E j \in 1..i - 1 :
                               writes'[j].file = "saved" /\ writes'[j].id = id
        BY DEF ErasedFirst, IdsIn
      <4>1. i + 1 \in DOMAIN writes /\ writes[i + 1] = writes'[i]
        BY <1>1
      <4>2. /\ details[id] = NoFile \/ \E j \in 1..i : writes[j].file = "details" /\ writes[j].id = id
            /\ saved[id] = NoFile \/ \E j \in 1..i : writes[j].file = "saved" /\ writes[j].id = id
        BY <1>1, <2>1, <4>1 DEF ErasedFirst
      <4>3. w.file \in {"details", "saved"} => w.content = NoFile
        BY <3>2, <4>1
      <4>4. /\ w.file = "details" => details'[w.id] = NoFile
            /\ w.file = "saved" => saved'[w.id] = NoFile
        BY <1>2, <1>3, <3>0, <4>3 DEF Becomes, WriteOK
      <4>5. ASSUME NEW j \in 1..i
            PROVE  writes[j] = w \/ (j - 1 \in 1..i - 1 /\ writes'[j - 1] = writes[j])
        BY <1>1, SMTT(30) DEF w
      <4>6. details'[id] = NoFile \/ \E j \in 1..i - 1 :
              writes'[j].file = "details" /\ writes'[j].id = id
        <5>1. CASE details[id] = NoFile
          BY <3>1, <4>3, <5>1
        <5>2. CASE \E j \in 1..i : writes[j].file = "details" /\ writes[j].id = id
          BY <4>4, <4>5, <5>2
        <5> QED
          BY <4>2, <5>1, <5>2
      <4>7. saved'[id] = NoFile \/ \E j \in 1..i - 1 :
              writes'[j].file = "saved" /\ writes'[j].id = id
        <5>1. CASE saved[id] = NoFile
          BY <3>1, <4>3, <5>1
        <5>2. CASE \E j \in 1..i : writes[j].file = "saved" /\ writes[j].id = id
          BY <4>4, <4>5, <5>2
        <5> QED
          BY <4>2, <5>1, <5>2
      <4> QED
        BY <4>6, <4>7
    <3>5. WritesBelong'
      BY <1>1, <1>4, <2>1, <3>0 DEF WritesBelong
    <3>6. FilesBelong'
      BY <1>4, <2>1, <1>12, <3>1, <3>2 DEF FilesBelong
    <3> QED
      BY <3>3, <3>4, <3>5, <3>6
  <2> QED
    BY <2>2, <2>3
<1>13. rosterTorn => FilesBelong'
  BY <1>4 DEF FilesBelong
<1> QED
  BY <1>4, <1>5, <1>6, <1>10, <1>11, <1>12, <1>13 DEF IInv

LEMMA SoundNext ==
  ASSUME NEW m, Sound(m), mProfileMap' = m, owner' = owner
  PROVE  Sound(mProfileMap)'
BY DEF Sound, DistinctIds, HaveLargest, Owned

LEMMA SoundUsers ==
  ASSUME IInv, users' = users, owner' = owner
  PROVE  (users \notin {NoFile, Torn} => Sound(users))'
BY DEF IInv, Sounds, Sound, DistinctIds, HaveLargest, Owned

\* The next id is above those in use, and they are distinct.
LEMMA ListedIds ==
  ASSUME IInv
  PROVE  \A k, l \in DOMAIN mProfileMap :
           /\ mProfileMap[k].mId < mNextProfileId
           /\ mProfileMap[k].mId = mProfileMap[l].mId => k = l
BY DEF IInv, PlayerListed

\* Nothing is written, nothing is on its way, nobody is given an id.
LEMMA QuietFiles ==
  ASSUME IInv, UNCHANGED <<writes, disk, owner, rosterTorn>>
  PROVE  (rosterTorn \/ (FilesListed /\ ErasedFirst /\ WritesBelong))' /\ FilesBelong'
<1>1. ~rosterTorn => FilesListed' /\ ErasedFirst' /\ WritesBelong'
  BY DEF IInv, FilesListed, ErasedFirst, WritesBelong, IdsIn, disk
<1>2. FilesBelong'
  BY DEF IInv, FilesBelong, disk
<1> QED
  BY <1>1, <1>2

LEMMA CrashInv == IInv /\ Crash => IInv'
<1> SUFFICES ASSUME IInv, Crash PROVE IInv'
  OBVIOUS
<1>1. Gone /\ writes' = <<>> /\ DOMAIN writes' = {} /\ UNCHANGED <<persons, owner>>
  BY DEF Crash
<1>2. mProfileMap' \in ProfileMaps /\ DOMAIN mProfileMap' = {}
  <2>1. <<>> \in [{} -> Profile]
    OBVIOUS
  <2> QED
    BY <1>1, <2>1, ProfilesMap DEF Gone
<1> DEFINE w == writes[1]
<1>3. \/ UNCHANGED <<disk, rosterTorn>>
      \/ /\ 1 \in DOMAIN writes /\ WriteOK(w) /\ w.file # "curUser" /\ w.content # NoFile
         /\ Becomes(w, Torn) /\ rosterTorn' = (rosterTorn \/ w.file = "users")
  <2>1. writes \in Seq(Writes)
    BY DEF IInv, Types
  <2>2. writes # <<>> => Head(writes) = w /\ 1 \in DOMAIN writes
    BY <2>1
  <2>3. 1 \in DOMAIN writes => WriteOK(w)
    BY DEF IInv, Types
  <2> QED
    BY <2>2, <2>3 DEF Crash
<1> HIDE DEF w
<1>4. /\ users' \in Rosters \union {NoFile, Torn} /\ curUser' \in Keys \union {None}
      /\ details' \in [Ids -> Details \union {NoFile, Torn}]
      /\ saved' \in [Ids -> Person \union {NoFile, Torn}] /\ rosterTorn' \in BOOLEAN
  BY <1>3 DEF IInv, Types, Becomes, WriteOK, disk
<1>5. mNextProfileId' \in 1..MaxId + 1 /\ mUserList' \in Seq(Name) /\ writes' \in Seq(Writes)
  BY <1>1, ProfilesAssumption DEF Gone
<1>6. Types'
  BY <1>1, <1>2, <1>4, <1>5 DEF Gone, IInv, Types
<1>7. Scenes' /\ PlayerListed' /\ RosterCurrent'
  BY <1>1, <1>2 DEF Gone, Scenes, PlayerListed, RosterCurrent
<1>8. Sounds'
  <2>1. Sound(mProfileMap)'
    BY <1>2 DEF Sound, DistinctIds, HaveLargest, Owned
  <2>2. users' \in {users, Torn}
    BY <1>3 DEF Becomes, disk
  <2>3. (users \notin {NoFile, Torn} => Sound(users))'
    BY <1>1, <2>2, SoundUsers
  <2> QED
    BY <2>1, <2>3 DEF Sounds
<1>9. ASSUME ~rosterTorn'
      PROVE  FilesListed' /\ FilesBelong'
  <2>0. ~rosterTorn
    BY <1>3, <1>9
  <2>1. FilesListed /\ WritesBelong /\ FilesBelong
    BY <2>0 DEF IInv
  <2>2. IdsIn(users)' = IdsIn(users)
    BY <1>3, <1>9 DEF Becomes, IdsIn, disk
  <2>3. \A id \in Ids :
          /\ details'[id] = details[id] \/ (details'[id] = Torn /\ id \in IdsIn(users))
          /\ saved'[id] = saved[id] \/ (saved'[id] = Torn /\ id \in IdsIn(users))
    <3>1. CASE UNCHANGED <<disk, rosterTorn>>
      BY <3>1 DEF disk
    <3>2. CASE 1 \in DOMAIN writes /\ w.content # NoFile /\ Becomes(w, Torn)
      <4>1. w.file \in {"details", "saved"} => w.id \in IdsIn(users)
        BY <2>1, <3>2 DEF WritesBelong, w
      <4>2. /\ details \in [Ids -> Details \union {NoFile, Torn}]
            /\ saved \in [Ids -> Person \union {NoFile, Torn}]
        BY DEF IInv, Types
      <4> QED
        BY <3>2, <4>1, <4>2 DEF Becomes
    <3> QED
      BY <1>3, <3>1, <3>2
  <2>4. FilesListed'
    BY <2>1, <2>2, <2>3 DEF FilesListed
  <2>5. FilesBelong'
    BY <1>1, <2>0, <2>1, <2>3 DEF FilesBelong
  <2> QED
    BY <2>4, <2>5
<1>10. ErasedFirst' /\ WritesBelong'
  BY <1>1 DEF ErasedFirst, WritesBelong
<1>11. rosterTorn' => FilesBelong'
  BY DEF FilesBelong
<1> QED
  BY <1>6, <1>7, <1>8, <1>9, <1>10, <1>11 DEF IInv

LEMMA ShutdownInv == IInv /\ Shutdown => IInv'
<1> SUFFICES ASSUME IInv, Shutdown PROVE IInv'
  OBVIOUS
<1>1. /\ Gone /\ writes = <<>> /\ running # "off"
      /\ UNCHANGED <<disk, persons, owner, rosterTorn>>
  BY DEF Shutdown
<1>2. mProfileMap' \in ProfileMaps /\ DOMAIN mProfileMap' = {}
  <2>1. <<>> \in [{} -> Profile]
    OBVIOUS
  <2> QED
    BY <1>1, <2>1, ProfilesMap DEF Gone
<1>3. /\ writes' \in Seq(Writes)
      /\ \A i \in DOMAIN writes' : WriteOK(writes'[i]) /\ ~IsRoster(writes'[i])
      /\ (rosterTorn \/ (FilesListed /\ ErasedFirst /\ WritesBelong))' /\ FilesBelong'
  <2>1. CASE mPlayerInfo = None
    <3>1. UNCHANGED writes
      BY <2>1 DEF Shutdown
    <3>2. writes' \in Seq(Writes) /\ DOMAIN writes' = {}
      BY <1>1, <3>1
    <3> QED
      BY <1>1, <3>1, <3>2, QuietFiles
  <2>2. CASE mPlayerInfo # None
    <3> DEFINE p == mProfileMap[mPlayerInfo]
               q == ExitWrites(p)
    <3>1. mPlayerInfo \in DOMAIN mProfileMap /\ mPlayerInfo \in Keys
      BY <2>2 DEF IInv, PlayerListed, Types
    <3>2. p \in Profile /\ p.mId \in IdsIn(users) /\ p.person = owner[p.mId]
      BY <1>1, <3>1, IdleRoster
    <3>3. writes' = q
      BY <2>2 DEF Shutdown
    <3> HIDE DEF p
    <3>0. /\ WriteSaved(p) \in Writes /\ WriteDetails(p) \in Writes
          /\ WriteCurUser(mPlayerInfo) \in Writes
      BY <3>1, <3>2, ProfileWrites, CurUserWrites
    <3>4. \/ q = <<WriteSaved(p), WriteDetails(p), WriteCurUser(mPlayerInfo), WriteDetails(p)>>
          \/ q = <<WriteCurUser(mPlayerInfo), WriteDetails(p)>>
      BY DEF ExitWrites
    <3>5. q \in Seq(Writes)
      <4>1. CASE q = <<WriteCurUser(mPlayerInfo), WriteDetails(p)>>
        BY <3>0, <4>1
      <4>2. CASE q = <<WriteSaved(p), WriteDetails(p), WriteCurUser(mPlayerInfo), WriteDetails(p)>>
        BY <3>0, <4>2
      <4> QED
        BY <3>4, <4>1, <4>2
    <3>6. \A i \in DOMAIN q : \/ q[i] \in {WriteSaved(p), WriteDetails(p), EraseSaved(p)}
                              \/ \E k \in Keys : q[i] = WriteCurUser(k)
      <4>1. CASE q = <<WriteCurUser(mPlayerInfo), WriteDetails(p)>>
        BY <3>1, <4>1
      <4>2. CASE q = <<WriteSaved(p), WriteDetails(p), WriteCurUser(mPlayerInfo), WriteDetails(p)>>
        BY <3>1, <4>2
      <4> QED
        BY <3>4, <4>1, <4>2
    <3> HIDE DEF q
    <3> QED
      BY <1>1, <3>2, <3>3, <3>5, <3>6, OwnWrites
  <2> QED
    BY <2>1, <2>2
<1>4. mNextProfileId' \in 1..MaxId + 1 /\ mUserList' \in Seq(Name)
  BY <1>1, ProfilesAssumption DEF Gone
<1>5. Types'
  BY <1>1, <1>2, <1>3, <1>4 DEF Gone, IInv, Types, disk
<1>6. Scenes' /\ PlayerListed'
  BY <1>1, <1>2 DEF Gone, Scenes, PlayerListed
<1>7. RosterCurrent'
  BY <1>1, <1>3 DEF Gone, RosterCurrent
<1>8. Sounds'
  <2>1. Sound(mProfileMap)'
    BY <1>2 DEF Sound, DistinctIds, HaveLargest, Owned
  <2> QED
    BY <1>1, <2>1, SoundUsers DEF Sounds, disk
<1> QED
  BY <1>3, <1>5, <1>6, <1>7, <1>8 DEF IInv

LEMMA StartInv == IInv /\ Start => IInv'
<1> SUFFICES ASSUME IInv, Start PROVE IInv'
  OBVIOUS
<1> DEFINE player == StartingPlayer(Load)
           m      == GetProfile(Load, player)
<1>1. /\ running = "off" /\ running' = "menu" /\ writes = <<>>
      /\ mProfileMap' = m /\ mNextProfileId' = NextId(Load) /\ mPlayerInfo' = player
      /\ mDialog' = IF player = None THEN "create" ELSE "none"
      /\ UNCHANGED <<mUserList, writes, disk, persons, owner, rosterTorn>>
  BY DEF Start
<1>2. Load \in ProfileMaps /\ Sound(Load) /\ RosterIs(Load)
  BY LoadSound DEF IInv, Sounds
<1>3. Like(m, Load)
  BY <1>2, GetProfileLike DEF IInv
<1>4. Sound(m) /\ RosterOf(m) = RosterOf(Load)
  BY <1>2, <1>3, LikeSound
<1>5. player \in DOMAIN Load \/ player = None
  BY <1>2, FirstInMap DEF StartingPlayer
<1>6. DOMAIN Load \subseteq Keys
  BY <1>2, MapOfProfiles
<1>7. NextId(Load) \in 1..MaxId + 1 /\ \A k \in DOMAIN Load : Load[k].mId < NextId(Load)
  BY <1>2, NextIdBound DEF Sound
<1> HIDE DEF player, m
<1>8. Types'
  BY <1>1, <1>3, <1>5, <1>6, <1>7 DEF IInv, Types, Like, disk
<1>9. Scenes'
  BY <1>1 DEF Scenes
<1>10. PlayerListed'
  BY <1>1, <1>3, <1>4, <1>5, <1>7 DEF PlayerListed, Like, Sound, DistinctIds
<1>11. Sounds'
  BY <1>1, <1>4, SoundNext, SoundUsers DEF Sounds, disk
<1>12. RosterCurrent'
  <2>1. RosterIs(mProfileMap)'
    BY <1>1, <1>2, <1>3, <1>4 DEF RosterIs, Like, disk
  <2>2. DOMAIN writes' = {}
    BY <1>1
  <2> QED
    BY <2>1, <2>2 DEF RosterCurrent
<1> QED
  BY <1>1, <1>8, <1>9, <1>10, <1>11, <1>12, QuietFiles DEF IInv

LEMMA DoUserDialogInv == IInv /\ DoUserDialog => IInv'
<1> SUFFICES ASSUME IInv, DoUserDialog PROVE IInv'
  OBVIOUS
<1> DEFINE N == Cardinality(DOMAIN mProfileMap)
<1>1. /\ running = "menu" /\ mDialog = "none" /\ mDialog' = "user"
      /\ UNCHANGED <<running, mProfileMap, mNextProfileId, mPlayerInfo, writes, disk,
                     persons, owner, rosterTorn>>
  BY DEF DoUserDialog, Idle, memory, history
<1>2. PICK lines \in Lines : mUserList' = [i \in DOMAIN lines |-> NameOf(mProfileMap, lines[i])]
  BY DEF DoUserDialog
<1>3. /\ lines \in [1..N -> DOMAIN mProfileMap]
      /\ \A i \in 1..N : lines[i] = mPlayerInfo <=> i = 1
      /\ \A k \in DOMAIN mProfileMap : \E i \in 1..N : lines[i] = k
      /\ \A i, j \in (1..N) \ {1} : i < j => lines[i] < lines[j]
  BY DEF Lines
<1> HIDE DEF N
<1>4. DOMAIN mProfileMap \subseteq Keys /\ mProfileMap \in [DOMAIN mProfileMap -> Profile]
  BY MapOfProfiles DEF IInv, Types
<1>5. DOMAIN mUserList' = 1..N /\ \A i \in 1..N : mUserList'[i] = NameOf(mProfileMap, lines[i])
  BY <1>2, <1>3
<1>6. \A i \in 1..N : NameOf(mProfileMap, lines[i]) \in Name
  BY <1>3, <1>4 DEF NameOf, Name, Profile
<1>7. mUserList' \in Seq(Name)
  <2>1. DOMAIN mProfileMap # {}
    BY <1>1 DEF IInv, PlayerListed
  <2>2. 1..N # {}
    BY <1>3, <2>1
  <2>3. N \in Nat
    <3>1. IsFiniteSet(DOMAIN mProfileMap)
      BY <1>4, ProfilesAssumption, FS_Subset
    <3> QED
      BY <3>1, FS_CardinalityType DEF N
  <2> QED
    BY <1>2, <1>3, <1>6, <2>3
<1>8. \A i, j \in 1..N : lines[i] = lines[j] => i = j
  <2> SUFFICES ASSUME NEW i \in 1..N, NEW j \in 1..N, lines[i] = lines[j], i # j
               PROVE  FALSE
    OBVIOUS
  <2>1. i # 1 /\ j # 1
    BY <1>3
  <2>2. lines[i] \in Nat /\ N \in Int
    <3>1. IsFiniteSet(DOMAIN mProfileMap)
      BY <1>4, ProfilesAssumption, FS_Subset
    <3> QED
      BY <1>3, <1>4, <3>1, ProfilesAssumption, FS_CardinalityType DEF N
  <2> QED
    BY <1>3, <2>1, <2>2
<1>9. ToSet(mUserList') = {NameOf(mProfileMap, k) : k \in DOMAIN mProfileMap}
  BY <1>3, <1>5 DEF ToSet
<1>10. IsInjective(mUserList')
  BY <1>5, <1>8 DEF IsInjective, NameOf
<1>11. PlayerListed'
  BY <1>1, <1>9, <1>10 DEF IInv, PlayerListed, NameOf
<1>12. Types'
  BY <1>1, <1>7 DEF IInv, Types, disk
<1>13. Scenes' /\ RosterCurrent'
  BY <1>1 DEF IInv, Scenes, RosterCurrent, RosterIs, disk
<1>14. Sounds'
  BY <1>1, SoundNext, SoundUsers DEF IInv, Sounds, disk
<1> QED
  BY <1>1, <1>11, <1>12, <1>13, <1>14, QuietFiles DEF IInv

\* What is left to show where the map changes in what the players have achieved alone.
LEMMA LikeNext ==
  ASSUME IInv, running # "off", running' # "off", Like(mProfileMap', mProfileMap), owner' = owner,
         users' = users, writes = <<>>, \A i \in DOMAIN writes' : ~IsRoster(writes'[i])
  PROVE  Sounds' /\ RosterCurrent'
<1>1. Sound(mProfileMap') /\ RosterOf(mProfileMap') = RosterOf(mProfileMap)
  BY LikeSound DEF IInv, Sounds
<1> DEFINE m == mProfileMap'
<1>2. mProfileMap' = m /\ Sound(m)
  BY <1>1
<1> HIDE DEF m
<1>3. Sound(mProfileMap)'
  BY <1>2, SoundNext
<1>4. RosterIs(mProfileMap)'
  BY <1>1, IdleRoster DEF RosterIs, Like
<1> QED
  BY <1>3, <1>4, SoundUsers DEF Sounds, RosterCurrent

LEMMA FinishUserDialogInv == IInv /\ FinishUserDialog => IInv'
<1> SUFFICES ASSUME IInv, FinishUserDialog PROVE IInv'
  OBVIOUS
<1>1. /\ running = "menu" /\ mDialog = "user" /\ mDialog' = "none" /\ mUserList' = <<>>
      /\ writes = <<>>
      /\ UNCHANGED <<running, mNextProfileId, writes, disk, persons, owner, rosterTorn>>
  BY DEF FinishUserDialog, Idle, memory, history
<1>2. /\ Like(mProfileMap', mProfileMap)
      /\ mPlayerInfo' \in DOMAIN mProfileMap
  <2>0. mPlayerInfo \in DOMAIN mProfileMap /\ mProfileMap \in ProfileMaps
    BY <1>1 DEF IInv, PlayerListed, Types
  <2>1. CASE UNCHANGED memory
    BY <2>0, <2>1 DEF memory, Like
  <2>2. CASE \E i \in DOMAIN mUserList :
               /\ mUserList[i].key \in DOMAIN mProfileMap
               /\ mProfileMap' = GetProfile(mProfileMap, mUserList[i].key)
               /\ mPlayerInfo' = mUserList[i].key
    BY <2>0, <2>2, GetProfileLike DEF IInv
  <2> QED
    BY <2>1, <2>2 DEF FinishUserDialog
<1>3. DOMAIN mProfileMap \subseteq Keys
  BY MapOfProfiles DEF IInv, Types
<1>4. Types'
  BY <1>1, <1>2, <1>3 DEF IInv, Types, Like, disk
<1>5. PlayerListed'
  BY <1>1, <1>2, <1>3, ListedIds, ProfilesAssumption DEF PlayerListed, Like
<1>6. Scenes'
  BY <1>1 DEF Scenes
<1>7. DOMAIN writes' = {}
  BY <1>1
<1>8. Sounds' /\ RosterCurrent'
  BY <1>1, <1>2, <1>7, LikeNext DEF disk
<1> QED
  BY <1>1, <1>4, <1>5, <1>6, <1>8, QuietFiles DEF IInv

LEMMA CreateInv == IInv /\ FinishCreateUserDialog => IInv'
<1> SUFFICES ASSUME IInv, FinishCreateUserDialog PROVE IInv'
  OBVIOUS
<1> DEFINE m == mProfileMap
           n == mProfileMap'
           id == mNextProfileId
<1>1. /\ running = "menu" /\ writes = <<>> /\ id \in Ids /\ persons < MaxPersons
      /\ writes' = <<WriteRoster(n)>> /\ mNextProfileId' = id + 1 /\ persons' = persons + 1
      /\ owner' = [owner EXCEPT ![id] = persons + 1]
      /\ mDialog' = "none" /\ mUserList' = <<>>
      /\ UNCHANGED <<running, disk, rosterTorn>>
  BY DEF FinishCreateUserDialog, Idle
<1>2. PICK name \in Name :
        /\ name.key \notin DOMAIN m
        /\ n = [k \in DOMAIN m \union {name.key} |->
                  IF k = name.key
                  THEN [form |-> name.form, mId |-> id, person |-> persons + 1, progress |-> 0]
                  ELSE m[k]]
        /\ mPlayerInfo' = name.key
  BY DEF FinishCreateUserDialog
<1>3. DOMAIN m \subseteq Keys /\ m \in [DOMAIN m -> Profile] /\ name.key \in Keys
  BY MapOfProfiles DEF IInv, Types, Name
<1>4. n \in ProfileMaps /\ DOMAIN n = DOMAIN m \union {name.key}
  <2>1. persons + 1 \in Person /\ 0 \in Progress
    BY <1>1, ProfilesAssumption DEF IInv, Types, Person, Progress
  <2>2. [form |-> name.form, mId |-> id, person |-> persons + 1, progress |-> 0] \in Profile
    BY <1>1, <2>1 DEF Profile, Name
  <2>3. n \in [DOMAIN m \union {name.key} -> Profile]
    BY <1>2, <1>3, <2>2
  <2>4. DOMAIN m \union {name.key} \in SUBSET Keys
    BY <1>3
  <2> HIDE DEF n
  <2> QED
    BY <2>3, <2>4, ProfilesMap
<1>5. /\ n[name.key].mId = id /\ n[name.key].person = persons + 1
      /\ \A k \in DOMAIN m : n[k] = m[k] /\ k # name.key
  BY <1>2
<1>6. \A k \in DOMAIN m : m[k].mId \in Ids /\ m[k].mId < id
  BY <1>3, ListedIds DEF Profile
<1>7. Sound(m) /\ RosterIs(m) /\ IdsIn(users) = {m[k].mId : k \in DOMAIN m}
  BY <1>1, IdleRoster DEF IInv, Sounds
<1>8. \A k \in DOMAIN n : n[k].mId <= id /\ n[k].mId \in Ids
  BY <1>1, <1>4, <1>5, <1>6 DEF Ids
<1> HIDE DEF n
<1>9. HaveLargest(n)
  <2> SUFFICES ASSUME NEW S \in SUBSET DOMAIN n, S # {}
               PROVE  \E k \in S : \A l \in S : n[l].mId <= n[k].mId
    BY DEF HaveLargest
  <2>1. CASE name.key \in S
    BY <1>5, <1>8, <2>1
  <2>2. CASE name.key \notin S
    <3>1. S \in SUBSET DOMAIN m
      BY <1>4, <2>2
    <3>2. PICK k \in S : \A l \in S : m[l].mId <= m[k].mId
      BY <1>7, <3>1 DEF Sound, HaveLargest
    <3>3. \A l \in S : n[l].mId <= n[k].mId
      BY <1>5, <3>1, <3>2
    <3> QED
      BY <3>3
  <2> QED
    BY <2>1, <2>2
<1>10. DistinctIds(n)
  <2>1. \A k, l \in DOMAIN m : m[k].mId = m[l].mId => k = l
    BY <1>7 DEF Sound, DistinctIds
  <2>2. \A k \in DOMAIN m : n[k].mId = m[k].mId /\ m[k].mId # id
    BY <1>1, <1>5, <1>6 DEF Ids
  <2> QED
    BY <1>4, <1>5, <2>1, <2>2 DEF DistinctIds
<1>11. \A k \in DOMAIN n : n[k].person = owner'[n[k].mId]
  <2>1. owner \in [Ids -> Person \union {0}]
    BY DEF IInv, Types
  <2>2. \A k \in DOMAIN m : m[k].person = owner[m[k].mId] /\ m[k].mId # id
    BY <1>1, <1>6, <1>7 DEF Sound, Owned, Ids
  <2> QED
    BY <1>1, <1>4, <1>5, <1>6, <2>1, <2>2
<1>12. Sounds'
  <2>1. Sound(mProfileMap)'
    BY <1>9, <1>10, <1>11 DEF n, Sound, DistinctIds, HaveLargest, Owned
  <2>2. ASSUME users \notin {NoFile, Torn}
        PROVE  Sound(users)'
    <3>1. Sound(users) /\ users' = users
      BY <1>1, <2>2 DEF IInv, Sounds, disk
    <3>2. users = RosterOf(m)
      BY <1>7, <2>2 DEF RosterIs
    <3>3. \A k \in DOMAIN users : users[k].mId \in Ids /\ users[k].mId # id
      BY <1>1, <1>6, <3>2 DEF RosterOf, Ids
    <3>4. \A k \in DOMAIN users : users[k].person = owner'[users[k].mId]
      BY <1>1, <3>1, <3>3 DEF Sound, Owned, IInv, Types
    <3> QED
      BY <3>1, <3>4 DEF Sound, DistinctIds, HaveLargest, Owned
  <2> QED
    BY <1>1, <2>1, <2>2 DEF Sounds, disk
<1>13. /\ writes' \in Seq(Writes) /\ DOMAIN writes' = {1} /\ Len(writes') = 1
       /\ WriteOK(writes'[1]) /\ IsRoster(writes'[1]) /\ writes'[1].content = RosterOf(n)
  <2>1. /\ WriteRoster(n) \in Writes /\ WriteOK(WriteRoster(n)) /\ IsRoster(WriteRoster(n))
        /\ WriteRoster(n).content = RosterOf(n)
    BY <1>4, RosterWrites
  <2> QED
    BY <1>1, <2>1
<1>14. Types'
  <2>1. owner' \in [Ids -> Person \union {0}] /\ persons' \in 0..MaxPersons
        /\ mNextProfileId' \in 1..MaxId + 1
    BY <1>1, ProfilesAssumption DEF IInv, Types, Person, Ids
  <2>2. mUserList' \in Seq(Name) /\ mPlayerInfo' \in Keys \union {None}
    BY <1>1, <1>2, <1>3
  <2>3. \A i \in DOMAIN writes' : WriteOK(writes'[i])
    BY <1>13
  <2> QED
    BY <1>1, <1>4, <1>13, <2>1, <2>2, <2>3 DEF n, IInv, Types, disk
<1>15. Scenes' /\ PlayerListed'
  <2>1. mPlayerInfo' \in DOMAIN n /\ mPlayerInfo' # None
    BY <1>2, <1>3, <1>4, ProfilesAssumption
  <2>2. \A k \in DOMAIN n : n[k].mId < id + 1
    BY <1>1, <1>8 DEF Ids
  <2> QED
    BY <1>1, <1>10, <2>1, <2>2 DEF n, Scenes, PlayerListed, DistinctIds
<1>16. RosterCurrent'
  BY <1>1, <1>13 DEF n, RosterCurrent
<1>17. ASSUME ~rosterTorn
       PROVE  (FilesListed /\ ErasedFirst /\ WritesBelong)' /\ FilesBelong'
  <2>1. FilesListed /\ FilesBelong
    BY <1>17 DEF IInv
  <2>2. FilesListed'
    BY <1>1, <2>1 DEF FilesListed, IdsIn, disk
  <2>3. IdsIn(RosterOf(n)) = {n[k].mId : k \in DOMAIN n}
    BY <1>4, RosterOfSound
  <2>4. IdsIn(users) \subseteq IdsIn(RosterOf(n)) /\ id \notin IdsIn(users)
    BY <1>1, <1>4, <1>5, <1>6, <1>7, <2>3 DEF Ids
  <2>5. \A i \in Ids \ IdsIn(RosterOf(n)) : details'[i] = NoFile /\ saved'[i] = NoFile
    BY <1>1, <2>1, <2>4 DEF FilesListed, disk
  <2>6. ErasedFirst'
    BY <1>13, <2>5 DEF ErasedFirst, IdsIn
  <2>7. WritesBelong'
    BY <1>13 DEF WritesBelong, IsRoster
  <2>8. FilesBelong'
    <3>1. details[id] = NoFile /\ saved[id] = NoFile
      BY <1>1, <2>1, <2>4 DEF FilesListed
    <3>2. \A i \in Ids : i # id => owner'[i] = owner[i]
      BY <1>1 DEF IInv, Types
    <3> QED
      BY <1>1, <1>17, <2>1, <3>1, <3>2 DEF FilesBelong, disk
  <2> QED
    BY <2>2, <2>6, <2>7, <2>8
<1>18. rosterTorn => FilesBelong'
  BY <1>1 DEF FilesBelong
<1> QED
  BY <1>1, <1>12, <1>14, <1>15, <1>16, <1>17, <1>18 DEF IInv

\* A roster write alone, of a map under the same ids as before.
LEMMA SameIdsWrite ==
  ASSUME IInv, writes = <<>>, running # "off", NEW m \in ProfileMaps,
         writes' = <<WriteRoster(m)>>, mProfileMap' \in ProfileMaps,
         RosterOf(mProfileMap') = RosterOf(m),
         \A k \in DOMAIN mProfileMap : \E l \in DOMAIN m : m[l].mId = mProfileMap[k].mId,
         UNCHANGED <<running, disk, owner, rosterTorn>>
  PROVE  /\ writes' \in Seq(Writes) /\ \A i \in DOMAIN writes' : WriteOK(writes'[i])
         /\ RosterCurrent'
         /\ (rosterTorn \/ (FilesListed /\ ErasedFirst /\ WritesBelong))'
         /\ FilesBelong'
<1>1. /\ WriteRoster(m) \in Writes /\ WriteOK(WriteRoster(m)) /\ IsRoster(WriteRoster(m))
      /\ WriteRoster(m).content = RosterOf(m)
  BY RosterWrites
<1>2. /\ writes' \in Seq(Writes) /\ DOMAIN writes' = {1} /\ Len(writes') = 1
      /\ WriteOK(writes'[1]) /\ IsRoster(writes'[1]) /\ writes'[1].content = RosterOf(m)
  BY <1>1
<1>3. RosterCurrent'
  BY <1>2 DEF RosterCurrent
<1>4. IdsIn(RosterOf(m)) = {m[k].mId : k \in DOMAIN m}
  BY RosterOfSound
<1>5. IdsIn(users) \subseteq IdsIn(RosterOf(m))
  BY <1>4, IdleRoster
<1>6. ~rosterTorn => FilesListed' /\ ErasedFirst'
  BY <1>2, <1>5 DEF IInv, FilesListed, ErasedFirst, IdsIn, disk
<1>7. WritesBelong'
  BY <1>2 DEF WritesBelong, IsRoster
<1>8. FilesBelong'
  BY DEF IInv, FilesBelong, disk
<1>9. \A i \in DOMAIN writes' : WriteOK(writes'[i])
  BY <1>2
<1> QED
  BY <1>2, <1>3, <1>6, <1>7, <1>8, <1>9

LEMMA RenameInv == IInv /\ FinishRenameUserDialog => IInv'
<1> SUFFICES ASSUME IInv, FinishRenameUserDialog PROVE IInv'
  OBVIOUS
<1>1. /\ running = "menu" /\ mDialog = "user" /\ writes = <<>>
      /\ UNCHANGED <<running, mDialog, mNextProfileId, disk, persons, owner, rosterTorn>>
  BY DEF FinishRenameUserDialog, Idle, history
<1>2. PICK i \in DOMAIN mUserList, name \in Name :
        LET old     == mUserList[i].key
            read    == GetProfile(mProfileMap, old)
            renamed == RenameProfile(read, old, name)
        IN  /\ old \in DOMAIN mProfileMap
            /\ IF name.key \in DOMAIN mProfileMap \ {old}
               THEN /\ mProfileMap' = read
                    /\ UNCHANGED <<mPlayerInfo, mUserList, writes>>
               ELSE /\ mPlayerInfo' = PlayerAfterRename(old, name)
                    /\ mProfileMap' = IF mPlayerInfo = old THEN GetProfile(renamed, name.key)
                                                           ELSE renamed
                    /\ mUserList' = [mUserList EXCEPT ![i] = name]
                    /\ writes' = RenameWrites(renamed)
  BY DEF FinishRenameUserDialog
<1> DEFINE old     == mUserList[i].key
           read    == GetProfile(mProfileMap, old)
           renamed == RenameProfile(read, old, name)
<1>3. /\ mPlayerInfo \in DOMAIN mProfileMap /\ mProfileMap \in ProfileMaps
      /\ old \in DOMAIN mProfileMap /\ Sound(mProfileMap)
      /\ ToSet(mUserList) = {NameOf(mProfileMap, k) : k \in DOMAIN mProfileMap}
      /\ IsInjective(mUserList) /\ mUserList \in Seq(Name)
  BY <1>1, <1>2 DEF IInv, PlayerListed, Types, Sounds
<1>4. Like(read, mProfileMap)
  BY <1>3, GetProfileLike DEF IInv
<1>5. /\ Sound(read) /\ RosterOf(read) = RosterOf(mProfileMap) /\ read \in ProfileMaps
      /\ DOMAIN read = DOMAIN mProfileMap
      /\ \A k \in DOMAIN mProfileMap : NameOf(read, k) = NameOf(mProfileMap, k)
      /\ \A k \in DOMAIN mProfileMap : read[k].mId = mProfileMap[k].mId
  BY <1>3, <1>4, LikeSound DEF Like
<1>6. DOMAIN mProfileMap \subseteq Keys
  BY <1>3, MapOfProfiles
<1>7. CASE name.key \in DOMAIN mProfileMap \ {old}
  <2>1. mProfileMap' = read /\ UNCHANGED <<mPlayerInfo, mUserList, writes>>
    BY <1>2, <1>7
  <2> HIDE DEF read
  <2>2. Types'
    BY <1>1, <1>5, <2>1 DEF IInv, Types, disk
  <2>3. Scenes'
    BY <1>1, <2>1 DEF IInv, Scenes
  <2>4. PlayerListed'
    <3>1. {NameOf(read, k) : k \in DOMAIN read} = {NameOf(mProfileMap, k) : k \in DOMAIN mProfileMap}
      BY <1>5
    <3>2. \A k, l \in DOMAIN read :
            /\ read[k].mId < mNextProfileId
            /\ read[k].mId = read[l].mId => k = l
      BY <1>5, ListedIds
    <3>3. (running # "off" => (mPlayerInfo = None <=> mDialog = "create"))'
      BY <1>1, <2>1 DEF IInv, PlayerListed
    <3>4. ToSet(mUserList') = {NameOf(mProfileMap', k) : k \in DOMAIN mProfileMap'}
      BY <1>3, <2>1, <3>1
    <3>5. mPlayerInfo' \in DOMAIN mProfileMap' /\ IsInjective(mUserList')
      BY <1>3, <1>5, <2>1
    <3>6. \A k, l \in DOMAIN mProfileMap' :
            /\ mProfileMap'[k].mId < mNextProfileId'
            /\ mProfileMap'[k].mId = mProfileMap'[l].mId => k = l
      BY <1>1, <2>1, <3>2
    <3> QED
      BY <3>3, <3>4, <3>5, <3>6 DEF PlayerListed, NameOf
  <2>5. Sounds' /\ RosterCurrent'
    <3>1. DOMAIN writes' = {}
      BY <1>1, <2>1
    <3> QED
      BY <1>1, <1>4, <2>1, <3>1, LikeNext DEF disk
  <2> QED
    BY <1>1, <2>1, <2>2, <2>3, <2>4, <2>5, QuietFiles DEF IInv
<1>8. CASE name.key \notin DOMAIN mProfileMap \ {old}
  <2>1. /\ mPlayerInfo' = (IF mPlayerInfo = old THEN name.key ELSE mPlayerInfo)
        /\ mProfileMap' = (IF mPlayerInfo = old THEN GetProfile(renamed, name.key) ELSE renamed)
        /\ mUserList' = [mUserList EXCEPT ![i] = name]
        /\ writes' = <<WriteRoster(renamed)>>
    BY <1>2, <1>8 DEF PlayerAfterRename, RenameWrites
  <2>2. /\ renamed \in ProfileMaps /\ Sound(renamed)
        /\ DOMAIN renamed = (DOMAIN mProfileMap \ {old}) \union {name.key}
        /\ renamed[name.key].mId = mProfileMap[old].mId /\ renamed[name.key].form = name.form
        /\ \A k \in DOMAIN mProfileMap \ {old} : renamed[k] = read[k]
    <3>1. old \in DOMAIN read /\ name.key \notin DOMAIN read \ {old}
      BY <1>3, <1>5, <1>8
    <3> HIDE DEF read, old
    <3>2. /\ renamed \in ProfileMaps /\ (Sound(read) => Sound(renamed))
          /\ DOMAIN renamed = (DOMAIN read \ {old}) \union {name.key}
          /\ renamed[name.key].mId = read[old].mId /\ renamed[name.key].form = name.form
          /\ \A k \in DOMAIN read \ {old} : renamed[k] = read[k]
      BY <1>5, <3>1, RenameSound
    <3> HIDE DEF renamed
    <3> QED
      BY <1>3, <1>5, <3>2
  <2> HIDE DEF read, renamed
  <2>3. Like(mProfileMap', renamed)
    <3>1. Like(renamed, renamed)
      BY <2>2 DEF Like
    <3> QED
      BY <2>1, <2>2, <3>1, GetProfileLike DEF IInv
  <2>4. /\ Sound(mProfileMap') /\ RosterOf(mProfileMap') = RosterOf(renamed)
        /\ DOMAIN mProfileMap' = DOMAIN renamed /\ mProfileMap' \in ProfileMaps
        /\ \A k \in DOMAIN renamed : /\ mProfileMap'[k].mId = renamed[k].mId
                                     /\ mProfileMap'[k].form = renamed[k].form
    BY <2>2, <2>3, LikeSound DEF Like
  <2>5. \A k \in DOMAIN mProfileMap : \E l \in DOMAIN renamed :
          renamed[l].mId = mProfileMap[k].mId
    BY <1>5, <2>2
  <2>6. /\ writes' \in Seq(Writes) /\ \A j \in DOMAIN writes' : WriteOK(writes'[j])
        /\ RosterCurrent'
        /\ (rosterTorn \/ (FilesListed /\ ErasedFirst /\ WritesBelong))'
        /\ FilesBelong'
    BY <1>1, <2>1, <2>2, <2>4, <2>5, SameIdsWrite
  <2>7. mPlayerInfo' \in DOMAIN renamed /\ mPlayerInfo' \in Keys /\ mPlayerInfo' # None
    BY <1>3, <1>6, <2>1, <2>2, ProfilesAssumption DEF Name
  <2>8. mUserList' \in Seq(Name)
    BY <1>3, <2>1
  <2>9. Types'
    BY <1>1, <2>4, <2>6, <2>7, <2>8 DEF IInv, Types, disk
  <2>10. Scenes'
    BY <1>1 DEF IInv, Scenes
  <2>11. Sounds'
    <3> DEFINE m == mProfileMap'
    <3>1. mProfileMap' = m /\ Sound(m)
      BY <2>4
    <3> HIDE DEF m
    <3> QED
      BY <1>1, <3>1, SoundNext, SoundUsers DEF Sounds, disk
  <2>12. PlayerListed'
    <3>1. \A k, l \in DOMAIN mProfileMap' :
            /\ mProfileMap'[k].mId < mNextProfileId
            /\ mProfileMap'[k].mId = mProfileMap'[l].mId => k = l
      <4>1. \A k \in DOMAIN renamed : renamed[k].mId < mNextProfileId
        BY <1>3, <1>5, <2>2, ListedIds
      <4> QED
        BY <2>4, <4>1 DEF Sound, DistinctIds
    <3>2. \A j \in DOMAIN mUserList : /\ mUserList[j].key \in DOMAIN mProfileMap
                                      /\ mUserList[j] = NameOf(mProfileMap, mUserList[j].key)
      BY <1>3 DEF ToSet, NameOf
    <3>3. \A j \in DOMAIN mUserList : j # i => mUserList[j].key # old
      BY <1>3, <3>2 DEF IsInjective, old
    <3>4. /\ DOMAIN mUserList' = DOMAIN mUserList /\ mUserList'[i] = name
          /\ \A j \in DOMAIN mUserList : j # i => mUserList'[j] = mUserList[j]
      BY <1>3, <2>1
    <3>5. \A k \in DOMAIN mProfileMap \ {old} : NameOf(mProfileMap', k) = NameOf(mProfileMap, k)
      BY <1>5, <2>2, <2>4 DEF NameOf
    <3>6. NameOf(mProfileMap', name.key) = name
      BY <2>2, <2>4 DEF NameOf, Name
    <3>7. ASSUME NEW j \in DOMAIN mUserList
          PROVE  \E k \in DOMAIN mProfileMap' : mUserList'[j] = NameOf(mProfileMap', k)
      <4>1. CASE j = i
        BY <2>2, <2>4, <3>4, <3>6, <4>1
      <4>2. CASE j # i
        BY <2>2, <2>4, <3>2, <3>3, <3>4, <3>5, <4>2
      <4> QED
        BY <4>1, <4>2
    <3>8. ASSUME NEW k \in DOMAIN mProfileMap'
          PROVE  \E j \in DOMAIN mUserList : mUserList'[j] = NameOf(mProfileMap', k)
      <4>1. CASE k = name.key
        BY <3>4, <3>6, <4>1
      <4>2. CASE k # name.key
        <5>1. k \in DOMAIN mProfileMap \ {old}
          BY <2>2, <2>4, <4>2
        <5>2. PICK j \in DOMAIN mUserList : mUserList[j] = NameOf(mProfileMap, k)
          BY <1>3, <5>1 DEF ToSet
        <5>3. j # i
          BY <5>1, <5>2 DEF old, NameOf
        <5> QED
          BY <3>4, <3>5, <5>1, <5>2, <5>3
      <4> QED
        BY <4>1, <4>2
    <3>9. ToSet(mUserList') = {NameOf(mProfileMap', k) : k \in DOMAIN mProfileMap'}
      BY <3>4, <3>7, <3>8 DEF ToSet
    <3>10. IsInjective(mUserList')
      <4>1. \A j \in DOMAIN mUserList : j # i => mUserList[j].key # name.key
        BY <1>8, <3>2, <3>3
      <4> QED
        BY <1>3, <3>4, <4>1 DEF IsInjective
    <3> QED
      BY <1>1, <2>4, <2>7, <3>1, <3>9, <3>10 DEF PlayerListed, NameOf
  <2> QED
    BY <2>6, <2>9, <2>10, <2>11, <2>12 DEF IInv
<1> QED
  BY <1>7, <1>8

LEMMA RemoveAtFacts ==
  ASSUME NEW S, NEW s \in Seq(S), NEW i \in DOMAIN s
  PROVE  /\ RemoveAt(s, i) \in Seq(S) /\ Len(RemoveAt(s, i)) = Len(s) - 1
         /\ DOMAIN RemoveAt(s, i) = 1..Len(s) - 1
         /\ \A j \in 1..Len(s) - 1 : RemoveAt(s, i)[j] = IF j < i THEN s[j] ELSE s[j + 1]
<1> DEFINE before == SubSeq(s, 1, i - 1)
           after  == SubSeq(s, i + 1, Len(s))
<1>1. i \in 1..Len(s) /\ Len(s) \in Nat
  OBVIOUS
<1>2. /\ before \in Seq(S) /\ Len(before) = i - 1
      /\ \A j \in 1..i - 1 : before[j] = s[j]
  BY <1>1, SubSeqProperties
<1>3. /\ after \in Seq(S) /\ Len(after) = Len(s) - i
      /\ \A j \in 1..Len(s) - i : after[j] = s[i + j]
  BY <1>1, SubSeqProperties
<1>4. RemoveAt(s, i) = before \o after
  BY DEF RemoveAt
<1> HIDE DEF before, after
<1>5. /\ before \o after \in Seq(S) /\ Len(before \o after) = Len(s) - 1
      /\ \A j \in 1..Len(s) - 1 :
           (before \o after)[j] = IF j <= i - 1 THEN before[j] ELSE after[j - (i - 1)]
  BY <1>1, <1>2, <1>3, ConcatProperties, SMTT(30)
<1>6. ASSUME NEW j \in 1..Len(s) - 1
      PROVE  (before \o after)[j] = IF j < i THEN s[j] ELSE s[j + 1]
  <2>1. CASE j < i
    BY <1>1, <1>2, <1>5, <2>1
  <2>2. CASE ~(j < i)
    <3>1. j - (i - 1) \in 1..Len(s) - i /\ i + (j - (i - 1)) = j + 1
      BY <1>1, <2>2
    <3>2. after[j - (i - 1)] = s[j + 1]
      BY <1>3, <3>1
    <3>3. (before \o after)[j] = IF j <= i - 1 THEN before[j] ELSE after[j - (i - 1)]
      BY <1>5
    <3>4. ~(j <= i - 1)
      BY <1>1, <2>2
    <3> QED
      BY <2>2, <3>2, <3>3, <3>4, Zenon
  <2> QED
    BY <2>1, <2>2
<1>7. DOMAIN (before \o after) = 1..Len(s) - 1
  BY <1>5
<1> QED
  BY <1>4, <1>5, <1>6, <1>7

LEMMA DeleteInv == IInv /\ FinishConfirmDeleteUserDialog => IInv'
<1> SUFFICES ASSUME IInv, FinishConfirmDeleteUserDialog PROVE IInv'
  OBVIOUS
<1>1. /\ running = "menu" /\ mDialog = "user" /\ writes = <<>>
      /\ UNCHANGED <<running, mNextProfileId, disk, persons, owner, rosterTorn>>
  BY DEF FinishConfirmDeleteUserDialog, Idle, history
<1>2. PICK i \in DOMAIN mUserList :
        LET gone    == mUserList[i].key
            rest    == [k \in DOMAIN mProfileMap \ {gone} |-> mProfileMap[k]]
            current == mUserList[i] = NameOf(mProfileMap, mPlayerInfo)
            player  == PlayerAfterDelete(RemoveAt(mUserList, i), i, rest)
        IN  /\ gone \in DOMAIN mProfileMap
            /\ mPlayerInfo' = IF current THEN player ELSE mPlayerInfo
            /\ mProfileMap' = IF current THEN GetProfile(rest, player) ELSE rest
            /\ writes' = DeleteWrites(mProfileMap[gone], rest)
            /\ mUserList' = IF mPlayerInfo' = None THEN <<>> ELSE RemoveAt(mUserList, i)
            /\ mDialog' = IF mPlayerInfo' = None THEN "create" ELSE "user"
  BY DEF FinishConfirmDeleteUserDialog
<1> DEFINE gone    == mUserList[i].key
           rest    == [k \in DOMAIN mProfileMap \ {gone} |-> mProfileMap[k]]
           current == mUserList[i] = NameOf(mProfileMap, mPlayerInfo)
           player  == PlayerAfterDelete(RemoveAt(mUserList, i), i, rest)
           p       == mProfileMap[gone]
           list    == RemoveAt(mUserList, i)
<1>3. /\ gone \in DOMAIN mProfileMap
      /\ mPlayerInfo' = (IF current THEN player ELSE mPlayerInfo)
      /\ mProfileMap' = (IF current THEN GetProfile(rest, player) ELSE rest)
      /\ writes' = <<EraseDetails(p), EraseSaved(p), WriteRoster(rest)>>
      /\ mUserList' = (IF mPlayerInfo' = None THEN <<>> ELSE list)
      /\ mDialog' = (IF mPlayerInfo' = None THEN "create" ELSE "user")
  BY <1>2 DEF DeleteWrites
<1>4. /\ mPlayerInfo \in DOMAIN mProfileMap /\ mProfileMap \in ProfileMaps /\ Sound(mProfileMap)
      /\ ToSet(mUserList) = {NameOf(mProfileMap, k) : k \in DOMAIN mProfileMap}
      /\ IsInjective(mUserList) /\ mUserList \in Seq(Name)
  BY <1>1 DEF IInv, PlayerListed, Types, Sounds
<1>5. DOMAIN mProfileMap \subseteq Keys /\ mProfileMap \in [DOMAIN mProfileMap -> Profile]
  BY <1>4, MapOfProfiles
<1>6. /\ DOMAIN rest = DOMAIN mProfileMap \ {gone}
      /\ \A k \in DOMAIN rest : rest[k] = mProfileMap[k]
  OBVIOUS
<1>7. rest \in ProfileMaps /\ Sound(rest)
  <2> HIDE DEF gone
  <2> QED
    BY <1>4, RestrictSound
<1>8. /\ list \in Seq(Name) /\ DOMAIN list = 1..Len(mUserList) - 1
      /\ \A j \in 1..Len(mUserList) - 1 : list[j] = IF j < i THEN mUserList[j] ELSE mUserList[j + 1]
      /\ DOMAIN mUserList = 1..Len(mUserList) /\ Len(mUserList) \in Nat
  BY <1>4, RemoveAtFacts
<1>9. mUserList[i] = NameOf(mProfileMap, gone)
  <2>1. PICK k \in DOMAIN mProfileMap : mUserList[i] = NameOf(mProfileMap, k)
    BY <1>4 DEF ToSet
  <2> QED
    BY <2>1 DEF NameOf
<1>10. current <=> gone = mPlayerInfo
  BY <1>9 DEF NameOf
<1>11. player \in DOMAIN rest \/ (player = None /\ DOMAIN rest = {})
  <2> HIDE DEF rest, list
  <2> QED
    BY <1>7, FirstInMap DEF PlayerAfterDelete, list
<1>12. p \in Profile
  BY <1>3, <1>5
<1> HIDE DEF gone, rest, current, player, p, list
<1>13. Like(mProfileMap', rest)
  <2>1. Like(rest, rest)
    BY <1>7 DEF Like
  <2> QED
    BY <1>3, <1>7, <2>1, GetProfileLike DEF IInv
<1>14. /\ Sound(mProfileMap') /\ RosterOf(mProfileMap') = RosterOf(rest)
       /\ DOMAIN mProfileMap' = DOMAIN rest /\ mProfileMap' \in ProfileMaps
       /\ \A k \in DOMAIN rest : /\ mProfileMap'[k].mId = rest[k].mId
                                 /\ mProfileMap'[k].form = rest[k].form
  BY <1>7, <1>13, LikeSound DEF Like
<1>15. /\ mPlayerInfo' \in DOMAIN rest \union {None}
       /\ mPlayerInfo' = None => DOMAIN rest = {}
       /\ DOMAIN rest \subseteq Keys
  <2>1. DOMAIN rest \subseteq Keys
    BY <1>5, <1>6
  <2>2. CASE current
    <3>1. mPlayerInfo' = player
      BY <1>3, <2>2
    <3>2. CASE player \in DOMAIN rest
      <4>1. player # None
        BY <2>1, <3>2, ProfilesAssumption
      <4> QED
        BY <2>1, <3>1, <3>2, <4>1
    <3>3. CASE player = None /\ DOMAIN rest = {}
      BY <2>1, <3>1, <3>3
    <3> QED
      BY <1>11, <3>2, <3>3
  <2>3. CASE ~current
    <3>1. mPlayerInfo' = mPlayerInfo
      BY <1>3, <2>3
    <3>2. mPlayerInfo \in DOMAIN rest /\ mPlayerInfo # None
      BY <1>4, <1>5, <1>6, <1>10, <2>3, ProfilesAssumption
    <3> QED
      BY <2>1, <3>1, <3>2
  <2> QED
    BY <2>2, <2>3
<1>16. /\ writes' \in Seq(Writes) /\ DOMAIN writes' = {1, 2, 3} /\ Len(writes') = 3
       /\ \A j \in {1, 2} : WriteOK(writes'[j]) /\ ~IsRoster(writes'[j])
                            /\ writes'[j].content = NoFile /\ writes'[j].id = p.mId
       /\ writes'[1].file = "details" /\ writes'[2].file = "saved"
       /\ WriteOK(writes'[3]) /\ IsRoster(writes'[3]) /\ writes'[3].content = RosterOf(rest)
  <2> DEFINE a == EraseDetails(p)
             b == EraseSaved(p)
             c == WriteRoster(rest)
  <2>1. /\ c \in Writes /\ WriteOK(c) /\ IsRoster(c) /\ c.content = RosterOf(rest)
    BY <1>7, RosterWrites
  <2>2. /\ a \in Writes /\ b \in Writes
        /\ WriteOK(a) /\ ~IsRoster(a) /\ a.content = NoFile /\ a.id = p.mId /\ a.file = "details"
        /\ WriteOK(b) /\ ~IsRoster(b) /\ b.content = NoFile /\ b.id = p.mId /\ b.file = "saved"
    BY <1>12, ProfileWrites
  <2>3. writes' = <<a, b, c>>
    BY <1>3
  <2> HIDE DEF a, b, c
  <2> QED
    BY <2>1, <2>2, <2>3
<1>17. RosterCurrent'
  BY <1>1, <1>14, <1>16 DEF RosterCurrent
<1>18. Types'
  <2>1. mUserList' \in Seq(Name) /\ mPlayerInfo' \in Keys \union {None}
        /\ mDialog' \in {"none", "user", "create"}
    BY <1>3, <1>8, <1>15
  <2>2. \A j \in DOMAIN writes' : WriteOK(writes'[j])
    BY <1>16
  <2> QED
    BY <1>1, <1>14, <1>16, <2>1, <2>2 DEF IInv, Types, disk
<1>19. Scenes'
  BY <1>1 DEF Scenes
<1>20. Sounds'
  <2> DEFINE m == mProfileMap'
  <2>1. mProfileMap' = m /\ Sound(m)
    BY <1>14
  <2> HIDE DEF m
  <2> QED
    BY <1>1, <2>1, SoundNext, SoundUsers DEF Sounds, disk
<1>21. PlayerListed'
  <2>1. \A k, l \in DOMAIN mProfileMap' :
          /\ mProfileMap'[k].mId < mNextProfileId
          /\ mProfileMap'[k].mId = mProfileMap'[l].mId => k = l
    BY <1>6, <1>14, ListedIds
  <2>2. None \notin DOMAIN rest
    BY <1>15, ProfilesAssumption
  <2>3. CASE mPlayerInfo' = None
    BY <1>1, <1>3, <1>14, <1>15, <2>1, <2>3 DEF PlayerListed
  <2>4. CASE mPlayerInfo' # None
    <3>1. mUserList' = list
      BY <1>3, <2>4
    <3>2. \A j \in DOMAIN mUserList : j # i => mUserList[j] # mUserList[i]
      BY <1>4 DEF IsInjective
    <3>3. \A j \in DOMAIN list : \E h \in DOMAIN mUserList :
            h # i /\ list[j] = mUserList[h]
      BY <1>8
    <3>4. \A h \in DOMAIN mUserList : h # i => \E j \in DOMAIN list : list[j] = mUserList[h]
      <4> SUFFICES ASSUME NEW h \in DOMAIN mUserList, h # i
                   PROVE  \E j \in DOMAIN list : list[j] = mUserList[h]
        OBVIOUS
      <4>1. CASE h < i
        BY <1>8, <4>1
      <4>2. CASE h > i
        <5>1. h - 1 \in DOMAIN list /\ list[h - 1] = mUserList[h]
          BY <1>8, <4>2
        <5> QED
          BY <5>1
      <4> QED
        BY <1>8, <4>1, <4>2
    <3>5. \A k \in DOMAIN rest : NameOf(mProfileMap', k) = NameOf(mProfileMap, k)
      BY <1>6, <1>14 DEF NameOf
    <3>6. ASSUME NEW j \in DOMAIN list
          PROVE  \E k \in DOMAIN mProfileMap' : list[j] = NameOf(mProfileMap', k)
      <4>1. PICK h \in DOMAIN mUserList : h # i /\ list[j] = mUserList[h]
        BY <3>3
      <4>2. PICK k \in DOMAIN mProfileMap : mUserList[h] = NameOf(mProfileMap, k)
        BY <1>4 DEF ToSet
      <4>3. k # gone
        BY <1>9, <3>2, <4>1, <4>2
      <4> QED
        BY <1>6, <1>14, <3>5, <4>1, <4>2, <4>3
    <3>7. ASSUME NEW k \in DOMAIN mProfileMap'
          PROVE  \E j \in DOMAIN list : list[j] = NameOf(mProfileMap', k)
      <4>1. k \in DOMAIN mProfileMap /\ k # gone
        BY <1>6, <1>14
      <4>2. PICK h \in DOMAIN mUserList : mUserList[h] = NameOf(mProfileMap, k)
        BY <1>4, <4>1 DEF ToSet
      <4>3. h # i
        BY <1>9, <4>1, <4>2 DEF NameOf
      <4> QED
        BY <1>14, <3>4, <3>5, <4>2, <4>3
    <3>8. ToSet(mUserList') = {NameOf(mProfileMap', k) : k \in DOMAIN mProfileMap'}
      BY <3>1, <3>6, <3>7 DEF ToSet
    <3>9. IsInjective(mUserList')
      <4>1. ASSUME NEW j \in DOMAIN list, NEW h \in DOMAIN list, list[j] = list[h]
            PROVE  j = h
        <5>1. \A a, b \in 1..Len(mUserList) : mUserList[a] = mUserList[b] => a = b
          BY <1>4, <1>8 DEF IsInjective
        <5> QED
          BY <1>8, <4>1, <5>1
      <4> QED
        BY <3>1, <4>1 DEF IsInjective
    <3> QED
      BY <1>1, <1>3, <1>14, <1>15, <2>1, <2>4, <3>8, <3>9 DEF PlayerListed, NameOf
  <2> QED
    BY <2>3, <2>4
<1>22. ASSUME ~rosterTorn
       PROVE  (FilesListed /\ ErasedFirst /\ WritesBelong)'
  <2>1. FilesListed /\ FilesListed'
    BY <1>1, <1>22 DEF IInv, FilesListed, IdsIn, disk
  <2>2. IdsIn(RosterOf(rest)) = {rest[k].mId : k \in DOMAIN rest}
    BY <1>7, RosterOfSound
  <2>3. IdsIn(users) = {mProfileMap[k].mId : k \in DOMAIN mProfileMap}
    BY <1>1, IdleRoster
  <2>4. \A id \in Ids \ IdsIn(RosterOf(rest)) : id = p.mId \/ id \notin IdsIn(users)
    BY <1>6, <2>2, <2>3 DEF p
  <2>5. \A id \in Ids \ IdsIn(RosterOf(rest)) :
          id = p.mId \/ (details'[id] = NoFile /\ saved'[id] = NoFile)
    BY <1>1, <2>1, <2>4 DEF FilesListed, disk
  <2>6. ErasedFirst'
    <3> SUFFICES ASSUME NEW id \in Ids \ IdsIn(RosterOf(rest))
                 PROVE  /\ details'[id] = NoFile \/ \E j \in 1..2 :
                              writes'[j].file = "details" /\ writes'[j].id = id
                        /\ saved'[id] = NoFile \/ \E j \in 1..2 :
                              writes'[j].file = "saved" /\ writes'[j].id = id
      BY <1>16 DEF ErasedFirst, IdsIn
    <3> QED
      BY <1>16, <2>5
  <2>7. WritesBelong'
    BY <1>16 DEF WritesBelong, IsRoster
  <2> QED
    BY <2>1, <2>6, <2>7
<1>23. FilesBelong'
  BY <1>1 DEF IInv, FilesBelong, disk
<1> QED
  BY <1>1, <1>17, <1>18, <1>19, <1>20, <1>21, <1>22, <1>23 DEF IInv

\* What a level changes of the map is what its player has achieved.
LEMMA AchieveLike ==
  ASSUME IInv, mPlayerInfo \in DOMAIN mProfileMap,
         mProfileMap[mPlayerInfo].progress < MaxProgress
  PROVE  Like(Achieve, mProfileMap)
<1> DEFINE p == mProfileMap[mPlayerInfo]
           q == [p EXCEPT !.progress = @ + 1]
<1>1. DOMAIN mProfileMap \subseteq Keys /\ mProfileMap \in [DOMAIN mProfileMap -> Profile]
  BY MapOfProfiles DEF IInv, Types
<1>2. p \in Profile /\ p.progress \in Progress
  BY <1>1 DEF Profile
<1>3. p.progress + 1 \in Progress
  BY <1>2, ProfilesAssumption DEF Progress
<1>4. Achieve = [mProfileMap EXCEPT ![mPlayerInfo] = q]
  BY DEF Achieve
<1>5. q \in Profile /\ q.form = p.form /\ q.mId = p.mId /\ q.person = p.person
  <2> HIDE DEF p
  <2> QED
    BY <1>2, <1>3 DEF Profile
<1> HIDE DEF q
<1>6. Achieve \in [DOMAIN mProfileMap -> Profile]
  BY <1>1, <1>4, <1>5
<1>7. Achieve \in ProfileMaps /\ DOMAIN Achieve = DOMAIN mProfileMap
  BY <1>1, <1>6, ProfilesMap
<1> QED
  BY <1>1, <1>4, <1>5, <1>7 DEF Like

\* A step of the board, or to it and from it, that writes files of the player alone.
LEMMA BoardInv ==
  ASSUME IInv, running # "off", running' \in {"menu", "board"}, mDialog = "none", writes = <<>>,
         NEW p \in Profile, p.mId = mProfileMap[mPlayerInfo].mId,
         p.person = mProfileMap[mPlayerInfo].person, Like(mProfileMap', mProfileMap),
         NEW q \in Seq(Writes), writes' = q,
         \A i \in DOMAIN q : q[i] \in {WriteSaved(p), WriteDetails(p), EraseSaved(p)},
         UNCHANGED <<mDialog, mUserList, mNextProfileId, mPlayerInfo, disk, persons, owner,
                     rosterTorn>>
  PROVE  IInv'
<1>1. mPlayerInfo \in DOMAIN mProfileMap
  BY DEF IInv, PlayerListed
<1>2. p.mId \in IdsIn(users) /\ p.person = owner[p.mId]
  BY <1>1, IdleRoster
<1>3. /\ \A i \in DOMAIN q : WriteOK(q[i]) /\ ~IsRoster(q[i])
      /\ (rosterTorn \/ (FilesListed /\ ErasedFirst /\ WritesBelong))'
      /\ FilesBelong'
  BY <1>2, OwnWrites
<1>4. Types'
  BY <1>3 DEF IInv, Types, Like, disk
<1>5. Scenes'
  BY DEF IInv, Scenes
<1>6. PlayerListed'
  BY <1>1, ListedIds DEF IInv, PlayerListed, Like
<1>7. Sounds' /\ RosterCurrent'
  BY <1>3, LikeNext DEF disk
<1> QED
  BY <1>3, <1>4, <1>5, <1>6, <1>7 DEF IInv

\* What the current player does, in the menu or on the board.
Plays == \/ PreNewGame \/ Earn \/ WriteCurrentUserConfig
         \/ CheckForGameEnd \/ DoBackToMain \/ GameOverMainMenu

LEMMA PlayInv == IInv /\ Plays => IInv'
<1> DEFINE p == mProfileMap[mPlayerInfo]
<1>1. ASSUME IInv, running # "off", mDialog = "none", writes = <<>>
      PROVE  /\ mPlayerInfo \in DOMAIN mProfileMap /\ p \in Profile
             /\ Like(mProfileMap, mProfileMap)
  <2>1. mPlayerInfo \in DOMAIN mProfileMap /\ mProfileMap \in ProfileMaps
    BY <1>1 DEF IInv, PlayerListed, Types
  <2> QED
    BY <1>1, <2>1, IdleRoster DEF Like
<1>2. ASSUME IInv, PreNewGame PROVE IInv'
  <2>1. /\ running = "menu" /\ mDialog = "none" /\ writes = <<>> /\ running' = "board"
        /\ writes' = <<EraseSaved(p)>>
        /\ UNCHANGED <<mDialog, mUserList, mProfileMap, mNextProfileId, mPlayerInfo, disk,
                       persons, owner, rosterTorn>>
    BY <1>2 DEF PreNewGame, Idle, memory, history
  <2>2. mPlayerInfo \in DOMAIN mProfileMap /\ p \in Profile /\ Like(mProfileMap', mProfileMap)
    BY <1>1, <1>2, <2>1
  <2>3. EraseSaved(p) \in Writes
    BY <2>2, ProfileWrites
  <2>4. <<EraseSaved(p)>> \in Seq(Writes)
    BY <2>3
  <2>5. \A i \in DOMAIN <<EraseSaved(p)>> :
          <<EraseSaved(p)>>[i] \in {WriteSaved(p), WriteDetails(p), EraseSaved(p)}
    OBVIOUS
  <2> QED
    BY <1>2, <2>1, <2>2, <2>4, <2>5, BoardInv
<1>3. ASSUME IInv, running = "board"
      PROVE  mDialog = "none"
  BY <1>3 DEF IInv, Scenes
<1>4. ASSUME IInv, Earn PROVE IInv'
  <2>1. /\ running \in {"menu", "board"} /\ mDialog = "none" /\ writes = <<>>
        /\ running' = running
        /\ p.progress < MaxProgress /\ mProfileMap' = Achieve
        /\ UNCHANGED <<mDialog, mUserList, mNextProfileId, mPlayerInfo, writes, disk,
                       persons, owner, rosterTorn>>
    BY <1>3, <1>4 DEF Earn, Idle, history
  <2>2. mPlayerInfo \in DOMAIN mProfileMap /\ p \in Profile
    BY <1>1, <1>4, <2>1
  <2>3. Like(mProfileMap', mProfileMap)
    BY <1>4, <2>1, <2>2, AchieveLike
  <2>4. writes' = <<>> /\ <<>> \in Seq(Writes) /\ DOMAIN <<>> = {}
    BY <2>1
  <2> QED
    BY <1>4, <2>1, <2>2, <2>3, <2>4, BoardInv
<1>5. ASSUME IInv, CheckForGameEnd PROVE IInv'
  <2> DEFINE r == mProfileMap'[mPlayerInfo]
  <2>1. /\ running = "board" /\ mDialog = "none" /\ writes = <<>>
        /\ running' \in {"menu", "board"}
        /\ p.progress < MaxProgress /\ mProfileMap' = Achieve /\ writes' = <<WriteDetails(r)>>
        /\ UNCHANGED <<mDialog, mUserList, mNextProfileId, mPlayerInfo, disk,
                       persons, owner, rosterTorn>>
    BY <1>3, <1>5 DEF CheckForGameEnd, history
  <2>2. mPlayerInfo \in DOMAIN mProfileMap /\ p \in Profile
    BY <1>1, <1>5, <2>1
  <2>3. Like(mProfileMap', mProfileMap)
    BY <1>5, <2>1, <2>2, AchieveLike
  <2>4. r \in Profile /\ r.mId = p.mId /\ r.person = p.person
    BY <2>2, <2>3, MapOfProfiles DEF Like
  <2> HIDE DEF r
  <2>5. <<WriteDetails(r)>> \in Seq(Writes)
    BY <2>4, ProfileWrites
  <2>6. \A i \in DOMAIN <<WriteDetails(r)>> :
          <<WriteDetails(r)>>[i] \in {WriteSaved(r), WriteDetails(r), EraseSaved(r)}
    OBVIOUS
  <2> QED
    BY <1>5, <2>1, <2>2, <2>3, <2>4, <2>5, <2>6, BoardInv
<1>6. ASSUME IInv, DoBackToMain PROVE IInv'
  <2>1. /\ running = "board" /\ mDialog = "none" /\ writes = <<>> /\ running' = "menu"
        /\ writes' = <<WriteSaved(p), WriteDetails(p)>>
        /\ UNCHANGED <<mDialog, mUserList, mProfileMap, mNextProfileId, mPlayerInfo, disk,
                       persons, owner, rosterTorn>>
    BY <1>3, <1>6 DEF DoBackToMain, BackToMainWrites, memory, history
  <2>2. mPlayerInfo \in DOMAIN mProfileMap /\ p \in Profile /\ Like(mProfileMap', mProfileMap)
    BY <1>1, <1>6, <2>1
  <2>3. WriteSaved(p) \in Writes /\ WriteDetails(p) \in Writes
    BY <2>2, ProfileWrites
  <2>4. <<WriteSaved(p), WriteDetails(p)>> \in Seq(Writes)
    BY <2>3
  <2>5. \A i \in DOMAIN <<WriteSaved(p), WriteDetails(p)>> :
          <<WriteSaved(p), WriteDetails(p)>>[i] \in {WriteSaved(p), WriteDetails(p), EraseSaved(p)}
    OBVIOUS
  <2> QED
    BY <1>6, <2>1, <2>2, <2>4, <2>5, BoardInv
<1>7. ASSUME IInv, GameOverMainMenu PROVE IInv'
  <2>1. /\ running = "board" /\ mDialog = "none" /\ writes = <<>> /\ running' = "menu"
        /\ UNCHANGED <<mDialog, mUserList, mProfileMap, mNextProfileId, mPlayerInfo, writes,
                       disk, persons, owner, rosterTorn>>
    BY <1>3, <1>7 DEF GameOverMainMenu, memory, history
  <2>2. mPlayerInfo \in DOMAIN mProfileMap /\ p \in Profile /\ Like(mProfileMap', mProfileMap)
    BY <1>1, <1>7, <2>1
  <2>3. writes' = <<>> /\ <<>> \in Seq(Writes) /\ DOMAIN <<>> = {}
    BY <2>1
  <2> QED
    BY <1>7, <2>1, <2>2, <2>3, BoardInv
<1>8. ASSUME IInv, WriteCurrentUserConfig PROVE IInv'
  <2>1. /\ running \in {"menu", "board"} /\ mDialog = "none" /\ writes = <<>>
        /\ running' = running /\ writes' = <<WriteDetails(p)>>
        /\ UNCHANGED <<mDialog, mUserList, mProfileMap, mNextProfileId, mPlayerInfo, disk,
                       persons, owner, rosterTorn>>
    BY <1>3, <1>8 DEF WriteCurrentUserConfig, Idle, memory
  <2>2. mPlayerInfo \in DOMAIN mProfileMap /\ p \in Profile /\ Like(mProfileMap', mProfileMap)
    BY <1>1, <1>8, <2>1
  <2>3. <<WriteDetails(p)>> \in Seq(Writes)
    BY <2>2, ProfileWrites
  <2>4. \A i \in DOMAIN <<WriteDetails(p)>> :
          <<WriteDetails(p)>>[i] \in {WriteSaved(p), WriteDetails(p), EraseSaved(p)}
    OBVIOUS
  <2> QED
    BY <1>8, <2>1, <2>2, <2>3, <2>4, BoardInv
<1> QED
  BY <1>2, <1>4, <1>5, <1>6, <1>7, <1>8 DEF Plays

-----------------------------------------------------------------------------
(* The theorems.                                                             *)

LEMMA Inductive == IInv /\ [Next]_vars => IInv'
<1> SUFFICES ASSUME IInv, [Next]_vars PROVE IInv'
  OBVIOUS
<1>1. CASE UNCHANGED vars
  <2>1. /\ UNCHANGED <<running, mDialog, mUserList, mProfileMap, mNextProfileId, mPlayerInfo>>
        /\ UNCHANGED <<writes, disk, persons, owner, rosterTorn>>
    BY <1>1 DEF vars, memory, history
  <2>2. Types' /\ Scenes' /\ PlayerListed'
    BY <2>1 DEF IInv, Types, Scenes, PlayerListed, NameOf, disk
  <2>3. Sounds'
    BY <2>1, SoundNext, SoundUsers DEF IInv, Sounds, disk
  <2>4. RosterCurrent'
    BY <2>1 DEF IInv, RosterCurrent, RosterIs, disk
  <2> QED
    BY <2>1, <2>2, <2>3, <2>4, QuietFiles DEF IInv
<1>2. CASE Start
  BY <1>2, StartInv
<1>3. CASE Crash
  BY <1>3, CrashInv
<1>4. CASE Shutdown
  BY <1>4, ShutdownInv
<1>5. CASE Write
  BY <1>5, WriteInv
<1>6. CASE DoUserDialog
  BY <1>6, DoUserDialogInv
<1>7. CASE FinishUserDialog
  BY <1>7, FinishUserDialogInv
<1>8. CASE FinishCreateUserDialog
  BY <1>8, CreateInv
<1>9. CASE FinishRenameUserDialog
  BY <1>9, RenameInv
<1>10. CASE FinishConfirmDeleteUserDialog
  BY <1>10, DeleteInv
<1>11. CASE Plays
  BY <1>11, PlayInv
<1> QED
  BY <1>1, <1>2, <1>3, <1>4, <1>5, <1>6, <1>7, <1>8, <1>9, <1>10, <1>11 DEF Next, Plays

\* Whatever is created, chosen, renamed and deleted, mPlayerInfo is a profile of the map, the
\* list of the user dialog is the map, and the ids are distinct (FinishRenameUserDialog,
\* FinishConfirmDeleteUserDialog, AddProfile).
THEOREM PlayerAlwaysListed == Spec => []PlayerListed
<1>1. IInv => PlayerListed
  BY DEF IInv
<1> QED
  BY <1>1, InitInv, Inductive, PTL DEF Spec

\* However often the game dies between two writes, nobody is given the id of files that
\* are another's, unless users.dat itself was cut off (DeleteUserFiles, Save, SyncState).
THEOREM FilesAlwaysBelong == Spec => []FilesBelong
<1>1. IInv => FilesBelong
  BY DEF IInv
<1> QED
  BY <1>1, InitInv, Inductive, PTL DEF Spec
=============================================================================
