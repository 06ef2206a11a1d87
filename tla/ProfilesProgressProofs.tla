----------------------- MODULE ProfilesProgressProofs -----------------------
(***************************************************************************)
(* Proofs about what the players of Profiles have achieved, for any names    *)
(* and any number of players, on top of ProfilesProofs.                      *)
(*                                                                           *)
(* What a player has achieved is in two places, the map and user<id>.dat,    *)
(* and GetProfile copies it from the second to the first at any time. What   *)
(* the game has set out to write of a player is not taken back by that,      *)
(* because it is in their file or in a write that is still to be done, and   *)
(* while there is such a write nothing is read. The current player is never  *)
(* behind their file, so that no write takes back what is there. A file of   *)
(* another person, which a torn users.dat leaves behind, is told by its      *)
(* person; the ids, which are used again, tell nothing.                      *)
(***************************************************************************)
EXTENDS ProfilesProofs

OnDisk(d) == d \notin {NoFile, Torn}

IsDetails(w) == w.file = "details" /\ w.content # NoFile

\* p is a profile or what a file will hold of it, d the file.
NotBehind(p, d) == OnDisk(d) /\ d.person = p.person => d.progress <= p.progress

\* Persons are made one at a time, and an id is given to one of them at a time.
PersonsApart ==
  /\ \A id \in Ids : owner[id] <= persons
  /\ \A i, j \in Ids : owner[i] = owner[j] /\ owner[i] # 0 => i = j
  /\ \A id \in Ids : OnDisk(details[id]) => details[id].person <= persons
  /\ \A i \in DOMAIN writes : IsDetails(writes[i]) => writes[i].content.person <= persons

\* There is no current player only where there are no players.
FewPlayers ==
  /\ Cardinality(DOMAIN mProfileMap) <= MaxUsers
  /\ users \notin {NoFile, Torn} => Cardinality(DOMAIN users) <= MaxUsers
  /\ running # "off" /\ mPlayerInfo = None => DOMAIN mProfileMap = {}

\* The current player is not behind their file.
InStep ==
  running # "off" /\ mPlayerInfo # None
    => NotBehind(mProfileMap[mPlayerInfo], details[mProfileMap[mPlayerInfo].mId])

\* What will be written is not behind what is there, and is what the current player has.
WritesInStep ==
  \A i \in DOMAIN writes : IsDetails(writes[i]) =>
    /\ NotBehind(writes[i].content, details[writes[i].id])
    /\ writes[i].content.person = owner[writes[i].id]
    /\ \A j \in DOMAIN writes : IsDetails(writes[j]) => writes[j] = writes[i]
    /\ running # "off" => mPlayerInfo # None /\ writes[i] = WriteDetails(mProfileMap[mPlayerInfo])

\* A write of who has left the game as the player k.
Leaves(w, k) ==
  /\ ~IsRoster(w)
  /\ w.file = "curUser" => w.content = k
  /\ w.file = "details" => w.id = users[k].mId /\ w.content = left

\* Who has left is on the roster, and CurUser and the details are theirs or will be.
LeftAs(k) ==
  /\ users[k].person = left.person
  /\ \A i \in DOMAIN writes : Leaves(writes[i], k)
  /\ curUser = k \/ \E i \in DOMAIN writes : writes[i].file = "curUser"
  /\ details[users[k].mId] = left \/ \E i \in DOMAIN writes : writes[i].file = "details"

LeftOnDisk ==
  left # None => running = "off" /\ users \notin {NoFile, Torn} /\ \E k \in DOMAIN users : LeftAs(k)

\* What is kept of the owner of an id is in the file, or in a write, and will not be erased.
WillHold(id) ==
  \E i \in DOMAIN writes : /\ IsDetails(writes[i]) /\ writes[i].id = id
                           /\ Holds(writes[i].content, owner[id])

Erases(w, id) == w.file = "details" /\ w.id = id /\ w.content = NoFile

KeptSafe ==
  /\ kept \in [Person -> Progress]
  /\ \A person \in Person : person > persons => kept[person] = 0
  /\ \A id \in Ids : owner[id] # 0 /\ kept[owner[id]] # 0 =>
       /\ Holds(details[id], owner[id]) \/ WillHold(id)
       /\ \A i \in DOMAIN writes : ~Erases(writes[i], id)

PInv ==
  /\ IInv /\ left \in Details \union {None}
  /\ PersonsApart /\ FewPlayers /\ InStep /\ WritesInStep /\ LeftOnDisk
  /\ KeptSafe /\ PlayerKeeps

-----------------------------------------------------------------------------
(* Reading the details, and who is who.                                      *)

LEMMA FileTypes ==
  ASSUME Types
  PROVE  /\ \A id \in Ids : OnDisk(details[id]) => details[id] \in Details
         /\ \A d \in Details : d.person \in Person /\ d.progress \in Nat /\ OnDisk(d)
         /\ \A p \in Profile : p.person \in Person /\ p.progress \in Nat /\ p.mId \in Ids
         /\ Person \subseteq Nat \ {0} /\ persons \in Nat
<1>1. /\ Progress \subseteq Nat /\ Person \subseteq Nat \ {0} /\ persons \in Nat
  BY ProfilesAssumption DEF Progress, Person, Types
<1> QED
  BY <1>1, FilesAssumption DEF Types, OnDisk, Details, Profile

LEMMA KeptTypes ==
  ASSUME KeptSafe
  PROVE  \A person \in Person : kept[person] \in Nat
<1>1. Progress \subseteq Nat
  BY ProfilesAssumption DEF Progress
<1> QED
  BY <1>1 DEF KeptSafe

LEMMA Loaded ==
  ASSUME Types, NEW p \in Profile
  PROVE  NotBehind(LoadDetails(p), details[p.mId])
<1> DEFINE d == details[p.mId]
           q == LoadDetails(p)
<1>1. p.mId \in Ids /\ (OnDisk(d) => d.progress \in Nat)
  BY FileTypes
<1>2. OnDisk(d) => q.progress = d.progress
  BY DEF LoadDetails, Profile, OnDisk
<1> QED
  BY <1>1, <1>2 DEF NotBehind

\* Between two handlers, who is read has what is kept of them.
LEMMA ReadKeeps ==
  ASSUME PInv, writes = <<>>, NEW p \in Profile, owner[p.mId] = p.person
  PROVE  kept[p.person] <= LoadDetails(p).progress
<1> DEFINE d == details[p.mId]
<1>1. /\ p.person \in Person /\ p.person # 0 /\ p.mId \in Ids
      /\ LoadDetails(p).progress \in Nat /\ kept[p.person] \in Nat
  BY FileTypes, KeptTypes, LoadKeeps DEF PInv, IInv
<1>2. CASE kept[p.person] = 0
  BY <1>1, <1>2
<1>3. CASE kept[p.person] # 0
  <2>1. ~WillHold(p.mId)
    BY DEF WillHold
  <2>2. Holds(d, p.person)
    BY <1>1, <1>3, <2>1 DEF PInv, KeptSafe
  <2>3. LoadDetails(p).progress = d.progress
    BY <2>2 DEF Holds, LoadDetails, Profile
  <2> QED
    BY <2>2, <2>3 DEF Holds
<1> QED
  BY <1>2, <1>3

\* A handler that takes back some of what is kept, or nothing, and erases the files of
\* those alone.
FewerKept ==
  /\ kept' \in [Person -> Progress]
  /\ \A person \in Person : kept'[person] # 0 => kept'[person] = kept[person]

LEMMA FewerSafe ==
  ASSUME PInv, IInv', writes = <<>>, FewerKept, details' = details,
         persons' \in {persons, persons + 1},
         \A id \in Ids : owner'[id] \in {owner[id], persons + 1},
         \A i \in DOMAIN writes' : writes'[i].file = "details" =>
           owner' = owner /\ kept'[owner[writes'[i].id]] = 0
  PROVE  KeptSafe'
<1>1. /\ persons \in Nat /\ Person \subseteq Nat \ {0}
      /\ \A id \in Ids : owner'[id] # 0 => owner'[id] \in Person
      /\ \A person \in Person : person > persons => kept[person] = 0
  BY FileTypes DEF PInv, IInv, Types, KeptSafe
<1>2. \A person \in Person : person > persons => kept'[person] = 0
  BY <1>1 DEF FewerKept
<1>3. \A person \in Person : person > persons' => kept'[person] = 0
  <2>1. persons' = persons \/ persons' = persons + 1
    OBVIOUS
  <2>2. ASSUME NEW person \in Person, person > persons' PROVE person > persons
    <3>1. person \in Nat /\ persons \in Nat
      BY <1>1
    <3>2. persons' = persons => person > persons
      BY <2>2
    <3>3. persons' = persons + 1 => person > persons
      BY <2>2, <3>1
    <3> QED
      BY <2>1, <3>2, <3>3
  <2> QED
    BY <1>2, <2>2
<1>4. ASSUME NEW id \in Ids, owner'[id] # 0, kept'[owner'[id]] # 0
      PROVE  /\ Holds(details[id], owner[id])'
             /\ \A i \in DOMAIN writes' : ~Erases(writes'[i], id)
  <2>1. owner'[id] \in Person /\ owner'[id] = owner[id]
    BY <1>1, <1>2, <1>4
  <2>2. kept'[owner[id]] = kept[owner[id]] /\ kept[owner[id]] # 0
    BY <1>4, <2>1 DEF FewerKept
  <2>3. ~WillHold(id)
    BY DEF WillHold
  <2>4. Holds(details[id], owner[id])
    BY <1>4, <2>1, <2>2, <2>3 DEF PInv, KeptSafe
  <2>5. \A i \in DOMAIN writes' : ~Erases(writes'[i], id)
    BY <1>4, <2>1 DEF Erases
  <2> QED
    BY <2>1, <2>2, <2>4, <2>5 DEF Holds
<1> QED
  BY <1>3, <1>4 DEF KeptSafe, FewerKept

\* A handler that has the same to keep, and erases nothing.
LEMMA StaysSafe ==
  ASSUME PInv, writes = <<>>, UNCHANGED <<details, persons, owner, kept>>,
         \A i \in DOMAIN writes' : IsDetails(writes'[i]) \/ writes'[i].file # "details"
  PROVE  KeptSafe'
<1>1. \A id \in Ids : ~WillHold(id) /\ \A i \in DOMAIN writes' : ~Erases(writes'[i], id)
  BY DEF WillHold, Erases, IsDetails
<1> QED
  BY <1>1 DEF PInv, KeptSafe, Holds

\* A handler that writes the player it is to keep.
LEMMA WrittenSafe ==
  ASSUME PInv, writes = <<>>, UNCHANGED <<details, persons, owner>>,
         NEW p \in Profile, owner[p.mId] = p.person, p.person <= persons, Keep(p),
         \E i \in DOMAIN writes' : writes'[i] = WriteDetails(p),
         \A i \in DOMAIN writes' : writes'[i].file = "details" => writes'[i] = WriteDetails(p)
  PROVE  KeptSafe'
<1>1. /\ persons \in Nat /\ p.person \in Person /\ p.person \in Nat /\ p.person # 0
      /\ p.mId \in Ids /\ p.progress \in Progress /\ p.progress \in Nat
      /\ \A id \in Ids : owner[id] # 0 => owner[id] \in Person
  BY FileTypes DEF PInv, IInv, Types, Profile
<1>2. /\ kept' \in [Person -> Progress] /\ kept'[p.person] = p.progress
      /\ \A person \in Person : person # p.person => kept'[person] = kept[person]
  BY <1>1 DEF PInv, KeptSafe, Keep
<1>3. \A person \in Person : person > persons => kept'[person] = 0
  BY <1>1, <1>2, FileTypes DEF PInv, IInv, KeptSafe
<1>4. WriteDetails(p).content = DetailsOf(p) /\ WriteDetails(p).content # NoFile
      /\ DetailsOf(p) \notin {NoFile, Torn}
  BY ProfileWrites, FilesAssumption
<1>5. ASSUME NEW id \in Ids, owner[id] # 0, kept'[owner[id]] # 0
      PROVE  /\ Holds(details[id], owner[id])' \/ WillHold(id)'
             /\ \A i \in DOMAIN writes' : ~Erases(writes'[i], id)
  <2>1. \A i \in DOMAIN writes' : ~Erases(writes'[i], id)
    BY <1>4 DEF Erases
  <2>2. CASE owner[id] = p.person
    <3>1. id = p.mId
      BY <1>1, <1>5, <2>2 DEF PInv, PersonsApart
    <3>2. Holds(DetailsOf(p), p.person)'
      BY <1>1, <1>2, <1>4 DEF Holds, DetailsOf
    <3>3. IsDetails(WriteDetails(p)) /\ WriteDetails(p).id = id
      BY <1>4, <3>1 DEF IsDetails, WriteDetails
    <3>4. WillHold(id)'
      BY <1>4, <2>2, <3>2, <3>3 DEF WillHold
    <3> QED
      BY <2>1, <3>4
  <2>3. CASE owner[id] # p.person
    <3>1. kept'[owner[id]] = kept[owner[id]]
      BY <1>1, <1>2, <1>5, <2>3
    <3>2. ~WillHold(id)
      BY DEF WillHold
    <3>3. Holds(details[id], owner[id])
      BY <1>5, <3>1, <3>2 DEF PInv, KeptSafe
    <3> QED
      BY <2>1, <3>1, <3>3 DEF Holds
  <2> QED
    BY <2>2, <2>3
<1> QED
  BY <1>2, <1>3, <1>5 DEF KeptSafe

\* Reading the details again reads the same.
LEMMA LoadedAgain ==
  ASSUME Types, NEW p \in Profile, NEW q \in Profile,
         q.mId = p.mId, q.progress = LoadDetails(p).progress
  PROVE  LoadDetails(q).progress = LoadDetails(p).progress
<1>1. CASE details[p.mId] = NoFile
  BY <1>1, FilesAssumption DEF LoadDetails
<1>2. CASE details[p.mId] = Torn
  BY <1>2, FilesAssumption DEF LoadDetails, Profile
<1>3. CASE details[p.mId] \notin {NoFile, Torn}
  BY <1>3 DEF LoadDetails, Profile
<1> QED
  BY <1>1, <1>2, <1>3

LEMMA GetProfileAt ==
  ASSUME NEW m \in ProfileMaps, NEW k
  PROVE  /\ DOMAIN GetProfile(m, k) = DOMAIN m
         /\ \A l \in DOMAIN m : GetProfile(m, k)[l] = IF l = k THEN LoadDetails(m[l]) ELSE m[l]
BY MapOfProfiles DEF GetProfile

\* Nobody in the map is yet to be made.
LEMMA PersonsMade ==
  ASSUME IInv, PersonsApart, NEW k \in DOMAIN mProfileMap
  PROVE  mProfileMap[k] \in Profile /\ mProfileMap[k].person <= persons
<1>1. mProfileMap[k] \in Profile
  BY MapOfProfiles DEF IInv, Types
<1>2. mProfileMap[k].person = owner[mProfileMap[k].mId] /\ mProfileMap[k].mId \in Ids
  BY <1>1, FileTypes DEF IInv, Sounds, Sound, Owned
<1> QED
  BY <1>1, <1>2 DEF PersonsApart

LEMMA DiskSame ==
  ASSUME Types, details' = details
  PROVE  DiskKeeps
<1> SUFFICES ASSUME NEW id \in Ids, details[id] \notin {NoFile, Torn}
             PROVE  details[id].progress <= details[id].progress
  BY DEF DiskKeeps
<1> QED
  BY FileTypes DEF OnDisk

LEMMA FewKeys ==
  ASSUME NEW K \in SUBSET Keys
  PROVE  IsFiniteSet(K) /\ Cardinality(K) \in Nat
BY ProfilesAssumption, FS_Subset, FS_CardinalityType

-----------------------------------------------------------------------------
(* The dialogs of the menu: what the map has next it has now, or reads now.   *)

\* l is the profile that k was, read again or not; a new current player is read.
Reread(k, l) ==
  /\ mProfileMap'[l].mId = mProfileMap[k].mId
  /\ mProfileMap'[l].person = mProfileMap[k].person
  /\ \/ mProfileMap'[l].progress = LoadDetails(mProfileMap[k]).progress
     \/ /\ mProfileMap'[l].progress = mProfileMap[k].progress
        /\ l = mPlayerInfo' => k = mPlayerInfo

Fresh(l) == mProfileMap'[l].person = persons + 1 /\ mProfileMap'[l].progress = 0

MenuStep ==
  /\ running = "menu" /\ running' = "menu" /\ writes = <<>> /\ UNCHANGED <<disk, left>>
  /\ FewerKept
  /\ \A i \in DOMAIN writes' : writes'[i].file = "details" =>
       ~IsDetails(writes'[i]) /\ owner' = owner /\ kept'[owner[writes'[i].id]] = 0
  /\ \A l \in DOMAIN mProfileMap' : Fresh(l) \/ \E k \in DOMAIN mProfileMap : Reread(k, l)

LEMMA SameKept ==
  ASSUME PInv, kept' = kept
  PROVE  FewerKept
BY DEF PInv, KeptSafe, FewerKept

LEMMA DoUserDialogSteps == PInv /\ DoUserDialog => MenuStep
<1> SUFFICES ASSUME PInv, DoUserDialog PROVE MenuStep
  OBVIOUS
<1>1. /\ running = "menu" /\ writes = <<>>
      /\ UNCHANGED <<running, mProfileMap, mPlayerInfo, writes, disk, left, kept>>
  BY DEF DoUserDialog, Idle, memory, history
<1>2. \A l \in DOMAIN mProfileMap' : Reread(l, l)
  BY <1>1 DEF Reread
<1>3. DOMAIN writes' = {}
  BY <1>1
<1> QED
  BY <1>1, <1>2, <1>3, SameKept DEF MenuStep

LEMMA FinishUserDialogSteps == PInv /\ FinishUserDialog => MenuStep
<1> SUFFICES ASSUME PInv, FinishUserDialog PROVE MenuStep
  OBVIOUS
<1>1. /\ running = "menu" /\ writes = <<>>
      /\ UNCHANGED <<running, writes, disk, left, kept>>
  BY DEF FinishUserDialog, Idle, history
<1>2. ASSUME NEW l \in DOMAIN mProfileMap'
      PROVE  l \in DOMAIN mProfileMap /\ Reread(l, l)
  <2>1. CASE UNCHANGED memory
    BY <1>2, <2>1 DEF memory, Reread
  <2>2. CASE \E i \in DOMAIN mUserList :
               /\ mProfileMap' = GetProfile(mProfileMap, mUserList[i].key)
               /\ mPlayerInfo' = mUserList[i].key
    <3>1. PICK k : mProfileMap' = GetProfile(mProfileMap, k) /\ mPlayerInfo' = k
      BY <2>2
    <3>2. mProfileMap \in ProfileMaps
      BY DEF PInv, IInv, Types
    <3>3. /\ l \in DOMAIN mProfileMap
          /\ mProfileMap'[l] = IF l = k THEN LoadDetails(mProfileMap[l]) ELSE mProfileMap[l]
      BY <1>2, <3>1, <3>2, GetProfileAt
    <3>4. mProfileMap[l] \in Profile
      BY <3>2, <3>3, MapOfProfiles
    <3>5. /\ LoadDetails(mProfileMap[l]).mId = mProfileMap[l].mId
          /\ LoadDetails(mProfileMap[l]).person = mProfileMap[l].person
      BY <3>4, LoadKeeps DEF PInv, IInv
    <3> QED
      BY <3>1, <3>3, <3>5 DEF Reread
  <2> QED
    BY <2>1, <2>2 DEF FinishUserDialog
<1>3. DOMAIN writes' = {}
  BY <1>1
<1> QED
  BY <1>1, <1>2, <1>3, SameKept DEF MenuStep

LEMMA CreateSteps ==
  PInv /\ FinishCreateUserDialog => /\ MenuStep /\ persons' = persons + 1
                                    /\ mNextProfileId \in Ids
                                    /\ owner' = [owner EXCEPT ![mNextProfileId] = persons + 1]
<1> SUFFICES ASSUME PInv, FinishCreateUserDialog
             PROVE  /\ MenuStep /\ persons' = persons + 1 /\ mNextProfileId \in Ids
                    /\ owner' = [owner EXCEPT ![mNextProfileId] = persons + 1]
  OBVIOUS
<1>1. /\ running = "menu" /\ writes = <<>> /\ writes' = <<WriteRoster(mProfileMap')>>
      /\ persons' = persons + 1 /\ UNCHANGED <<running, disk, left, kept>> /\ mNextProfileId \in Ids
      /\ owner' = [owner EXCEPT ![mNextProfileId] = persons + 1]
  BY DEF FinishCreateUserDialog, Idle
<1>2. PICK name \in Name :
        /\ name.key \notin DOMAIN mProfileMap
        /\ mProfileMap' = [k \in DOMAIN mProfileMap \union {name.key} |->
             IF k = name.key
             THEN [form |-> name.form, mId |-> mNextProfileId,
                   person |-> persons + 1, progress |-> 0]
             ELSE mProfileMap[k]]
        /\ mPlayerInfo' = name.key
  BY DEF FinishCreateUserDialog
<1>3. Fresh(name.key)
  BY <1>2 DEF Fresh
<1>4. ASSUME NEW l \in DOMAIN mProfileMap', l # name.key
      PROVE  l \in DOMAIN mProfileMap /\ Reread(l, l)
  BY <1>2, <1>4 DEF Reread
<1>5. \A i \in DOMAIN writes' : writes'[i].file # "details"
  BY <1>1 DEF WriteRoster
<1> QED
  BY <1>1, <1>3, <1>4, <1>5, SameKept DEF MenuStep

LEMMA RenameSteps ==
  PInv /\ FinishRenameUserDialog
    => MenuStep /\ \E old \in DOMAIN mProfileMap : \E key :
         DOMAIN mProfileMap' = (DOMAIN mProfileMap \ {old}) \union {key}
<1> SUFFICES ASSUME PInv, FinishRenameUserDialog
             PROVE  /\ MenuStep
                    /\ \E old \in DOMAIN mProfileMap : \E key :
                         DOMAIN mProfileMap' = (DOMAIN mProfileMap \ {old}) \union {key}
  OBVIOUS
<1>1. running = "menu" /\ writes = <<>> /\ UNCHANGED <<running, disk, left, kept>> /\ FewerKept
  BY SameKept DEF FinishRenameUserDialog, Idle, history
<1>2. PICK i \in DOMAIN mUserList, name \in Name :
        LET old     == mUserList[i].key
            read    == GetProfile(mProfileMap, old)
            renamed == RenameProfile(read, old, name)
        IN  /\ old \in DOMAIN mProfileMap
            /\ IF name.key \in DOMAIN mProfileMap \ {old}
               THEN /\ mProfileMap' = read
                    /\ UNCHANGED <<mPlayerInfo, mUserList, writes>>
               ELSE /\ mPlayerInfo' = PlayerAfterRename(old, name)
                    /\ mProfileMap' = IF mPlayerInfo = old THEN GetProfile(renamed, name.key)
                                                           ELSE renamed
                    /\ mUserList' = [mUserList EXCEPT ![i] = name]
                    /\ writes' = RenameWrites(renamed)
  BY DEF FinishRenameUserDialog
<1> DEFINE old     == mUserList[i].key
           read    == GetProfile(mProfileMap, old)
           renamed == RenameProfile(read, old, name)
           p       == mProfileMap[old]
<1>3. mProfileMap \in ProfileMaps /\ old \in DOMAIN mProfileMap /\ Types
  BY <1>2 DEF PInv, IInv, Types
<1>4. /\ DOMAIN read = DOMAIN mProfileMap /\ read[old] = LoadDetails(p)
      /\ \A k \in DOMAIN mProfileMap : k # old => read[k] = mProfileMap[k]
  BY <1>3, GetProfileAt
<1>5. p \in Profile /\ read \in ProfileMaps
  BY <1>3, MapOfProfiles, GetProfileLike DEF Like
<1>6. /\ LoadDetails(p) \in Profile
      /\ LoadDetails(p).mId = p.mId /\ LoadDetails(p).person = p.person
  BY <1>3, <1>5, LoadKeeps
<1>7. CASE name.key \in DOMAIN mProfileMap \ {old}
  <2>1. mProfileMap' = read /\ UNCHANGED <<mPlayerInfo, writes>>
    BY <1>2, <1>7
  <2> HIDE DEF read, p
  <2>2. ASSUME NEW l \in DOMAIN mProfileMap'
        PROVE  l \in DOMAIN mProfileMap /\ Reread(l, l)
    BY <1>4, <1>6, <2>1, <2>2 DEF Reread, p
  <2>3. DOMAIN mProfileMap' = (DOMAIN mProfileMap \ {old}) \union {old}
    BY <1>3, <1>4, <2>1
  <2>4. DOMAIN writes' = {}
    BY <1>1, <2>1
  <2>5. MenuStep
    BY <1>1, <2>2, <2>4 DEF MenuStep
  <2> QED
    BY <1>3, <2>3, <2>5
<1>8. CASE name.key \notin DOMAIN mProfileMap \ {old}
  <2>1. /\ mPlayerInfo' = (IF mPlayerInfo = old THEN name.key ELSE mPlayerInfo)
        /\ mProfileMap' = (IF mPlayerInfo = old THEN GetProfile(renamed, name.key) ELSE renamed)
        /\ writes' = <<WriteRoster(renamed)>>
    BY <1>2, <1>8 DEF PlayerAfterRename, RenameWrites
  <2>2. \A j \in DOMAIN writes' : writes'[j].file # "details"
    BY <2>1 DEF WriteRoster
  <2> HIDE DEF read, p, old
  <2>3. /\ renamed \in ProfileMaps
        /\ DOMAIN renamed = (DOMAIN read \ {old}) \union {name.key}
        /\ \A k \in DOMAIN read \ {old} : renamed[k] = read[k]
    BY <1>3, <1>4, <1>5, <1>8, RenameSound
  <2>4. renamed[name.key] = [LoadDetails(p) EXCEPT !.form = name.form]
    BY <1>4 DEF RenameProfile
  <2> HIDE DEF renamed
  <2>5. /\ renamed[name.key] \in Profile
        /\ renamed[name.key].mId = p.mId /\ renamed[name.key].person = p.person
        /\ renamed[name.key].progress = LoadDetails(p).progress
    <3>1. renamed[name.key] \in Profile
      BY <2>3, MapOfProfiles
    <3> QED
      BY <1>6, <2>4, <3>1 DEF Profile
  <2>6. /\ LoadDetails(renamed[name.key]).mId = p.mId
        /\ LoadDetails(renamed[name.key]).person = p.person
        /\ LoadDetails(renamed[name.key]).progress = LoadDetails(p).progress
    BY <1>3, <1>5, <2>5, LoadKeeps, LoadedAgain
  <2>7. /\ DOMAIN mProfileMap' = DOMAIN renamed
        /\ \A k \in DOMAIN renamed : k # name.key => mProfileMap'[k] = renamed[k]
        /\ mProfileMap'[name.key] \in {renamed[name.key], LoadDetails(renamed[name.key])}
    BY <2>1, <2>3, GetProfileAt
  <2>8. Reread(old, name.key)
    BY <2>5, <2>6, <2>7 DEF Reread, p
  <2>9. ASSUME NEW l \in DOMAIN mProfileMap', l # name.key
        PROVE  l \in DOMAIN mProfileMap /\ Reread(l, l)
    <3>1. l \in DOMAIN read \ {old} /\ mProfileMap'[l] = read[l]
      BY <2>3, <2>7, <2>9
    <3>2. l \in DOMAIN mProfileMap /\ mProfileMap'[l] = mProfileMap[l]
      BY <1>4, <3>1
    <3>3. l = mPlayerInfo' => l = mPlayerInfo
      BY <2>1, <2>9
    <3> QED
      BY <3>2, <3>3 DEF Reread
  <2>10. \A l \in DOMAIN mProfileMap' : \E k \in DOMAIN mProfileMap : Reread(k, l)
    BY <1>3, <2>8, <2>9
  <2>11. DOMAIN mProfileMap' = (DOMAIN mProfileMap \ {old}) \union {name.key}
    BY <1>4, <2>3, <2>7
  <2> QED
    BY <1>1, <1>3, <2>2, <2>10, <2>11 DEF MenuStep
<1> QED
  BY <1>7, <1>8

LEMMA DeleteSteps ==
  PInv /\ FinishConfirmDeleteUserDialog
    => /\ MenuStep
       /\ mPlayerInfo' = None => DOMAIN mProfileMap' = {}
       /\ \E gone \in DOMAIN mProfileMap : DOMAIN mProfileMap' = DOMAIN mProfileMap \ {gone}
<1> SUFFICES ASSUME PInv, FinishConfirmDeleteUserDialog
             PROVE  /\ MenuStep
                    /\ mPlayerInfo' = None => DOMAIN mProfileMap' = {}
                    /\ \E gone \in DOMAIN mProfileMap :
                         DOMAIN mProfileMap' = DOMAIN mProfileMap \ {gone}
  OBVIOUS
<1>1. running = "menu" /\ writes = <<>> /\ UNCHANGED <<running, disk, left, owner>>
  BY DEF FinishConfirmDeleteUserDialog, Idle
<1>2. PICK i \in DOMAIN mUserList :
        LET gone    == mUserList[i].key
            rest    == [k \in DOMAIN mProfileMap \ {gone} |-> mProfileMap[k]]
            current == mUserList[i] = NameOf(mProfileMap, mPlayerInfo)
            player  == PlayerAfterDelete(RemoveAt(mUserList, i), i, rest)
        IN  /\ gone \in DOMAIN mProfileMap
            /\ mPlayerInfo' = IF current THEN player ELSE mPlayerInfo
            /\ mProfileMap' = IF current THEN GetProfile(rest, player) ELSE rest
            /\ writes' = DeleteWrites(mProfileMap[gone], rest)
            /\ Forget(mProfileMap[gone])
  BY DEF FinishConfirmDeleteUserDialog
<1> DEFINE gone    == mUserList[i].key
           rest    == [k \in DOMAIN mProfileMap \ {gone} |-> mProfileMap[k]]
           current == mUserList[i] = NameOf(mProfileMap, mPlayerInfo)
           player  == PlayerAfterDelete(RemoveAt(mUserList, i), i, rest)
           p       == mProfileMap[gone]
<1>3. /\ gone \in DOMAIN mProfileMap
      /\ mPlayerInfo' = (IF current THEN player ELSE mPlayerInfo)
      /\ mProfileMap' = (IF current THEN GetProfile(rest, player) ELSE rest)
      /\ writes' = <<EraseDetails(p), EraseSaved(p), WriteRoster(rest)>>
      /\ Forget(p)
  BY <1>2 DEF DeleteWrites
<1>4. mProfileMap \in ProfileMaps /\ Types
  BY DEF PInv, IInv, Types
<1>5. /\ DOMAIN rest = DOMAIN mProfileMap \ {gone}
      /\ \A k \in DOMAIN rest : rest[k] = mProfileMap[k]
  OBVIOUS
<1>6. rest \in ProfileMaps
  <2> HIDE DEF gone
  <2> QED
    BY <1>4, RestrictSound
<1>7. /\ FewerKept
      /\ \A j \in DOMAIN writes' : writes'[j].file = "details" =>
           ~IsDetails(writes'[j]) /\ kept'[owner[writes'[j].id]] = 0
  <2> HIDE DEF gone, rest
  <2>1. p \in Profile /\ p.person \in Person /\ p.mId \in Ids /\ owner[p.mId] = p.person
    BY <1>1, <1>3, <1>4, IdleRoster, FileTypes DEF PInv
  <2> HIDE DEF p
  <2>2. /\ kept \in [Person -> Progress] /\ 0 \in Progress
        /\ kept' = [kept EXCEPT ![p.person] = 0]
    BY <1>3, ProfilesAssumption DEF PInv, KeptSafe, Forget, Progress
  <2>3. FewerKept /\ kept'[p.person] = 0
    BY <2>1, <2>2 DEF FewerKept
  <2>4. /\ ~IsDetails(EraseDetails(p)) /\ EraseDetails(p).id = p.mId
        /\ EraseSaved(p).file # "details" /\ WriteRoster(rest).file # "details"
    BY DEF IsDetails, EraseDetails, EraseSaved, WriteRoster
  <2> QED
    BY <1>3, <2>1, <2>3, <2>4
<1>8. player = None => DOMAIN rest = {}
  <2> DEFINE list == RemoveAt(mUserList, i)
  <2> HIDE DEF rest, list
  <2>1. DOMAIN rest \subseteq Keys /\ None \notin DOMAIN rest
    BY <1>6, MapOfProfiles, ProfilesAssumption
  <2>2. player \in DOMAIN rest \/ DOMAIN rest = {}
    BY <1>6, FirstInMap DEF PlayerAfterDelete, list
  <2> QED
    BY <2>1, <2>2
<1>9. mPlayerInfo # None
  BY DEF FinishConfirmDeleteUserDialog, Idle, PInv, IInv, PlayerListed
<1> HIDE DEF gone, rest, current, player, p
<1>10. /\ DOMAIN mProfileMap' = DOMAIN rest
      /\ \A l \in DOMAIN rest : \/ mProfileMap'[l] = LoadDetails(rest[l])
                                \/ mProfileMap'[l] = rest[l] /\ (l = mPlayerInfo' => l = mPlayerInfo)
  BY <1>3, <1>6, GetProfileAt
<1>11. ASSUME NEW l \in DOMAIN mProfileMap'
      PROVE  l \in DOMAIN mProfileMap /\ Reread(l, l)
  <2>1. l \in DOMAIN rest /\ l \in DOMAIN mProfileMap /\ rest[l] = mProfileMap[l]
    BY <1>5, <1>10, <1>11
  <2>2. mProfileMap[l] \in Profile
    BY <1>4, <2>1, MapOfProfiles
  <2>3. /\ LoadDetails(mProfileMap[l]).mId = mProfileMap[l].mId
        /\ LoadDetails(mProfileMap[l]).person = mProfileMap[l].person
    BY <1>4, <2>2, LoadKeeps
  <2> QED
    BY <1>10, <2>1, <2>3 DEF Reread
<1> QED
  BY <1>1, <1>3, <1>5, <1>7, <1>10, <1>11, <1>8, <1>9 DEF MenuStep

LEMMA MenuKeeps ==
  PInv /\ IInv' /\ MenuStep => InStep' /\ WritesInStep' /\ PlayerKeeps' /\ DiskKeeps
<1> SUFFICES ASSUME PInv, IInv', MenuStep
             PROVE  InStep' /\ WritesInStep' /\ PlayerKeeps' /\ DiskKeeps
  OBVIOUS
<1>1. /\ running = "menu" /\ running' = "menu" /\ writes = <<>> /\ details' = details
      /\ FewerKept
      /\ \A i \in DOMAIN writes' : ~IsDetails(writes'[i])
      /\ \A l \in DOMAIN mProfileMap' : Fresh(l) \/ \E k \in DOMAIN mProfileMap : Reread(k, l)
  BY DEF MenuStep, disk, IsDetails
<1>2. Types /\ IInv /\ PersonsApart /\ mProfileMap' \in ProfileMaps /\ persons \in Nat
  BY FileTypes DEF PInv, IInv, Types
<1>3. ASSUME mPlayerInfo' # None
      PROVE  /\ NotBehind(mProfileMap'[mPlayerInfo'], details[mProfileMap'[mPlayerInfo'].mId])
             /\ kept'[mProfileMap'[mPlayerInfo'].person] <= mProfileMap'[mPlayerInfo'].progress
  <2>0. PICK l : l = mPlayerInfo'
    OBVIOUS
  <2> DEFINE q == mProfileMap'[l]
             d == details[q.mId]
  <2>1. l \in DOMAIN mProfileMap'
    BY <1>3, <2>0 DEF IInv, PlayerListed
  <2>2. /\ q \in Profile /\ q.mId \in Ids /\ q.person \in Person /\ q.progress \in Nat
        /\ kept[q.person] \in Nat /\ (kept'[q.person] = 0 \/ kept'[q.person] = kept[q.person])
    BY <1>1, <1>2, <2>1, MapOfProfiles, FileTypes, KeptTypes DEF PInv, FewerKept
  <2>3. CASE Fresh(l)
    <3>1. OnDisk(d) => d.person <= persons /\ d.person \in Nat
      BY <1>2, <2>2, FileTypes DEF PersonsApart
    <3>2. q.person = persons + 1 /\ q.progress = 0
      BY <2>3 DEF Fresh
    <3>3. kept[q.person] = 0
      BY <1>2, <2>2, <3>2 DEF PInv, KeptSafe
    <3> QED
      BY <1>2, <2>0, <2>2, <3>1, <3>2, <3>3 DEF NotBehind
  <2>4. ASSUME NEW k \in DOMAIN mProfileMap, Reread(k, l)
        PROVE  NotBehind(q, d) /\ kept'[q.person] <= q.progress
    <3> DEFINE p == mProfileMap[k]
    <3>1. /\ p \in Profile /\ q.mId = p.mId /\ q.person = p.person
          /\ owner[p.mId] = p.person
      BY <1>1, <1>2, <2>4, IdleRoster DEF Reread
    <3>2. CASE q.progress = LoadDetails(p).progress
      <4>1. LoadDetails(p).person = p.person /\ NotBehind(LoadDetails(p), details[p.mId])
        BY <1>2, <3>1, LoadKeeps, Loaded
      <4>2. kept[p.person] <= LoadDetails(p).progress
        BY <1>1, <3>1, ReadKeeps
      <4> QED
        BY <2>2, <3>1, <3>2, <4>1, <4>2 DEF NotBehind
    <3>3. CASE q.progress = p.progress /\ k = mPlayerInfo
      <4>1. k # None
        BY <1>2, MapOfProfiles, ProfilesAssumption DEF Types
      <4>2. NotBehind(p, details[p.mId]) /\ kept[p.person] <= p.progress
        BY <1>1, <3>3, <4>1 DEF PInv, InStep, PlayerKeeps
      <4> QED
        BY <2>2, <3>1, <3>3, <4>2 DEF NotBehind
    <3> QED
      BY <2>0, <2>4, <3>2, <3>3 DEF Reread
  <2> QED
    BY <1>1, <2>0, <2>1, <2>3, <2>4
<1>4. InStep' /\ PlayerKeeps'
  BY <1>1, <1>3 DEF InStep, PlayerKeeps
<1>5. WritesInStep'
  BY <1>1 DEF WritesInStep, IsDetails
<1> QED
  BY <1>1, <1>2, <1>4, <1>5, DiskSame

-----------------------------------------------------------------------------
(* Playing: the current player goes ahead of their file, and what is to be    *)
(* kept of them is about to be written.                                      *)

PlayStep ==
  /\ running # "off" /\ running' # "off" /\ writes = <<>> /\ UNCHANGED <<disk, left, mPlayerInfo>>
  /\ mPlayerInfo \in DOMAIN mProfileMap
  /\ Like(mProfileMap', mProfileMap)
  /\ mProfileMap[mPlayerInfo].progress <= mProfileMap'[mPlayerInfo].progress
  /\ \A i \in DOMAIN writes' :
       writes'[i].file = "details" => writes'[i] = WriteDetails(mProfileMap'[mPlayerInfo])
  /\ \/ kept' = kept
     \/ /\ Keep(mProfileMap'[mPlayerInfo])
        /\ \E i \in DOMAIN writes' : writes'[i] = WriteDetails(mProfileMap'[mPlayerInfo])

LEMMA PlaySteps == PInv /\ Plays => PlayStep
<1> SUFFICES ASSUME PInv, Plays PROVE PlayStep
  OBVIOUS
<1>1. /\ running # "off" /\ mDialog = "none" /\ writes = <<>>
      /\ UNCHANGED <<disk, left, mPlayerInfo>>
  BY DEF Plays, PreNewGame, Earn, WriteCurrentUserConfig, CheckForGameEnd, DoBackToMain,
         GameOverMainMenu, Idle, history, memory, PInv, IInv, Scenes
<1>2. mPlayerInfo \in DOMAIN mProfileMap
  BY <1>1 DEF PInv, IInv, PlayerListed
<1> DEFINE p == mProfileMap[mPlayerInfo]
<1>3. p \in Profile /\ p.progress \in Nat /\ mProfileMap \in ProfileMaps
  BY <1>2, PersonsMade, FileTypes DEF PInv, IInv, Types
<1>4. ASSUME mProfileMap' = Achieve, p.progress < MaxProgress
      PROVE  /\ Like(mProfileMap', mProfileMap)
             /\ p.progress <= mProfileMap'[mPlayerInfo].progress
  <2>1. Like(mProfileMap', mProfileMap)
    BY <1>2, <1>4, AchieveLike DEF PInv
  <2>2. mProfileMap' = [mProfileMap EXCEPT ![mPlayerInfo] = [p EXCEPT !.progress = p.progress + 1]]
    BY <1>4 DEF Achieve
  <2>3. mProfileMap \in [DOMAIN mProfileMap -> Profile]
    BY <1>3, MapOfProfiles
  <2>4. mProfileMap'[mPlayerInfo] = [p EXCEPT !.progress = p.progress + 1]
    BY <1>2, <2>2, <2>3
  <2>5. mProfileMap'[mPlayerInfo].progress = p.progress + 1
    <3> HIDE DEF p
    <3> QED
      BY <1>3, <2>4 DEF Profile
  <2> QED
    BY <1>3, <2>1, <2>5
<1>5. ASSUME mProfileMap' = mProfileMap
      PROVE  /\ Like(mProfileMap', mProfileMap)
             /\ p.progress <= mProfileMap'[mPlayerInfo].progress
  BY <1>3, <1>5 DEF Like
<1>6. EraseSaved(p).file # "details" /\ WriteSaved(p).file # "details"
  BY DEF EraseSaved, WriteSaved
<1>7. CASE PreNewGame
  <2>1. /\ running' = "board" /\ writes' = <<EraseSaved(p)>> /\ mProfileMap' = mProfileMap
        /\ kept' = kept
    BY <1>7 DEF PreNewGame, memory, history
  <2> HIDE DEF p
  <2>2. \A i \in DOMAIN writes' : writes'[i].file # "details"
    BY <1>6, <2>1
  <2> QED
    BY <1>1, <1>2, <1>5, <2>1, <2>2 DEF PlayStep, p
<1>8. CASE Earn
  <2>1. /\ running' = running /\ writes' = <<>> /\ mProfileMap' = Achieve
        /\ p.progress < MaxProgress /\ kept' = kept
    BY <1>1, <1>8 DEF Earn, history
  <2>2. DOMAIN writes' = {}
    BY <2>1
  <2> QED
    BY <1>1, <1>2, <1>4, <2>1, <2>2 DEF PlayStep
<1>9. CASE CheckForGameEnd
  <2> DEFINE q == mProfileMap'[mPlayerInfo]
             w == WriteDetails(q)
  <2>1. /\ running' \in {"menu", "board"} /\ writes' = <<w>> /\ Keep(q)
        /\ mProfileMap' = Achieve /\ p.progress < MaxProgress
    BY <1>9 DEF CheckForGameEnd
  <2> HIDE DEF w
  <2>2. DOMAIN writes' = {1} /\ writes'[1] = w
    BY <2>1
  <2> QED
    BY <1>1, <1>2, <1>4, <2>1, <2>2 DEF PlayStep, w
<1>10. CASE DoBackToMain
  <2> DEFINE w == WriteDetails(p)
             v == WriteSaved(p)
  <2>1. /\ running' = "menu" /\ writes' = <<v, w>> /\ mProfileMap' = mProfileMap
        /\ Keep(mProfileMap'[mPlayerInfo])
    BY <1>10 DEF DoBackToMain, BackToMainWrites, memory
  <2> HIDE DEF w, v
  <2>2. DOMAIN writes' = {1, 2} /\ writes'[1] = v /\ writes'[2] = w
    BY <2>1
  <2>3. v.file # "details" /\ w = WriteDetails(mProfileMap'[mPlayerInfo])
    BY <1>6, <2>1 DEF v, w
  <2> QED
    BY <1>1, <1>2, <1>5, <2>1, <2>2, <2>3 DEF PlayStep
<1>11. CASE GameOverMainMenu
  <2>1. running' = "menu" /\ writes' = <<>> /\ mProfileMap' = mProfileMap /\ kept' = kept
    BY <1>1, <1>11 DEF GameOverMainMenu, memory, history
  <2>2. DOMAIN writes' = {}
    BY <2>1
  <2> QED
    BY <1>1, <1>2, <1>5, <2>1, <2>2 DEF PlayStep
<1>12. CASE WriteCurrentUserConfig
  <2> DEFINE w == WriteDetails(p)
  <2>1. /\ running' = running /\ writes' = <<w>> /\ mProfileMap' = mProfileMap
        /\ Keep(mProfileMap'[mPlayerInfo])
    BY <1>12 DEF WriteCurrentUserConfig, memory
  <2> HIDE DEF w
  <2>2. DOMAIN writes' = {1} /\ writes'[1] = w
    BY <2>1
  <2>3. w = WriteDetails(mProfileMap'[mPlayerInfo])
    BY <2>1 DEF w
  <2> QED
    BY <1>1, <1>2, <1>5, <2>1, <2>2, <2>3 DEF PlayStep
<1> QED
  BY <1>7, <1>8, <1>9, <1>10, <1>11, <1>12 DEF Plays

LEMMA PlayKeeps ==
  PInv /\ IInv' /\ PlayStep /\ UNCHANGED <<persons, owner>>
    => InStep' /\ WritesInStep' /\ KeptSafe' /\ PlayerKeeps' /\ DiskKeeps
<1> SUFFICES ASSUME PInv, IInv', PlayStep, UNCHANGED <<persons, owner>>
             PROVE  InStep' /\ WritesInStep' /\ KeptSafe' /\ PlayerKeeps' /\ DiskKeeps
  OBVIOUS
<1> DEFINE p == mProfileMap[mPlayerInfo]
           q == mProfileMap'[mPlayerInfo]
<1>1. /\ running # "off" /\ running' # "off" /\ writes = <<>> /\ details' = details
      /\ mPlayerInfo' = mPlayerInfo /\ mPlayerInfo \in DOMAIN mProfileMap
      /\ mPlayerInfo \in DOMAIN mProfileMap' /\ q.mId = p.mId /\ q.person = p.person
      /\ p.progress <= q.progress
      /\ \A i \in DOMAIN writes' : writes'[i].file = "details" => writes'[i] = WriteDetails(q)
      /\ kept' = kept \/ (Keep(q) /\ \E i \in DOMAIN writes' : writes'[i] = WriteDetails(q))
  BY DEF PlayStep, Like, disk
<1>2. Types /\ IInv /\ PersonsApart /\ mProfileMap' \in ProfileMaps
  BY DEF PInv, IInv, PlayStep, Like
<1>3. p \in Profile /\ q \in Profile /\ p.person <= persons /\ owner[p.mId] = p.person
  BY <1>1, <1>2, MapOfProfiles, PersonsMade, IdleRoster
<1>4. /\ p.progress \in Nat /\ q.progress \in Nat /\ q.mId \in Ids /\ q.person \in Person
      /\ OnDisk(details[q.mId]) => details[q.mId].progress \in Nat
      /\ kept[q.person] \in Nat
  BY <1>2, <1>3, FileTypes, KeptTypes DEF PInv
<1>5. mPlayerInfo # None
  BY <1>1, <1>2, MapOfProfiles, ProfilesAssumption DEF Types
<1>6. NotBehind(p, details[p.mId]) /\ kept[p.person] <= p.progress
  BY <1>1, <1>5 DEF PInv, InStep, PlayerKeeps
<1> HIDE DEF p, q
<1>7. NotBehind(q, details[q.mId]) /\ kept[q.person] <= q.progress
  BY <1>1, <1>3, <1>4, <1>6 DEF NotBehind
<1>8. InStep'
  BY <1>1, <1>7 DEF InStep, q
<1>9. WritesInStep'
  <2>1. ASSUME NEW i \in DOMAIN writes', IsDetails(writes'[i])
        PROVE  /\ NotBehind(writes'[i].content, details[writes'[i].id])
               /\ writes'[i].content.person = owner[writes'[i].id]
               /\ \A j \in DOMAIN writes' : IsDetails(writes'[j]) => writes'[j] = writes'[i]
               /\ writes'[i] = WriteDetails(q)
    <3>1. \A j \in DOMAIN writes' : IsDetails(writes'[j]) => writes'[j] = WriteDetails(q)
      BY <1>1 DEF IsDetails
    <3>2. NotBehind(DetailsOf(q), details[q.mId]) /\ DetailsOf(q).person = owner[q.mId]
      BY <1>1, <1>3, <1>7 DEF NotBehind, DetailsOf
    <3> QED
      BY <2>1, <3>1, <3>2 DEF WriteDetails
  <2> QED
    BY <1>1, <1>5, <2>1 DEF WritesInStep, WriteDetails, IsDetails, q
<1>10. CASE kept' = kept
  <2>1. \A i \in DOMAIN writes' : IsDetails(writes'[i]) \/ writes'[i].file # "details"
    <3>1. WriteDetails(q).content # NoFile
      BY <1>3, ProfileWrites, FilesAssumption
    <3> QED
      BY <1>1, <3>1 DEF IsDetails
  <2>2. KeptSafe'
    BY <1>1, <1>10, <2>1, StaysSafe
  <2>3. PlayerKeeps'
    BY <1>1, <1>7, <1>10 DEF PlayerKeeps, q
  <2> QED
    BY <1>1, <1>2, <1>8, <1>9, <2>2, <2>3, DiskSame
<1>11. CASE Keep(q) /\ \E i \in DOMAIN writes' : writes'[i] = WriteDetails(q)
  <2>1. KeptSafe'
    BY <1>1, <1>3, <1>11, WrittenSafe
  <2>2. kept'[q.person] = q.progress
    BY <1>4, <1>11 DEF Keep, PInv, KeptSafe
  <2>3. PlayerKeeps'
    BY <1>1, <1>4, <2>2 DEF PlayerKeeps, q
  <2> QED
    BY <1>1, <1>2, <1>8, <1>9, <2>1, <2>3, DiskSame
<1> QED
  BY <1>1, <1>10, <1>11

-----------------------------------------------------------------------------
(* The files.                                                                *)

\* What one write does to the files, and to the writes that are left.
LEMMA WriteSteps ==
  ASSUME IInv, Write
  PROVE  LET w == writes[1]
         IN  /\ 1 \in DOMAIN writes /\ WriteOK(w) /\ UNCHANGED <<running, memory, history>>
             /\ \A id \in Ids : details'[id] = IF w.file = "details" /\ w.id = id THEN w.content
                                                                                ELSE details[id]
             /\ users' = IF IsRoster(w) THEN w.content ELSE users
             /\ curUser' = IF w.file = "curUser" THEN w.content ELSE curUser
             /\ \A i \in DOMAIN writes' : i + 1 \in DOMAIN writes /\ writes'[i] = writes[i + 1]
             /\ \A i \in DOMAIN writes : i # 1 => i - 1 \in DOMAIN writes' /\ writes'[i - 1] = writes[i]
<1> DEFINE w == writes[1]
<1>0. writes \in Seq(Writes) /\ writes # <<>> /\ details \in [Ids -> Details \union {NoFile, Torn}]
  BY DEF IInv, Types, Write
<1>1. /\ 1 \in DOMAIN writes /\ Head(writes) = w
      /\ Len(writes) \in Nat /\ DOMAIN writes' = 1..Len(writes) - 1 /\ DOMAIN writes = 1..Len(writes)
      /\ \A i \in DOMAIN writes' : writes'[i] = writes[i + 1]
  BY <1>0 DEF Write
<1>2. WriteOK(w) /\ Becomes(w, w.content) /\ UNCHANGED <<running, memory, history>>
  BY <1>1 DEF IInv, Types, Write
<1> HIDE DEF w
<1>3. \A id \in Ids : details'[id] = IF w.file = "details" /\ w.id = id THEN w.content
                                                                       ELSE details[id]
  BY <1>0, <1>2 DEF Becomes
<1>4. /\ users' = IF IsRoster(w) THEN w.content ELSE users
      /\ curUser' = IF w.file = "curUser" THEN w.content ELSE curUser
  BY <1>2 DEF Becomes, IsRoster
<1>5. \A i \in DOMAIN writes' : i + 1 \in DOMAIN writes /\ writes'[i] = writes[i + 1]
  BY <1>1
<1>6. \A i \in DOMAIN writes : i # 1 => i - 1 \in DOMAIN writes' /\ writes'[i - 1] = writes[i]
  BY <1>1
<1> QED
  BY <1>1, <1>2, <1>3, <1>4, <1>5, <1>6 DEF w

LEMMA WriteKeeps == PInv /\ IInv' /\ Write => PInv' /\ DiskKeeps
<1> SUFFICES ASSUME PInv, IInv', Write PROVE PInv' /\ DiskKeeps
  OBVIOUS
<1> DEFINE w == writes[1]
<1>1. /\ 1 \in DOMAIN writes /\ WriteOK(w)
      /\ UNCHANGED <<running, mProfileMap, mPlayerInfo, persons, owner, left, kept>>
      /\ \A id \in Ids : details'[id] = IF w.file = "details" /\ w.id = id THEN w.content
                                                                         ELSE details[id]
      /\ users' = IF IsRoster(w) THEN w.content ELSE users
      /\ curUser' = IF w.file = "curUser" THEN w.content ELSE curUser
      /\ \A i \in DOMAIN writes' : i + 1 \in DOMAIN writes /\ writes'[i] = writes[i + 1]
      /\ \A i \in DOMAIN writes : i # 1 => i - 1 \in DOMAIN writes' /\ writes'[i - 1] = writes[i]
  BY WriteSteps DEF PInv, memory, history
<1>2. Types /\ IInv /\ PersonsApart /\ Types'
  BY DEF PInv, IInv
<1>3. IsDetails(w) =>
        /\ w.id \in Ids /\ w.content \in Details /\ NotBehind(w.content, details[w.id])
        /\ w.content.person <= persons /\ w.content.person = owner[w.id]
        /\ \A j \in DOMAIN writes : IsDetails(writes[j]) => writes[j] = w
        /\ running # "off" => mPlayerInfo # None /\ w = WriteDetails(mProfileMap[mPlayerInfo])
  BY <1>1 DEF PInv, WritesInStep, PersonsApart, IsDetails, WriteOK
<1> HIDE DEF w
<1>4. PersonsApart'
  <2>1. \A id \in Ids : OnDisk(details'[id]) => details'[id].person <= persons
    BY <1>1, <1>2, <1>3 DEF PersonsApart, IsDetails, OnDisk
  <2>2. \A i \in DOMAIN writes' : IsDetails(writes'[i]) => writes'[i].content.person <= persons
    BY <1>1, <1>2 DEF PersonsApart
  <2> QED
    BY <1>1, <1>2, <2>1, <2>2 DEF PersonsApart, IsDetails, OnDisk
<1>5. FewPlayers'
  <2>1. IsRoster(w) => w.content = RosterOf(mProfileMap)
    BY <1>1 DEF PInv, IInv, RosterCurrent, w
  <2>2. DOMAIN RosterOf(mProfileMap) = DOMAIN mProfileMap
    BY DEF RosterOf
  <2> QED
    BY <1>1, <2>1, <2>2 DEF PInv, FewPlayers
<1>6. InStep'
  <2> SUFFICES ASSUME running # "off", mPlayerInfo # None
               PROVE  LET p == mProfileMap[mPlayerInfo] IN NotBehind(p, details'[p.mId])
    BY <1>1 DEF InStep
  <2> DEFINE p == mProfileMap[mPlayerInfo]
  <2>1. p \in Profile /\ p.mId \in Ids /\ p.progress \in Nat
    <3>1. mPlayerInfo \in DOMAIN mProfileMap
      BY <1>2 DEF IInv, PlayerListed
    <3> QED
      BY <1>2, <3>1, PersonsMade, FileTypes
  <2>2. CASE w.file = "details" /\ w.id = p.mId /\ IsDetails(w)
    <3>1. details'[p.mId] = DetailsOf(p)
      BY <1>1, <1>3, <2>1, <2>2 DEF WriteDetails
    <3> QED
      BY <2>1, <3>1 DEF NotBehind, DetailsOf
  <2>3. CASE w.file = "details" /\ w.id = p.mId /\ ~IsDetails(w)
    BY <1>1, <2>1, <2>3 DEF IsDetails, NotBehind, OnDisk
  <2>4. CASE ~(w.file = "details" /\ w.id = p.mId)
    BY <1>1, <2>1, <2>4 DEF PInv, InStep
  <2> QED
    BY <2>2, <2>3, <2>4
<1>7. WritesInStep'
  <2> SUFFICES ASSUME NEW i \in DOMAIN writes', IsDetails(writes'[i])
               PROVE  /\ NotBehind(writes'[i].content, details'[writes'[i].id])
                      /\ writes'[i].content.person = owner[writes'[i].id]
                      /\ \A j \in DOMAIN writes' : IsDetails(writes'[j]) => writes'[j] = writes'[i]
                      /\ running # "off" =>
                           mPlayerInfo # None /\ writes'[i] = WriteDetails(mProfileMap[mPlayerInfo])
    BY <1>1 DEF WritesInStep, IsDetails, WriteDetails
  <2> DEFINE v == writes[i + 1]
  <2>1. i + 1 \in DOMAIN writes /\ writes'[i] = v /\ IsDetails(v)
    BY <1>1
  <2>2. /\ NotBehind(v.content, details[v.id]) /\ v.id \in Ids /\ v.content \in Details
        /\ v.content.person = owner[v.id]
        /\ \A j \in DOMAIN writes : IsDetails(writes[j]) => writes[j] = v
        /\ running # "off" => mPlayerInfo # None /\ v = WriteDetails(mProfileMap[mPlayerInfo])
    BY <1>2, <2>1 DEF PInv, WritesInStep, Types, WriteOK, IsDetails
  <2>3. NotBehind(v.content, details'[v.id])
    <3>1. CASE ~(w.file = "details" /\ w.id = v.id)
      BY <1>1, <2>2, <3>1
    <3>2. CASE w.file = "details" /\ w.id = v.id /\ ~IsDetails(w)
      BY <1>1, <2>2, <3>2 DEF IsDetails, NotBehind, OnDisk
    <3>3. CASE w.file = "details" /\ w.id = v.id /\ IsDetails(w)
      <4>1. w = v
        BY <1>1, <2>2, <3>3 DEF w
      <4>2. details'[v.id] = v.content /\ v.content.progress \in Nat
        BY <1>1, <1>2, <2>2, <3>3, <4>1, FileTypes
      <4> QED
        BY <4>2 DEF NotBehind
    <3> QED
      BY <3>1, <3>2, <3>3
  <2> QED
    BY <1>1, <2>1, <2>2, <2>3
<1>8. LeftOnDisk'
  <2> SUFFICES ASSUME left # None
               PROVE  /\ running = "off" /\ users' \notin {NoFile, Torn}
                      /\ \E k \in DOMAIN users' : LeftAs(k)'
    BY <1>1 DEF LeftOnDisk
  <2>1. running = "off" /\ users \notin {NoFile, Torn}
    BY DEF PInv, LeftOnDisk
  <2>2. PICK k \in DOMAIN users : LeftAs(k)
    BY DEF PInv, LeftOnDisk
  <2>3. Leaves(w, k)
    BY <1>1, <2>2 DEF LeftAs, w
  <2>4. users' = users
    BY <1>1, <2>3 DEF Leaves
  <2>5. users[k].mId \in Ids
    BY <1>2, <2>1, MapOfSummaries DEF Types, Summary
  <2>6. \A i \in DOMAIN writes' : Leaves(writes'[i], k)
    BY <1>1, <2>2 DEF LeftAs
  <2>7. curUser' = k \/ \E i \in DOMAIN writes' : writes'[i].file = "curUser"
    <3>1. CASE w.file = "curUser"
      BY <1>1, <2>3, <3>1 DEF Leaves
    <3>2. CASE w.file # "curUser"
      BY <1>1, <2>2, <3>2 DEF LeftAs, w
    <3> QED
      BY <3>1, <3>2
  <2>8. details'[users[k].mId] = left \/ \E i \in DOMAIN writes' : writes'[i].file = "details"
    <3>1. CASE w.file = "details"
      BY <1>1, <2>3, <2>5, <3>1 DEF Leaves
    <3>2. CASE w.file # "details"
      BY <1>1, <2>2, <2>5, <3>2 DEF LeftAs, w
    <3> QED
      BY <3>1, <3>2
  <2>9. LeftAs(k)'
    BY <1>1, <2>2, <2>4, <2>6, <2>7, <2>8 DEF LeftAs, Leaves, IsRoster
  <2> QED
    BY <2>1, <2>4, <2>9
<1>9. KeptSafe'
  <2>1. ASSUME NEW id \in Ids, owner[id] # 0, kept[owner[id]] # 0
        PROVE  /\ Holds(details'[id], owner[id]) \/ WillHold(id)'
               /\ \A i \in DOMAIN writes' : ~Erases(writes'[i], id)
    <3>1. /\ Holds(details[id], owner[id]) \/ WillHold(id)
          /\ \A i \in DOMAIN writes : ~Erases(writes[i], id)
      BY <2>1 DEF PInv, KeptSafe
    <3>2. \A i \in DOMAIN writes' : ~Erases(writes'[i], id)
      BY <1>1, <3>1
    <3>3. CASE w.file = "details" /\ w.id = id
      <4>1. IsDetails(w) /\ details'[id] = w.content
        BY <1>1, <3>1, <3>3 DEF IsDetails, Erases, w
      <4>2. w.content \notin {NoFile, Torn} /\ w.content.person = owner[id]
            /\ w.content.progress \in Nat
        BY <1>2, <1>3, <3>3, <4>1, FileTypes DEF OnDisk
      <4>3. owner[id] \in Person /\ kept[owner[id]] \in Nat
        BY <1>2, <2>1, KeptTypes DEF PInv, Types
      <4>4. CASE Holds(details[id], owner[id])
        <5>1. details[id].progress \in Nat /\ details[id].progress <= w.content.progress
          BY <1>2, <1>3, <3>3, <4>1, <4>2, <4>4, FileTypes DEF Holds, NotBehind, OnDisk
        <5> QED
          BY <3>2, <4>1, <4>2, <4>3, <4>4, <5>1 DEF Holds
      <4>5. CASE WillHold(id)
        <5>1. PICK i \in DOMAIN writes : IsDetails(writes[i]) /\ Holds(writes[i].content, owner[id])
          BY <4>5 DEF WillHold
        <5>2. writes[i] = w
          BY <1>3, <4>1, <5>1
        <5> QED
          BY <3>2, <4>1, <5>1, <5>2
      <4> QED
        BY <3>1, <4>4, <4>5
    <3>4. CASE ~(w.file = "details" /\ w.id = id)
      <4>1. details'[id] = details[id]
        BY <1>1, <3>4
      <4>2. ASSUME WillHold(id) PROVE WillHold(id)'
        <5>1. PICK i \in DOMAIN writes : /\ IsDetails(writes[i]) /\ writes[i].id = id
                                         /\ Holds(writes[i].content, owner[id])
          BY <4>2 DEF WillHold
        <5>2. i # 1
          BY <3>4, <5>1 DEF IsDetails, w
        <5>3. i - 1 \in DOMAIN writes' /\ writes'[i - 1] = writes[i]
          BY <1>1, <5>2
        <5> QED
          BY <1>1, <5>1, <5>3 DEF WillHold, IsDetails, Holds
      <4> QED
        BY <3>1, <3>2, <4>1, <4>2
    <3> QED
      BY <3>3, <3>4
  <2> QED
    BY <1>1, <2>1 DEF PInv, KeptSafe, Holds
<1>11. PlayerKeeps'
  BY <1>1 DEF PInv, PlayerKeeps
<1>10. DiskKeeps
  <2> SUFFICES ASSUME NEW id \in Ids, OnDisk(details[id]), OnDisk(details'[id]),
                      details[id].person = details'[id].person
               PROVE  details[id].progress <= details'[id].progress
    BY DEF DiskKeeps, OnDisk
  <2>1. details[id].progress \in Nat
    BY <1>2, FileTypes
  <2>2. CASE w.file = "details" /\ w.id = id
    <3>1. IsDetails(w) /\ details'[id] = w.content
      BY <1>1, <2>2 DEF IsDetails, OnDisk
    <3> QED
      BY <1>3, <2>2, <3>1 DEF NotBehind
  <2>3. CASE ~(w.file = "details" /\ w.id = id)
    BY <1>1, <2>1, <2>3
  <2> QED
    BY <2>2, <2>3
<1> QED
  BY <1>1, <1>4, <1>5, <1>6, <1>7, <1>8, <1>9, <1>10, <1>11 DEF PInv

LEMMA CrashKeeps == PInv /\ IInv' /\ Crash => PInv' /\ DiskKeeps
<1> SUFFICES ASSUME PInv, IInv', Crash PROVE PInv' /\ DiskKeeps
  OBVIOUS
<1>1. /\ Gone /\ writes' = <<>> /\ left' = None /\ UNCHANGED <<persons, owner>>
      /\ DOMAIN writes' = {}
  BY DEF Crash
<1>2. Types /\ IInv /\ PersonsApart
  BY DEF PInv, IInv
<1>3. /\ users' \in {users, Torn} /\ \A id \in Ids : details'[id] \in {details[id], Torn}
      /\ \A id \in Ids : details'[id] # details[id] /\ owner[id] # 0 => Unwritten(owner[id])
  <2>1. CASE UNCHANGED <<disk, rosterTorn>>
    BY <2>1 DEF disk
  <2>2. CASE writes # <<>> /\ Head(writes).content # NoFile /\ Becomes(Head(writes), Torn)
    <3> DEFINE w == writes[1]
    <3>1. 1 \in DOMAIN writes /\ Head(writes) = w
      BY <1>2, <2>2 DEF Types
    <3> HIDE DEF w
    <3>2. /\ users' \in {users, Torn}
          /\ \A id \in Ids : details'[id] = IF w.file = "details" /\ w.id = id THEN Torn
                                                                            ELSE details[id]
      BY <1>2, <2>2, <3>1 DEF Becomes, Types
    <3>3. ASSUME NEW id \in Ids, details'[id] # details[id]
          PROVE  Unwritten(owner[id])
      <4>1. w.file = "details" /\ w.id = id /\ w.content # NoFile
        BY <2>2, <3>1, <3>2, <3>3
      <4>2. w.content.person = owner[id]
        BY <3>1, <4>1 DEF PInv, WritesInStep, IsDetails, w
      <4> QED
        BY <3>1, <4>1, <4>2 DEF Unwritten, w
    <3> QED
      BY <3>2, <3>3
  <2> QED
    BY <2>1, <2>2 DEF Crash
<1>4. PersonsApart'
  BY <1>1, <1>2, <1>3 DEF PersonsApart, OnDisk
<1>5. FewPlayers'
  <2>1. DOMAIN mProfileMap' = {} /\ running' = "off"
    BY <1>1 DEF Gone
  <2>2. Cardinality({}) = 0
    BY FS_EmptySet
  <2> QED
    BY <1>3, <2>1, <2>2, ProfilesAssumption DEF PInv, FewPlayers
<1>6. InStep' /\ WritesInStep' /\ LeftOnDisk' /\ PlayerKeeps'
  BY <1>1 DEF Gone, InStep, WritesInStep, LeftOnDisk, PlayerKeeps
<1>7. KeptSafe'
  <2>1. /\ kept \in [Person -> Progress] /\ 0 \in Progress
        /\ \A person \in Person : person > persons => kept[person] = 0
    BY ProfilesAssumption DEF PInv, KeptSafe, Progress
  <2>2. \A person \in Person : kept'[person] =
          IF Unwritten(person) /\ ~\E id \in Ids : owner[id] = person /\ Holds(details'[id], person)
          THEN 0 ELSE kept[person]
    BY DEF Crash, ForgetUnwritten
  <2>3. kept' \in [Person -> Progress]
    BY <2>1 DEF Crash, ForgetUnwritten
  <2>4. \A person \in Person : person > persons => kept'[person] = 0
    BY <2>1, <2>2
  <2>5. ASSUME NEW id \in Ids, owner[id] # 0, kept'[owner[id]] # 0
        PROVE  Holds(details[id], owner[id])'
    <3>1. owner[id] \in Person
      BY <1>2, <2>5 DEF Types
    <3>2. kept'[owner[id]] = kept[owner[id]]
      BY <2>2, <2>5, <3>1
    <3>3. CASE \E i \in Ids : owner[i] = owner[id] /\ Holds(details'[i], owner[id])
      <4>1. PICK i \in Ids : owner[i] = owner[id] /\ Holds(details'[i], owner[id])
        BY <3>3
      <4>2. i = id
        BY <1>2, <2>5, <4>1 DEF PersonsApart
      <4> QED
        BY <1>1, <3>2, <4>1, <4>2 DEF Holds
    <3>4. CASE ~Unwritten(owner[id])
      <4>1. ~WillHold(id)
        BY <3>4 DEF WillHold, Unwritten, IsDetails, Holds
      <4>2. Holds(details[id], owner[id])
        BY <2>5, <3>2, <4>1 DEF PInv, KeptSafe
      <4>3. details'[id] = details[id]
        BY <1>3, <2>5, <3>4
      <4> QED
        BY <1>1, <3>2, <4>2, <4>3 DEF Holds
    <3> QED
      BY <2>2, <2>5, <3>1, <3>3, <3>4
  <2> QED
    BY <1>1, <2>3, <2>4, <2>5 DEF KeptSafe
<1>8. DiskKeeps
  <2> SUFFICES ASSUME NEW id \in Ids, OnDisk(details[id]), OnDisk(details'[id])
               PROVE  details[id].progress <= details'[id].progress
    BY DEF DiskKeeps, OnDisk
  <2>1. details'[id] = details[id] /\ details[id].progress \in Nat
    BY <1>2, <1>3, FileTypes DEF OnDisk
  <2> QED
    BY <2>1
<1> QED
  BY <1>1, <1>4, <1>5, <1>6, <1>7, <1>8 DEF PInv

\* The map of a handler that has ended is on the roster.
LEMMA IdleUsers ==
  ASSUME IInv, running # "off", writes = <<>>, NEW k \in DOMAIN mProfileMap
  PROVE  /\ users \notin {NoFile, Torn} /\ k \in DOMAIN users
         /\ users[k].mId = mProfileMap[k].mId /\ users[k].person = mProfileMap[k].person
BY IdleRoster DEF RosterIs, RosterOf

LEMMA ShutdownKeeps == PInv /\ IInv' /\ Shutdown => PInv' /\ DiskKeeps
<1> SUFFICES ASSUME PInv, IInv', Shutdown PROVE PInv' /\ DiskKeeps
  OBVIOUS
<1>1. /\ Gone /\ running # "off" /\ running' = "off" /\ writes = <<>>
      /\ UNCHANGED <<users, details, curUser, persons, owner>>
  BY DEF Shutdown, Gone, disk
<1>2. Types /\ IInv /\ PersonsApart
  BY DEF PInv, IInv
<1>3. FewPlayers'
  <2>1. DOMAIN mProfileMap' = {}
    BY <1>1 DEF Gone
  <2>2. Cardinality({}) = 0
    BY FS_EmptySet
  <2> QED
    BY <1>1, <2>1, <2>2, ProfilesAssumption DEF PInv, FewPlayers
<1>4. InStep' /\ PlayerKeeps' /\ DiskKeeps
  BY <1>1, <1>2, DiskSame DEF InStep, PlayerKeeps
<1>5. /\ left' \in Details \union {None} /\ PersonsApart' /\ WritesInStep' /\ LeftOnDisk'
      /\ KeptSafe'
  <2>1. CASE mPlayerInfo = None
    <3>1. writes' = <<>> /\ left' = left /\ left = None /\ kept' = kept /\ DOMAIN writes' = {}
      BY <1>1, <2>1 DEF Shutdown, PInv, LeftOnDisk
    <3>2. KeptSafe'
      BY <1>1, <3>1, StaysSafe
    <3> QED
      BY <1>1, <1>2, <3>1, <3>2 DEF PersonsApart, WritesInStep, LeftOnDisk
  <2>2. CASE mPlayerInfo # None
    <3>0. PICK k : k = mPlayerInfo
      OBVIOUS
    <3> DEFINE p == mProfileMap[k]
               u == WriteCurUser(k)
               d == WriteDetails(p)
    <3>1. k \in DOMAIN mProfileMap /\ p \in Profile /\ p.person <= persons
      BY <1>2, <2>2, <3>0, PersonsMade DEF IInv, PlayerListed
    <3>2. DetailsOf(p) \in Details /\ DetailsOf(p).person = p.person /\ DetailsOf(p).progress = p.progress
      BY <3>1, ProfileWrites DEF DetailsOf
    <3>3. NotBehind(DetailsOf(p), details[p.mId])
      BY <1>1, <2>2, <3>0, <3>1, <3>2 DEF PInv, InStep, NotBehind
    <3>4. left' = DetailsOf(p) /\ Keep(p) /\ owner[p.mId] = p.person
      BY <1>1, <1>2, <2>2, <3>0, <3>1, IdleRoster DEF Shutdown
    <3>5. /\ ~IsDetails(WriteSaved(p)) /\ ~IsRoster(WriteSaved(p))
          /\ WriteSaved(p).file \notin {"curUser", "details"}
          /\ ~IsDetails(u) /\ ~IsRoster(u) /\ u.file = "curUser" /\ u.content = k
          /\ d.file = "details" /\ ~IsRoster(d) /\ d.id = p.mId /\ d.content = DetailsOf(p)
      BY DEF IsDetails, IsRoster, WriteSaved, WriteCurUser, WriteDetails
    <3>6. writes' \in {<<WriteSaved(p), d, u, d>>, <<u, d>>}
      BY <2>2, <3>0 DEF Shutdown, ExitWrites
    <3> HIDE DEF p, u, d
    <3>7. /\ \A i \in DOMAIN writes' : writes'[i] \in {WriteSaved(p), u, d}
          /\ \E i \in DOMAIN writes' : writes'[i] = u
          /\ \E i \in DOMAIN writes' : writes'[i] = d
      <4>1. CASE writes' = <<u, d>>
        <5>1. DOMAIN writes' = {1, 2} /\ writes'[1] = u /\ writes'[2] = d
          BY <4>1
        <5> QED
          BY <5>1
      <4>2. CASE writes' = <<WriteSaved(p), d, u, d>>
        <5>1. /\ DOMAIN writes' = {1, 2, 3, 4} /\ writes'[1] = WriteSaved(p)
              /\ writes'[2] = d /\ writes'[3] = u /\ writes'[4] = d
          BY <4>2
        <5> QED
          BY <5>1
      <4> QED
        BY <3>6, <4>1, <4>2
    <3>8. \A i \in DOMAIN writes' : IsDetails(writes'[i]) => writes'[i] = d
      BY <3>5, <3>7
    <3>9. PersonsApart'
      <4>1. \A i \in DOMAIN writes' : IsDetails(writes'[i]) => writes'[i].content.person <= persons
        BY <3>1, <3>2, <3>5, <3>8
      <4> QED
        BY <1>1, <1>2, <4>1 DEF PersonsApart, IsDetails, OnDisk
    <3>10. WritesInStep'
      <4>1. \A i \in DOMAIN writes' : IsDetails(writes'[i]) =>
              /\ NotBehind(writes'[i].content, details[writes'[i].id])
              /\ writes'[i].content.person = owner[writes'[i].id]
              /\ \A j \in DOMAIN writes' : IsDetails(writes'[j]) => writes'[j] = writes'[i]
        BY <3>2, <3>3, <3>4, <3>5, <3>8
      <4> QED
        BY <1>1, <4>1 DEF WritesInStep, IsDetails
    <3>11. LeftOnDisk'
      <4>1. /\ users \notin {NoFile, Torn} /\ k \in DOMAIN users
            /\ users[k].mId = p.mId /\ users[k].person = p.person
        BY <1>1, <1>2, <3>1, IdleUsers DEF p
      <4>2. ASSUME NEW w \in {WriteSaved(p), u, d}
            PROVE  /\ ~IsRoster(w) /\ (w.file = "curUser" => w.content = k)
                   /\ (w.file = "details" => w.id = users[k].mId /\ w.content = left')
        BY <3>4, <3>5, <4>1
      <4>3. LeftAs(k)'
        BY <1>1, <3>2, <3>4, <3>5, <3>7, <4>1, <4>2 DEF LeftAs, Leaves, IsRoster
      <4> QED
        BY <1>1, <4>1, <4>3 DEF LeftOnDisk
    <3>12. KeptSafe'
      <4>1. \A i \in DOMAIN writes' : writes'[i].file = "details" => writes'[i] = d
        BY <3>5, <3>7
      <4> QED
        BY <1>1, <3>1, <3>4, <3>7, <4>1, WrittenSafe DEF d
    <3> QED
      BY <3>2, <3>4, <3>9, <3>10, <3>11, <3>12
  <2> QED
    BY <2>1, <2>2
<1> QED
  BY <1>3, <1>4, <1>5 DEF PInv

LEMMA LoadAt ==
  ASSUME Types
  PROVE  /\ users \in {NoFile, Torn} => DOMAIN Load = {}
         /\ users \notin {NoFile, Torn} =>
              /\ DOMAIN Load = DOMAIN users
              /\ \A k \in DOMAIN users : /\ Load[k].mId = users[k].mId
                                         /\ Load[k].person = users[k].person
         /\ \A k \in DOMAIN Load : Load[k].progress = 0
<1>1. CASE users \in {NoFile, Torn}
  <2>1. DOMAIN Load = {}
    BY <1>1 DEF Load
  <2> QED
    BY <1>1, <2>1
<1>2. CASE users \notin {NoFile, Torn}
  BY <1>2 DEF Load
<1> QED
  BY <1>1, <1>2

LEMMA StartKeeps == PInv /\ IInv' /\ Start => PInv' /\ DiskKeeps
<1> SUFFICES ASSUME PInv, IInv', Start PROVE PInv' /\ DiskKeeps
  OBVIOUS
<1> DEFINE player == StartingPlayer(Load)
<1>1. /\ running = "off" /\ running' = "menu" /\ writes = <<>> /\ left' = None
      /\ mProfileMap' = GetProfile(Load, player) /\ mPlayerInfo' = player
      /\ UNCHANGED <<writes, users, details, persons, owner, kept>>
      /\ DOMAIN writes' = {}
  BY DEF Start, disk
<1>2. Types /\ IInv /\ PersonsApart
  BY DEF PInv, IInv
<1>3. Load \in ProfileMaps
  BY <1>2, LoadSound DEF IInv, Sounds
<1>4. player = None => DOMAIN Load = {}
  <2>1. None \notin DOMAIN Load
    BY <1>3, MapOfProfiles, ProfilesAssumption
  <2>2. DOMAIN Load # {} => First(Load) \in DOMAIN Load
    BY <1>3, FirstInMap
  <2> QED
    BY <2>1, <2>2 DEF StartingPlayer
<1> HIDE DEF player
<1>5. /\ DOMAIN mProfileMap' = DOMAIN Load
      /\ \A k \in DOMAIN Load : mProfileMap'[k] = IF k = player THEN LoadDetails(Load[k]) ELSE Load[k]
  BY <1>1, <1>3, GetProfileAt
<1>6. PersonsApart' /\ WritesInStep' /\ LeftOnDisk' /\ KeptSafe'
  BY <1>1, <1>2, StaysSafe DEF PersonsApart, OnDisk, IsDetails, WritesInStep, LeftOnDisk
<1>7. FewPlayers'
  <2>1. Cardinality({}) = 0
    BY FS_EmptySet
  <2>2. Cardinality(DOMAIN Load) <= MaxUsers
    BY <1>2, <2>1, LoadAt, ProfilesAssumption DEF PInv, FewPlayers
  <2> QED
    BY <1>1, <1>4, <1>5, <2>2 DEF PInv, FewPlayers
<1>8. ASSUME player # None
      PROVE  /\ NotBehind(mProfileMap'[player], details[mProfileMap'[player].mId])
             /\ kept[mProfileMap'[player].person] <= mProfileMap'[player].progress
  <2> DEFINE p == Load[player]
  <2>1. player \in DOMAIN Load
    BY <1>1, <1>5, <1>8 DEF IInv, PlayerListed
  <2>2. p \in Profile /\ owner[p.mId] = p.person
    BY <1>2, <1>3, <2>1, MapOfProfiles, LoadSound DEF IInv, Sounds, Sound, Owned
  <2>3. /\ mProfileMap'[player] = LoadDetails(p)
        /\ LoadDetails(p).mId = p.mId /\ LoadDetails(p).person = p.person
    BY <1>2, <1>5, <2>1, <2>2, LoadKeeps
  <2> HIDE DEF p
  <2> QED
    BY <1>1, <1>2, <2>2, <2>3, Loaded, ReadKeeps
<1>9. InStep' /\ PlayerKeeps' /\ DiskKeeps
  BY <1>1, <1>2, <1>8, DiskSame DEF InStep, PlayerKeeps
<1> QED
  BY <1>1, <1>6, <1>7, <1>9 DEF PInv

\* Who left the game by Shutdown is read back by Start.
LEMMA StartResumes ==
  ASSUME PInv, Start, left # None
  PROVE  mPlayerInfo' # None /\ DetailsOf(mProfileMap'[mPlayerInfo']) = left
<1>1. /\ writes = <<>> /\ DOMAIN writes = {} /\ mPlayerInfo' = StartingPlayer(Load)
      /\ mProfileMap' = GetProfile(Load, StartingPlayer(Load))
  BY DEF Start
<1>2. Types /\ Load \in ProfileMaps /\ users \notin {NoFile, Torn} /\ left \in Details
  BY LoadSound DEF PInv, IInv, Sounds, LeftOnDisk
<1>3. PICK k \in DOMAIN users :
        /\ users[k].person = left.person /\ curUser = k /\ details[users[k].mId] = left
  BY <1>1 DEF PInv, LeftOnDisk, LeftAs
<1>4. /\ k \in DOMAIN Load /\ Load[k].mId = users[k].mId /\ Load[k].person = users[k].person
      /\ k \in Keys /\ Load[k] \in Profile
  BY <1>2, <1>3, LoadAt, MapOfProfiles
<1>5. StartingPlayer(Load) = k
  BY <1>3, <1>4 DEF StartingPlayer
<1>6. mProfileMap'[k] = LoadDetails(Load[k])
  BY <1>1, <1>2, <1>4, <1>5, GetProfileAt
<1>7. /\ LoadDetails(Load[k]).person = left.person
      /\ LoadDetails(Load[k]).progress = left.progress
  <2>1. left \notin {NoFile, Torn}
    BY <1>2, FilesAssumption
  <2> QED
    BY <1>2, <1>3, <1>4, <2>1, LoadKeeps DEF LoadDetails, Profile
<1> QED
  BY <1>1, <1>2, <1>4, <1>5, <1>6, <1>7, ProfilesAssumption DEF DetailsOf, Details

-----------------------------------------------------------------------------
(* Every step keeps the invariant.                                           *)

\* A handler of the menu or the board writes nothing yet, and nobody has left.
LEMMA HandlerKeeps ==
  ASSUME PInv, IInv', running # "off", UNCHANGED <<disk, left>>, InStep', WritesInStep',
         PersonsApart', KeptSafe', PlayerKeeps', Cardinality(DOMAIN mProfileMap') <= MaxUsers,
         mPlayerInfo' = None => DOMAIN mProfileMap' = {}
  PROVE  PInv'
<1>1. left = None /\ left' = None
  BY DEF PInv, LeftOnDisk
<1> QED
  BY <1>1 DEF PInv, FewPlayers, LeftOnDisk, disk

LEMMA SamePersons ==
  ASSUME PInv, UNCHANGED <<details, persons, owner>>,
         \A i \in DOMAIN writes' : IsDetails(writes'[i]) => writes'[i].content.person <= persons
  PROVE  PersonsApart'
BY DEF PInv, PersonsApart, OnDisk, IsDetails

\* The user dialog shows every player on a line of their own.
LEMMA ShownPlayers ==
  ASSUME IInv, mDialog = "user"
  PROVE  Cardinality(DOMAIN mProfileMap) <= Len(mUserList)
<1> DEFINE key == [i \in 1..Len(mUserList) |-> mUserList[i].key]
<1>1. mUserList \in Seq(Name)
  BY DEF IInv, Types
<1>2. /\ Len(mUserList) \in Nat /\ DOMAIN mUserList = 1..Len(mUserList)
      /\ ToSet(mUserList) = {NameOf(mProfileMap, k) : k \in DOMAIN mProfileMap}
  BY <1>1 DEF IInv, PlayerListed
<1>3. \A i \in 1..Len(mUserList) : key[i] \in DOMAIN mProfileMap
  BY <1>2 DEF ToSet, NameOf
<1>4. ASSUME NEW k \in DOMAIN mProfileMap
      PROVE  \E i \in 1..Len(mUserList) : key[i] = k
  <2>1. PICK i \in 1..Len(mUserList) : mUserList[i] = NameOf(mProfileMap, k)
    BY <1>2 DEF ToSet
  <2> QED
    BY <2>1 DEF NameOf
<1>5. key \in Surjection(1..Len(mUserList), DOMAIN mProfileMap)
  BY <1>3, <1>4 DEF Surjection
<1>6. IsFiniteSet(1..Len(mUserList)) /\ Cardinality(1..Len(mUserList)) = Len(mUserList)
  <2> DEFINE n == Len(mUserList)
  <2>1. n \in Nat
    BY <1>2
  <2> HIDE DEF n
  <2>2. IsFiniteSet(1..n) /\ Cardinality(1..n) = n
    BY <2>1, FS_Interval
  <2> QED
    BY <2>2 DEF n
<1> HIDE DEF key
<1> QED
  BY <1>5, <1>6, FS_Surjection

LEMMA CreateKeeps == PInv /\ IInv' /\ FinishCreateUserDialog => PInv' /\ DiskKeeps
<1> SUFFICES ASSUME PInv, IInv', FinishCreateUserDialog PROVE PInv' /\ DiskKeeps
  OBVIOUS
<1> DEFINE id == mNextProfileId
<1>1. /\ MenuStep /\ persons' = persons + 1 /\ id \in Ids
      /\ owner' = [owner EXCEPT ![id] = persons + 1]
  BY CreateSteps
<1>2. InStep' /\ WritesInStep' /\ PlayerKeeps' /\ DiskKeeps
  BY <1>1, MenuKeeps
<1>3. /\ running = "menu" /\ UNCHANGED <<disk, left, details>> /\ writes = <<>> /\ FewerKept
      /\ \A i \in DOMAIN writes' : ~IsDetails(writes'[i])
      /\ \A i \in DOMAIN writes' : writes'[i].file = "details" =>
           owner' = owner /\ kept'[owner[writes'[i].id]] = 0
  BY <1>1 DEF MenuStep, disk, IsDetails
<1>4. Types /\ PersonsApart /\ owner \in [Ids -> Person \union {0}] /\ Person \subseteq Nat \ {0}
      /\ persons \in Nat
  BY FileTypes DEF PInv, IInv, Types
<1>5. PersonsApart'
  <2>1. /\ owner'[id] = persons + 1
        /\ \A i \in Ids : i # id => owner'[i] = owner[i]
        /\ \A i \in Ids : owner[i] \in Nat /\ owner[i] <= persons
    <3>1. ASSUME NEW i \in Ids PROVE owner[i] \in Nat
      <4>1. owner[i] \in Person \union {0}
        BY <1>4
      <4>2. Person \subseteq Nat
        BY <1>4
      <4>3. CASE owner[i] = 0
        BY <4>3
      <4>4. CASE owner[i] \in Person
        BY <4>2, <4>4
      <4> QED
        BY <4>1, <4>3, <4>4
    <3>2. \A i \in Ids : owner'[i] = IF i = id THEN persons + 1 ELSE owner[i]
      BY <1>1, <1>4
    <3> QED
      BY <1>1, <1>4, <3>1, <3>2 DEF PersonsApart
  <2>2. \A i \in Ids : owner'[i] <= persons + 1
    BY <1>4, <2>1
  <2>3. \A i, j \in Ids : owner'[i] = owner'[j] /\ owner'[i] # 0 => i = j
    BY <1>4, <2>1 DEF PersonsApart
  <2>4. ASSUME NEW i \in Ids, OnDisk(details[i])
        PROVE  details[i].person <= persons + 1
    <3>1. details[i].person <= persons /\ details[i].person \in Nat
      BY <1>4, <2>4, FileTypes DEF PersonsApart
    <3> QED
      BY <1>4, <3>1
  <2> QED
    BY <1>1, <1>3, <2>2, <2>3, <2>4 DEF PersonsApart, IsDetails, OnDisk
<1>6. DOMAIN mProfileMap \in SUBSET Keys
  BY MapOfProfiles DEF PInv, IInv, Types
<1>7. Cardinality(DOMAIN mProfileMap) < MaxUsers
  <2>1. CASE mDialog = "create"
    <3>1. DOMAIN mProfileMap = {}
      BY <1>3, <2>1 DEF PInv, IInv, PlayerListed, FewPlayers
    <3> QED
      BY <3>1, FS_EmptySet, ProfilesAssumption
  <2>2. CASE mDialog = "user" /\ Len(mUserList) < MaxUsers
    <3>1. Cardinality(DOMAIN mProfileMap) <= Len(mUserList)
      BY <2>2, ShownPlayers DEF PInv
    <3>2. Len(mUserList) \in Nat /\ Cardinality(DOMAIN mProfileMap) \in Nat
      BY <1>6, FewKeys DEF PInv, IInv, Types
    <3> QED
      BY <2>2, <3>1, <3>2, ProfilesAssumption
  <2> QED
    BY <2>1, <2>2 DEF FinishCreateUserDialog, Idle, RoomForUser
<1>8. PICK key : DOMAIN mProfileMap' = DOMAIN mProfileMap \union {key} /\ mPlayerInfo' = key
  BY DEF FinishCreateUserDialog
<1>9. Cardinality(DOMAIN mProfileMap') <= MaxUsers
  <2>1. IsFiniteSet(DOMAIN mProfileMap) /\ Cardinality(DOMAIN mProfileMap) \in Nat
    BY <1>6, FewKeys
  <2>2. Cardinality(DOMAIN mProfileMap \union {key})
          \in {Cardinality(DOMAIN mProfileMap), Cardinality(DOMAIN mProfileMap) + 1}
    BY <2>1, FS_AddElement
  <2> QED
    BY <1>7, <1>8, <2>1, <2>2, ProfilesAssumption
<1>10. mPlayerInfo' # None
  <2>1. DOMAIN mProfileMap' \subseteq Keys
    BY MapOfProfiles DEF IInv, Types
  <2> QED
    BY <1>8, <2>1, ProfilesAssumption
<1>11. KeptSafe'
  <2>1. \A i \in Ids : owner'[i] \in {owner[i], persons + 1}
    BY <1>1, <1>4
  <2> QED
    BY <1>1, <1>3, <2>1, FewerSafe
<1> QED
  BY <1>2, <1>3, <1>5, <1>9, <1>10, <1>11, HandlerKeeps

LEMMA OtherMenuKeeps ==
  PInv /\ IInv' /\ (DoUserDialog \/ FinishUserDialog \/ FinishRenameUserDialog
                    \/ FinishConfirmDeleteUserDialog)
    => PInv' /\ DiskKeeps
<1> SUFFICES ASSUME PInv, IInv', DoUserDialog \/ FinishUserDialog \/ FinishRenameUserDialog
                                 \/ FinishConfirmDeleteUserDialog
             PROVE  PInv' /\ DiskKeeps
  OBVIOUS
<1>1. MenuStep /\ UNCHANGED <<persons, owner>>
  BY DoUserDialogSteps, FinishUserDialogSteps, RenameSteps, DeleteSteps
     DEF DoUserDialog, FinishUserDialog, FinishRenameUserDialog, FinishConfirmDeleteUserDialog,
         history
<1>2. InStep' /\ WritesInStep' /\ PlayerKeeps' /\ DiskKeeps
  BY <1>1, MenuKeeps
<1>3. /\ running = "menu" /\ running' = "menu" /\ UNCHANGED <<disk, left, details>>
      /\ writes = <<>> /\ FewerKept
      /\ \A i \in DOMAIN writes' : ~IsDetails(writes'[i])
      /\ \A i \in DOMAIN writes' : writes'[i].file = "details" =>
           owner' = owner /\ kept'[owner[writes'[i].id]] = 0
  BY <1>1 DEF MenuStep, disk, IsDetails
<1>10. KeptSafe'
  BY <1>1, <1>3, FewerSafe
<1>4. PersonsApart'
  BY <1>1, <1>3, SamePersons
<1>5. DOMAIN mProfileMap \in SUBSET Keys
  BY MapOfProfiles DEF PInv, IInv, Types
<1>6. /\ IsFiniteSet(DOMAIN mProfileMap) /\ Cardinality(DOMAIN mProfileMap) \in Nat
      /\ Cardinality(DOMAIN mProfileMap) <= MaxUsers
  BY <1>5, FewKeys DEF PInv, FewPlayers
<1>7. CASE DoUserDialog \/ FinishUserDialog
  <2>1. DOMAIN mProfileMap' = DOMAIN mProfileMap
    <3>1. mProfileMap \in ProfileMaps
      BY DEF PInv, IInv, Types
    <3> QED
      BY <1>7, <3>1, GetProfileAt DEF DoUserDialog, FinishUserDialog, memory
  <2>2. mDialog' # "create"
    BY <1>7 DEF DoUserDialog, FinishUserDialog
  <2>3. mPlayerInfo' # None
    BY <1>3, <2>2 DEF IInv, PlayerListed
  <2> QED
    BY <1>2, <1>3, <1>4, <1>6, <1>10, <2>1, <2>3, HandlerKeeps
<1>8. CASE FinishRenameUserDialog
  <2>1. mDialog' # "create"
    BY <1>8 DEF FinishRenameUserDialog, Idle
  <2>2. mPlayerInfo' # None
    BY <1>3, <2>1 DEF IInv, PlayerListed
  <2>3. PICK old \in DOMAIN mProfileMap : \E key :
          DOMAIN mProfileMap' = (DOMAIN mProfileMap \ {old}) \union {key}
    BY <1>8, RenameSteps
  <2>4. PICK key : DOMAIN mProfileMap' = (DOMAIN mProfileMap \ {old}) \union {key}
    BY <2>3
  <2>5. /\ IsFiniteSet(DOMAIN mProfileMap \ {old})
        /\ Cardinality(DOMAIN mProfileMap \ {old}) = Cardinality(DOMAIN mProfileMap) - 1
    BY <1>6, FS_RemoveElement
  <2>6. Cardinality(DOMAIN mProfileMap') \in {Cardinality(DOMAIN mProfileMap) - 1,
                                              Cardinality(DOMAIN mProfileMap)}
    BY <1>6, <2>4, <2>5, FS_AddElement
  <2>7. Cardinality(DOMAIN mProfileMap') <= MaxUsers
    BY <1>6, <2>6, ProfilesAssumption
  <2> QED
    BY <1>2, <1>3, <1>4, <1>10, <2>2, <2>7, HandlerKeeps
<1>9. CASE FinishConfirmDeleteUserDialog
  <2>1. PICK gone \in DOMAIN mProfileMap : DOMAIN mProfileMap' = DOMAIN mProfileMap \ {gone}
    BY <1>9, DeleteSteps
  <2>2. Cardinality(DOMAIN mProfileMap') = Cardinality(DOMAIN mProfileMap) - 1
    BY <1>6, <2>1, FS_RemoveElement
  <2>3. Cardinality(DOMAIN mProfileMap') <= MaxUsers
    BY <1>6, <2>2, ProfilesAssumption
  <2>4. mPlayerInfo' = None => DOMAIN mProfileMap' = {}
    BY <1>9, DeleteSteps
  <2> QED
    BY <1>2, <1>3, <1>4, <1>10, <2>3, <2>4, HandlerKeeps
<1> QED
  BY <1>7, <1>8, <1>9

LEMMA OtherPlayKeeps == PInv /\ IInv' /\ Plays => PInv' /\ DiskKeeps
<1> SUFFICES ASSUME PInv, IInv', Plays PROVE PInv' /\ DiskKeeps
  OBVIOUS
<1> DEFINE p == mProfileMap[mPlayerInfo]
           q == mProfileMap'[mPlayerInfo]
<1>1. PlayStep /\ UNCHANGED <<persons, owner>>
  BY PlaySteps DEF Plays, PreNewGame, Earn, WriteCurrentUserConfig, CheckForGameEnd,
                   DoBackToMain, GameOverMainMenu, history
<1>2. InStep' /\ WritesInStep' /\ KeptSafe' /\ PlayerKeeps' /\ DiskKeeps
  BY <1>1, PlayKeeps
<1>3. /\ running # "off" /\ UNCHANGED <<disk, left, details, mPlayerInfo>>
      /\ mPlayerInfo \in DOMAIN mProfileMap /\ DOMAIN mProfileMap' = DOMAIN mProfileMap
      /\ q.person = p.person
      /\ \A i \in DOMAIN writes' : IsDetails(writes'[i]) => writes'[i] = WriteDetails(q)
  BY <1>1 DEF PlayStep, Like, disk, IsDetails
<1>4. p.person <= persons
  BY <1>3, PersonsMade DEF PInv
<1>5. PersonsApart'
  <2>1. \A i \in DOMAIN writes' : IsDetails(writes'[i]) => writes'[i].content.person <= persons
    BY <1>3, <1>4 DEF WriteDetails, DetailsOf
  <2> QED
    BY <1>1, <1>3, <2>1, SamePersons
<1>6. mPlayerInfo # None
  <2>1. DOMAIN mProfileMap \subseteq Keys
    BY MapOfProfiles DEF PInv, IInv, Types
  <2> QED
    BY <1>3, <2>1, ProfilesAssumption
<1>7. Cardinality(DOMAIN mProfileMap') <= MaxUsers
  BY <1>3 DEF PInv, FewPlayers
<1> QED
  BY <1>2, <1>3, <1>5, <1>6, <1>7, HandlerKeeps

-----------------------------------------------------------------------------
(* The theorems.                                                             *)

LEMMA ProgressInit == Init => PInv
<1> SUFFICES ASSUME Init PROVE PInv
  OBVIOUS
<1>1. /\ running = "off" /\ mProfileMap = <<>> /\ DOMAIN mProfileMap = {}
      /\ writes = <<>> /\ DOMAIN writes = {} /\ users = NoFile /\ left = None
      /\ persons = 0 /\ details = [id \in Ids |-> NoFile] /\ owner = [id \in Ids |-> 0]
      /\ kept = [person \in Person |-> 0] /\ 0 \in Progress
  BY ProfilesAssumption DEF Init, Progress
<1>2. PersonsApart
  BY <1>1 DEF PersonsApart, OnDisk
<1>3. FewPlayers
  <2>1. Cardinality({}) = 0
    BY FS_EmptySet
  <2> QED
    BY <1>1, <2>1, ProfilesAssumption DEF FewPlayers
<1>4. InStep /\ WritesInStep /\ LeftOnDisk /\ KeptSafe /\ PlayerKeeps
  BY <1>1 DEF InStep, WritesInStep, LeftOnDisk, KeptSafe, PlayerKeeps
<1> QED
  BY <1>1, <1>2, <1>3, <1>4, InitInv DEF PInv

LEMMA Standing == PInv /\ UNCHANGED vars => PInv' /\ DiskKeeps
<1> SUFFICES ASSUME PInv, UNCHANGED vars PROVE PInv' /\ DiskKeeps
  OBVIOUS
<1>1. /\ UNCHANGED <<running, mProfileMap, mPlayerInfo, writes, left>>
      /\ UNCHANGED <<users, details, curUser, persons, owner, kept>>
  BY DEF vars, memory, disk, history
<1>2. IInv'
  BY Inductive DEF PInv
<1>3. PersonsApart'
  BY <1>1, SamePersons DEF PInv, PersonsApart
<1>4. FewPlayers'
  BY <1>1 DEF PInv, FewPlayers
<1>5. InStep' /\ WritesInStep'
  BY <1>1 DEF PInv, InStep, WritesInStep
<1>6. LeftOnDisk'
  BY <1>1 DEF PInv, LeftOnDisk, LeftAs, Leaves
<1>7. KeptSafe' /\ PlayerKeeps'
  BY <1>1 DEF PInv, KeptSafe, WillHold, Holds, PlayerKeeps
<1>8. DiskKeeps
  BY <1>1, DiskSame DEF PInv, IInv
<1> QED
  BY <1>1, <1>2, <1>3, <1>4, <1>5, <1>6, <1>7, <1>8 DEF PInv

LEMMA ProgressInductive == PInv /\ [Next]_vars => PInv' /\ DiskKeeps
<1> SUFFICES ASSUME PInv, [Next]_vars PROVE PInv' /\ DiskKeeps
  OBVIOUS
<1>1. IInv'
  BY Inductive DEF PInv
<1>2. CASE UNCHANGED vars
  BY <1>2, Standing
<1>3. CASE Start
  BY <1>1, <1>3, StartKeeps
<1>4. CASE Crash
  BY <1>1, <1>4, CrashKeeps
<1>5. CASE Shutdown
  BY <1>1, <1>5, ShutdownKeeps
<1>6. CASE Write
  BY <1>1, <1>6, WriteKeeps
<1>7. CASE FinishCreateUserDialog
  BY <1>1, <1>7, CreateKeeps
<1>8. CASE DoUserDialog \/ FinishUserDialog \/ FinishRenameUserDialog
           \/ FinishConfirmDeleteUserDialog
  BY <1>1, <1>8, OtherMenuKeeps
<1>9. CASE Plays
  BY <1>1, <1>9, OtherPlayKeeps
<1> QED
  BY <1>2, <1>3, <1>4, <1>5, <1>6, <1>7, <1>8, <1>9 DEF Next, Plays

\* Every variable keeps its type, and the dialogs never make more players than the user
\* dialog has lines for (UserDialog, FinishCreateUserDialog), however they are called for:
\* a list that is out of date would let them.
THEOREM TypeCorrect == Spec => []TypeOK
<1>1. PInv => TypeOK
  BY DEF PInv, IInv, Types, FewPlayers, KeptSafe, TypeOK
<1> QED
  BY <1>1, ProgressInit, ProgressInductive, PTL DEF Spec

\* What the game has set out to write of a player, at the end of a level, on the way to the
\* main menu or at Shutdown, is there whenever they are the current player again, unless the
\* game died first or they were deleted; and no file that can be read is taken back (GetProfile,
\* LoadDetails, SaveDetails).
THEOREM WrittenNeverLost == Spec => ProgressKept
<1>1. PInv /\ [Next]_vars => [PlayerKeeps' /\ DiskKeeps]_vars
  <2> SUFFICES ASSUME PInv, [Next]_vars PROVE PlayerKeeps' /\ DiskKeeps
    OBVIOUS
  <2> QED
    BY ProgressInductive DEF PInv
<1> QED
  BY <1>1, ProgressInit, ProgressInductive, PTL DEF Spec, ProgressKept

\* Who leaves by Shutdown and is not interrupted while it writes is the player of the next
\* start, with all they had achieved (Shutdown, WriteToRegistry, LawnApp::Init).
THEOREM ResumesSamePlayer == Spec => ResumesPlayer
<1> DEFINE Resumes ==
      running = "off" /\ running' = "menu" /\ left # None
        => /\ mPlayerInfo' # None
           /\ DetailsOf(mProfileMap'[mPlayerInfo']) = left
<1>1. PInv /\ [Next]_vars => [Resumes]_vars
  <2> SUFFICES ASSUME PInv, Next, running = "off", running' = "menu", left # None
               PROVE  Resumes
    OBVIOUS
  <2>1. Start
    BY DEF Next, Crash, Gone, Shutdown, Write, DoUserDialog, FinishUserDialog,
           FinishCreateUserDialog, FinishRenameUserDialog, FinishConfirmDeleteUserDialog,
           PreNewGame, Earn, WriteCurrentUserConfig, CheckForGameEnd, DoBackToMain, GameOverMainMenu,
           Idle
  <2> QED
    BY <2>1, StartResumes
<1> QED
  BY <1>1, ProgressInit, ProgressInductive, PTL DEF Spec, ResumesPlayer
=============================================================================
