------------------------------ MODULE Profiles ------------------------------
(***************************************************************************)
(* The players: ProfileMgr and PlayerInfo in memory, the dialogs that make,  *)
(* choose, rename and delete a player (LawnApp.cpp, UserDialog.cpp), and     *)
(* what is left of them on disk: users.dat (the roster), for each id a       *)
(* user<id>.dat (the details) and a saved game, and CurUser in the registry. *)
(*                                                                           *)
(* A handler runs to its end before the next one starts, but the writes it   *)
(* makes reach the disk one after another. The program may die before or     *)
(* during any of them; a file that was being written is then torn.           *)
(*                                                                           *)
(* A name is a key, which is all the case-insensitive map tells apart, and   *)
(* the form it was typed in. Persons are a history variable: whoever makes a *)
(* profile is someone new. What a player has achieved is one number, and the *)
(* handlers differ in when it is written. Leaving the board by DoBackToMain  *)
(* or as the winner writes it; the main menu button of the game over dialog  *)
(* and the end of a quick play level do not, and what was earned there is    *)
(* gone once GetProfile reads the player again.                              *)
(***************************************************************************)
EXTENDS Integers, FiniteSets, Sequences, SequencesExt

CONSTANTS
  Keys,         \* the names, up to case; numbers, in the order of the map
  Forms,        \* the ways a name can be typed
  MaxUsers,     \* 8: the user dialog then offers no new user
  MaxId,        \* bound: ids that are given out
  MaxPersons,   \* bound: profiles that are ever made
  MaxProgress,  \* bound: what a player can achieve
  None,         \* a null mPlayerInfo; no CurUser in the registry
  NoFile, Torn  \* a file that is not there, and one whose write was cut off

ASSUME ProfilesAssumption ==
  /\ IsFiniteSet(Keys) /\ Keys \subseteq Nat /\ None \notin Keys
  /\ MaxUsers \in Nat \ {0} /\ MaxId \in Nat \ {0}
  /\ MaxPersons \in Nat \ {0} /\ MaxProgress \in Nat

\* A map that is not empty has a first element.
ASSUME OrderAssumption ==
  \A K \in SUBSET Keys : K # {} => \E k \in K : \A l \in K : k <= l

Ids == 1..MaxId
Person == 1..MaxPersons
Progress == 0..MaxProgress
Name == [key : Keys, form : Forms]
Summary == [form : Forms, mId : Ids, person : Person]
Profile == [form : Forms, mId : Ids, person : Person, progress : Progress]
Details == [person : Person, progress : Progress]

ASSUME FilesAssumption ==
  /\ NoFile # Torn
  /\ \A file \in {NoFile, Torn} :
       /\ file \notin Details /\ file \notin Person
       /\ \A K \in SUBSET Keys : file \notin [K -> Summary]

VARIABLES
  running,         \* "off", "menu" or "board"
  mDialog,         \* "none", "user", or "create" where there is no player to go back to
  mUserList,       \* the names the user dialog shows
  mProfileMap,     \* from the keys in use to profiles
  mNextProfileId,
  mPlayerInfo,     \* the key of the current player, or None
  writes,          \* what the handler has yet to write, in order
  users,           \* users.dat
  details,         \* user<id>.dat, of each id
  saved,           \* the saved game, of each id: the person who played it
  curUser,         \* CurUser
  persons,         \* history: how many there have been
  owner,           \* history: who was given the id last; 0 if nobody was
  rosterTorn,      \* history: a write of users.dat was cut off
  left,            \* history: who left by the door and with what, or None
  kept             \* history: what each person had when the game last set out to write it

memory  == <<mProfileMap, mNextProfileId, mPlayerInfo>>
disk    == <<users, details, saved, curUser>>
history == <<persons, owner, rosterTorn, left, kept>>
vars    == <<running, mDialog, mUserList, memory, writes, disk, history>>

ProfileMaps == UNION {[K -> Profile] : K \in SUBSET Keys}
Rosters     == UNION {[K -> Summary] : K \in SUBSET Keys}

-----------------------------------------------------------------------------
(* Reading and writing files.                                                *)

\* SyncSummary, SyncState: what users.dat holds of the profiles.
RosterOf(map) ==
  [k \in DOMAIN map |-> [form |-> map[k].form, mId |-> map[k].mId, person |-> map[k].person]]

DetailsOf(p) == [person |-> p.person, progress |-> p.progress]

\* LoadDetails: without a file the profile stays as it is in memory.
LoadDetails(p) ==
  CASE details[p.mId] = NoFile -> p
    [] details[p.mId] = Torn   -> [p EXCEPT !.progress = 0]
    [] OTHER                   -> [p EXCEPT !.progress = details[p.mId].progress]

\* GetProfile reads the details of the profile it finds, again if need be.
GetProfile(map, k) == IF k \in DOMAIN map THEN [map EXCEPT ![k] = LoadDetails(map[k])] ELSE map

First(map) == CHOOSE k \in DOMAIN map : \A l \in DOMAIN map : k <= l

WriteRoster(map)   == [file |-> "users", id |-> 0, content |-> RosterOf(map)]
WriteDetails(p)    == [file |-> "details", id |-> p.mId, content |-> DetailsOf(p)]
WriteSaved(p)      == [file |-> "saved", id |-> p.mId, content |-> p.person]
WriteCurUser(k)    == [file |-> "curUser", id |-> 0, content |-> k]
EraseDetails(p)    == [file |-> "details", id |-> p.mId, content |-> NoFile]
EraseSaved(p)      == [file |-> "saved", id |-> p.mId, content |-> NoFile]

\* The file that w writes becomes what.
Becomes(w, what) ==
  /\ users'   = IF w.file = "users" THEN what ELSE users
  /\ details' = IF w.file = "details" THEN [details EXCEPT ![w.id] = what] ELSE details
  /\ saved'   = IF w.file = "saved" THEN [saved EXCEPT ![w.id] = what] ELSE saved
  /\ curUser' = IF w.file = "curUser" THEN what ELSE curUser

\* WriteBytesToFile, EraseFile, RegistryWriteString: the next write of the handler is done.
Write ==
  /\ writes # <<>>
  /\ Becomes(Head(writes), Head(writes).content)
  /\ writes' = Tail(writes)
  /\ UNCHANGED <<running, mDialog, mUserList, memory, history>>

-----------------------------------------------------------------------------
(* Starting, and what ends a run.                                            *)

Init ==
  /\ running = "off" /\ mDialog = "none" /\ mUserList = <<>>
  /\ mProfileMap = <<>> /\ mNextProfileId = 1 /\ mPlayerInfo = None
  /\ writes = <<>>
  /\ users = NoFile /\ curUser = None
  /\ details = [id \in Ids |-> NoFile] /\ saved = [id \in Ids |-> NoFile]
  /\ persons = 0 /\ owner = [id \in Ids |-> 0] /\ rosterTorn = FALSE /\ left = None
  /\ kept = [person \in Person |-> 0]

\* SyncState: the profiles of users.dat, new in memory. A torn file is as good as none.
Load ==
  IF users \in {NoFile, Torn} THEN <<>>
  ELSE [k \in DOMAIN users |->
          [form |-> users[k].form, mId |-> users[k].mId, person |-> users[k].person, progress |-> 0]]

\* SyncState, Clear: one more than the largest id in use.
NextId(map) ==
  IF DOMAIN map = {} THEN 1
  ELSE 1 + CHOOSE n \in {map[k].mId : k \in DOMAIN map} : \A k \in DOMAIN map : map[k].mId <= n

\* LawnApp::Init: the player of CurUser, or else any; without one the game selector asks
\* for a name.
StartingPlayer(map) ==
  CASE curUser \in DOMAIN map -> curUser
    [] curUser \notin DOMAIN map /\ DOMAIN map # {} -> First(map)
    [] OTHER -> None

Start ==
  /\ running = "off" /\ writes = <<>>
  /\ running' = "menu"
  /\ mProfileMap' = GetProfile(Load, StartingPlayer(Load))
  /\ mNextProfileId' = NextId(Load)
  /\ mPlayerInfo' = StartingPlayer(Load)
  /\ mDialog' = IF mPlayerInfo' = None THEN "create" ELSE "none"
  /\ left' = None
  /\ UNCHANGED <<mUserList, writes, disk, persons, owner, rosterTorn, kept>>

\* The memory of the program is gone.
Gone ==
  /\ running' = "off" /\ mDialog' = "none" /\ mUserList' = <<>>
  /\ mProfileMap' = <<>> /\ mNextProfileId' = 1 /\ mPlayerInfo' = None

\* The history of what is to be kept: p is about to be written as they are; the files of p
\* are erased on purpose; the game died before it had written somebody, whose file is as it is.
Keep(p)   == kept' = [kept EXCEPT ![p.person] = p.progress]
Forget(p) == kept' = [kept EXCEPT ![p.person] = 0]

Unwritten(person) ==
  \E i \in DOMAIN writes : /\ writes[i].file = "details" /\ writes[i].content # NoFile
                           /\ writes[i].content.person = person

Holds(file, person) ==
  file \notin {NoFile, Torn} /\ file.person = person /\ kept[person] <= file.progress

ForgetUnwritten ==
  kept' = [person \in Person |->
    IF Unwritten(person) /\ ~\E id \in Ids : owner[id] = person /\ Holds(details'[id], person)
    THEN 0 ELSE kept[person]]

\* The program dies; the file that is being written may be torn. An erased file is
\* there or is not, and so is the entry in the registry.
Crash ==
  /\ running # "off" \/ writes # <<>>
  /\ Gone
  /\ \/ UNCHANGED <<disk, rosterTorn>>
     \/ /\ writes # <<>>
        /\ Head(writes).file # "curUser" /\ Head(writes).content # NoFile
        /\ Becomes(Head(writes), Torn)
        /\ rosterTorn' = (rosterTorn \/ Head(writes).file = "users")
  /\ writes' = <<>>
  /\ left' = None
  /\ ForgetUnwritten
  /\ UNCHANGED <<persons, owner>>

\* Shutdown: TryToSaveGame and WriteCurrentUserConfig if there is a board, then
\* WriteToRegistry.
ExitWrites(p) ==
  IF running = "board"
  THEN <<WriteSaved(p), WriteDetails(p), WriteCurUser(mPlayerInfo), WriteDetails(p)>>
  ELSE <<WriteCurUser(mPlayerInfo), WriteDetails(p)>>

Shutdown ==
  /\ running # "off" /\ writes = <<>>
  /\ Gone
  /\ IF mPlayerInfo = None
     THEN UNCHANGED <<writes, left, kept>>
     ELSE /\ writes' = ExitWrites(mProfileMap[mPlayerInfo])
          /\ left' = DetailsOf(mProfileMap[mPlayerInfo])
          /\ Keep(mProfileMap[mPlayerInfo])
  /\ UNCHANGED <<disk, persons, owner, rosterTorn>>

-----------------------------------------------------------------------------
(* The dialogs of the menu.                                                  *)

Idle(dialog) == running = "menu" /\ mDialog = dialog /\ writes = <<>>

NameOf(map, k) == [key |-> k, form |-> map[k].form]

\* UserDialog: the current player first, then the others in the order of the map.
Lines ==
  {lines \in [1..Cardinality(DOMAIN mProfileMap) -> DOMAIN mProfileMap] :
     /\ \A i \in DOMAIN lines : lines[i] = mPlayerInfo <=> i = 1
     /\ \A k \in DOMAIN mProfileMap : \E i \in DOMAIN lines : lines[i] = k
     /\ \A i, j \in DOMAIN lines \ {1} : i < j => lines[i] < lines[j]}

DoUserDialog ==
  /\ Idle("none")
  /\ mDialog' = "user"
  /\ \E lines \in Lines :
       mUserList' = [i \in DOMAIN lines |-> NameOf(mProfileMap, lines[i])]
  /\ UNCHANGED <<running, memory, writes, disk, history>>

\* FinishUserDialog: OK or a double click on line i, or cancel.
FinishUserDialog ==
  /\ Idle("user")
  /\ mDialog' = "none" /\ mUserList' = <<>>
  /\ \/ UNCHANGED memory
     \/ \E i \in DOMAIN mUserList :
          /\ mUserList[i].key \in DOMAIN mProfileMap
          /\ mProfileMap' = GetProfile(mProfileMap, mUserList[i].key)
          /\ mPlayerInfo' = mUserList[i].key
          /\ UNCHANGED mNextProfileId
  /\ UNCHANGED <<running, writes, disk, history>>

\* Mutant: the line for a new user is left where the list is full.
RoomForOneTooMany == Len(mUserList) <= MaxUsers

\* UserDialog: there is a line for a new user.
RoomForUser == Len(mUserList) < MaxUsers

\* FinishCreateUserDialog and AddProfile. A name in use, no name, or cancel where there
\* is a player changes nothing.
FinishCreateUserDialog ==
  /\ \/ Idle("create")
     \/ Idle("user") /\ RoomForUser
  /\ mNextProfileId \in Ids /\ persons < MaxPersons
  /\ \E name \in Name :
       /\ name.key \notin DOMAIN mProfileMap
       /\ mProfileMap' = [k \in DOMAIN mProfileMap \union {name.key} |->
            IF k = name.key
            THEN [form |-> name.form, mId |-> mNextProfileId,
                  person |-> persons + 1, progress |-> 0]
            ELSE mProfileMap[k]]
       /\ mPlayerInfo' = name.key
  /\ writes' = <<WriteRoster(mProfileMap')>>
  /\ mNextProfileId' = mNextProfileId + 1
  /\ persons' = persons + 1
  /\ owner' = [owner EXCEPT ![mNextProfileId] = persons + 1]
  /\ mDialog' = "none" /\ mUserList' = <<>>
  /\ UNCHANGED <<running, disk, rosterTorn, left, kept>>

\* RenameProfile: a new form of the same name stays where it is in the map, another name
\* is another place.
RenameProfile(map, old, name) ==
  [k \in (DOMAIN map \ {old}) \union {name.key} |->
     IF k = name.key THEN [map[old] EXCEPT !.form = name.form] ELSE map[k]]

\* Mutant: users.dat is only written when a player is made or deleted.
RenameUnsaved(map) == <<>>
RenameWrites(map) == <<WriteRoster(map)>>

\* Mutant: the current player is not looked up again.
SamePlayer(old, name) == mPlayerInfo
PlayerAfterRename(old, name) == IF mPlayerInfo = old THEN name.key ELSE mPlayerInfo

\* FinishRenameUserDialog: GetProfile of the old name comes first, and the details it
\* reads stay read when the new name is in use.
FinishRenameUserDialog ==
  /\ Idle("user")
  /\ \E i \in DOMAIN mUserList, name \in Name :
       LET old     == mUserList[i].key
           read    == GetProfile(mProfileMap, old)
           renamed == RenameProfile(read, old, name)
       IN  /\ old \in DOMAIN mProfileMap
           /\ IF name.key \in DOMAIN mProfileMap \ {old}
              THEN /\ mProfileMap' = read
                   /\ UNCHANGED <<mPlayerInfo, mUserList, writes>>
              ELSE /\ mPlayerInfo' = PlayerAfterRename(old, name)
                   /\ mProfileMap' = IF mPlayerInfo = old THEN GetProfile(renamed, name.key)
                                                          ELSE renamed
                   /\ mUserList' = [mUserList EXCEPT ![i] = name]
                   /\ writes' = RenameWrites(renamed)
  /\ UNCHANGED <<running, mDialog, mNextProfileId, disk, history>>

\* Mutant: the roster is written before the files are erased.
RosterFirst(p, map) == <<WriteRoster(map), EraseDetails(p), EraseSaved(p)>>
\* DeleteUserFiles, then Save.
DeleteWrites(p, map) == <<EraseDetails(p), EraseSaved(p), WriteRoster(map)>>

\* FinishDeleteUser selects the line above the one that goes. GetProfile of that line, or
\* GetAnyProfile.
PlayerAfterDelete(list, i, map) ==
  LET above == IF i > 1 THEN i - 1 ELSE 1
  IN  CASE above \in DOMAIN list /\ list[above].key \in DOMAIN map -> list[above].key
        [] DOMAIN map # {} -> First(map)
        [] OTHER -> None

\* FinishConfirmDeleteUserDialog: the current player is told by the name as it is typed,
\* the profile to delete by its key.
FinishConfirmDeleteUserDialog ==
  /\ Idle("user")
  /\ \E i \in DOMAIN mUserList :
       LET gone    == mUserList[i].key
           rest    == [k \in DOMAIN mProfileMap \ {gone} |-> mProfileMap[k]]
           current == mUserList[i] = NameOf(mProfileMap, mPlayerInfo)
           player  == PlayerAfterDelete(RemoveAt(mUserList, i), i, rest)
       IN  /\ gone \in DOMAIN mProfileMap
           /\ mPlayerInfo' = IF current THEN player ELSE mPlayerInfo
           /\ mProfileMap' = IF current THEN GetProfile(rest, player) ELSE rest
           /\ writes' = DeleteWrites(mProfileMap[gone], rest)
           /\ mUserList' = IF mPlayerInfo' = None THEN <<>> ELSE RemoveAt(mUserList, i)
           /\ mDialog' = IF mPlayerInfo' = None THEN "create" ELSE "user"
           /\ Forget(mProfileMap[gone])
  /\ UNCHANGED <<running, mNextProfileId, disk, persons, owner, rosterTorn, left>>

-----------------------------------------------------------------------------
(* Playing.                                                                  *)

Achieve == [mProfileMap EXCEPT ![mPlayerInfo].progress = @ + 1]

\* PreNewGame: a saved game that is continued, restarted or of no use is erased.
PreNewGame ==
  /\ Idle("none")
  /\ running' = "board"
  /\ writes' = <<EraseSaved(mProfileMap[mPlayerInfo])>>
  /\ UNCHANGED <<mDialog, mUserList, memory, disk, history>>

\* Coins, achievements and the like, that are not written at once: on the board, and in the
\* menu in the store and on the award screen.
Earn ==
  /\ (running = "board" /\ writes = <<>>) \/ Idle("none")
  /\ mProfileMap[mPlayerInfo].progress < MaxProgress
  /\ mProfileMap' = Achieve
  /\ UNCHANGED <<running, mDialog, mUserList, mNextProfileId, mPlayerInfo, writes, disk, history>>

\* UpdatePlayerProfileForFinishingLevel, then KillBoard, but between the stages of Survival.
CheckForGameEnd ==
  /\ running = "board" /\ writes = <<>>
  /\ mProfileMap[mPlayerInfo].progress < MaxProgress
  /\ mProfileMap' = Achieve
  /\ writes' = <<WriteDetails(mProfileMap'[mPlayerInfo])>>
  /\ Keep(mProfileMap'[mPlayerInfo])
  /\ running' \in {"menu", "board"}
  /\ UNCHANGED <<mDialog, mUserList, mNextProfileId, mPlayerInfo, disk,
                 persons, owner, rosterTorn, left>>

\* A purchase in the store, a record on the board, an award that has been shown.
WriteCurrentUserConfig ==
  /\ (running = "board" /\ writes = <<>>) \/ Idle("none")
  /\ writes' = <<WriteDetails(mProfileMap[mPlayerInfo])>>
  /\ Keep(mProfileMap[mPlayerInfo])
  /\ UNCHANGED <<running, mDialog, mUserList, memory, disk, persons, owner, rosterTorn, left>>

\* Mutant: DoBackToMain does not write the details.
SavedGameOnly(p) == <<WriteSaved(p)>>
\* TryToSaveGame, then WriteCurrentUserConfig.
BackToMainWrites(p) == <<WriteSaved(p), WriteDetails(p)>>

DoBackToMain ==
  /\ running = "board" /\ writes = <<>>
  /\ writes' = BackToMainWrites(mProfileMap[mPlayerInfo])
  /\ Keep(mProfileMap[mPlayerInfo])
  /\ running' = "menu"
  /\ UNCHANGED <<mDialog, mUserList, memory, disk, persons, owner, rosterTorn, left>>

\* GameOverDialog::ButtonDepress: KillBoard alone. So do CheckForGameEnd after quick play, and
\* EndLevel and the way between the gardens, where PreNewGame follows.
GameOverMainMenu ==
  /\ running = "board" /\ writes = <<>>
  /\ running' = "menu"
  /\ UNCHANGED <<mDialog, mUserList, memory, writes, disk, history>>

-----------------------------------------------------------------------------

Next ==
  \/ Start \/ Crash \/ Shutdown \/ Write
  \/ DoUserDialog \/ FinishUserDialog \/ FinishCreateUserDialog
  \/ FinishRenameUserDialog \/ FinishConfirmDeleteUserDialog
  \/ PreNewGame \/ Earn \/ WriteCurrentUserConfig
  \/ CheckForGameEnd \/ DoBackToMain \/ GameOverMainMenu

Spec == Init /\ [][Next]_vars

-----------------------------------------------------------------------------
(* Properties.                                                               *)

\* What a write may write.
WriteOK(w) ==
  \/ w.file = "users" /\ w.id = 0 /\ w.content \in Rosters
  \/ w.file = "details" /\ w.id \in Ids /\ w.content \in Details \union {NoFile}
  \/ w.file = "saved" /\ w.id \in Ids /\ w.content \in Person \union {NoFile}
  \/ w.file = "curUser" /\ w.id = 0 /\ w.content \in Keys

\* Every variable has its type, and there are never more players than the user dialog has
\* lines for (UserDialog shows no line for a new user below its eighth player).
TypeOK ==
  /\ running \in {"off", "menu", "board"} /\ mDialog \in {"none", "user", "create"}
  /\ mUserList \in Seq(Name)
  /\ mProfileMap \in ProfileMaps /\ Cardinality(DOMAIN mProfileMap) <= MaxUsers
  /\ mNextProfileId \in 1..MaxId + 1
  /\ mPlayerInfo \in Keys \union {None}
  /\ \A i \in DOMAIN writes : WriteOK(writes[i])
  /\ users \in Rosters \union {NoFile, Torn}
  /\ details \in [Ids -> Details \union {NoFile, Torn}]
  /\ saved \in [Ids -> Person \union {NoFile, Torn}]
  /\ curUser \in Keys \union {None}
  /\ persons \in 0..MaxPersons
  /\ owner \in [Ids -> Person \union {0}]
  /\ rosterTorn \in BOOLEAN
  /\ left \in Details \union {None}
  /\ kept \in [Person -> Progress]

\* mPlayerInfo points into the map, however profiles are renamed and deleted under it, and
\* is null only behind the dialog that asks for a first name; the list of the user dialog,
\* a copy that is kept up to date by hand, shows the names in the map as they are typed
\* there; and no two profiles share an id.
PlayerListed ==
  /\ mPlayerInfo \in DOMAIN mProfileMap \union {None}
  /\ running # "off" => (mPlayerInfo = None <=> mDialog = "create")
  /\ mDialog = "user" =>
       /\ ToSet(mUserList) = {NameOf(mProfileMap, k) : k \in DOMAIN mProfileMap}
       /\ IsInjective(mUserList)
  /\ \A k, l \in DOMAIN mProfileMap :
       /\ mProfileMap[k].mId < mNextProfileId
       /\ mProfileMap[k].mId = mProfileMap[l].mId => k = l

\* Ids are used again after a restart, so a player may be given the id of one who was
\* deleted: whatever the crashes in between, no file of another person is then found
\* under it. The exception is a write of users.dat that was cut off: Load forgets every
\* profile and gives out the ids from 1 again, while the files of their owners stay.
FilesBelong ==
  rosterTorn \/ \A id \in Ids :
    /\ details[id] \notin {NoFile, Torn} => details[id].person = owner[id]
    /\ saved[id] \notin {NoFile, Torn} => saved[id] = owner[id]

\* Who leaves the game by Shutdown is the player of the next start, with all they had
\* achieved (Shutdown writes CurUser and the details; users.dat was written before).
ResumesPlayer ==
  [][running = "off" /\ running' = "menu" /\ left # None
       => /\ mPlayerInfo' # None
          /\ DetailsOf(mProfileMap'[mPlayerInfo']) = left]_vars

\* GetProfile reads the details again whenever a profile is chosen, renamed or follows a
\* deleted one, and takes back what is not in the file. Whoever is the current player has
\* at least what they had when they last won, went back to the main menu or left the game.
PlayerKeeps ==
  running # "off" /\ mPlayerInfo # None
    => kept[mProfileMap[mPlayerInfo].person] <= mProfileMap[mPlayerInfo].progress

\* SaveDetails writes what is in memory, whether or not it was read from the file before:
\* no write takes back what a player has on disk.
DiskKeeps ==
  \A id \in Ids :
    {details[id], details'[id]} \cap {NoFile, Torn} = {}
      => \/ details[id].person # details'[id].person
         \/ details[id].progress <= details'[id].progress

\* What the game has set out to write of a player is there whenever they are the current one
\* again, however players are chosen, renamed and deleted and the game is left and started
\* in between, unless it died before it was written or the player was deleted; and no file
\* is taken back (GetProfile, LoadDetails, SaveDetails). What was earned since is not covered:
\* a board that is left by GameOverMainMenu is not written.
ProgressKept == [][PlayerKeeps' /\ DiskKeeps]_vars
=============================================================================
