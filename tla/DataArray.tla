----------------------------- MODULE DataArray -----------------------------
(***************************************************************************)
(* DataArray<T> (src/Sexy.TodLib/DataArray.h), the fixed-size pool in which *)
(* the board keeps its zombies, plants, projectiles, coins, mowers and grid *)
(* items and the effect system its particles, reanimations and attachments. *)
(* An item is referred to by a 32-bit mID: its slot in the low half, a key  *)
(* in the high half. A free slot holds key 0 and, in the low half, the next *)
(* slot of the free list; the end of the list is mMaxUsedCount, the first   *)
(* slot never used. An item's own fields are left out: the pool never reads *)
(* them.                                                                    *)
(*                                                                          *)
(* SaveGame.cpp writes a pool to the save file and reads it back; it does   *)
(* not write mNextKey.                                                      *)
(***************************************************************************)
EXTENDS Integers, FiniteSets

CONSTANTS
  MaxSize,   \* theMaxSize: 1024, 128 or 32 in the program
  KeyLimit,  \* DATA_ARRAY_MAX_SIZE (65536): the key counter wraps here
  FirstKey   \* the key counter of a pool just initialised (1001)

ASSUME SizeAssumption == MaxSize \in Nat \ {0}
ASSUME KeyAssumption  == KeyLimit \in Nat /\ KeyLimit > 2 /\ FirstKey \in 1..KeyLimit-1

VARIABLES
  mBlock,         \* the mID stored in each slot
  mMaxUsedCount,
  mFreeListHead,
  mSize,
  mNextKey,
  iterator,       \* theItem of the loop that is walking the pool, or NoItem
  saved,          \* the pool as the save file holds it
  unvisited,      \* auxiliary: live when the loop began, not yet returned to it
  age             \* auxiliary: allocations since a handle was issued, up to Old

pool == <<mBlock, mMaxUsedCount, mFreeListHead, mSize>>
vars == <<mBlock, mMaxUsedCount, mFreeListHead, mSize, mNextKey, iterator, saved,
          unvisited, age>>

Slots  == 0..MaxSize-1
Keys   == 1..KeyLimit-1
Handle == [key : Keys, index : Slots]            \* what DataArrayGetID hands out
ItemID == [key : 0..KeyLimit-1, index : 0..MaxSize]
NoItem == -1

LiveIn(block, maxUsed) == {s \in 0..maxUsed-1 : block[s].key # 0}
LiveSlots == LiveIn(mBlock, mMaxUsedCount)

\* Mutants: the counter never wraps; it starts again at FirstKey, not at 1.
KeyAfterNoWrap(k) == k + 1
KeyAfterToFirst(k) == IF k + 1 = KeyLimit THEN FirstKey ELSE k + 1

\* The counter after a key has been taken from it.
KeyAfter(k) == IF k + 1 = KeyLimit THEN 1 ELSE k + 1

\* DataArrayTryToGet: the slot the handle names, if it still holds that handle.
TryToGet(h) == IF mBlock[h.index] = h THEN h.index ELSE NoItem

\* Mutant: the head of the free list is not saved.
SnapshotWithoutHead == [block |-> mBlock, maxUsed |-> mMaxUsedCount,
                        head |-> 0, size |-> mSize]

Snapshot == [block |-> mBlock, maxUsed |-> mMaxUsedCount,
             head |-> mFreeListHead, size |-> mSize]

\* A handle that is Old was issued a whole round of keys ago, in an earlier
\* run of the key counter, or never.
Old == KeyLimit - 2

-----------------------------------------------------------------------------
Init ==
  /\ mBlock = [s \in Slots |-> [key |-> 0, index |-> 0]]
  /\ mMaxUsedCount = 0
  /\ mFreeListHead = 0
  /\ mSize = 0
  /\ mNextKey = FirstKey
  /\ iterator = NoItem
  /\ saved = Snapshot
  /\ unvisited = {}
  /\ age = [h \in Handle |-> Old]

\* DataArrayAlloc takes the first free slot, or the first unused one when the
\* free list is empty. Its first assertion is its precondition: release builds
\* drop it, and a full pool is written past its end.
FreshSlotEager == mMaxUsedCount < MaxSize        \* mutant: prefers unused slots
FreshSlot == mFreeListHead = mMaxUsedCount

StoreNewItem(s) ==
  LET h == [key |-> mNextKey, index |-> s]
  IN  /\ mBlock' = [mBlock EXCEPT ![s] = h]
      /\ age' = [g \in Handle |-> IF g = h THEN 0
                                  ELSE IF age[g] = Old THEN Old ELSE age[g] + 1]

DataArrayAlloc ==
  /\ mSize < MaxSize
  /\ \/ /\ FreshSlot
        /\ StoreNewItem(mMaxUsedCount)
        /\ mMaxUsedCount' = mMaxUsedCount + 1
        /\ mFreeListHead' = mMaxUsedCount + 1
     \/ /\ ~FreshSlot
        /\ StoreNewItem(mFreeListHead)
        /\ mFreeListHead' = mBlock[mFreeListHead].index
        /\ UNCHANGED mMaxUsedCount
  /\ mNextKey' = KeyAfter(mNextKey)
  /\ mSize' = mSize + 1
  /\ UNCHANGED <<iterator, saved, unvisited>>

DataArrayFree(s) ==
  /\ mBlock' = [mBlock EXCEPT ![s] = [key |-> 0, index |-> mFreeListHead]]
  /\ mFreeListHead' = s
  /\ mSize' = mSize - 1
  /\ unvisited' = unvisited \ {s}
  /\ UNCHANGED <<mMaxUsedCount, mNextKey, iterator, saved, age>>

\* DataArrayFreeAll frees the items in slot order, then forgets the free list:
\* every slot is unused again, and the links in them, which nobody will read, are
\* written 0 here.
DataArrayFreeAll ==
  /\ mBlock' = [s \in Slots |-> IF s \in LiveSlots THEN [key |-> 0, index |-> 0]
                                ELSE mBlock[s]]
  /\ mMaxUsedCount' = 0
  /\ mFreeListHead' = 0
  /\ mSize' = 0
  /\ unvisited' = {}
  /\ UNCHANGED <<mNextKey, iterator, saved, age>>

\* Mutant: the loop goes on from the slot after the next one.
IterateNextSkips ==
  /\ \/ \E s \in LiveSlots :
          /\ s > iterator + 1
          /\ \A t \in LiveSlots : t > iterator + 1 => s <= t
          /\ iterator' = s
          /\ unvisited' = (IF iterator = NoItem THEN LiveSlots ELSE unvisited) \ {s}
     \/ /\ \A t \in LiveSlots : t <= iterator + 1
        /\ iterator # NoItem
        /\ iterator' = NoItem
        /\ unvisited' = {}
  /\ UNCHANGED <<pool, mNextKey, saved, age>>

\* IterateNext: the next slot with a key, or the end of the loop. Items may be
\* allocated and freed between two calls, the one just returned included.
IterateNext ==
  /\ \/ \E s \in LiveSlots :
          /\ s > iterator
          /\ \A t \in LiveSlots : t > iterator => s <= t
          /\ iterator' = s
          /\ unvisited' = (IF iterator = NoItem THEN LiveSlots ELSE unvisited) \ {s}
     \/ /\ \A t \in LiveSlots : t <= iterator
        /\ iterator # NoItem
        /\ iterator' = NoItem
        /\ unvisited' = {}
  /\ UNCHANGED <<pool, mNextKey, saved, age>>

\* SyncDataArray, writing: the counters and the used slots. The rest of the
\* block is not written; it is kept here only as memory nobody reads.
SaveArray ==
  /\ saved' = Snapshot
  /\ UNCHANGED <<pool, mNextKey, iterator, unvisited, age>>

\* Mutant: mSize is not read back and stays that of the new pool.
LoadArrayWithoutSize ==
  /\ iterator = NoItem
  /\ mBlock' = [s \in Slots |-> IF s < saved.maxUsed THEN saved.block[s]
                                ELSE [key |-> 0, index |-> 0]]
  /\ mMaxUsedCount' = saved.maxUsed
  /\ mFreeListHead' = saved.head
  /\ mSize' = 0
  /\ mNextKey' \in {FirstKey, mNextKey}
  /\ age' = [h \in Handle |-> Old]
  /\ UNCHANGED <<iterator, saved, unvisited>>

\* SyncDataArray, reading, over whatever the pool held. The board's pools are new
\* ones, whose key counter is FirstKey (the bushes', a few keys further); the
\* effect system's outlive the board and keep their counter. No loop is under way
\* (Board::LoadGame). Keys issued before the save may be issued again: every
\* handle is Old from here on.
LoadArray ==
  /\ iterator = NoItem
  /\ mBlock' = [s \in Slots |-> IF s < saved.maxUsed THEN saved.block[s]
                                ELSE [key |-> 0, index |-> 0]]
  /\ mMaxUsedCount' = saved.maxUsed
  /\ mFreeListHead' = saved.head
  /\ mSize' = saved.size
  /\ mNextKey' \in {FirstKey, mNextKey}
  /\ age' = [h \in Handle |-> Old]
  /\ UNCHANGED <<iterator, saved, unvisited>>

Next ==
  \/ DataArrayAlloc
  \/ \E s \in LiveSlots : DataArrayFree(s)
  \/ DataArrayFreeAll
  \/ IterateNext
  \/ SaveArray
  \/ LoadArray

Spec == Init /\ [][Next]_vars

-----------------------------------------------------------------------------
TypeOK ==
  /\ mBlock \in [Slots -> ItemID]
  /\ mMaxUsedCount \in 0..MaxSize
  /\ mFreeListHead \in 0..MaxSize
  /\ mSize \in 0..MaxSize
  /\ mNextKey \in Keys
  /\ iterator \in -1..MaxSize-1
  /\ saved \in [block : [Slots -> ItemID], maxUsed : 0..MaxSize,
                head : 0..MaxSize, size : 0..MaxSize]
  /\ unvisited \in SUBSET Slots
  /\ age \in [Handle -> 0..Old]

\* A pool is sound when the slots in use hold their own handle and the free
\* list, followed from its head, passes every free slot exactly once and ends
\* at maxUsed: chain is that walk, of n free slots.
IsFreeChain(block, maxUsed, head, n, chain) ==
  /\ chain[0] = head
  /\ chain[n] = maxUsed
  /\ \A i \in 0..n-1 : /\ chain[i] < maxUsed
                       /\ block[chain[i]].key = 0
                       /\ block[chain[i]].index = chain[i+1]
  /\ \A i, j \in 0..n-1 : chain[i] = chain[j] => i = j
  /\ \A s \in 0..maxUsed-1 : block[s].key = 0 => \E i \in 0..n-1 : chain[i] = s

SoundPool(block, maxUsed, head, size) ==
  /\ \A s \in LiveIn(block, maxUsed) : block[s].index = s
  /\ size = Cardinality(LiveIn(block, maxUsed))
  /\ \E chain \in [0..maxUsed-size -> 0..MaxSize] :
       IsFreeChain(block, maxUsed, head, maxUsed-size, chain)

\* No slot is lost and none is handed out twice: the free list always holds
\* exactly the freed slots, each once, and the counters agree with it. So a
\* pool is full only when MaxSize items live, and the second assertion of
\* DataArrayAlloc (DataArray.h:130) never fails.
FreeListExact == SoundPool(mBlock, mMaxUsedCount, mFreeListHead, mSize)

\* The same of the pool a save file holds: loading it is safe.
SavedPoolSound == SoundPool(saved.block, saved.maxUsed, saved.head, saved.size)

\* The items a loop still owes its caller lie ahead of it.
UnvisitedAhead ==
  /\ unvisited \subseteq {s \in LiveSlots : s > iterator}
  /\ iterator = NoItem => unvisited = {}

\* A loop over the pool (Board::UpdateGameObjects and every other IterateXxx
\* loop) that ends has returned every item that lived from its first call to
\* its last, whatever its body allocated and freed on the way (IterateNext,
\* DataArray.h:106).
LoopMissesNoSurvivor ==
  [][iterator # NoItem /\ iterator' = NoItem => unvisited = {}]_vars

\* A handle whose item was freed stays dead: an allocation makes a handle
\* resolve only if that handle was last issued a whole round of KeyLimit-1 keys
\* ago (or before the last load). Every stored handle that may outlive its item
\* (a zombie's mRelatedZombieID, the cursor's mCoinID...) relies on this.
NoEarlyReuse ==
  [][\A h \in Handle :
       DataArrayAlloc /\ TryToGet(h) = NoItem /\ mBlock'[h.index] = h
         => age[h] = Old]_vars

\* The pool implements the table of live handles: allocation never disturbs a
\* live item, freeing removes exactly one, mSize is their number, and a load
\* brings back the handles that were saved (DataArray.h and SyncDataArray).
HandlesIn(block, maxUsed) == {block[s] : s \in LiveIn(block, maxUsed)}

Table == INSTANCE HandleTable WITH
  live  <- HandlesIn(mBlock, mMaxUsedCount),
  size  <- mSize,
  kept  <- HandlesIn(saved.block, saved.maxUsed)

IsHandleTable == Table!Spec
=============================================================================
