-------------------------- MODULE DataArrayProofs --------------------------
(***************************************************************************)
(* Proofs about DataArray, for every pool size, key width and first key.    *)
(*                                                                          *)
(* The pool lemmas say what each change of the block does to SoundPool; the *)
(* free list after the change is given as an explicit walk. The inductive   *)
(* invariant adds what the loop variable and the ages of handles need.      *)
(***************************************************************************)
EXTENDS DataArray, FiniteSetTheorems, TLAPS

-----------------------------------------------------------------------------
(* Pure facts about a block of IDs.                                         *)

\* The live slots of a pool are finitely many, at most maxUsed.
LEMMA LiveInFinite ==
  ASSUME NEW block, NEW maxUsed \in Nat
  PROVE  /\ IsFiniteSet(LiveIn(block, maxUsed))
         /\ Cardinality(LiveIn(block, maxUsed)) \in 0..maxUsed
<1>1. IsFiniteSet(0..maxUsed-1) /\ Cardinality(0..maxUsed-1) = maxUsed
  BY FS_Interval
<1>2. LiveIn(block, maxUsed) \in SUBSET (0..maxUsed-1)
  BY DEF LiveIn
<1>3. /\ IsFiniteSet(LiveIn(block, maxUsed))
      /\ Cardinality(LiveIn(block, maxUsed)) <= maxUsed
  BY <1>1, <1>2, FS_Subset
<1>4. Cardinality(LiveIn(block, maxUsed)) \in Nat
  BY <1>3, FS_CardinalityType
<1> QED BY <1>3, <1>4

\* A new pool is sound.
LEMMA EmptyPoolSound ==
  ASSUME NEW block
  PROVE  SoundPool(block, 0, 0, 0)
<1>1. LiveIn(block, 0) = {}
  BY DEF LiveIn
<1>2. Cardinality(LiveIn(block, 0)) = 0
  BY <1>1, FS_EmptySet
<1> DEFINE chain == [i \in 0..0-0 |-> 0]
<1>3. chain \in [0..0-0 -> 0..MaxSize]
  BY SizeAssumption
<1>4. IsFreeChain(block, 0, 0, 0, chain)
  BY DEF IsFreeChain
<1> QED BY <1>1, <1>2, <1>3, <1>4 DEF SoundPool

\* DataArrayAlloc with an empty free list: the first unused slot is in the
\* block, and using it leaves a sound pool.
LEMMA FreshSlotSound ==
  ASSUME NEW block \in [Slots -> ItemID], NEW maxUsed \in 0..MaxSize,
         NEW size \in 0..MaxSize, NEW k \in Keys,
         SoundPool(block, maxUsed, maxUsed, size), size < MaxSize
  PROVE  /\ maxUsed \in Slots
         /\ SoundPool([block EXCEPT ![maxUsed] = [key |-> k, index |-> maxUsed]],
                      maxUsed+1, maxUsed+1, size+1)
<1> DEFINE new == [block EXCEPT ![maxUsed] = [key |-> k, index |-> maxUsed]]
<1>a. MaxSize \in Nat /\ MaxSize > 0
  BY SizeAssumption
<1>1. PICK c \in [0..maxUsed-size -> 0..MaxSize] :
             IsFreeChain(block, maxUsed, maxUsed, maxUsed-size, c)
  BY DEF SoundPool
<1>2. size \in 0..maxUsed
  BY <1>a, LiveInFinite DEF SoundPool
<1>3. size = maxUsed
  <2> SUFFICES ASSUME size < maxUsed PROVE FALSE
    BY <1>2, <1>a
  <2>1. c[0] < maxUsed
    BY <1>1, <1>2, <1>a DEF IsFreeChain
  <2> QED BY <2>1, <1>1, <1>a DEF IsFreeChain
<1>4. maxUsed \in Slots
  BY <1>3, <1>a DEF Slots
<1>5. LiveIn(new, maxUsed+1) = LiveIn(block, maxUsed) \union {maxUsed}
  BY <1>4, <1>a DEF LiveIn, Keys, Slots
<1>6. Cardinality(LiveIn(new, maxUsed+1)) = size + 1
  <2>1. maxUsed \notin LiveIn(block, maxUsed)
    BY <1>a DEF LiveIn
  <2>2. IsFiniteSet(LiveIn(block, maxUsed))
    BY <1>a, LiveInFinite
  <2>3. Cardinality(LiveIn(block, maxUsed) \union {maxUsed}) = Cardinality(LiveIn(block, maxUsed)) + 1
    BY <2>1, <2>2, FS_AddElement
  <2> QED BY <2>3, <1>5 DEF SoundPool
<1>7. \A s \in LiveIn(new, maxUsed+1) : new[s].index = s
  BY <1>4, <1>5, <1>a DEF LiveIn, SoundPool, Slots
<1> DEFINE d == [i \in 0..(maxUsed+1)-(size+1) |-> maxUsed+1]
<1>8. d \in [0..(maxUsed+1)-(size+1) -> 0..MaxSize]
  BY <1>4, <1>a DEF Slots
<1>9. \A s \in 0..maxUsed : new[s].key # 0
  <2>1. \A s \in 0..maxUsed-1 : block[s].key # 0
    BY <1>1, <1>3, <1>a DEF IsFreeChain
  <2> QED BY <2>1, <1>4, <1>a DEF Slots, Keys
<1>10. IsFreeChain(new, maxUsed+1, maxUsed+1, (maxUsed+1)-(size+1), d)
  BY <1>3, <1>9, <1>a DEF IsFreeChain
<1>11. SoundPool(new, maxUsed+1, maxUsed+1, size+1)
  BY <1>6, <1>7, <1>8, <1>10 DEF SoundPool
<1> QED BY <1>4, <1>11

\* DataArrayAlloc with a free list: its head is a free slot in the block, and
\* using it leaves a sound pool.
LEMMA FreeSlotSound ==
  ASSUME NEW block \in [Slots -> ItemID], NEW maxUsed \in 0..MaxSize,
         NEW head \in 0..MaxSize, NEW size \in 0..MaxSize, NEW k \in Keys,
         SoundPool(block, maxUsed, head, size), head # maxUsed
  PROVE  /\ head \in 0..maxUsed-1
         /\ block[head].key = 0
         /\ SoundPool([block EXCEPT ![head] = [key |-> k, index |-> head]],
                      maxUsed, block[head].index, size+1)
<1> DEFINE new == [block EXCEPT ![head] = [key |-> k, index |-> head]]
           n   == maxUsed - size
<1>a. MaxSize \in Nat /\ MaxSize > 0
  BY SizeAssumption
<1>1. PICK c \in [0..n -> 0..MaxSize] : IsFreeChain(block, maxUsed, head, n, c)
  BY DEF SoundPool
<1>2. size \in 0..maxUsed
  BY <1>a, LiveInFinite DEF SoundPool
<1>3. n \in Nat /\ n >= 1
  BY <1>1, <1>2, <1>a DEF IsFreeChain
<1>4. head \in 0..maxUsed-1 /\ block[head].key = 0 /\ block[head].index = c[1]
  BY <1>1, <1>3, <1>a DEF IsFreeChain
<1>5. head \in Slots
  BY <1>4, <1>a DEF Slots
<1>6. LiveIn(new, maxUsed) = LiveIn(block, maxUsed) \union {head}
  BY <1>4, <1>5, <1>a DEF LiveIn, Keys, Slots
<1>7. Cardinality(LiveIn(new, maxUsed)) = size + 1
  <2>1. head \notin LiveIn(block, maxUsed)
    BY <1>4 DEF LiveIn
  <2>2. IsFiniteSet(LiveIn(block, maxUsed))
    BY <1>a, LiveInFinite
  <2>3. Cardinality(LiveIn(block, maxUsed) \union {head}) = Cardinality(LiveIn(block, maxUsed)) + 1
    BY <2>1, <2>2, FS_AddElement
  <2> QED BY <2>3, <1>6 DEF SoundPool
<1>8. \A s \in LiveIn(new, maxUsed) : new[s].index = s
  BY <1>5, <1>6, <1>a DEF LiveIn, SoundPool, Slots
<1> DEFINE d == [i \in 0..n-1 |-> c[i+1]]
<1>9. d \in [0..maxUsed-(size+1) -> 0..MaxSize]
  BY <1>1, <1>3, <1>a
<1>10. IsFreeChain(new, maxUsed, c[1], n-1, d)
  <2>1. d[0] = c[1] /\ d[n-1] = maxUsed
    BY <1>1, <1>3 DEF IsFreeChain
  <2>2. \A i \in 0..n-2 : c[i+1] # head
    BY <1>1, <1>3 DEF IsFreeChain
  <2>3. \A i \in 0..n-2 : /\ d[i] < maxUsed
                          /\ new[d[i]].key = 0
                          /\ new[d[i]].index = d[i+1]
    <3> SUFFICES ASSUME NEW i \in 0..n-2
                 PROVE  /\ d[i] < maxUsed
                        /\ new[d[i]].key = 0
                        /\ new[d[i]].index = d[i+1]
      OBVIOUS
    <3>1. i+1 \in 0..n-1 /\ i+1 \in 0..n /\ i+2 \in 0..n /\ d[i] = c[i+1] /\ d[i+1] = c[i+2]
      BY <1>3
    <3>2. c[i+1] \in 0..maxUsed-1 /\ block[c[i+1]].key = 0 /\ block[c[i+1]].index = c[i+2]
      <4>1. c[i+1] \in 0..MaxSize
        BY <1>1, <3>1
      <4>2. (i+1)+1 = i+2
        OBVIOUS
      <4> QED BY <1>1, <3>1, <4>1, <4>2, <1>a DEF IsFreeChain
    <3>3. c[i+1] \in Slots
      BY <3>2, <1>a DEF Slots
    <3> QED BY <2>2, <3>1, <3>2, <3>3
  <2>4. \A i, j \in 0..n-2 : d[i] = d[j] => i = j
    BY <1>1, <1>3 DEF IsFreeChain
  <2>5. ASSUME NEW s \in 0..maxUsed-1, new[s].key = 0
        PROVE  \E i \in 0..n-2 : d[i] = s
    <3>1. s \in Slots
      BY <1>a DEF Slots
    <3>2. s # head /\ block[s].key = 0
      BY <3>1, <1>5, <2>5 DEF Keys
    <3>3. PICK i \in 0..n-1 : c[i] = s
      BY <3>2, <1>1 DEF IsFreeChain
    <3>4. i # 0
      BY <3>2, <3>3, <1>1 DEF IsFreeChain
    <3>5. i-1 \in 0..n-2 /\ d[i-1] = s
      BY <3>3, <3>4, <1>3
    <3> QED BY <3>5
  <2>6. (n-1)-1 = n-2
    BY <1>3
  <2> QED BY <2>1, <2>3, <2>4, <2>5, <2>6 DEF IsFreeChain
<1>11. SoundPool(new, maxUsed, block[head].index, size+1)
  <2>1. maxUsed-(size+1) = n-1
    BY <1>a
  <2> QED BY <2>1, <1>4, <1>7, <1>8, <1>9, <1>10 DEF SoundPool
<1> QED BY <1>4, <1>11

\* DataArrayFree of a live item: there is one to count down, and the freed slot
\* in front of the free list leaves a sound pool.
LEMMA FreedSlotSound ==
  ASSUME NEW block \in [Slots -> ItemID], NEW maxUsed \in 0..MaxSize,
         NEW head \in 0..MaxSize, NEW size \in 0..MaxSize,
         SoundPool(block, maxUsed, head, size),
         NEW s \in LiveIn(block, maxUsed)
  PROVE  /\ size >= 1
         /\ SoundPool([block EXCEPT ![s] = [key |-> 0, index |-> head]],
                      maxUsed, s, size-1)
<1> DEFINE new == [block EXCEPT ![s] = [key |-> 0, index |-> head]]
           n   == maxUsed - size
<1>a. MaxSize \in Nat /\ MaxSize > 0
  BY SizeAssumption
<1>1. PICK c \in [0..n -> 0..MaxSize] : IsFreeChain(block, maxUsed, head, n, c)
  BY DEF SoundPool
<1>2. size \in 0..maxUsed
  BY <1>a, LiveInFinite DEF SoundPool
<1>3. s \in 0..maxUsed-1 /\ block[s].key # 0 /\ s \in Slots
  BY <1>a DEF LiveIn, Slots
<1>4. LiveIn(new, maxUsed) = LiveIn(block, maxUsed) \ {s}
  BY <1>3, <1>a DEF LiveIn, Slots
<1>5. Cardinality(LiveIn(new, maxUsed)) = size - 1
  <2>1. IsFiniteSet(LiveIn(block, maxUsed))
    BY <1>a, LiveInFinite
  <2>2. Cardinality(LiveIn(block, maxUsed) \ {s}) = Cardinality(LiveIn(block, maxUsed)) - 1
    BY <2>1, FS_RemoveElement
  <2> QED BY <2>2, <1>4 DEF SoundPool
<1>6. size >= 1
  BY <1>5, <1>2, <1>a, LiveInFinite
<1>7. \A t \in LiveIn(new, maxUsed) : new[t].index = t
  BY <1>3, <1>4, <1>a DEF LiveIn, SoundPool, Slots
<1>8. n \in Nat
  BY <1>2, <1>a
<1> DEFINE d == [i \in 0..n+1 |-> IF i = 0 THEN s ELSE c[i-1]]
<1>9. d \in [0..maxUsed-(size-1) -> 0..MaxSize]
  <2>1. \A i \in 0..n+1 : d[i] \in 0..MaxSize
    BY <1>1, <1>3, <1>8, <1>a DEF Slots
  <2>2. maxUsed-(size-1) = n+1
    BY <1>2, <1>a
  <2> QED BY <2>1, <2>2
<1>10. IsFreeChain(new, maxUsed, s, n+1, d)
  <2>1. d[0] = s /\ d[n+1] = maxUsed /\ d[1] = head
    BY <1>1, <1>8 DEF IsFreeChain
  <2>2. \A i \in 0..n-1 : c[i] \in 0..maxUsed-1 /\ c[i] \in Slots /\ c[i] # s
    <3>1. \A i \in 0..n-1 : c[i] \in 0..MaxSize
      BY <1>1, <1>8
    <3> QED BY <3>1, <1>1, <1>3, <1>8, <1>a DEF IsFreeChain, Slots
  <2>3. ASSUME NEW i \in 0..n
        PROVE  /\ d[i] < maxUsed
               /\ new[d[i]].key = 0
               /\ new[d[i]].index = d[i+1]
    <3>1. CASE i = 0
      BY <3>1, <2>1, <1>3, <1>a
    <3>2. CASE i # 0
      <4>1. i-1 \in 0..n-1 /\ d[i] = c[i-1] /\ d[i+1] = c[i] /\ (i-1)+1 = i
        BY <3>2, <1>8
      <4>2. block[c[i-1]].key = 0 /\ block[c[i-1]].index = c[i]
        BY <4>1, <1>1 DEF IsFreeChain
      <4> QED BY <4>1, <4>2, <2>2, <1>3, <1>a
    <3> QED BY <3>1, <3>2
  <2>4. ASSUME NEW i \in 0..n, NEW j \in 0..n, d[i] = d[j]
        PROVE  i = j
    <3>1. \A h \in 1..n : d[h] = c[h-1] /\ h-1 \in 0..n-1 /\ d[h] # s
      BY <2>2, <1>8
    <3>2. i = 0 <=> j = 0
      <4>1. \A h \in 0..n : h # 0 => d[h] # s
        <5> SUFFICES ASSUME NEW h \in 0..n, h # 0 PROVE d[h] # s
          OBVIOUS
        <5>1. h \in 1..n
          BY <1>8
        <5> QED BY <5>1, <3>1
      <4> QED BY <4>1, <2>1, <2>4
    <3>3. CASE i # 0 /\ j # 0
      <4>1. i-1 \in 0..n-1 /\ j-1 \in 0..n-1 /\ c[i-1] = c[j-1]
        BY <3>1, <3>3, <2>4, <1>8
      <4>2. i-1 = j-1
        BY <4>1, <1>1 DEF IsFreeChain
      <4> QED BY <4>2
    <3> QED BY <3>2, <3>3
  <2>5. ASSUME NEW t \in 0..maxUsed-1, new[t].key = 0
        PROVE  \E i \in 0..n : d[i] = t
    <3>1. CASE t = s
      BY <3>1, <2>1, <1>8
    <3>2. CASE t # s
      <4>1. block[t].key = 0
        BY <3>2, <2>5, <1>3, <1>a DEF Slots
      <4>2. PICK i \in 0..n-1 : c[i] = t
        BY <4>1, <1>1 DEF IsFreeChain
      <4>3. i+1 \in 0..n /\ d[i+1] = t
        BY <4>2, <1>8
      <4> QED BY <4>3
    <3> QED BY <3>1, <3>2
  <2>6. (n+1)-1 = n
    BY <1>8
  <2> HIDE DEF d, new, n
  <2> QED BY <2>1, <2>3, <2>4, <2>5, <2>6 DEF IsFreeChain
<1>11. SoundPool(new, maxUsed, s, size-1)
  <2>1. maxUsed-(size-1) = n+1
    BY <1>2, <1>a
  <2> QED BY <2>1, <1>5, <1>7, <1>9, <1>10 DEF SoundPool
<1> QED BY <1>6, <1>11

-----------------------------------------------------------------------------
(* The inductive invariant.                                                 *)

\* A handle issued a+1 allocations ago is a+1 keys behind the counter, round
\* the wrap if need be, as long as it is not Old.
KeyFollows(h, a) ==
  mNextKey = IF h.key + a + 1 < KeyLimit THEN h.key + a + 1
             ELSE h.key + a + 2 - KeyLimit

AgesTellKeys == \A h \in Handle : age[h] < Old => KeyFollows(h, age[h])

IInv ==
  /\ TypeOK
  /\ FreeListExact
  /\ SavedPoolSound
  /\ UnvisitedAhead
  /\ AgesTellKeys

\* A pool just initialised satisfies the inductive invariant.
LEMMA InitEstablishesIInv == Init => IInv
<1> SUFFICES ASSUME Init PROVE IInv
  OBVIOUS
<1> USE SizeAssumption, KeyAssumption
<1>1. TypeOK
  BY DEF Init, TypeOK, Slots, Keys, ItemID, Old, Snapshot, NoItem
<1>2. FreeListExact
  BY EmptyPoolSound DEF Init, FreeListExact
<1>3. SavedPoolSound
  BY EmptyPoolSound DEF Init, SavedPoolSound, Snapshot
<1>4. UnvisitedAhead
  BY DEF Init, UnvisitedAhead
<1>5. AgesTellKeys
  BY DEF Init, AgesTellKeys, Old
<1> QED BY <1>1, <1>2, <1>3, <1>4, <1>5 DEF IInv

\* Only the used slots of a block matter.
LEMMA SoundPoolReadsUsedSlots ==
  ASSUME NEW b1, NEW b2, NEW maxUsed \in 0..MaxSize, NEW head, NEW size,
         \A s \in 0..maxUsed-1 : b1[s] = b2[s],
         SoundPool(b1, maxUsed, head, size), size \in 0..MaxSize
  PROVE  SoundPool(b2, maxUsed, head, size)
<1>1. LiveIn(b1, maxUsed) = LiveIn(b2, maxUsed)
  BY DEF LiveIn
<1>2. \A s \in LiveIn(b2, maxUsed) : b2[s].index = s
  BY <1>1 DEF LiveIn, SoundPool
<1>3. size \in 0..maxUsed
  BY SizeAssumption, LiveInFinite DEF SoundPool
<1>4. PICK c \in [0..maxUsed-size -> 0..MaxSize] :
             IsFreeChain(b1, maxUsed, head, maxUsed-size, c)
  BY DEF SoundPool
<1>5. \A i \in 0..maxUsed-size-1 : c[i] \in 0..maxUsed-1
  <2>1. \A i \in 0..maxUsed-size-1 : c[i] \in 0..MaxSize
    BY <1>3, <1>4, SizeAssumption
  <2> QED BY <2>1, <1>4, SizeAssumption DEF IsFreeChain
<1>6. IsFreeChain(b2, maxUsed, head, maxUsed-size, c)
  BY <1>4, <1>5 DEF IsFreeChain
<1> QED BY <1>1, <1>2, <1>6 DEF SoundPool

\* What an allocation does, whichever slot it takes.
LEMMA AllocTakesSlot ==
  ASSUME IInv, DataArrayAlloc
  PROVE  \E s \in Slots :
           /\ StoreNewItem(s)
           /\ s \notin LiveSlots
           /\ mMaxUsedCount' \in 0..MaxSize
           /\ mFreeListHead' \in 0..MaxSize
           /\ LiveSlots' = LiveSlots \union {s}
           /\ FreeListExact'
<1> USE SizeAssumption
<1>t. /\ mBlock \in [Slots -> ItemID] /\ mMaxUsedCount \in 0..MaxSize
      /\ mFreeListHead \in 0..MaxSize /\ mSize \in 0..MaxSize /\ mNextKey \in Keys
      /\ mSize < MaxSize /\ mSize' = mSize + 1
      /\ SoundPool(mBlock, mMaxUsedCount, mFreeListHead, mSize)
  BY DEF IInv, TypeOK, FreeListExact, DataArrayAlloc
<1>1. CASE FreshSlot
  <2> DEFINE new == [mBlock EXCEPT ![mMaxUsedCount] =
                       [key |-> mNextKey, index |-> mMaxUsedCount]]
  <2>1. /\ StoreNewItem(mMaxUsedCount) /\ mBlock' = new
        /\ mMaxUsedCount' = mMaxUsedCount + 1
        /\ mFreeListHead' = mMaxUsedCount + 1
    BY <1>1 DEF DataArrayAlloc, StoreNewItem
  <2>2. mMaxUsedCount \in Slots
        /\ SoundPool(new, mMaxUsedCount+1, mMaxUsedCount+1, mSize+1)
    BY <1>1, <1>t, FreshSlotSound DEF FreshSlot
  <2>3. FreeListExact'
    BY <2>1, <2>2, <1>t DEF FreeListExact
  <2>4. /\ mMaxUsedCount \notin LiveSlots
        /\ LiveSlots' = LiveSlots \union {mMaxUsedCount}
    BY <2>1, <2>2, <1>t DEF LiveSlots, LiveIn, Slots, Keys
  <2>5. mMaxUsedCount + 1 \in 0..MaxSize
    BY <2>2 DEF Slots
  <2> QED BY <2>1, <2>2, <2>3, <2>4, <2>5
<1>2. CASE ~FreshSlot
  <2> DEFINE new == [mBlock EXCEPT ![mFreeListHead] =
                       [key |-> mNextKey, index |-> mFreeListHead]]
  <2>1. /\ StoreNewItem(mFreeListHead) /\ mBlock' = new
        /\ mMaxUsedCount' = mMaxUsedCount
        /\ mFreeListHead' = mBlock[mFreeListHead].index
    BY <1>2 DEF DataArrayAlloc, StoreNewItem
  <2>2. /\ mFreeListHead \in 0..mMaxUsedCount-1
        /\ mBlock[mFreeListHead].key = 0
        /\ SoundPool(new, mMaxUsedCount, mBlock[mFreeListHead].index, mSize+1)
    BY <1>2, <1>t, FreeSlotSound DEF FreshSlot
  <2>3. FreeListExact'
    BY <2>1, <2>2, <1>t DEF FreeListExact
  <2>4. mFreeListHead \in Slots
    BY <2>2, <1>t DEF Slots
  <2>5. /\ mFreeListHead \notin LiveSlots
        /\ LiveSlots' = LiveSlots \union {mFreeListHead}
    BY <2>1, <2>2, <2>4, <1>t DEF LiveSlots, LiveIn, Slots, Keys
  <2>6. mBlock[mFreeListHead].index \in 0..MaxSize
    BY <2>4, <1>t DEF ItemID
  <2> QED BY <2>1, <2>3, <2>4, <2>5, <2>6, <1>t
<1> QED BY <1>1, <1>2

\* Every operation preserves it.
LEMMA NextPreservesIInv == IInv /\ [Next]_vars => IInv'
<1> SUFFICES ASSUME IInv, [Next]_vars PROVE IInv'
  OBVIOUS
<1> USE SizeAssumption, KeyAssumption
<1>t. TypeOK /\ FreeListExact /\ SavedPoolSound /\ UnvisitedAhead /\ AgesTellKeys
  BY DEF IInv
<1>1. CASE DataArrayAlloc
  <2>1. PICK s \in Slots :
          /\ StoreNewItem(s) /\ s \notin LiveSlots
          /\ mMaxUsedCount' \in 0..MaxSize /\ mFreeListHead' \in 0..MaxSize
          /\ LiveSlots' = LiveSlots \union {s} /\ FreeListExact'
    BY <1>1, AllocTakesSlot
  <2>2. TypeOK'
    <3>1. mBlock' \in [Slots -> ItemID]
      <4>1. [key |-> mNextKey, index |-> s] \in ItemID
        BY <1>t DEF TypeOK, Slots, Keys, ItemID
      <4> QED BY <4>1, <2>1, <1>t DEF StoreNewItem, TypeOK
    <3>2. age' \in [Handle -> 0..Old]
      BY <2>1, <1>t DEF StoreNewItem, TypeOK, Old
    <3>3. mNextKey' \in Keys /\ mSize' \in 0..MaxSize
      BY <1>1, <1>t DEF DataArrayAlloc, KeyAfter, Keys, TypeOK
    <3> QED BY <2>1, <3>1, <3>2, <3>3, <1>1, <1>t DEF DataArrayAlloc, TypeOK
  <2>3. SavedPoolSound'
    BY <1>1, <1>t DEF DataArrayAlloc, SavedPoolSound
  <2>4. UnvisitedAhead'
    BY <1>1, <2>1, <1>t DEF DataArrayAlloc, UnvisitedAhead
  <2>5. AgesTellKeys'
    <3> SUFFICES ASSUME NEW h \in Handle, age'[h] < Old
                 PROVE  KeyFollows(h, age[h])'
      BY DEF AgesTellKeys
    <3>1. mNextKey' = KeyAfter(mNextKey) /\ mNextKey \in Keys /\ h.key \in Keys
      BY <1>1, <1>t DEF DataArrayAlloc, TypeOK, Handle
    <3>2. CASE h = [key |-> mNextKey, index |-> s]
      <4>1. age'[h] = 0 /\ h.key = mNextKey
        BY <3>2, <2>1 DEF StoreNewItem
      <4> QED BY <4>1, <3>1 DEF KeyFollows, KeyAfter, Keys
    <3>3. CASE h # [key |-> mNextKey, index |-> s]
      <4>1. age[h] \in 0..Old /\ Old \in Nat
        BY <1>t DEF TypeOK, Old
      <4>2. age'[h] = age[h] + 1 /\ age[h] < Old
        BY <3>3, <2>1, <4>1 DEF StoreNewItem
      <4>3. KeyFollows(h, age[h])
        BY <4>2, <1>t DEF AgesTellKeys
      <4> QED BY <4>1, <4>2, <4>3, <3>1 DEF KeyFollows, KeyAfter, Keys, Old
    <3> QED BY <3>2, <3>3
  <2> QED BY <2>1, <2>2, <2>3, <2>4, <2>5 DEF IInv
<1>2. ASSUME NEW s \in LiveSlots, DataArrayFree(s)
      PROVE  IInv'
  <2>1. /\ mSize >= 1
        /\ SoundPool([mBlock EXCEPT ![s] = [key |-> 0, index |-> mFreeListHead]],
                     mMaxUsedCount, s, mSize-1)
    BY <1>t, FreedSlotSound DEF TypeOK, FreeListExact, LiveSlots
  <2>2. s \in Slots
    BY <1>t DEF TypeOK, LiveSlots, LiveIn, Slots
  <2>3. FreeListExact'
    BY <1>2, <2>1 DEF DataArrayFree, FreeListExact
  <2>4. TypeOK'
    <3>1. mBlock' \in [Slots -> ItemID]
      BY <1>2, <2>2, <1>t, SMTT(30) DEF DataArrayFree, TypeOK, Slots, ItemID
    <3>2. mSize' \in 0..MaxSize /\ mFreeListHead' \in 0..MaxSize
      BY <1>2, <2>1, <2>2, <1>t DEF DataArrayFree, TypeOK, Slots
    <3> QED BY <3>1, <3>2, <1>2, <1>t DEF DataArrayFree, TypeOK
  <2>5. SavedPoolSound'
    BY <1>2, <1>t DEF DataArrayFree, SavedPoolSound
  <2>6. LiveSlots' = LiveSlots \ {s}
    BY <1>2, <2>2, <1>t DEF DataArrayFree, LiveSlots, LiveIn, TypeOK, Slots
  <2>7. UnvisitedAhead'
    BY <1>2, <2>6, <1>t DEF DataArrayFree, UnvisitedAhead
  <2>8. AgesTellKeys'
    BY <1>2, <1>t DEF DataArrayFree, AgesTellKeys, KeyFollows
  <2> QED BY <2>3, <2>4, <2>5, <2>7, <2>8 DEF IInv
<1>3. CASE DataArrayFreeAll
  <2>2. mBlock' \in [Slots -> ItemID]
    BY <1>3, <1>t DEF DataArrayFreeAll, TypeOK, ItemID
  <2>3. TypeOK'
    BY <1>3, <2>2, <1>t DEF DataArrayFreeAll, TypeOK
  <2>4. FreeListExact'
    BY <1>3, EmptyPoolSound DEF DataArrayFreeAll, FreeListExact
  <2>5. SavedPoolSound' /\ UnvisitedAhead' /\ AgesTellKeys'
    BY <1>3, <1>t
    DEF DataArrayFreeAll, SavedPoolSound, UnvisitedAhead, AgesTellKeys, KeyFollows
  <2> QED BY <2>3, <2>4, <2>5 DEF IInv
<1>4. CASE IterateNext
  <2>1. UNCHANGED <<mBlock, mMaxUsedCount, mFreeListHead, mSize, mNextKey, saved, age>>
    BY <1>4 DEF IterateNext, pool
  <2>2. LiveSlots' = LiveSlots /\ LiveSlots \subseteq Slots
    BY <2>1, <1>t DEF LiveSlots, LiveIn, TypeOK, Slots
  <2>3. CASE \E s \in LiveSlots :
          /\ s > iterator
          /\ \A t \in LiveSlots : t > iterator => s <= t
          /\ iterator' = s
          /\ unvisited' = (IF iterator = NoItem THEN LiveSlots ELSE unvisited) \ {s}
    <3>1. PICK s \in LiveSlots :
            /\ s > iterator
            /\ \A t \in LiveSlots : t > iterator => s <= t
            /\ iterator' = s
            /\ unvisited' = (IF iterator = NoItem THEN LiveSlots ELSE unvisited) \ {s}
      BY <2>3
    <3>2. \A t \in LiveSlots : t \in Nat
      BY <2>2 DEF Slots
    <3>3. unvisited' \subseteq LiveSlots /\ unvisited' \subseteq Slots
      BY <3>1, <2>2, <1>t DEF UnvisitedAhead
    <3>4. \A t \in unvisited' : t > s
      <4>1. \A t \in unvisited' : t > iterator /\ t # s
        BY <3>1, <3>2, <1>t DEF UnvisitedAhead, NoItem
      <4> QED BY <4>1, <3>1, <3>2, <3>3
    <3>5. iterator' \in 0..MaxSize-1
      BY <3>1, <2>2 DEF Slots
    <3>6. TypeOK'
      BY <2>1, <3>3, <3>5, <1>t DEF TypeOK
    <3>7. UnvisitedAhead'
      BY <2>2, <3>1, <3>3, <3>4, <3>5 DEF UnvisitedAhead, NoItem
    <3> QED BY <2>1, <3>6, <3>7, <1>t
        DEF IInv, FreeListExact, SavedPoolSound, AgesTellKeys, KeyFollows
  <2>4. CASE iterator' = NoItem /\ unvisited' = {}
    <3>1. TypeOK' /\ UnvisitedAhead'
      BY <2>1, <2>4, <1>t DEF TypeOK, UnvisitedAhead, NoItem
    <3> QED BY <2>1, <3>1, <1>t
        DEF IInv, FreeListExact, SavedPoolSound, AgesTellKeys, KeyFollows
  <2> QED BY <1>4, <2>3, <2>4 DEF IterateNext
<1>5. CASE SaveArray
  <2>1. UNCHANGED <<mBlock, mMaxUsedCount, mFreeListHead, mSize, mNextKey, iterator,
                    unvisited, age>>
    BY <1>5 DEF SaveArray, pool
  <2>2. TypeOK' /\ SavedPoolSound'
    BY <1>5, <2>1, <1>t DEF SaveArray, TypeOK, Snapshot, SavedPoolSound, FreeListExact
  <2> QED BY <2>1, <2>2, <1>t
      DEF IInv, FreeListExact, UnvisitedAhead, LiveSlots, AgesTellKeys, KeyFollows
<1>6. CASE LoadArray
  <2>1. /\ saved.block \in [Slots -> ItemID] /\ saved.maxUsed \in 0..MaxSize
        /\ saved.head \in 0..MaxSize /\ saved.size \in 0..MaxSize
    BY <1>t DEF TypeOK
  <2>2. TypeOK'
    <3>1. mBlock' \in [Slots -> ItemID]
      BY <1>6, <2>1 DEF LoadArray, ItemID
    <3>2. age' \in [Handle -> 0..Old]
      BY <1>6 DEF LoadArray, Old
    <3>3. mNextKey' \in Keys
      BY <1>6, <1>t DEF LoadArray, TypeOK, Keys
    <3> QED BY <1>6, <2>1, <3>1, <3>2, <3>3, <1>t DEF LoadArray, TypeOK
  <2>3. \A s \in 0..saved.maxUsed-1 : mBlock'[s] = saved.block[s]
    BY <1>6, <2>1 DEF LoadArray, Slots
  <2>4. FreeListExact'
    <3>1. SoundPool(mBlock', saved.maxUsed, saved.head, saved.size)
      BY <2>1, <2>3, <1>t, SoundPoolReadsUsedSlots DEF SavedPoolSound
    <3> QED BY <1>6, <3>1 DEF LoadArray, FreeListExact
  <2>5. SavedPoolSound' /\ UnvisitedAhead'
    BY <1>6, <1>t DEF LoadArray, SavedPoolSound, UnvisitedAhead
  <2>6. AgesTellKeys'
    BY <1>6 DEF LoadArray, AgesTellKeys, Old
  <2> QED BY <2>2, <2>4, <2>5, <2>6 DEF IInv
<1>7. CASE UNCHANGED vars
  BY <1>7, <1>t DEF vars, IInv, TypeOK, FreeListExact, SavedPoolSound, UnvisitedAhead,
     LiveSlots, AgesTellKeys, KeyFollows
<1> QED BY <1>1, <1>2, <1>3, <1>4, <1>5, <1>6, <1>7 DEF Next

-----------------------------------------------------------------------------
(* What the specification guarantees.                                       *)

\* The inductive invariant holds throughout: the pool and the saved pool are
\* sound, the loop's items lie ahead of it, and handles and keys have the ages
\* the key counter says.
THEOREM InductiveInvariant == Spec => []IInv
<1> QED BY InitEstablishesIInv, NextPreservesIInv, PTL DEF Spec

\* Every field keeps its range: in particular no slot is handed out beyond the
\* block, and mSize neither passes the capacity nor goes below zero
\* (DataArrayAlloc, DataArrayFree).
THEOREM TypeCorrect == Spec => []TypeOK
<1>1. IInv => TypeOK
  BY DEF IInv
<1> QED BY <1>1, InductiveInvariant, PTL

\* The free list holds exactly the freed slots, each once, and mSize is the
\* number of live items, after any sequence of allocations, frees, saves and
\* loads.
THEOREM FreeListAlwaysExact == Spec => []FreeListExact
<1>1. IInv => FreeListExact
  BY DEF IInv
<1> QED BY <1>1, InductiveInvariant, PTL

\* What SyncDataArray writes is always a pool that can be loaded.
THEOREM SavedPoolAlwaysSound == Spec => []SavedPoolSound
<1>1. IInv => SavedPoolSound
  BY DEF IInv
<1> QED BY <1>1, InductiveInvariant, PTL

\* The items a loop has still to return are live and ahead of it.
THEOREM UnvisitedAlwaysAhead == Spec => []UnvisitedAhead
<1>1. IInv => UnvisitedAhead
  BY DEF IInv
<1> QED BY <1>1, InductiveInvariant, PTL

\* A loop that ends has returned every item that lived throughout it, whatever
\* was allocated and freed meanwhile (IterateNext).
THEOREM LoopsMissNoSurvivor == Spec => LoopMissesNoSurvivor
<1>1. ASSUME IInv, [Next]_vars
      PROVE  [iterator # NoItem /\ iterator' = NoItem => unvisited = {}]_vars
  <2> SUFFICES ASSUME Next, iterator # NoItem, iterator' = NoItem
               PROVE  unvisited = {}
    BY <1>1
  <2>1. iterator' # iterator
    OBVIOUS
  <2>2. IterateNext
    BY <2>1 DEF Next, DataArrayAlloc, DataArrayFree, DataArrayFreeAll, SaveArray, LoadArray
  <2>3. LiveSlots \subseteq Slots
    BY <1>1, SizeAssumption DEF IInv, TypeOK, LiveSlots, LiveIn, Slots
  <2>4. \A t \in LiveSlots : t <= iterator
    BY <2>2, <2>3 DEF IterateNext, NoItem, Slots
  <2>5. iterator \in Int
    BY <1>1 DEF IInv, TypeOK
  <2> QED BY <2>3, <2>4, <2>5, <1>1 DEF IInv, UnvisitedAhead, Slots
<1> QED BY <1>1, InductiveInvariant, PTL DEF Spec, LoopMissesNoSurvivor

\* An allocation never revives a handle until the key counter has gone all the
\* way round since that handle was issued, or a save has been loaded
\* (DataArrayAlloc's mNextKey).
THEOREM NoHandleReusedEarly == Spec => NoEarlyReuse
<1>1. ASSUME IInv, [Next]_vars
      PROVE  [\A h \in Handle :
                DataArrayAlloc /\ TryToGet(h) = NoItem /\ mBlock'[h.index] = h
                  => age[h] = Old]_vars
  <2> SUFFICES ASSUME NEW h \in Handle, DataArrayAlloc, TryToGet(h) = NoItem,
                      mBlock'[h.index] = h
               PROVE  age[h] = Old
    OBVIOUS
  <2>1. PICK s \in Slots : StoreNewItem(s)
    BY <1>1, AllocTakesSlot
  <2>2. /\ h.index \in Slots /\ h.key \in Keys /\ mBlock \in [Slots -> ItemID]
        /\ age[h] \in 0..Old /\ Old \in Nat
    <3>1. h.index \in Slots /\ h.key \in Keys
      BY DEF Handle
    <3>2. mBlock \in [Slots -> ItemID] /\ age[h] \in 0..Old
      BY <1>1 DEF IInv, TypeOK
    <3> QED BY <3>1, <3>2, KeyAssumption DEF Old
  <2>3. mBlock[h.index] # h
    BY <2>2 DEF TryToGet, NoItem, Slots
  <2>4. h.index = s /\ h.key = mNextKey
    BY <2>1, <2>2, <2>3 DEF StoreNewItem
  <2>5. ~(age[h] < Old)
    <3> SUFFICES ASSUME age[h] < Old PROVE FALSE
      OBVIOUS
    <3>1. KeyFollows(h, age[h])
      BY <1>1 DEF IInv, AgesTellKeys
    <3> QED BY <3>1, <2>2, <2>4, KeyAssumption DEF KeyFollows, Keys, Old
  <2> QED BY <2>2, <2>5
<1> QED BY <1>1, InductiveInvariant, PTL DEF Spec, NoEarlyReuse

-----------------------------------------------------------------------------
(* The pool implements the table of live handles.                           *)

\* Live slots hold different handles, so a sound pool has as many live handles
\* as mSize says.
LEMMA HandlesCounted ==
  ASSUME NEW block, NEW maxUsed \in 0..MaxSize, NEW head, NEW size,
         SoundPool(block, maxUsed, head, size)
  PROVE  Cardinality(HandlesIn(block, maxUsed)) = size
<1> DEFINE L == LiveIn(block, maxUsed)
           f == [s \in L |-> block[s]]
<1>1. IsFiniteSet(L) /\ Cardinality(L) = size
  BY LiveInFinite, SizeAssumption DEF SoundPool
<1>2. \A s, t \in L : block[s] = block[t] => s = t
  BY DEF SoundPool
<1>3. f \in Bijection(L, HandlesIn(block, maxUsed))
  BY <1>2 DEF Bijection, Injection, Surjection, IsInjective, HandlesIn
<1>4. ExistsBijection(L, HandlesIn(block, maxUsed))
  BY <1>3 DEF ExistsBijection
<1> QED BY <1>1, <1>4, FS_Bijection

\* A pool just initialised is an empty table.
LEMMA InitRefines == Init => Table!Init
<1> SUFFICES ASSUME Init PROVE Table!Init
  OBVIOUS
<1>1. LiveIn(mBlock, mMaxUsedCount) = {} /\ LiveIn(saved.block, saved.maxUsed) = {}
  BY DEF Init, LiveIn, Snapshot
<1> QED BY <1>1 DEF Init, HandlesIn, Table!Init

\* Every operation of the pool is an operation of the table, or leaves it alone.
LEMMA StepRefines == IInv /\ IInv' /\ [Next]_vars => [Table!Next]_(Table!vars)
<1> SUFFICES ASSUME IInv, IInv', [Next]_vars
             PROVE  Table!Next \/ UNCHANGED Table!vars
  OBVIOUS
<1> USE SizeAssumption
<1> DEFINE live == HandlesIn(mBlock, mMaxUsedCount)
           kept == HandlesIn(saved.block, saved.maxUsed)
<1>c. Table!Cardinality(live') = mSize'
  <2>1. SoundPool(mBlock', mMaxUsedCount', mFreeListHead', mSize')
        /\ mMaxUsedCount' \in 0..MaxSize
    BY DEF IInv, TypeOK, FreeListExact
  <2>2. Cardinality(live') = mSize'
    BY <2>1, HandlesCounted DEF HandlesIn
  <2>3. Table!Cardinality(live') = Cardinality(live')
    BY DEF Cardinality, Table!Cardinality, IsFiniteSet, Table!IsFiniteSet
  <2> QED BY <2>2, <2>3
<1>1. CASE DataArrayAlloc
  <2>1. PICK s \in Slots :
          /\ StoreNewItem(s) /\ s \notin LiveSlots
          /\ LiveSlots' = LiveSlots \union {s}
    BY <1>1, AllocTakesSlot
  <2> DEFINE h == [key |-> mNextKey, index |-> s]
  <2>2. h \in Table!Handle
    BY DEF IInv, TypeOK, Table!Handle
  <2>3. \A g \in live : g.index # s
    BY <2>1 DEF HandlesIn, LiveSlots, IInv, FreeListExact, SoundPool
  <2>4. mBlock' = [mBlock EXCEPT ![s] = h] /\ mBlock \in [Slots -> ItemID]
    BY <2>1 DEF StoreNewItem, IInv, TypeOK
  <2>5. LiveSlots \subseteq Slots
    BY DEF LiveSlots, LiveIn, Slots, IInv, TypeOK
  <2>6. live' = live \union {h}
    BY <2>1, <2>4, <2>5 DEF HandlesIn, LiveSlots
  <2>7. UNCHANGED kept
    BY <1>1 DEF DataArrayAlloc
  <2> QED BY <2>2, <2>3, <2>6, <2>7, <1>c DEF Table!Next, Table!Issue
<1>2. CASE \E s \in LiveSlots : DataArrayFree(s)
  <2>1. PICK s \in LiveSlots : DataArrayFree(s)
    BY <1>2
  <2>2. s \in Slots /\ LiveSlots \subseteq Slots /\ mBlock \in [Slots -> ItemID]
    BY DEF LiveSlots, LiveIn, Slots, IInv, TypeOK
  <2>3. LiveSlots' = LiveSlots \ {s} /\ \A t \in LiveSlots' : mBlock'[t] = mBlock[t]
    BY <2>1, <2>2 DEF DataArrayFree, LiveSlots, LiveIn, IInv, TypeOK
  <2>4. \A t \in LiveSlots : mBlock[t] = mBlock[s] => t = s
    BY DEF IInv, FreeListExact, SoundPool, LiveSlots
  <2>5. live' = live \ {mBlock[s]} /\ mBlock[s] \in live
    BY <2>3, <2>4 DEF HandlesIn, LiveSlots
  <2>6. UNCHANGED kept
    BY <2>1 DEF DataArrayFree
  <2> QED BY <2>5, <2>6, <1>c DEF Table!Next, Table!Release
<1>3. CASE DataArrayFreeAll
  <2>1. live' = {} /\ mSize' = 0 /\ UNCHANGED kept
    BY <1>3 DEF DataArrayFreeAll, HandlesIn, LiveIn
  <2> QED BY <2>1 DEF Table!Next, Table!Clear
<1>4. CASE IterateNext
  BY <1>4 DEF IterateNext, pool, Table!vars, HandlesIn, LiveIn
<1>5. CASE SaveArray
  <2>1. kept' = live /\ UNCHANGED <<live, mSize>>
    BY <1>5 DEF SaveArray, pool, Snapshot
  <2> QED BY <2>1 DEF Table!Next, Table!Keep
<1>6. CASE LoadArray
  <2>1. \A s \in 0..saved.maxUsed-1 : mBlock'[s] = saved.block[s]
    BY <1>6 DEF LoadArray, Slots, IInv, TypeOK
  <2>2. live' = kept /\ UNCHANGED kept
    BY <2>1, <1>6 DEF LoadArray, HandlesIn, LiveIn
  <2>3. mSize' = Table!Cardinality(kept)
    BY <2>2, <1>c
  <2> QED BY <2>2, <2>3 DEF Table!Next, Table!Restore
<1>7. CASE UNCHANGED vars
  BY <1>7 DEF vars, Table!vars, HandlesIn, LiveIn
<1> QED BY <1>1, <1>2, <1>3, <1>4, <1>5, <1>6, <1>7 DEF Next

\* DataArray, with its intrusive free list, never-saved key counter and reused
\* slots, implements the table of live handles its users see.
THEOREM ImplementsHandleTable == Spec => IsHandleTable
<1> QED BY InitRefines, StepRefines, InductiveInvariant, PTL
    DEF Spec, IsHandleTable, Table!Spec
=============================================================================
