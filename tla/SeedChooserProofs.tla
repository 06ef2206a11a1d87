------------------------- MODULE SeedChooserProofs -------------------------
(***************************************************************************)
(* Proofs about SeedChooser, for every set of seeds and every size of bank.  *)
(*                                                                           *)
(* That the bank is exact is almost inductive: a click lands what flies, so   *)
(* FindSeedInBank finds the seed of every place. What an Imitater copies is   *)
(* legal because, while it is in the chooser, mPreviousType is the seed that  *)
(* FindSeedInBank would find last, which the strengthening says.             *)
(***************************************************************************)
EXTENDS SeedChooser, FiniteSetTheorems, TLAPS

Copyable == Seeds \ (Upgrades \union Banned \union {Imitater})

\* While the Imitater can be picked, mPreviousType is the seed it would copy.
PreviousIsLast ==
  mSeedChoosing /\ mSeedState[Imitater] = "chooser" /\ mSeedsInBank # 0 =>
    mPreviousType \in Chosen /\ mSeedIndexInBank[mPreviousType] = mSeedsInBank - 1

\* An Imitater in the bank copies a seed that may be copied.
ImitaterCopies == mSeedState[Imitater] # "chooser" => mImitaterType \in Copyable

\* Nothing the level forbids is in the bank while the player picks.
NothingBanned == mSeedChoosing => Chosen \intersect Banned = {}

IInv == TypeOK /\ BankIsExact /\ PreviousIsLast /\ ImitaterCopies /\ NothingBanned /\ PacketsUsable

-----------------------------------------------------------------------------

\* FindSeedInBank finds a seed that has landed at the place, if there is one.
LEMMA FindProps ==
  ASSUME mAvailable \subseteq Seeds, NEW state, NEW index, NEW i
  PROVE  LET f == FindSeedInBank(state, index, i)
         IN  \/ /\ f = NoSeed
                /\ \A t \in mAvailable : ~(state[t] = "bank" /\ index[t] = i)
             \/ /\ f \in mAvailable /\ f # NoSeed
                /\ state[f] = "bank" /\ index[f] = i
<1> DEFINE found == {s \in mAvailable : state[s] = "bank" /\ index[s] = i}
<1>1. CASE found = {}
  BY <1>1 DEF FindSeedInBank
<1>2. CASE found # {}
  <2>1. FindSeedInBank(state, index, i) \in found
    BY <1>2 DEF FindSeedInBank
  <2> QED BY <2>1, SeedsAssumption
<1> QED BY <1>1, <1>2

\* There are only finitely many flying seeds, so counting them makes sense.
LEMMA FlyingFinite ==
  ASSUME NEW S \in SUBSET Seeds
  PROVE  IsFiniteSet(S) /\ Cardinality(S) \in Nat
BY SeedsAssumption, FS_Subset, FS_CardinalityType

\* Seeds that hold different places below n are at most n.
LEMMA AtMostPlaces ==
  ASSUME NEW n \in Nat, NEW S \in SUBSET Seeds, NEW index,
         \A s \in S : index[s] \in 0..n - 1,
         \A s, t \in S : index[s] = index[t] => s = t
  PROVE  Cardinality(S) <= n
<1> DEFINE f == [s \in S |-> index[s]]
<1>1. f \in Injection(S, 0..n - 1)
  BY DEF Injection, IsInjective
<1>2. IsFiniteSet(0..n - 1) /\ Cardinality(0..n - 1) = n
  BY FS_Interval
<1>3. Cardinality(S) <= Cardinality(0..n - 1)
  BY <1>1, <1>2, FS_Injection, FlyingFinite
<1> QED BY <1>2, <1>3

\* Once what flies has landed, the seeds that were chosen are the seeds in the bank and
\* none is in flight.
LEMMA AtClickLanded ==
  ASSUME TypeOK, BankIsExact
  PROVE  /\ AtClick \in [Seeds -> {"chooser", "flying", "bank"}]
         /\ \A s \in Seeds : AtClick[s] = IF s \in Chosen THEN "bank" ELSE "chooser"
         /\ InFlightAfter(Flying) = 0
<1>1. Cardinality(Flying) \in Nat
  BY FlyingFinite DEF Flying
<1> QED BY <1>1 DEF AtClick, Landed, InFlightAfter, BankIsExact, TypeOK, Chosen, Flying

\* A click therefore finds the seed of every place of the bank.
LEMMA FindAtClick ==
  ASSUME TypeOK, BankIsExact, NEW i \in Int
  PROVE  LET f == FindSeedInBank(AtClick, mSeedIndexInBank, i)
         IN  /\ i \in 0..mSeedsInBank - 1 => f \in Chosen /\ mSeedIndexInBank[f] = i
             /\ i \notin 0..mSeedsInBank - 1 => f = NoSeed
<1> DEFINE f == FindSeedInBank(AtClick, mSeedIndexInBank, i)
<1>1. mAvailable \subseteq Seeds /\ Chosen \subseteq mAvailable
  BY DEF TypeOK, BankIsExact, Chosen
<1>2. \/ /\ f = NoSeed
         /\ \A t \in mAvailable : ~(AtClick[t] = "bank" /\ mSeedIndexInBank[t] = i)
      \/ /\ f \in mAvailable /\ f # NoSeed
         /\ AtClick[f] = "bank" /\ mSeedIndexInBank[f] = i
  BY <1>1, FindProps
<1>3. ASSUME i \in 0..mSeedsInBank - 1 PROVE f \in Chosen /\ mSeedIndexInBank[f] = i
  <2>1. PICK s \in Chosen : mSeedIndexInBank[s] = i
    BY <1>3 DEF BankIsExact
  <2> QED BY <1>1, <1>2, <2>1, AtClickLanded
<1>4. ASSUME i \notin 0..mSeedsInBank - 1 PROVE f = NoSeed
  BY <1>1, <1>2, <1>4, AtClickLanded DEF BankIsExact
<1> QED BY <1>3, <1>4

-----------------------------------------------------------------------------
(* The places of the bank, one action at a time.                             *)

\* A chooser begins with the seeds of its bank in their places.
LEMMA InitIInv == Init => IInv
<1> SUFFICES ASSUME Init PROVE IInv
  OBVIOUS
<1> USE SeedsAssumption, PacketsAssumption
<1> DEFINE n == mSeedsInBank
<1>1. /\ mAvailable \subseteq Seeds /\ MinPackets \in Nat
      /\ mSurvival \in BOOLEAN /\ mTodCheatKeys \in BOOLEAN
      /\ mNumPackets = MinPackets /\ mNumPackets \in MinPackets..MaxPackets
      /\ mImitaterType = NoSeed /\ mSeedsInFlight = 0
      /\ mStartEnabled = FALSE /\ mSeedChoosing = TRUE /\ packets = <<>> /\ DOMAIN packets = {}
  BY DEF Init
<1>2. \/ mSeedState = [s \in Seeds |-> "chooser"] /\ mSeedIndexInBank = [s \in Seeds |-> 0]
         /\ n = 0 /\ mPreviousType = NoSeed
      \/ /\ n \in {1, NumDavePicks}
         /\ \E p \in Presets(n) :
              /\ mSeedState = [s \in Seeds |-> IF s \in {p[i] : i \in 0..n - 1} THEN "bank" ELSE "chooser"]
              /\ mSeedIndexInBank = [s \in Seeds |-> IF s \in {p[i] : i \in 0..n - 1}
                                                       THEN PlaceIn(p, n, s) ELSE 0]
              /\ mPreviousType = p[n - 1]
  <2>1. PICK bank \in {EmptyBank({})} \union {PresetBank(p, 1, FALSE) : p \in Presets(1)}
                    \union {PresetBank(p, NumDavePicks, TRUE) : p \in Presets(NumDavePicks)} :
          /\ mSeedState = bank.state /\ mSeedIndexInBank = bank.index
          /\ n = bank.inBank /\ mPreviousType = bank.previous
    BY DEF Init
  <2>2. CASE bank = EmptyBank({})
    BY <2>1, <2>2 DEF EmptyBank
  <2>3. ASSUME NEW m \in {1, NumDavePicks}, NEW p \in Presets(m), NEW d \in BOOLEAN,
               bank = PresetBank(p, m, d)
        PROVE  /\ n = m
               /\ mSeedState = [s \in Seeds |-> IF s \in {p[i] : i \in 0..m - 1} THEN "bank" ELSE "chooser"]
               /\ mSeedIndexInBank = [s \in Seeds |-> IF s \in {p[i] : i \in 0..m - 1}
                                                        THEN PlaceIn(p, m, s) ELSE 0]
               /\ mPreviousType = p[m - 1]
    BY <2>1, <2>3 DEF PresetBank
  <2>4. CASE \E m \in {1, NumDavePicks}, d \in BOOLEAN : \E p \in Presets(m) : bank = PresetBank(p, m, d)
    <3>1. PICK m \in {1, NumDavePicks}, d \in BOOLEAN : \E p \in Presets(m) : bank = PresetBank(p, m, d)
      BY <2>4
    <3>2. PICK p \in Presets(m) : bank = PresetBank(p, m, d)
      BY <3>1
    <3>3. n = m
      BY <2>3, <3>2
    <3> QED BY <2>3, <3>2, <3>3
  <2> QED BY <2>2, <2>4
<1>3. mCrazyDavePicked \subseteq Seeds /\ mRefreshing = {}
  <2>1. PICK bank \in {EmptyBank({})} \union {PresetBank(p, 1, FALSE) : p \in Presets(1)}
                    \union {PresetBank(p, NumDavePicks, TRUE) : p \in Presets(NumDavePicks)} :
          mCrazyDavePicked = bank.dave /\ mRefreshing = bank.recharging
    BY DEF Init
  <2>2. \A m \in {1, NumDavePicks} : \A p \in Presets(m) : {p[i] : i \in 0..m - 1} \subseteq Seeds
    BY <1>1 DEF Presets
  <2> QED BY <2>1, <2>2 DEF EmptyBank, PresetBank
<1>4. CASE n = 0 /\ mSeedState = [s \in Seeds |-> "chooser"]
           /\ mSeedIndexInBank = [s \in Seeds |-> 0] /\ mPreviousType = NoSeed
  <2>1. Chosen = {} /\ Flying = {}
    BY <1>4 DEF Chosen, Flying
  <2>2. TypeOK
    <3>1. 0 \in Index
      BY DEF Index
    <3>3. /\ mSeedState \in [Seeds -> {"chooser", "flying", "bank"}]
          /\ mSeedIndexInBank \in [Seeds -> Index]
      BY <1>4, <3>1
    <3>4. mSeedsInBank \in 0..mNumPackets /\ mSeedsInFlight \in 0..mNumPackets
      BY <1>1, <1>4
    <3> QED BY <1>1, <1>3, <1>4, <3>3, <3>4 DEF TypeOK
  <2> QED BY <1>1, <1>4, <2>1, <2>2, FS_EmptySet
          DEF IInv, BankIsExact, PreviousIsLast, ImitaterCopies, NothingBanned, PacketsUsable
<1>5. ASSUME n \in {1, NumDavePicks}, NEW p \in Presets(n),
             mSeedState = [s \in Seeds |-> IF s \in {p[i] : i \in 0..n - 1} THEN "bank" ELSE "chooser"],
             mSeedIndexInBank = [s \in Seeds |-> IF s \in {p[i] : i \in 0..n - 1}
                                                   THEN PlaceIn(p, n, s) ELSE 0],
             mPreviousType = p[n - 1]
      PROVE  IInv
  <2> DEFINE placed == {p[i] : i \in 0..n - 1}
  <2>1. /\ p \in [0..n - 1 -> mAvailable \ (Upgrades \union Banned \union {Imitater})]
        /\ \A i, j \in 0..n - 1 : p[i] = p[j] => i = j
        /\ n \in 1..MinPackets /\ n - 1 \in 0..n - 1
    BY <1>5 DEF Presets
  <2>2. Chosen = placed /\ Flying = {} /\ placed \subseteq mAvailable /\ Imitater \notin placed
        /\ placed \intersect Banned = {}
    BY <1>1, <1>5, <2>1 DEF Chosen, Flying
  <2>3. \A i \in 0..n - 1 : mSeedIndexInBank[p[i]] = i
    BY <1>1, <1>5, <2>1 DEF PlaceIn
  <2>4. mSeedIndexInBank \in [Seeds -> 0..n - 1]
    <3>1. ASSUME NEW s \in Seeds PROVE mSeedIndexInBank[s] \in 0..n - 1
      BY <1>5, <2>1, <2>3
    <3> QED BY <1>5, <3>1
  <2>5. TypeOK
    <3>1. mSeedIndexInBank \in [Seeds -> Index] /\ n \in 0..mNumPackets
      BY <1>1, <2>1, <2>4 DEF Index
    <3>2. mPreviousType \in Seeds /\ mSeedState \in [Seeds -> {"chooser", "flying", "bank"}]
      BY <1>1, <1>5, <2>1
    <3>3. mSeedsInFlight \in 0..mNumPackets
      BY <1>1
    <3> QED BY <1>1, <1>3, <1>5, <2>1, <3>1, <3>2, <3>3 DEF TypeOK
  <2>6. BankIsExact
    BY <1>1, <2>1, <2>2, <2>3, <2>4, FS_EmptySet DEF BankIsExact
  <2>7. PreviousIsLast /\ ImitaterCopies /\ NothingBanned /\ PacketsUsable
    BY <1>1, <1>5, <2>1, <2>2, <2>3 DEF PreviousIsLast, ImitaterCopies, NothingBanned, PacketsUsable, Chosen
  <2> QED BY <2>5, <2>6, <2>7 DEF IInv
<1> QED BY <1>2, <1>4, <1>5

\* Landing moves no seed and is counted.
LEMMA LandingExact ==
  ASSUME TypeOK, BankIsExact, NEW landing \in SUBSET Flying,
         mSeedState' = Landed(landing), mSeedsInFlight' = InFlightAfter(landing),
         UNCHANGED <<level, mSeedIndexInBank, mImitaterType, mSeedsInBank, mPreviousType,
                     mStartEnabled, mSeedChoosing, packets>>
  PROVE  TypeOK' /\ BankIsExact' /\ Chosen' = Chosen
<1>1. /\ mSeedState' \in [Seeds -> {"chooser", "flying", "bank"}]
      /\ Chosen' = Chosen /\ Flying' = Flying \ landing
  BY DEF TypeOK, Landed, Chosen, Flying
<1>2. /\ Cardinality(Flying) \in Nat /\ Cardinality(landing) \in Nat
      /\ Cardinality(Flying \ landing) = Cardinality(Flying) - Cardinality(landing)
  <2>1. Flying \subseteq Seeds /\ landing \subseteq Seeds /\ Flying \intersect landing = landing
    BY DEF Flying
  <2> QED BY <2>1, FlyingFinite, FS_Difference
<1>3. BankIsExact'
  BY <1>1, <1>2 DEF BankIsExact, InFlightAfter, level
<1>4. mSeedsInFlight' \in 0..mNumPackets
  <2>1. mSeedsInFlight' \in Nat /\ mSeedsInFlight' <= mSeedsInFlight
    <3>1. Cardinality(Flying \ landing) \in Nat
      BY FlyingFinite DEF Flying
    <3> QED BY <1>2, <3>1 DEF InFlightAfter, BankIsExact
  <2> QED BY <2>1, PacketsAssumption DEF TypeOK
<1>5. TypeOK'
  BY <1>1, <1>4 DEF TypeOK, level
<1> QED BY <1>1, <1>3, <1>5

\* The rest of the invariant depends on landing only through what is chosen.
LEMMA LandingIInv ==
  ASSUME IInv, NEW landing \in SUBSET Flying,
         mSeedState' = Landed(landing), mSeedsInFlight' = InFlightAfter(landing),
         UNCHANGED <<level, mSeedIndexInBank, mImitaterType, mSeedsInBank, mPreviousType,
                     mStartEnabled, mSeedChoosing, packets>>
  PROVE  IInv'
<1>1. TypeOK' /\ BankIsExact' /\ Chosen' = Chosen
  BY LandingExact DEF IInv
<1>2. (mSeedState'[Imitater] = "chooser") <=> (mSeedState[Imitater] = "chooser")
  BY <1>1, SeedsAssumption DEF Chosen
<1>3. PreviousIsLast' /\ ImitaterCopies' /\ NothingBanned' /\ PacketsUsable'
  BY <1>1, <1>2 DEF IInv, PreviousIsLast, ImitaterCopies, NothingBanned, PacketsUsable, level
<1> QED BY <1>1, <1>3 DEF IInv

LEMMA UpdateIInv == IInv /\ Update => IInv'
<1> SUFFICES ASSUME IInv, Update PROVE IInv'
  OBVIOUS
<1>1. PICK landing \in SUBSET Flying :
        /\ mSeedState' = Landed(landing) /\ mSeedsInFlight' = InFlightAfter(landing)
        /\ UNCHANGED <<level, mSeedIndexInBank, mImitaterType, mSeedsInBank, mPreviousType,
                       mStartEnabled, mSeedChoosing, packets>>
  BY DEF Update
<1> QED BY <1>1, LandingIInv

LEMMA ClickedNoSeedIInv == IInv /\ ClickedNoSeed => IInv'
<1> SUFFICES ASSUME IInv, ClickedNoSeed PROVE IInv'
  OBVIOUS
<1>1. /\ mSeedState' = Landed(Flying) /\ mSeedsInFlight' = InFlightAfter(Flying)
      /\ UNCHANGED <<level, mSeedIndexInBank, mImitaterType, mSeedsInBank, mPreviousType,
                     mStartEnabled, mSeedChoosing, packets>>
  BY DEF ClickedNoSeed, AtClick
<1> QED BY <1>1, LandingIInv

\* A seed from the chooser takes the first free place; an Imitater copies what
\* PreviousIsLast says is legal to copy.
LEMMA ClickedInChooserIInv == \A s \in Seeds : IInv /\ ClickedSeedInChooser(s) => IInv'
<1> SUFFICES ASSUME NEW s \in Seeds, IInv, ClickedSeedInChooser(s) PROVE IInv'
  OBVIOUS
<1> USE SeedsAssumption, PacketsAssumption
<1>1. TypeOK /\ BankIsExact
  BY DEF IInv
<1>2. /\ s \in mAvailable \ Banned /\ s \notin Chosen /\ Chosen \subseteq Seeds
      /\ mSeedsInBank < mNumPackets /\ mSeedChoosing
  BY <1>1, AtClickLanded DEF ClickedSeedInChooser, TypeOK, Chosen
<1>3. /\ mSeedState' = [AtClick EXCEPT ![s] = "flying"]
      /\ mSeedIndexInBank' = [mSeedIndexInBank EXCEPT ![s] = mSeedsInBank]
      /\ mSeedsInBank' = mSeedsInBank + 1
      /\ UNCHANGED <<level, mSeedChoosing, packets>>
  BY DEF ClickedSeedInChooser
<1>4. /\ mSeedState' \in [Seeds -> {"chooser", "flying", "bank"}]
      /\ Chosen' = Chosen \union {s} /\ Flying' = {s}
  BY <1>1, <1>2, <1>3, AtClickLanded DEF Chosen, Flying
<1>5. mSeedsInFlight' = 1 /\ Cardinality(Flying') = 1
  <2>1. InFlightAfter(Flying) = 0
    BY <1>1, AtClickLanded
  <2>2. mSeedsInFlight' = InFlightAfter(Flying) + 1
    BY DEF ClickedSeedInChooser
  <2>3. Cardinality({s}) = 1
    BY FS_Singleton
  <2> QED BY <1>4, <2>1, <2>2, <2>3
<1>6. BankIsExact'
  <2>1. \A t \in Chosen : mSeedIndexInBank'[t] = mSeedIndexInBank[t] /\ t # s
    BY <1>1, <1>2, <1>3 DEF TypeOK
  <2>2. mSeedIndexInBank'[s] = mSeedsInBank
    BY <1>1, <1>3 DEF TypeOK
  <2>3. mSeedsInBank \in Nat /\ mStartEnabled' => mSeedsInBank + 1 = mNumPackets
    BY <1>1, <1>2 DEF ClickedSeedInChooser, BankIsExact, TypeOK
  <2>4. \A i \in 0..mSeedsInBank : \E t \in Chosen' : mSeedIndexInBank'[t] = i
    <3> SUFFICES ASSUME NEW i \in 0..mSeedsInBank PROVE \E t \in Chosen' : mSeedIndexInBank'[t] = i
      OBVIOUS
    <3>1. CASE i = mSeedsInBank
      BY <1>4, <2>2, <3>1
    <3>2. CASE i \in 0..mSeedsInBank - 1
      BY <1>1, <1>4, <2>1, <3>2 DEF BankIsExact
    <3> QED BY <1>1, <3>1, <3>2 DEF TypeOK
  <2>5. mSeedsInBank \in Nat /\ mSeedsInBank' - 1 = mSeedsInBank
    BY <1>1, <1>3 DEF TypeOK
  <2>6. \A t \in Chosen' : t \in mAvailable /\ mSeedIndexInBank'[t] \in 0..mSeedsInBank
    BY <1>1, <1>2, <1>4, <2>1, <2>2, <2>5 DEF BankIsExact
  <2>7. \A t, u \in Chosen' : mSeedIndexInBank'[t] = mSeedIndexInBank'[u] => t = u
    BY <1>1, <1>4, <2>1, <2>2, <2>5 DEF BankIsExact
  <2> QED BY <1>3, <1>5, <2>3, <2>4, <2>5, <2>6, <2>7 DEF BankIsExact, level
<1>7. s = Imitater => mImitaterType' \in Copyable
  <2> SUFFICES ASSUME s = Imitater PROVE mImitaterType' \in Copyable
    OBVIOUS
  <2>1. /\ mSeedsInBank # 0 /\ mPreviousType \notin Upgrades \union Banned
        /\ mImitaterType' = FindSeedInBank(AtClick, mSeedIndexInBank, mSeedsInBank - 1)
    BY DEF ClickedSeedInChooser, IsImitaterUnselectable
  <2>2. mPreviousType \in Chosen /\ mSeedIndexInBank[mPreviousType] = mSeedsInBank - 1
    BY <1>2, <2>1 DEF IInv, PreviousIsLast, Chosen
  <2>3. mImitaterType' \in Chosen /\ mSeedIndexInBank[mImitaterType'] = mSeedsInBank - 1
    BY <1>1, <2>1, FindAtClick DEF TypeOK
  <2>4. mImitaterType' = mPreviousType
    BY <1>1, <2>2, <2>3 DEF BankIsExact
  <2> QED BY <1>2, <2>1, <2>2, <2>4 DEF Copyable
<1>8. s # Imitater => mImitaterType' = mImitaterType /\ mPreviousType' = s
  BY DEF ClickedSeedInChooser
<1>9. TypeOK'
  <2>1. mSeedIndexInBank' \in [Seeds -> Index]
    BY <1>1, <1>2, <1>3 DEF TypeOK, Index
  <2>2. mImitaterType' \in Seeds \union {NoSeed} /\ mPreviousType' \in Seeds \union {NoSeed}
    BY <1>1, <1>7, <1>8 DEF ClickedSeedInChooser, TypeOK, Copyable
  <2>3. mSeedsInBank' \in 0..mNumPackets /\ mSeedsInFlight' \in 0..mNumPackets
    BY <1>1, <1>2, <1>3, <1>5 DEF TypeOK
  <2>4. mStartEnabled' \in BOOLEAN
    BY DEF ClickedSeedInChooser
  <2> QED BY <1>1, <1>3, <1>4, <2>1, <2>2, <2>3, <2>4 DEF TypeOK, level
<1>10. PreviousIsLast'
  BY <1>1, <1>3, <1>4, <1>8 DEF PreviousIsLast, TypeOK, Chosen
<1>11. ImitaterCopies'
  BY <1>1, <1>3, <1>7, <1>8, AtClickLanded DEF IInv, ImitaterCopies, Chosen, TypeOK
<1>12. NothingBanned' /\ PacketsUsable'
  BY <1>2, <1>3, <1>4 DEF IInv, NothingBanned, PacketsUsable
<1> QED BY <1>6, <1>9, <1>10, <1>11, <1>12 DEF IInv

\* Taking a seed out moves exactly the seeds right of it, one place left each.
LEMMA ClickedInBankIInv == \A s \in Seeds : IInv /\ ClickedSeedInBank(s) => IInv'
<1> SUFFICES ASSUME NEW s \in Seeds, IInv, ClickedSeedInBank(s) PROVE IInv'
  OBVIOUS
<1> USE SeedsAssumption, PacketsAssumption
<1> DEFINE i     == mSeedIndexInBank[s]
           moved == {t \in Chosen : mSeedIndexInBank[t] > i}
<1>1. TypeOK /\ BankIsExact
  BY DEF IInv
<1>2. /\ s \in Chosen /\ Chosen \subseteq Seeds /\ i \in 0..mSeedsInBank - 1 /\ mSeedChoosing
      /\ mSeedsInBank \in 1..mNumPackets
  BY <1>1, AtClickLanded DEF ClickedSeedInBank, TypeOK, BankIsExact, Chosen
<1>3. RightOf(i) = moved
  <2>1. \A k \in i + 1..mNumPackets - 1 :
          LET f == FindSeedInBank(AtClick, mSeedIndexInBank, k)
          IN  f # NoSeed => f \in Chosen /\ mSeedIndexInBank[f] = k /\ k > i
    BY <1>1, <1>2, FindAtClick DEF TypeOK
  <2>2. \A t \in moved : /\ mSeedIndexInBank[t] \in i + 1..mNumPackets - 1
                         /\ t = FindSeedInBank(AtClick, mSeedIndexInBank, mSeedIndexInBank[t])
    <3> SUFFICES ASSUME NEW t \in moved
                 PROVE  /\ mSeedIndexInBank[t] \in i + 1..mNumPackets - 1
                        /\ t = FindSeedInBank(AtClick, mSeedIndexInBank, mSeedIndexInBank[t])
      OBVIOUS
    <3>1. t \in Chosen /\ mSeedIndexInBank[t] \in 0..mSeedsInBank - 1 /\ mSeedIndexInBank[t] > i
      BY <1>1 DEF BankIsExact
    <3> DEFINE k == mSeedIndexInBank[t]
               f == FindSeedInBank(AtClick, mSeedIndexInBank, k)
    <3>2. f \in Chosen /\ mSeedIndexInBank[f] = k
      BY <1>1, <3>1, FindAtClick DEF TypeOK
    <3>3. f = t
      BY <1>1, <3>1, <3>2 DEF BankIsExact
    <3> QED BY <1>1, <1>2, <3>1, <3>3 DEF TypeOK
  <2> QED BY <1>2, <2>1, <2>2 DEF RightOf
<1>4. /\ mSeedState' = [t \in Seeds |-> IF t = s THEN "chooser"
                                        ELSE IF t \in moved THEN "flying" ELSE AtClick[t]]
      /\ mSeedIndexInBank' = [t \in Seeds |-> IF t = s THEN 0
                                              ELSE IF t \in moved THEN mSeedIndexInBank[t] - 1
                                              ELSE mSeedIndexInBank[t]]
      /\ mSeedsInFlight' = Cardinality(moved)
      /\ mSeedsInBank' = mSeedsInBank - 1 /\ mStartEnabled' = FALSE
      /\ UNCHANGED <<level, mSeedChoosing, packets>>
  <2>1. InFlightAfter(Flying) + Cardinality(moved) = Cardinality(moved)
    BY <1>1, <1>2, AtClickLanded, FlyingFinite
  <2> QED BY <1>3, <2>1 DEF ClickedSeedInBank
<1>5. /\ mSeedState' \in [Seeds -> {"chooser", "flying", "bank"}]
      /\ Chosen' = Chosen \ {s} /\ Flying' = moved
  BY <1>1, <1>2, <1>4, AtClickLanded DEF Chosen, Flying
<1>6. \A t \in Chosen' : mSeedIndexInBank'[t] = IF mSeedIndexInBank[t] > i
                           THEN mSeedIndexInBank[t] - 1 ELSE mSeedIndexInBank[t]
  BY <1>2, <1>4, <1>5
<1>7. \A t \in Chosen' : mSeedIndexInBank[t] \in (0..mSeedsInBank - 1) \ {i}
  BY <1>1, <1>2, <1>5 DEF BankIsExact
<1>8. BankIsExact'
  <2>1. \A t \in Chosen' : t \in mAvailable /\ mSeedIndexInBank'[t] \in 0..mSeedsInBank - 2
    BY <1>1, <1>2, <1>5, <1>6, <1>7 DEF BankIsExact
  <2>2. \A k \in 0..mSeedsInBank - 2 : \E t \in Chosen' : mSeedIndexInBank'[t] = k
    <3> SUFFICES ASSUME NEW k \in 0..mSeedsInBank - 2 PROVE \E t \in Chosen' : mSeedIndexInBank'[t] = k
      OBVIOUS
    <3> DEFINE j == IF k < i THEN k ELSE k + 1
    <3>1. j \in (0..mSeedsInBank - 1) \ {i}
      BY <1>2
    <3>2. PICK t \in Chosen : mSeedIndexInBank[t] = j
      BY <1>1, <3>1 DEF BankIsExact
    <3>3. t \in Chosen'
      BY <1>5, <3>1, <3>2
    <3>4. mSeedIndexInBank'[t] = k
      BY <1>2, <1>6, <3>2, <3>3
    <3> QED BY <3>3, <3>4
  <2>3. \A t, u \in Chosen' : mSeedIndexInBank'[t] = mSeedIndexInBank'[u] => t = u
    <3> SUFFICES ASSUME NEW t \in Chosen', NEW u \in Chosen', mSeedIndexInBank'[t] = mSeedIndexInBank'[u]
                 PROVE  t = u
      OBVIOUS
    <3>1. mSeedIndexInBank[t] = mSeedIndexInBank[u]
      BY <1>2, <1>6, <1>7
    <3> QED BY <1>1, <1>5, <3>1 DEF BankIsExact
  <2>4. mSeedsInBank' - 1 = mSeedsInBank - 2
    BY <1>2, <1>4
  <2> QED BY <1>4, <1>5, <2>1, <2>2, <2>3, <2>4 DEF BankIsExact, level
<1>9. s = Imitater \/ mImitaterType' = mImitaterType
  BY DEF ClickedSeedInBank
<1>10. TypeOK'
  <2>1. mSeedIndexInBank' \in [Seeds -> Index]
    <3>1. \A t \in Seeds : mSeedIndexInBank[t] \in Index
      BY <1>1 DEF TypeOK
    <3>2. \A t \in moved : mSeedIndexInBank[t] - 1 \in Index
      BY <1>2, <3>1 DEF Index
    <3>3. 0 \in Index
      BY DEF Index
    <3> QED BY <1>4, <3>1, <3>2, <3>3
  <2>2. mSeedsInFlight' \in 0..mNumPackets
    <3>1. Cardinality(moved) \in Nat /\ Cardinality(moved) <= mSeedsInBank
      <4>1. \A t \in moved : mSeedIndexInBank[t] \in 0..mSeedsInBank - 1
        BY <1>1 DEF BankIsExact
      <4>2. \A t, u \in moved : mSeedIndexInBank[t] = mSeedIndexInBank[u] => t = u
        BY <1>1 DEF BankIsExact
      <4> QED BY <1>2, <4>1, <4>2, AtMostPlaces, FlyingFinite
    <3> QED BY <1>1, <1>2, <1>4, <3>1 DEF TypeOK
  <2>3. mPreviousType' \in Seeds \union {NoSeed}
    <3>1. mPreviousType' = LastWithout(i)
      BY DEF ClickedSeedInBank
    <3> QED BY <1>1, <1>2, <3>1, FindAtClick DEF LastWithout
  <2>4. mImitaterType' \in Seeds \union {NoSeed}
    BY <1>1 DEF ClickedSeedInBank, TypeOK
  <2>5. mSeedsInBank' \in 0..mNumPackets
    BY <1>1, <1>2, <1>4 DEF TypeOK
  <2> QED BY <1>1, <1>4, <1>5, <2>1, <2>2, <2>3, <2>4, <2>5 DEF TypeOK, level
<1>11. PreviousIsLast'
  <2> SUFFICES ASSUME mSeedsInBank' # 0
               PROVE  mPreviousType' \in Chosen' /\ mSeedIndexInBank'[mPreviousType'] = mSeedsInBank' - 1
    BY DEF PreviousIsLast
  <2> DEFINE k == mSeedsInBank - IF i = mSeedsInBank - 1 THEN 2 ELSE 1
  <2>1. mPreviousType' = FindSeedInBank(AtClick, mSeedIndexInBank, k)
    BY DEF ClickedSeedInBank, LastWithout
  <2>2. k \in (0..mSeedsInBank - 1) \ {i}
    BY <1>2, <1>4
  <2>3. mPreviousType' \in Chosen /\ mSeedIndexInBank[mPreviousType'] = k
    BY <1>1, <2>1, <2>2, FindAtClick
  <2>4. mPreviousType' \in Chosen'
    BY <1>5, <2>2, <2>3
  <2> QED BY <1>2, <1>4, <1>6, <2>2, <2>3, <2>4
<1>12. ImitaterCopies'
  BY <1>2, <1>4, <1>5, <1>9 DEF IInv, ImitaterCopies, Chosen
<1>13. NothingBanned' /\ PacketsUsable'
  BY <1>2, <1>4, <1>5 DEF IInv, NothingBanned, PacketsUsable
<1> QED BY <1>8, <1>10, <1>11, <1>12, <1>13 DEF IInv

\* A purchase changes what there is to pick and how much room, never the bank.
LEMMA PurchaseIInv == IInv /\ PurchaseItem => IInv'
<1> SUFFICES ASSUME IInv, PurchaseItem PROVE IInv'
  OBVIOUS
<1> USE PacketsAssumption
<1>1. /\ mAvailable \subseteq mAvailable' /\ mAvailable' \subseteq Seeds
      /\ mNumPackets' \in MinPackets..MaxPackets /\ mNumPackets' >= mNumPackets
      /\ mSeedChoosing /\ mSeedChoosing' /\ mStartEnabled' = (mSeedsInBank = mNumPackets')
      /\ UNCHANGED <<mSurvival, mTodCheatKeys, mCrazyDavePicked, mRefreshing, mSeedState,
                     mSeedIndexInBank, mImitaterType, mSeedsInBank, mSeedsInFlight,
                     mPreviousType, packets>>
  BY DEF IInv, TypeOK, PurchaseItem, seeds
<1>2. TypeOK'
  <2>1. mSeedsInBank' \in 0..mNumPackets' /\ mSeedsInFlight' \in 0..mNumPackets'
    BY <1>1 DEF IInv, TypeOK
  <2>2. mStartEnabled' \in BOOLEAN /\ mSeedChoosing' \in BOOLEAN
    BY <1>1 DEF IInv, TypeOK
  <2> QED BY <1>1, <2>1, <2>2 DEF IInv, TypeOK
<1>3. Chosen' = Chosen /\ Flying' = Flying
  BY <1>1 DEF Chosen, Flying
<1>4. BankIsExact'
  BY <1>1, <1>3 DEF IInv, BankIsExact
<1>5. PreviousIsLast' /\ ImitaterCopies' /\ NothingBanned' /\ PacketsUsable'
  BY <1>1, <1>3 DEF IInv, PreviousIsLast, ImitaterCopies, NothingBanned, PacketsUsable
<1> QED BY <1>2, <1>4, <1>5 DEF IInv

-----------------------------------------------------------------------------
(* The packets that are made of a bank in which every place has a seed.      *)

\* A full bank makes a packet for every place, of the seed that is there.
LEMMA PacketsOfBank ==
  ASSUME mAvailable \subseteq Seeds, NEW state, NEW index, NEW C \in SUBSET mAvailable,
         \A t \in mAvailable : state[t] = "bank" <=> t \in C,
         \A i \in 0..mNumPackets - 1 : \E t \in C : index[t] = i,
         NEW i \in 0..mNumPackets - 1
  PROVE  LET p == PacketAt(state, index, i)
         IN  /\ p.type \in C /\ index[p.type] = i
             /\ p.imitater = IF p.type = Imitater THEN mImitaterType ELSE NoSeed
             /\ p.refreshing = (p.type \in mRefreshing)
             /\ mImitaterType \in Seeds \union {NoSeed} => p \in Packet
<1> DEFINE f == FindSeedInBank(state, index, i)
<1>1. f \in C /\ index[f] = i
  BY FindProps
<1> QED BY <1>1 DEF PacketAt, Packet

\* The level starts from a full bank in which nothing flies.
LEMMA StartIInv == IInv /\ OnStartButton => IInv'
<1> SUFFICES ASSUME IInv, OnStartButton PROVE IInv'
  OBVIOUS
<1> USE PacketsAssumption, SeedsAssumption
<1>1. TypeOK /\ BankIsExact /\ mSeedChoosing /\ mSeedsInBank = mNumPackets
  BY DEF IInv, OnStartButton, BankIsExact
<1>2. Flying = {}
  <2>1. Cardinality(Flying) = 0
    BY <1>1, FlyingFinite DEF OnStartButton, BankIsExact, Flying
  <2> QED BY <2>1, FlyingFinite, FS_EmptySet DEF Flying
<1>3. /\ packets' = [i \in 0..mNumPackets - 1 |-> PacketAt(mSeedState, mSeedIndexInBank, i)]
      /\ mSeedChoosing' = FALSE
      /\ UNCHANGED <<level, mSeedState, mSeedIndexInBank, mImitaterType, mSeedsInBank,
                     mSeedsInFlight, mPreviousType, mStartEnabled>>
  BY DEF OnStartButton, CloseSeedChooser, seeds
<1>4. /\ Chosen \in SUBSET mAvailable /\ mAvailable \subseteq Seeds
      /\ \A t \in mAvailable : mSeedState[t] = "bank" <=> t \in Chosen
      /\ \A i \in 0..mNumPackets - 1 : \E t \in Chosen : mSeedIndexInBank[t] = i
  BY <1>1, <1>2 DEF TypeOK, BankIsExact, Chosen, Flying
<1>5. \A i \in 0..mNumPackets - 1 :
        /\ packets'[i].type \in Chosen /\ mSeedIndexInBank[packets'[i].type] = i
        /\ packets'[i].imitater = IF packets'[i].type = Imitater THEN mImitaterType ELSE NoSeed
        /\ packets'[i].refreshing = (packets'[i].type \in mRefreshing)
        /\ packets'[i] \in Packet
  BY <1>1, <1>3, <1>4, PacketsOfBank DEF TypeOK
<1>6. DOMAIN packets' = 0..mNumPackets - 1
  BY <1>3
<1>7. TypeOK'
  <2>1. 0..mNumPackets - 1 \subseteq Index
    BY <1>1 DEF TypeOK, Index
  <2> QED BY <1>1, <1>3, <1>5, <1>6, <2>1 DEF TypeOK, level
<1>8. Chosen' = Chosen /\ Flying' = Flying
  BY <1>3 DEF Chosen, Flying
<1>9. BankIsExact' /\ PreviousIsLast' /\ ImitaterCopies' /\ NothingBanned'
  BY <1>1, <1>3, <1>8 DEF IInv, BankIsExact, PreviousIsLast, ImitaterCopies, NothingBanned, level
<1>10. PacketsUsable'
  <2>1. Chosen \intersect Banned = {}
    BY <1>1 DEF IInv, NothingBanned
  <2>2. Imitater \in Chosen => mImitaterType \in Copyable
    BY DEF IInv, ImitaterCopies, Chosen
  <2>3. \A i, j \in DOMAIN packets' : packets'[i].type = packets'[j].type => i = j
    BY <1>5, <1>6
  <2>4. \A i \in DOMAIN packets' :
          /\ packets'[i].type \in mAvailable
          /\ packets'[i].type \in Banned => mTodCheatKeys
          /\ packets'[i].type = Imitater => packets'[i].imitater \in Copyable
    BY <1>4, <1>5, <1>6, <2>1, <2>2
  <2>5. \A i \in DOMAIN packets' : packets'[i].refreshing <=> packets'[i].type \in mRefreshing
    BY <1>5, <1>6, Zenon
  <2> QED BY <1>3, <1>6, <2>3, <2>4, <2>5 DEF PacketsUsable, Copyable, level
<1> QED BY <1>7, <1>9, <1>10 DEF IInv

\* The cheat fills the places that are left, whatever still flies.
LEMMA RandomIInv == IInv /\ PickRandomSeeds => IInv'
<1> SUFFICES ASSUME IInv, PickRandomSeeds PROVE IInv'
  OBVIOUS
<1> USE PacketsAssumption, SeedsAssumption
<1> DEFINE free == {s \in mAvailable \ {Imitater} : mSeedState[s] = "chooser"}
<1>1. TypeOK /\ BankIsExact /\ mSeedChoosing /\ mTodCheatKeys
  BY DEF IInv, PickRandomSeeds
<1>2. PICK pick \in [mSeedsInBank..mNumPackets - 1 -> free] :
        /\ \A i, j \in DOMAIN pick : pick[i] = pick[j] => i = j
        /\ mSeedState' = [s \in Seeds |-> IF s \in {pick[i] : i \in DOMAIN pick} THEN "bank" ELSE AtClick[s]]
        /\ mSeedIndexInBank' =
             [s \in Seeds |-> IF s \in {pick[i] : i \in DOMAIN pick}
                                THEN CHOOSE i \in DOMAIN pick : pick[i] = s ELSE mSeedIndexInBank[s]]
  BY DEF PickRandomSeeds
<1> DEFINE room   == mSeedsInBank..mNumPackets - 1
           picked == {pick[i] : i \in room}
           C      == Chosen \union picked
<1>3. DOMAIN pick = room /\ picked \subseteq free /\ Chosen \subseteq Seeds /\ mAvailable \subseteq Seeds
      /\ picked \intersect Chosen = {} /\ Chosen \subseteq mAvailable
      /\ mSeedsInBank \in 0..mNumPackets /\ mNumPackets \in Nat
  BY <1>1, <1>2 DEF TypeOK, Chosen, BankIsExact
<1>4. /\ packets' = [i \in 0..mNumPackets - 1 |-> PacketAt(mSeedState', mSeedIndexInBank', i)]
      /\ mSeedChoosing' = FALSE /\ mSeedsInBank' = mNumPackets /\ mSeedsInFlight' = 0
      /\ UNCHANGED <<level, mImitaterType, mPreviousType, mStartEnabled>>
  BY <1>1, AtClickLanded DEF PickRandomSeeds, CloseSeedChooser
<1>5. /\ mSeedState' \in [Seeds -> {"chooser", "flying", "bank"}]
      /\ \A s \in Seeds : mSeedState'[s] = IF s \in C THEN "bank" ELSE "chooser"
  BY <1>1, <1>2, <1>3, AtClickLanded
<1>6. Chosen' = C /\ Flying' = {}
  BY <1>3, <1>5 DEF Chosen, Flying
<1>7. \A i \in room : pick[i] \in C /\ mSeedIndexInBank'[pick[i]] = i
  <2> SUFFICES ASSUME NEW i \in room PROVE pick[i] \in C /\ mSeedIndexInBank'[pick[i]] = i
    OBVIOUS
  <2>1. pick[i] \in picked /\ pick[i] \in Seeds
    BY <1>3
  <2>2. (CHOOSE j \in room : pick[j] = pick[i]) = i
    BY <1>2, <1>3
  <2> QED BY <1>2, <1>3, <2>1, <2>2
<1>8. \A s \in Chosen : mSeedIndexInBank'[s] = mSeedIndexInBank[s] /\ mSeedIndexInBank[s] \in 0..mSeedsInBank - 1
  BY <1>1, <1>2, <1>3 DEF BankIsExact
<1>9. \A s \in C : \/ s \in Chosen
                   \/ \E i \in room : s = pick[i] /\ mSeedIndexInBank'[s] = i
  BY <1>7
<1>10. BankIsExact'
  <2>1. \A s \in C : s \in mAvailable /\ mSeedIndexInBank'[s] \in 0..mNumPackets - 1
    BY <1>3, <1>8, <1>9
  <2>2. \A i \in 0..mNumPackets - 1 : \E s \in C : mSeedIndexInBank'[s] = i
    <3> SUFFICES ASSUME NEW i \in 0..mNumPackets - 1 PROVE \E s \in C : mSeedIndexInBank'[s] = i
      OBVIOUS
    <3>1. CASE i \in room
      BY <1>7, <3>1
    <3>2. CASE i \in 0..mSeedsInBank - 1
      <4>1. PICK s \in Chosen : mSeedIndexInBank[s] = i
        BY <1>1, <3>2 DEF BankIsExact
      <4> QED BY <1>8, <4>1
    <3> QED BY <1>3, <3>1, <3>2
  <2>3. \A s, t \in C : mSeedIndexInBank'[s] = mSeedIndexInBank'[t] => s = t
    <3>1. \A s, t \in Chosen : mSeedIndexInBank'[s] = mSeedIndexInBank'[t] => s = t
      BY <1>1, <1>8 DEF BankIsExact
    <3>2. \A s \in Chosen : mSeedIndexInBank'[s] \notin room
      BY <1>3, <1>8
    <3> QED BY <1>9, <3>1, <3>2
  <2> QED BY <1>4, <1>6, <2>1, <2>2, <2>3, FS_EmptySet DEF BankIsExact, level
<1>11. \A i \in 0..mNumPackets - 1 :
        /\ packets'[i].type \in C /\ mSeedIndexInBank'[packets'[i].type] = i
        /\ packets'[i].imitater = IF packets'[i].type = Imitater THEN mImitaterType ELSE NoSeed
        /\ packets'[i].refreshing = (packets'[i].type \in mRefreshing)
        /\ packets'[i] \in Packet
  <2>1. C \in SUBSET mAvailable
    BY <1>3
  <2>2. \A t \in mAvailable : mSeedState'[t] = "bank" <=> t \in C
    BY <1>3, <1>5
  <2>3. \A i \in 0..mNumPackets - 1 : \E t \in C : mSeedIndexInBank'[t] = i
    BY <1>4, <1>6, <1>10 DEF BankIsExact
  <2>4. mImitaterType \in Seeds \union {NoSeed}
    BY <1>1 DEF TypeOK
  <2> HIDE DEF C
  <2>5. \A i \in 0..mNumPackets - 1 :
          LET p == PacketAt(mSeedState', mSeedIndexInBank', i)
          IN  /\ p.type \in C /\ mSeedIndexInBank'[p.type] = i
              /\ p.imitater = IF p.type = Imitater THEN mImitaterType ELSE NoSeed
              /\ p.refreshing = (p.type \in mRefreshing)
              /\ p \in Packet
    <3> TAKE i \in 0..mNumPackets - 1
    <3>1. mAvailable \subseteq Seeds
      BY <1>3
    <3> DEFINE state == mSeedState'
               index == mSeedIndexInBank'
    <3>2. /\ \A t \in mAvailable : state[t] = "bank" <=> t \in C
          /\ \A j \in 0..mNumPackets - 1 : \E t \in C : index[t] = j
      BY <2>2, <2>3
    <3> HIDE DEF state, index
    <3>3. LET p == PacketAt(state, index, i)
          IN  /\ p.type \in C /\ index[p.type] = i
              /\ p.imitater = IF p.type = Imitater THEN mImitaterType ELSE NoSeed
              /\ p.refreshing = (p.type \in mRefreshing)
              /\ p \in Packet
      BY <2>1, <2>4, <3>1, <3>2, PacketsOfBank
    <3> QED BY <3>3 DEF state, index
  <2>6. \A i \in 0..mNumPackets - 1 : packets'[i] = PacketAt(mSeedState', mSeedIndexInBank', i)
    BY <1>4
  <2> QED BY <2>5, <2>6
<1>12. DOMAIN packets' = 0..mNumPackets - 1
  BY <1>4
<1>13. TypeOK'
  <2>1. 0..mNumPackets - 1 \subseteq Index
    BY <1>1 DEF TypeOK, Index
  <2>2. mSeedIndexInBank' \in [Seeds -> Index]
    <3>1. \A s \in Seeds : mSeedIndexInBank'[s] \in Index
      <4> SUFFICES ASSUME NEW s \in Seeds PROVE mSeedIndexInBank'[s] \in Index
        OBVIOUS
      <4>1. CASE s \in picked
        BY <1>3, <1>7, <2>1, <4>1
      <4>2. CASE s \notin picked
        BY <1>1, <1>2, <1>3, <4>2 DEF TypeOK
      <4> QED BY <4>1, <4>2
    <3> QED BY <1>2, <3>1
  <2>3. DOMAIN packets' \subseteq Index /\ \A i \in DOMAIN packets' : packets'[i] \in Packet
    BY <1>11, <1>12, <2>1
  <2>4. mSeedsInBank' \in 0..mNumPackets /\ mSeedsInFlight' \in 0..mNumPackets
    BY <1>3, <1>4
  <2> QED BY <1>1, <1>4, <1>5, <2>2, <2>3, <2>4 DEF TypeOK, level
<1>14. Imitater \in C => mImitaterType \in Copyable
  BY <1>3 DEF IInv, ImitaterCopies, Chosen
<1>15. PreviousIsLast' /\ ImitaterCopies' /\ NothingBanned'
  BY <1>4, <1>5, <1>14 DEF PreviousIsLast, ImitaterCopies, NothingBanned
<1>16. PacketsUsable'
  <2>1. \A i, j \in DOMAIN packets' : packets'[i].type = packets'[j].type => i = j
    BY <1>11, <1>12
  <2>3. \A i \in DOMAIN packets' : packets'[i].refreshing <=> packets'[i].type \in mRefreshing
    BY <1>11, <1>12, Zenon
  <2>2. \A i \in DOMAIN packets' :
          /\ packets'[i].type \in mAvailable
          /\ packets'[i].type = Imitater => packets'[i].imitater \in Copyable
    BY <1>3, <1>11, <1>12, <1>14
  <2> QED BY <1>1, <1>4, <1>12, <2>1, <2>2, <2>3 DEF PacketsUsable, Copyable, level
<1> QED BY <1>10, <1>13, <1>15, <1>16 DEF IInv

\* The chooser of the next stage begins with an empty bank.
LEMMA SurvivalIInv == IInv /\ InitSurvivalStage => IInv'
<1> SUFFICES ASSUME IInv, InitSurvivalStage PROVE IInv'
  OBVIOUS
<1> USE PacketsAssumption, SeedsAssumption
<1>1. PICK recharging \in SUBSET DOMAIN packets :
        /\ mSeedState' = [s \in Seeds |-> "chooser"] /\ mSeedIndexInBank' = [s \in Seeds |-> 0]
        /\ mCrazyDavePicked' = {} /\ mRefreshing' = {packets[i].type : i \in recharging}
        /\ mSeedsInBank' = 0 /\ mPreviousType' = NoSeed
  BY DEF InitSurvivalStage, EmptyBank
<1>2. /\ mImitaterType' = NoSeed /\ mSeedsInFlight' = 0 /\ mStartEnabled' = FALSE
      /\ mSeedChoosing' = TRUE /\ packets' = <<>> /\ DOMAIN packets' = {}
      /\ UNCHANGED <<mSurvival, mTodCheatKeys, mAvailable, mNumPackets>> /\ ~mSeedChoosing
  BY DEF InitSurvivalStage
<1>3. Chosen' = {} /\ Flying' = {}
  BY <1>1 DEF Chosen, Flying
<1>4. TypeOK'
  <2>1. mRefreshing' \subseteq Seeds
    BY <1>1, <1>2 DEF IInv, TypeOK, PacketsUsable
  <2>2. 0 \in Index /\ 0 \in 0..mNumPackets
    BY DEF IInv, TypeOK, Index
  <2>3. /\ mSeedState' \in [Seeds -> {"chooser", "flying", "bank"}]
        /\ mSeedIndexInBank' \in [Seeds -> Index]
    BY <1>1, <2>2
  <2> QED BY <1>1, <1>2, <2>1, <2>2, <2>3 DEF IInv, TypeOK
<1>5. BankIsExact'
  BY <1>1, <1>2, <1>3, FS_EmptySet DEF BankIsExact
<1>6. PreviousIsLast' /\ ImitaterCopies' /\ NothingBanned' /\ PacketsUsable'
  BY <1>1, <1>2, <1>3 DEF PreviousIsLast, ImitaterCopies, NothingBanned, PacketsUsable
<1> QED BY <1>4, <1>5, <1>6 DEF IInv

LEMMA StutterIInv == IInv /\ UNCHANGED vars => IInv'
<1> SUFFICES ASSUME IInv, UNCHANGED vars PROVE IInv'
  OBVIOUS
<1>1. Chosen' = Chosen /\ Flying' = Flying
  BY DEF Chosen, Flying, vars, seeds
<1> QED BY <1>1 DEF IInv, TypeOK, BankIsExact, PreviousIsLast, ImitaterCopies, NothingBanned,
                    PacketsUsable, vars, level, seeds

-----------------------------------------------------------------------------

\* The invariant holds in every state the chooser reaches.
LEMMA Invariant == Spec => []IInv
<1>1. IInv /\ [Next]_vars => IInv'
  BY UpdateIInv, ClickedInChooserIInv, ClickedInBankIInv, ClickedNoSeedIInv, PurchaseIInv,
     StartIInv, RandomIInv, SurvivalIInv, StutterIInv DEF Next, Player
<1> QED BY InitIInv, <1>1, PTL DEF Spec

\* Every variable of the chooser keeps its type: SeedChooserScreen.cpp.
THEOREM TypeCorrect == Spec => []TypeOK
BY Invariant, PTL DEF IInv

\* The seeds in the bank and in flight hold its places, one each: FindSeedInBank finds
\* every seed that ClickedSeedInBank has to renumber, for any number of seeds and packets.
THEOREM BankExact == Spec => []BankIsExact
BY Invariant, PTL DEF IInv

\* The level starts with a usable packet in every place, and an Imitater copies only what
\* may be copied: CloseSeedChooser never finds a place without a seed.
THEOREM PacketsAreUsable == Spec => []PacketsUsable
BY Invariant, PTL DEF IInv
=============================================================================
