-------------------------- MODULE MemoryCache_proof -------------------------
(***************************************************************************)
(* Type correctness and the byte limit of MemoryCache, how far its account *)
(* may be from the bytes it holds, and what a restart brings back, for all *)
(* keys, body lengths and limits.                                          *)
(***************************************************************************)
EXTENDS MemoryCache, CacheOps_proof

\* Bodies have a length and the absent entry is none of them (CacheEntry).
LEMMA EntrySized == Sized(Entry)
BY CacheAssumption, NoEntryAssumption DEF Sized, Entry

\* The types hold from NewMemoryCache on, through puts, saves, loads and the
\* loop of restore, whose remaining keys are always in the snapshot.
THEOREM TypeCorrect == Spec => []TypeOK
<1>1. Init => TypeOK
  BY CacheAssumption, EmptyCacheOK DEF Init, TypeOK, Maps, CacheType
<1>2. TypeOK /\ [Next]_vars => TypeOK'
  <2> SUFFICES ASSUME TypeOK, [Next]_vars PROVE TypeOK'
    OBVIOUS
  <2>0. cache \in CacheType(Keys, Entry) /\ maxBytes \in Int
    BY CacheAssumption DEF TypeOK, Maps, CacheType
  <2>1. ASSUME NEW key \in Keys, NEW value \in Entry, Put(key, value)
        PROVE  TypeOK'
    <3>1. cache' \in CacheType(Keys, Entry)
      BY <2>0, <2>1, EntrySized, PutLockedType DEF Put
    <3>2. now' \in 0..MaxClock
      BY <2>1 DEF Put, Entry
    <3> QED
      BY <2>1, <3>1, <3>2 DEF Put, TypeOK, CacheType, Maps
  <2>2. CASE SaveToDisk
    BY <2>2 DEF SaveToDisk, Unlocked, TypeOK, Maps
  <2>3. ASSUME NEW limit \in Limits, LoadFromDisk(limit)
        PROVE  TypeOK'
    <3>1. cache' \in CacheType(Keys, Entry)
      BY <2>0, <2>3, EmptyCacheOK DEF LoadFromDisk
    <3> QED
      BY <2>3, <3>1 DEF LoadFromDisk, TypeOK, CacheType, Maps
  <2>4. ASSUME NEW key \in Keys, restore(key)
        PROVE  TypeOK'
    <3>1. disk[key] \in Entry /\ disk \in Maps
      BY <2>4 DEF restore, TypeOK, Maps
    <3>2. cache' \in CacheType(Keys, Entry)
      BY <2>0, <2>4, <3>1, EntrySized, RestoreItemType DEF restore
    <3> QED
      BY <2>4, <3>2 DEF restore, TypeOK, CacheType, Maps
  <2>5. CASE UNCHANGED vars
    BY <2>5 DEF vars, TypeOK, Maps
  <2> QED
    BY <2>1, <2>2, <2>3, <2>4, <2>5 DEF Next
<1> QED
  BY <1>1, <1>2, PTL DEF Spec

\* AccountWithinLimit is the limit the lemmas about the critical sections keep.
LEMMA AccountIsWithin ==
  AccountWithinLimit <=> Within(cache, Keys, maxBytes)
BY DEF AccountWithinLimit, Within

\* Whatever sequence of puts, clears, saves and restarts, and whatever the limit
\* of each life, the account and every single body stay within the limit
\* (putLocked, restore).
THEOREM AccountBounded == Spec => []AccountWithinLimit
<1>1. Init => AccountWithinLimit
  BY CacheAssumption, EmptyCacheOK, AccountIsWithin DEF Init
<1>2. TypeOK /\ AccountWithinLimit /\ [Next]_vars => AccountWithinLimit'
  <2> SUFFICES ASSUME TypeOK, AccountWithinLimit, [Next]_vars
               PROVE  Within(cache, Keys, maxBytes)'
    BY DEF AccountWithinLimit, Within
  <2>0. /\ cache \in CacheType(Keys, Entry) /\ maxBytes \in Int
        /\ Within(cache, Keys, maxBytes)
    BY CacheAssumption, AccountIsWithin DEF TypeOK, Maps, CacheType
  <2>1. ASSUME NEW key \in Keys, NEW value \in Entry, Put(key, value)
        PROVE  Within(cache, Keys, maxBytes)'
    <3>1. Within(cache', Keys, maxBytes)
      BY <2>0, <2>1, EntrySized, PutLockedWithin DEF Put
    <3> QED
      BY <2>1, <3>1 DEF Put, Within
  <2>2. CASE SaveToDisk
    BY <2>0, <2>2 DEF SaveToDisk, Within
  <2>3. ASSUME NEW limit \in Limits, LoadFromDisk(limit)
        PROVE  Within(cache, Keys, maxBytes)'
    <3>1. limit \in Int
      BY CacheAssumption
    <3>2. Within(EmptyCache(Keys), Keys, limit)
      BY <3>1, EmptyCacheOK
    <3> QED
      BY <2>3, <3>2 DEF LoadFromDisk, Within
  <2>4. ASSUME NEW key \in Keys, restore(key)
        PROVE  Within(cache, Keys, maxBytes)'
    <3>1. disk[key] \in Entry
      BY <2>4 DEF restore, TypeOK, Maps
    <3>2. Within(cache', Keys, maxBytes)
      BY <2>0, <2>4, <3>1, EntrySized, RestoreItemWithin DEF restore
    <3> QED
      BY <2>4, <3>2 DEF restore, Within
  <2>5. CASE UNCHANGED vars
    BY <2>0, <2>5 DEF vars, Within
  <2> QED
    BY <2>1, <2>2, <2>3, <2>4, <2>5 DEF Next
<1> QED
  BY <1>1, <1>2, TypeCorrect, PTL DEF Spec

-----------------------------------------------------------------------------
(***************************************************************************)
(* The account and the restore loop.  While the loop runs the account is   *)
(* exact, the keys it has not reached are absent and come after the ones   *)
(* it has, and each key it has passed is kept exactly when it fits beside  *)
(* the kept keys before it.                                                *)
(***************************************************************************)
Saved == {k \in Keys : disk[k] # NoEntry}

RestoredBut(c, left) ==
  /\ c.size = Resident(c.entries)
  /\ \A k \in Keys : c.entries[k] \in {NoEntry, disk[k]}
  /\ \A k \in left : c.entries[k] = NoEntry
  /\ \A k \in Saved \ left, r \in left : Before(k, r)
  /\ \A k \in Saved \ left : KeptIfItFits(c.entries, k)

RestoreInv == restoring # {} => RestoredBut(cache, restoring)

\* What TypeOK says of the parts, in the terms of the lemmas about the cache.
LEMMA CacheFacts ==
  ASSUME TypeOK
  PROVE  /\ cache \in CacheType(Keys, Entry) /\ maxBytes \in Int
         /\ cache.entries \in Maps /\ cache.size \in Int
         /\ disk \in Maps /\ restoring \subseteq Saved
         /\ \A k \in Saved : disk[k] \in Entry /\ disk[k].data.len \in Nat
                             /\ disk[k].FetchedAt \in Nat
         /\ IsFiniteSet(Keys) /\ Keys \subseteq Nat
<1>1. disk \in Maps /\ cache \in [entries : Maps, size : Int] /\ restoring \subseteq Saved
  BY DEF TypeOK, Saved
<1>2. \A k \in Saved : disk[k] \in Entry
  BY <1>1 DEF Saved, Maps
<1>3. \A x \in Entry : x.data.len \in Nat /\ x.FetchedAt \in Nat
  <2> SUFFICES ASSUME NEW x \in Entry PROVE x.data.len \in Nat /\ x.FetchedAt \in Nat
    OBVIOUS
  <2>1. x.data.len \in Nat
    BY EntrySized DEF Sized
  <2>2. x.FetchedAt \in 0..MaxClock
    BY DEF Entry
  <2> QED
    BY <2>1, <2>2
<1>4. cache \in CacheType(Keys, Entry)
  BY <1>1 DEF CacheType, Maps
<1>5. maxBytes \in Int /\ IsFiniteSet(Keys) /\ Keys \subseteq Nat
  BY CacheAssumption DEF TypeOK
<1>6. cache.entries \in Maps /\ cache.size \in Int
  BY <1>1
<1> QED
  BY <1>1, <1>2, <1>3, <1>4, <1>5, <1>6

\* restore's order is a strict total order of the snapshot (cache.go:180-185).
LEMMA BeforeIsOrder ==
  ASSUME TypeOK
  PROVE  /\ \A j, k \in Saved : j # k => (Before(j, k) <=> ~Before(k, j))
         /\ \A i, j, k \in Saved : Before(i, j) /\ Before(j, k) => Before(i, k)
BY CacheFacts DEF Before, Saved

\* A passed key is judged by the keys before it alone: what the loop binds later
\* does not change the verdict.
LEMMA EarlierUnchanged ==
  ASSUME TypeOK, NEW m, NEW key \in Saved, NEW k \in Saved, Before(k, key), k # key,
         NEW e \in Maps, \A j \in Keys \ {key} : m[j] = e[j],
         KeptIfItFits(e, k)
  PROVE  KeptIfItFits(m, k)
<1>1. ~Before(key, k)
  BY BeforeIsOrder
<1>2. EarlierKept(m, k) = EarlierKept(e, k)
  BY <1>1 DEF EarlierKept
<1>3. \A j \in EarlierKept(e, k) : m[j] = e[j]
  BY <1>1 DEF EarlierKept
<1>4. BytesHeld(m, EarlierKept(e, k)) = BytesHeld(e, EarlierKept(e, k))
  BY <1>3, BytesSame
<1>5. m[k] = e[k]
  BY DEF Saved
<1> QED
  BY <1>2, <1>4, <1>5 DEF KeptIfItFits

\* One iteration of the loop extends the restored part by its key.
LEMMA RestoreStep ==
  ASSUME TypeOK, RestoreInv, NEW key \in Keys, restore(key)
  PROVE  RestoredBut(cache', restoring \ {key})
<1> DEFINE item == disk[key]
           m == cache'.entries
           e == cache.entries
           left == restoring \ {key}
<1>1. key \in restoring /\ RestoredBut(cache, restoring)
  BY DEF restore, RestoreInv
<1>2. /\ cache \in CacheType(Keys, Entry) /\ maxBytes \in Int /\ e \in Maps
      /\ cache.size \in Int /\ key \in Saved /\ item \in Entry /\ item.data.len \in Nat
      /\ IsFiniteSet(Keys) /\ disk \in Maps /\ Sized(Entry)
  BY <1>1, CacheFacts, EntrySized
<1>3. e[key] = NoEntry /\ cache.size = Resident(e) /\ Resident(e) \in Nat
  BY <1>1, <1>2, BytesFinite DEF RestoredBut, Resident, Maps
<1>4. cache' = restoreItem(cache, maxBytes, key, item)
  BY DEF restore
<1>5. cache' \in CacheType(Keys, Entry) /\ m \in Maps
  BY <1>2, <1>4, RestoreItemType DEF CacheType, Maps
<1>6. cache'.size = Resident(m)
  <2>1. Behind(cache', Keys) = Behind(cache, Keys)
    BY <1>2, <1>3, <1>4, RestoreItemBehind
  <2>2. Resident(m) \in Nat
    BY <1>2, <1>5, BytesFinite DEF Maps, Resident
  <2>3. cache'.size \in Int
    BY <1>5 DEF CacheType
  <2> QED
    BY <1>3, <2>1, <2>2, <2>3 DEF Behind, Resident
<1>7. /\ \A k \in Keys \ {key} : m[k] = e[k]
      /\ m[key] = IF Exceeds(cache.size + item.data.len, maxBytes) THEN NoEntry ELSE item
  BY <1>2, <1>3, <1>4 DEF restoreItem, Exceeds, CacheType, Maps
<1>8. \A k \in Keys : m[k] \in {NoEntry, disk[k]}
  BY <1>1, <1>7 DEF RestoredBut
<1>9. \A k \in left : m[k] = NoEntry
  <2>1. left \subseteq Keys
    BY CacheFacts DEF Saved
  <2> QED
    BY <1>1, <1>7, <2>1 DEF RestoredBut
<1>10. \A k \in Saved \ left, r \in left : Before(k, r)
  BY <1>1 DEF RestoredBut, restore
<1>11. KeptIfItFits(m, key)
  <2>1. EarlierKept(m, key) = {k \in Keys \ {key} : m[k] # NoEntry}
    <3>1. ASSUME NEW k \in Keys \ {key}, m[k] # NoEntry PROVE Before(k, key)
      <4>1. k \in Saved \ restoring
        BY <1>1, <1>7, <1>8, <3>1 DEF RestoredBut, Saved
      <4> QED
        BY <1>1, <4>1 DEF RestoredBut
    <3> QED
      BY <3>1 DEF EarlierKept
  <2>2. BytesHeld(m, EarlierKept(m, key)) = BytesHeld(m, Keys \ {key})
    BY <2>1, BytesPresent
  <2>3. BytesHeld(m, Keys \ {key}) = BytesHeld(e, Keys \ {key})
    BY <1>7, BytesSame
  <2>4. BytesHeld(e, Keys) = BytesHeld(e, Keys \ {key}) + LenAt(e, key)
        /\ BytesHeld(e, Keys \ {key}) \in Nat
    BY <1>2, BytesSplit DEF Maps
  <2>5. LenAt(e, key) = 0
    BY <1>3 DEF LenAt
  <2>6. BytesHeld(m, EarlierKept(m, key)) = cache.size
    BY <1>3, <2>2, <2>3, <2>4, <2>5 DEF Resident
  <2> QED
    BY <1>7, <2>6 DEF KeptIfItFits
<1>12. \A k \in Saved \ left : KeptIfItFits(m, k)
  <2> SUFFICES ASSUME NEW k \in Saved \ restoring PROVE KeptIfItFits(m, k)
    BY <1>11
  <2>1. Before(k, key) /\ k # key /\ KeptIfItFits(e, k)
    BY <1>1 DEF RestoredBut
  <2> HIDE DEF m, e
  <2> QED
    BY <1>2, <1>7, <2>1, EarlierUnchanged
<1> QED
  BY <1>6, <1>8, <1>9, <1>10, <1>12 DEF RestoredBut

\* A new cache has restored nothing, and nothing is wrong with it.
LEMMA NothingRestored == RestoredBut(EmptyCache(Keys), Saved)
<1>1. \A k \in Keys : EmptyCache(Keys).entries[k] = NoEntry
  BY DEF EmptyCache
<1>2. Resident(EmptyCache(Keys).entries) = 0
  BY <1>1, BytesNone DEF Resident
<1> QED
  BY <1>1, <1>2 DEF RestoredBut, EmptyCache, Saved

\* The loop's invariant holds through every life: nothing else runs while it does.
LEMMA RestoreInvariant == Spec => []RestoreInv
<1>1. Init => RestoreInv
  BY DEF Init, RestoreInv
<1>2. TypeOK /\ RestoreInv /\ [Next]_vars => RestoreInv'
  <2> SUFFICES ASSUME TypeOK, RestoreInv, [Next]_vars PROVE RestoreInv'
    OBVIOUS
  <2>1. ASSUME NEW key \in Keys, NEW value \in Entry, Put(key, value)
        PROVE  RestoreInv'
    BY <2>1 DEF Put, Unlocked, RestoreInv
  <2>2. CASE SaveToDisk
    BY <2>2 DEF SaveToDisk, Unlocked, RestoreInv
  <2>3. ASSUME NEW limit \in Limits, LoadFromDisk(limit)
        PROVE  RestoreInv'
    <3>1. RestoredBut(EmptyCache(Keys), Saved)
      BY NothingRestored
    <3>2. /\ cache' = EmptyCache(Keys) /\ restoring' = Saved
          /\ disk' = disk
      BY <2>3 DEF LoadFromDisk, Saved
    <3> QED
      BY <3>1, <3>2 DEF RestoreInv, RestoredBut, Saved, Before, KeptIfItFits, EarlierKept, Resident
  <2>4. ASSUME NEW key \in Keys, restore(key)
        PROVE  RestoreInv'
    <3>1. RestoredBut(cache', restoring \ {key})
      BY <2>4, RestoreStep
    <3>2. disk' = disk /\ maxBytes' = maxBytes /\ restoring' = restoring \ {key}
      BY <2>4 DEF restore
    <3> QED
      BY <3>1, <3>2 DEF RestoreInv, RestoredBut, Saved, Before, KeptIfItFits, EarlierKept, Resident
  <2>5. CASE UNCHANGED vars
    BY <2>5 DEF vars, RestoreInv, RestoredBut, Saved, Before, KeptIfItFits, EarlierKept, Resident
  <2> QED
    BY <2>1, <2>2, <2>3, <2>4, <2>5 DEF Next
<1> QED
  BY <1>1, <1>2, TypeCorrect, PTL DEF Spec

-----------------------------------------------------------------------------
\* The drift of a cache of the right type, and that of a new one.
LEMMA DriftFacts ==
  /\ TypeOK => Drift = Behind(cache, Keys) /\ Resident(cache.entries) \in Nat /\ Drift \in Int
  /\ Behind(EmptyCache(Keys), Keys) = 0
<1>1. ASSUME TypeOK
      PROVE  Drift = Behind(cache, Keys) /\ Resident(cache.entries) \in Nat /\ Drift \in Int
  <2>1. Resident(cache.entries) \in Nat
    BY <1>1, CacheFacts, EntrySized, BytesFinite DEF Maps, Resident
  <2>2. cache.size \in Int
    BY <1>1, CacheFacts
  <2> QED
    BY <2>1, <2>2 DEF Drift, Behind, Resident
<1>2. Behind(EmptyCache(Keys), Keys) = 0
  <2>1. \A k \in Keys : EmptyCache(Keys).entries[k] = NoEntry
    BY DEF EmptyCache
  <2>2. BytesHeld(EmptyCache(Keys).entries, Keys) = 0
    BY <2>1, BytesNone
  <2> QED
    BY <2>2 DEF Behind, EmptyCache
<1> QED
  BY <1>1, <1>2

\* What one step does to the drift: an oversized body that is refused lets the
\* account fall behind by the entry it was to replace; clearing the map and
\* starting a new life set it right; nothing else changes it.
LEMMA DriftStep ==
  ASSUME TypeOK, RestoreInv, [Next]_vars
  PROVE  \/ Drift' = Drift
         \/ Drift' = 0
         \/ \E key \in Keys, value \in Entry :
              /\ Exceeds(value.data.len, maxBytes)
              /\ cache'.entries = cache.entries
              /\ cache'.size = cache.size - LenAt(cache.entries, key)
              /\ Drift' = Drift + LenAt(cache.entries, key)
<1>0. /\ cache \in CacheType(Keys, Entry) /\ maxBytes \in Int /\ IsFiniteSet(Keys)
      /\ Sized(Entry)
  BY CacheFacts, EntrySized
<1>1. Drift = Behind(cache, Keys) /\ Drift' = Behind(cache', Keys)
  BY DEF Drift, Behind, Resident
<1>2. ASSUME NEW key \in Keys, NEW value \in Entry, Put(key, value)
      PROVE  \/ Drift' = Drift
             \/ Drift' = 0
             \/ /\ Exceeds(value.data.len, maxBytes)
                /\ cache'.entries = cache.entries
                /\ cache'.size = cache.size - LenAt(cache.entries, key)
                /\ Drift' = Drift + LenAt(cache.entries, key)
  <2>1. cache' = putLocked(cache, maxBytes, key, value)
    BY <1>2 DEF Put
  <2> QED
    BY <1>0, <1>1, <2>1, PutLockedBehind
<1>3. CASE SaveToDisk \/ UNCHANGED vars
  BY <1>1, <1>3 DEF SaveToDisk, vars
<1>4. ASSUME NEW limit \in Limits, LoadFromDisk(limit)
      PROVE  Drift' = 0
  BY <1>1, <1>4, DriftFacts DEF LoadFromDisk
<1>5. ASSUME NEW key \in Keys, restore(key)
      PROVE  Drift' = Drift
  <2>1. cache.entries[key] = NoEntry /\ disk[key] \in Entry
    BY <1>5, CacheFacts DEF restore, RestoreInv, RestoredBut
  <2>2. cache' = restoreItem(cache, maxBytes, key, disk[key])
    BY <1>5 DEF restore
  <2> QED
    BY <1>0, <1>1, <2>1, <2>2, RestoreItemBehind
<1> QED
  BY <1>2, <1>3, <1>4, <1>5 DEF Next

\* The account errs downwards only, for any bodies, limits and number of lives:
\* it never counts bytes the map does not hold (putLocked, restore).
THEOREM AccountNeverAhead == Spec => []AccountNeverOverstates
<1> DEFINE NotAhead == Drift >= 0
<1>1. TypeOK => (AccountNeverOverstates <=> NotAhead)
  <2> SUFFICES ASSUME TypeOK PROVE AccountNeverOverstates <=> NotAhead
    OBVIOUS
  <2>1. Resident(cache.entries) \in Nat /\ cache.size \in Int
    BY DriftFacts, CacheFacts
  <2> QED
    BY <2>1 DEF AccountNeverOverstates, Drift
<1>2. Init => Drift = 0
  BY DriftFacts DEF Init, Drift, Behind, Resident
<1>3. TypeOK /\ RestoreInv /\ NotAhead /\ [Next]_vars => NotAhead'
  <2> SUFFICES ASSUME TypeOK, RestoreInv, NotAhead, [Next]_vars PROVE NotAhead'
    OBVIOUS
  <2>1. Drift \in Int
    BY DriftFacts
  <2>2. \A key \in Keys : LenAt(cache.entries, key) \in Nat
    BY CacheFacts, EntrySized, LenAtNat DEF Maps
  <2> QED
    BY <2>1, <2>2, DriftStep
<1>4. Init => NotAhead
  BY <1>2
<1> HIDE DEF NotAhead
<1> QED
  BY <1>1, <1>3, <1>4, TypeCorrect, RestoreInvariant, PTL DEF Spec

\* For every set of keys, bodies and limits the account departs from the bytes
\* held in one way only, the refusal of an oversized body (cache.go:215-221).
THEOREM DriftOnlyWhenOversized == Spec => DriftsOnlyWhenOversized
<1> DEFINE OversizedOnly ==
      Drift' # Drift =>
       \/ Drift' = 0
       \/ /\ \E len \in Lengths : Exceeds(len, maxBytes)
          /\ cache'.entries = cache.entries
          /\ \E k \in Keys : cache'.size = cache.size - LenAt(cache.entries, k)
<1>1. TypeOK /\ RestoreInv /\ [Next]_vars => OversizedOnly
  <2> SUFFICES ASSUME TypeOK, RestoreInv, [Next]_vars PROVE OversizedOnly
    OBVIOUS
  <2>1. \A value \in Entry : value.data.len \in Lengths
    BY DEF Entry
  <2> QED
    BY <2>1, DriftStep
<1>2. TypeOK /\ RestoreInv /\ [Next]_vars => [OversizedOnly]_vars
  BY <1>1
<1> HIDE DEF OversizedOnly
<1>3. Spec => [][OversizedOnly]_vars
  BY <1>2, TypeCorrect, RestoreInvariant, PTL DEF Spec
<1> QED
  BY <1>3 DEF DriftsOnlyWhenOversized, OversizedOnly

-----------------------------------------------------------------------------
\* When the loop has no key left, the map is the greedy selection of the snapshot.
LEMMA RestoreEndsRestored ==
  ASSUME TypeOK, RestoreInv, [Next]_vars, RestoreEnds
  PROVE  /\ \A k \in Keys : cache'.entries[k] \in {NoEntry, disk[k]}
         /\ \A k \in Saved : KeptIfItFits(cache'.entries, k)
         /\ cache'.entries \in Maps
<1>1. PICK key \in Keys : restore(key)
  <2>1. ASSUME NEW limit \in Limits PROVE ~LoadFromDisk(limit)
    BY CacheFacts DEF LoadFromDisk, RestoreEnds, Saved
  <2>2. ~SaveToDisk /\ ~UNCHANGED vars /\ ~\E key \in Keys, value \in Entry : Put(key, value)
    BY DEF SaveToDisk, Put, vars, RestoreEnds, Unlocked
  <2> QED
    BY <2>1, <2>2 DEF Next
<1>2. RestoredBut(cache', {})
  BY <1>1, RestoreStep DEF RestoreEnds, restore
<1>3. cache'.entries \in Maps
  <2>1. disk[key] \in Entry /\ cache \in CacheType(Keys, Entry) /\ maxBytes \in Int
    BY <1>1, CacheFacts DEF restore
  <2>2. cache' = restoreItem(cache, maxBytes, key, disk[key])
    BY <1>1 DEF restore
  <2>3. cache' \in CacheType(Keys, Entry)
    BY <2>1, <2>2, EntrySized, RestoreItemType
  <2> QED
    BY <2>3 DEF CacheType, Maps
<1> QED
  BY <1>2, <1>3 DEF RestoredBut

\* The greedy selection never prefers an older entry to a newer one that is at
\* least as small: what fitted beside the entries before the older one fits
\* beside the fewer before the newer one.
LEMMA GreedyIsNewestFirst ==
  ASSUME TypeOK, NEW m \in Maps, \A k \in Keys : m[k] \in {NoEntry, disk[k]},
         \A k \in Saved : KeptIfItFits(m, k)
  PROVE  NewestFirst(m)
<1> SUFFICES ASSUME NEW j \in Keys, NEW k \in Keys, disk[j] # NoEntry,
                    m[j] = NoEntry, m[k] # NoEntry,
                    ~(disk[k].FetchedAt >= disk[j].FetchedAt)
             PROVE  disk[k].data.len < disk[j].data.len
  BY DEF NewestFirst
<1>1. /\ j \in Saved /\ k \in Saved /\ m[k] = disk[k]
      /\ disk[j].data.len \in Nat /\ disk[k].data.len \in Nat
      /\ disk[j].FetchedAt \in Nat /\ disk[k].FetchedAt \in Nat
      /\ maxBytes \in Int /\ IsFiniteSet(Keys)
  BY CacheFacts DEF Saved
<1>2. Before(j, k)
  BY <1>1 DEF Before
<1> DEFINE ej == EarlierKept(m, j)
           ek == EarlierKept(m, k)
<1>3. ej \subseteq ek
  <2> SUFFICES ASSUME NEW i \in ej PROVE i \in ek
    OBVIOUS
  <2>1. i \in Keys /\ m[i] # NoEntry /\ Before(i, j) /\ i \in Saved
    BY DEF EarlierKept, Saved
  <2>2. Before(i, k)
    BY <1>1, <1>2, <2>1, BeforeIsOrder
  <2>3. i # k
    BY <1>2, <2>1, <1>1 DEF Before
  <2> QED
    BY <2>1, <2>2, <2>3 DEF EarlierKept
<1>4. IsFiniteSet(ek) /\ ek \subseteq Keys /\ ej \subseteq Keys /\ IsFiniteSet(ej)
  <2>1. ek \subseteq Keys /\ ej \subseteq Keys
    BY DEF EarlierKept
  <2> QED
    BY <1>1, <2>1, FS_Subset
<1>5. BytesHeld(m, ej) <= BytesHeld(m, ek)
  BY <1>3, <1>4, EntrySized, BytesMonotone DEF Maps
<1>6. BytesHeld(m, ej) \in Nat /\ BytesHeld(m, ek) \in Nat
  BY <1>4, EntrySized, BytesFinite DEF Maps
<1>7. Exceeds(BytesHeld(m, ej) + disk[j].data.len, maxBytes)
  BY <1>1 DEF KeptIfItFits
<1>8. ~Exceeds(BytesHeld(m, ek) + disk[k].data.len, maxBytes)
  BY <1>1 DEF KeptIfItFits
<1> HIDE DEF ej, ek
<1> QED
  BY <1>1, <1>5, <1>6, <1>7, <1>8 DEF Exceeds

\* A snapshot that fits as a whole is kept as a whole: each entry fits beside
\* those before it.
LEMMA GreedyKeepsAll ==
  ASSUME TypeOK, NEW m \in Maps, \A k \in Keys : m[k] \in {NoEntry, disk[k]},
         \A k \in Saved : KeptIfItFits(m, k), ~Exceeds(Resident(disk), maxBytes)
  PROVE  m = disk
<1>1. ASSUME NEW k \in Saved PROVE m[k] = disk[k]
  <2> DEFINE e == EarlierKept(m, k)
  <2>1. /\ k \in Keys /\ disk \in Maps /\ IsFiniteSet(Keys) /\ maxBytes \in Int
        /\ disk[k].data.len \in Nat
    BY CacheFacts DEF Saved
  <2>2. e \subseteq Keys \ {k} /\ IsFiniteSet(Keys \ {k})
    BY <2>1, FS_Subset DEF EarlierKept
  <2>3. IsFiniteSet(e)
    BY <2>2, FS_Subset
  <2>4. BytesHeld(m, e) <= BytesHeld(disk, Keys \ {k})
    BY <2>1, <2>2, EntrySized, BytesMonotone DEF Maps
  <2>5. /\ Resident(disk) = BytesHeld(disk, Keys \ {k}) + LenAt(disk, k)
        /\ BytesHeld(disk, Keys \ {k}) \in Nat
    BY <2>1, EntrySized, BytesSplit DEF Maps, Resident
  <2>6. LenAt(disk, k) = disk[k].data.len
    BY DEF LenAt, Saved
  <2>7. BytesHeld(m, e) \in Nat
    BY <2>2, <2>3, EntrySized, BytesFinite DEF Maps
  <2> HIDE DEF e
  <2>8. ~Exceeds(BytesHeld(m, e) + disk[k].data.len, maxBytes)
    BY <2>1, <2>4, <2>5, <2>6, <2>7 DEF Exceeds
  <2> QED
    BY <2>8 DEF KeptIfItFits, e
<1>2. \A k \in Keys : m[k] = disk[k]
  BY <1>1 DEF Saved
<1> QED
  BY <1>2, CacheFacts DEF Maps

\* Whatever the snapshot, its keys, times and bodies, and whatever the limit of
\* the life that loads it, restore ends with the newest entries that fit
\* (cache.go:180-206).
THEOREM RestoreIsNewestFirst == Spec => RestoreKeepsNewest
<1> DEFINE Kept == RestoreEnds => IsGreedyRestore(cache'.entries) /\ NewestFirst(cache'.entries)
<1>1. TypeOK /\ RestoreInv /\ [Next]_vars => Kept
  <2> SUFFICES ASSUME TypeOK, RestoreInv, [Next]_vars, RestoreEnds
               PROVE  IsGreedyRestore(cache'.entries) /\ NewestFirst(cache'.entries)
    OBVIOUS
  <2>1. /\ \A k \in Keys : cache'.entries[k] \in {NoEntry, disk[k]}
        /\ \A k \in Saved : KeptIfItFits(cache'.entries, k)
        /\ cache'.entries \in Maps
    BY RestoreEndsRestored
  <2>2. NewestFirst(cache'.entries)
    BY <2>1, GreedyIsNewestFirst
  <2> QED
    BY <2>1, <2>2 DEF IsGreedyRestore, Saved
<1>2. TypeOK /\ RestoreInv /\ [Next]_vars => [Kept]_vars
  BY <1>1
<1> HIDE DEF Kept
<1>3. Spec => [][Kept]_vars
  BY <1>2, TypeCorrect, RestoreInvariant, PTL DEF Spec
<1> QED
  BY <1>3 DEF RestoreKeepsNewest, Kept

\* A snapshot that fits the limit of the next life comes back whole, whatever its
\* size and whatever limits it was saved under (README.md:142).
THEOREM NothingLost == Spec => NothingLostAcrossRestart
<1> DEFINE Whole == RestoreEnds /\ ~Exceeds(Resident(disk), maxBytes) => cache'.entries = disk
<1>1. TypeOK /\ RestoreInv /\ [Next]_vars => Whole
  BY RestoreEndsRestored, GreedyKeepsAll
<1>2. TypeOK /\ RestoreInv /\ [Next]_vars => [Whole]_vars
  BY <1>1
<1> HIDE DEF Whole
<1>3. Spec => [][Whole]_vars
  BY <1>2, TypeCorrect, RestoreInvariant, PTL DEF Spec
<1> QED
  BY <1>3 DEF NothingLostAcrossRestart, Whole
=============================================================================
