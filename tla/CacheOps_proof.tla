--------------------------- MODULE CacheOps_proof ---------------------------
(***************************************************************************)
(* What putLocked and restoreItem preserve, for any set of keys and any    *)
(* set of entries with a body length, how the bytes held under finitely    *)
(* many keys grow and shrink with the map, and what restore brings back.   *)
(***************************************************************************)
EXTENDS CacheOps, FiniteSetTheorems, WellFoundedInduction, TLAPS

CacheType(K, E) == [entries : [K -> E \cup {NoEntry}], size : Int]

\* Every entry of E has a body length, and none is the absent one.
Sized(E) == NoEntry \notin E /\ \A e \in E : e.data.len \in Nat

\* The limit on the account and on each body, as both critical sections keep it.
Within(c, K, m) ==
  m > 0 => c.size <= m /\ \A k \in K : LenAt(c.entries, k) <= m

\* A new cache has its type and is within every limit (NewMemoryCache).
LEMMA EmptyCacheOK ==
  ASSUME NEW K, NEW E, NEW m \in Int
  PROVE  /\ EmptyCache(K) \in CacheType(K, E)
         /\ Within(EmptyCache(K), K, m)
BY DEF EmptyCache, CacheType, Within, LenAt

\* len(existing.Data), or 0, is a natural number (cache.go:215-217).
LEMMA LenAtNat ==
  ASSUME NEW K, NEW E, Sized(E), NEW m \in [K -> E \cup {NoEntry}], NEW k \in K
  PROVE  LenAt(m, k) \in Nat
BY DEF LenAt, Sized

\* putLocked keeps the type of the cache, through each of its three exits
\* (cache.go:219, :223, :228).
LEMMA PutLockedType ==
  ASSUME NEW K, NEW E, Sized(E), NEW c \in CacheType(K, E), NEW m \in Int,
         NEW key \in K, NEW value \in E
  PROVE  putLocked(c, m, key, value) \in CacheType(K, E)
<1>1. c.entries \in [K -> E \cup {NoEntry}] /\ c.size \in Int
  BY DEF CacheType
<1>2. LenAt(c.entries, key) \in Nat
  BY <1>1, LenAtNat
<1>3. value.data.len \in Nat
  BY DEF Sized
<1>4. [k \in DOMAIN c.entries |-> IF k = key THEN value ELSE NoEntry]
        \in [K -> E \cup {NoEntry}]
  BY <1>1
<1>5. [c.entries EXCEPT ![key] = value] \in [K -> E \cup {NoEntry}]
  BY <1>1
<1> QED
  BY <1>1, <1>2, <1>3, <1>4, <1>5 DEF putLocked, CacheType

\* putLocked keeps account and bodies within the limit: what it stores was
\* compared with the limit, and what it drops only lowers the account.
LEMMA PutLockedWithin ==
  ASSUME NEW K, NEW E, Sized(E), NEW c \in CacheType(K, E), NEW m \in Int,
         NEW key \in K, NEW value \in E, Within(c, K, m)
  PROVE  Within(putLocked(c, m, key, value), K, m)
<1> SUFFICES ASSUME m > 0
             PROVE  /\ putLocked(c, m, key, value).size <= m
                    /\ \A k \in K : LenAt(putLocked(c, m, key, value).entries, k) <= m
  BY DEF Within
<1>1. c.entries \in [K -> E \cup {NoEntry}] /\ c.size \in Int
  BY DEF CacheType
<1>2. LenAt(c.entries, key) \in Nat /\ value.data.len \in Nat
  BY <1>1, LenAtNat DEF Sized
<1>3. c.size <= m /\ \A k \in K : LenAt(c.entries, k) <= m
  BY DEF Within
<1>4. c = [entries |-> c.entries, size |-> c.size]
  BY DEF CacheType
<1>5. CASE Exceeds(value.data.len, m)
  BY <1>1, <1>2, <1>3, <1>4, <1>5 DEF putLocked
<1>6. CASE ~Exceeds(value.data.len, m)
  <2>1. value.data.len <= m
    BY <1>2, <1>6 DEF Exceeds
  <2> DEFINE total == c.size - LenAt(c.entries, key) + value.data.len
  <2>2. CASE Exceeds(total, m)
    <3> DEFINE new == [k \in DOMAIN c.entries |-> IF k = key THEN value ELSE NoEntry]
    <3>1. putLocked(c, m, key, value) = [entries |-> new, size |-> value.data.len]
      BY <1>6, <2>2 DEF putLocked
    <3>2. \A k \in K : LenAt(new, k) <= m
      BY <1>1, <2>1 DEF LenAt
    <3> HIDE DEF new
    <3> QED
      BY <2>1, <3>1, <3>2
  <2>3. CASE ~Exceeds(total, m)
    <3> DEFINE new == [c.entries EXCEPT ![key] = value]
    <3>1. putLocked(c, m, key, value) = [entries |-> new, size |-> total]
      BY <1>6, <2>3 DEF putLocked
    <3>2. total <= m
      BY <1>1, <1>2, <2>3 DEF Exceeds
    <3>3. ASSUME NEW k \in K PROVE LenAt(new, k) <= m
      BY <1>1, <1>3, <2>1 DEF LenAt
    <3> HIDE DEF new, total
    <3> QED
      BY <3>1, <3>2, <3>3
  <2> QED
    BY <2>2, <2>3
<1> QED
  BY <1>5, <1>6

\* putLocked binds only its key, and to the new value: every other key keeps its
\* entry or loses it (cache.go:223-228).
LEMMA PutLockedEntries ==
  ASSUME NEW K, NEW E, Sized(E), NEW c \in CacheType(K, E), NEW m \in Int,
         NEW key \in K, NEW value \in E, NEW k \in K
  PROVE  \/ putLocked(c, m, key, value).entries[k] \in {c.entries[k], NoEntry}
         \/ k = key /\ putLocked(c, m, key, value).entries[k] = value
<1>1. c.entries \in [K -> E \cup {NoEntry}]
  BY DEF CacheType
<1>2. c = [entries |-> c.entries, size |-> c.size]
  BY DEF CacheType
<1> QED
  BY <1>1, <1>2 DEF putLocked

\* One iteration of restore's loop keeps the type (cache.go:194-206).
LEMMA RestoreItemType ==
  ASSUME NEW K, NEW E, Sized(E), NEW c \in CacheType(K, E), NEW m \in Int,
         NEW key \in K, NEW item \in E
  PROVE  restoreItem(c, m, key, item) \in CacheType(K, E)
<1>1. c.entries \in [K -> E \cup {NoEntry}] /\ c.size \in Int /\ item.data.len \in Nat
  BY DEF CacheType, Sized
<1>2. [c.entries EXCEPT ![key] = item] \in [K -> E \cup {NoEntry}]
  BY <1>1
<1> QED
  BY <1>1, <1>2 DEF restoreItem, CacheType

\* It keeps account and bodies within the limit: an item that would pass it is
\* skipped.
LEMMA RestoreItemWithin ==
  ASSUME NEW K, NEW E, Sized(E), NEW c \in CacheType(K, E), NEW m \in Int,
         NEW key \in K, NEW item \in E, Within(c, K, m)
  PROVE  Within(restoreItem(c, m, key, item), K, m)
<1>1. c.entries \in [K -> E \cup {NoEntry}] /\ c.size \in Int /\ item.data.len \in Nat
  BY DEF CacheType, Sized
<1> DEFINE new == [c.entries EXCEPT ![key] = item]
           fits == ~Exceeds(item.data.len, m) /\ ~Exceeds(c.size + item.data.len, m)
<1>2. CASE ~fits
  BY <1>2 DEF restoreItem
<1>3. CASE fits
  <2>1. restoreItem(c, m, key, item) = [entries |-> new, size |-> c.size + item.data.len]
    BY <1>3 DEF restoreItem
  <2>2. ASSUME m > 0, NEW k \in K PROVE LenAt(new, k) <= m
    BY <1>1, <1>3, <2>2 DEF LenAt, Within, Exceeds
  <2>3. ASSUME m > 0 PROVE c.size + item.data.len <= m
    BY <1>1, <1>3, <2>3 DEF Exceeds
  <2> HIDE DEF new
  <2> QED
    BY <2>1, <2>2, <2>3 DEF Within
<1> QED
  BY <1>2, <1>3

-----------------------------------------------------------------------------
\* A key holds as many bytes as its body is long.
LEMMA BytesAtKey ==
  ASSUME NEW K, NEW E, Sized(E), NEW m \in [K -> E \cup {NoEntry}], NEW k \in K
  PROVE  /\ IsFiniteSet({k} \X (1..LenAt(m, k)))
         /\ Cardinality({k} \X (1..LenAt(m, k))) = LenAt(m, k)
<1>1. LenAt(m, k) \in Nat
  BY LenAtNat
<1>2. IsFiniteSet({k}) /\ Cardinality({k}) = 1
  BY FS_Singleton
<1>3. IsFiniteSet(1..LenAt(m, k)) /\ Cardinality(1..LenAt(m, k)) = LenAt(m, k)
  BY <1>1, FS_Interval
<1>4. IsFiniteSet({k} \X (1..LenAt(m, k)))
  BY <1>2, <1>3, FS_Product
<1>5. Cardinality({k} \X (1..LenAt(m, k)))
        = Cardinality({k}) * Cardinality(1..LenAt(m, k))
  BY <1>2, <1>3, FS_Product
<1> QED
  BY <1>1, <1>2, <1>3, <1>4, <1>5

\* Finitely many blocks of bytes are finitely many bytes.
LEMMA BlocksFinite ==
  ASSUME NEW S, IsFiniteSet(S), NEW n \in [S -> Nat]
  PROVE  IsFiniteSet(UNION {{k} \X (1..n[k]) : k \in S})
<1> DEFINE f == [k \in S |-> {k} \X (1..n[k])]
           T == {{k} \X (1..n[k]) : k \in S}
<1>1. f \in Surjection(S, T)
  BY DEF Surjection
<1>2. IsFiniteSet(T)
  BY <1>1, FS_Surjection
<1>3. ASSUME NEW k \in S PROVE IsFiniteSet({k} \X (1..n[k]))
  <2>1. IsFiniteSet({k})
    BY FS_Singleton
  <2>2. n[k] \in Int
    OBVIOUS
  <2>3. IsFiniteSet(1..n[k])
    BY <2>2, FS_Interval
  <2> QED
    BY <2>1, <2>3, FS_Product
<1>4. \A t \in T : IsFiniteSet(t)
  BY <1>3
<1> QED
  BY <1>2, <1>4, FS_UNION

\* Finitely many keys hold finitely many bytes.
LEMMA BytesFinite ==
  ASSUME NEW K, NEW E, Sized(E), NEW m \in [K -> E \cup {NoEntry}],
         NEW S \in SUBSET K, IsFiniteSet(S)
  PROVE  /\ IsFiniteSet(Bytes(m, S))
         /\ BytesHeld(m, S) \in Nat
<1> DEFINE n == [k \in S |-> LenAt(m, k)]
<1>1. n \in [S -> Nat]
  BY LenAtNat
<1>2. Bytes(m, S) = UNION {{k} \X (1..n[k]) : k \in S}
  BY DEF Bytes
<1> HIDE DEF n
<1>3. IsFiniteSet(Bytes(m, S))
  BY <1>1, <1>2, BlocksFinite
<1> QED
  BY <1>3, FS_CardinalityType DEF BytesHeld

\* One more key adds the length of its body: the sum that c.size += len(...) and
\* c.size -= len(...) follow.
LEMMA BytesAdd ==
  ASSUME NEW K, NEW E, Sized(E), NEW m \in [K -> E \cup {NoEntry}],
         NEW S \in SUBSET K, IsFiniteSet(S), NEW k \in K, k \notin S
  PROVE  BytesHeld(m, S \cup {k}) = BytesHeld(m, S) + LenAt(m, k)
<1> DEFINE B == {k} \X (1..LenAt(m, k))
<1>1. Bytes(m, S \cup {k}) = Bytes(m, S) \cup B
  BY DEF Bytes
<1>2. Bytes(m, S) \cap B = {}
  BY DEF Bytes
<1>3. IsFiniteSet(Bytes(m, S)) /\ BytesHeld(m, S) \in Nat
  BY BytesFinite
<1>4. IsFiniteSet(B) /\ Cardinality(B) = LenAt(m, k) /\ LenAt(m, k) \in Nat
  BY BytesAtKey, LenAtNat
<1>5. Cardinality(Bytes(m, S) \cap B) = 0
  BY <1>2, FS_EmptySet
<1> HIDE DEF B
<1>6. Cardinality(Bytes(m, S) \cup B)
        = Cardinality(Bytes(m, S)) + Cardinality(B) - Cardinality(Bytes(m, S) \cap B)
  BY <1>3, <1>4, FS_Union
<1>7. BytesHeld(m, S) = Cardinality(Bytes(m, S))
  BY DEF BytesHeld
<1>8. BytesHeld(m, S \cup {k}) = Cardinality(Bytes(m, S) \cup B)
  BY <1>1 DEF BytesHeld
<1> QED
  BY <1>3, <1>4, <1>5, <1>6, <1>7, <1>8

\* Maps that agree on some keys hold the same bytes under them.
LEMMA BytesSame ==
  ASSUME NEW m1, NEW m2, NEW S, \A k \in S : m1[k] = m2[k]
  PROVE  BytesHeld(m1, S) = BytesHeld(m2, S)
<1>1. \A k \in S : LenAt(m1, k) = LenAt(m2, k)
  BY DEF LenAt
<1>2. Bytes(m1, S) = Bytes(m2, S)
  BY <1>1 DEF Bytes
<1> QED
  BY <1>2 DEF BytesHeld

\* Fewer keys, or some of the entries absent, never hold more.
LEMMA BytesMonotone ==
  ASSUME NEW K, NEW E, Sized(E), NEW m1, NEW m2 \in [K -> E \cup {NoEntry}],
         NEW T \in SUBSET K, IsFiniteSet(T), NEW S \in SUBSET T,
         \A k \in S : m1[k] \in {NoEntry, m2[k]}
  PROVE  BytesHeld(m1, S) <= BytesHeld(m2, T)
<1>1. \A k \in S : 1..LenAt(m1, k) \subseteq 1..LenAt(m2, k)
  <2> SUFFICES ASSUME NEW k \in S PROVE 1..LenAt(m1, k) \subseteq 1..LenAt(m2, k)
    OBVIOUS
  <2>1. LenAt(m2, k) \in Nat
    BY LenAtNat
  <2>2. LenAt(m1, k) = 0 \/ LenAt(m1, k) = LenAt(m2, k)
    BY DEF LenAt
  <2> QED
    BY <2>1, <2>2
<1>2. Bytes(m1, S) \subseteq Bytes(m2, T)
  BY <1>1 DEF Bytes
<1>3. IsFiniteSet(Bytes(m2, T))
  BY BytesFinite
<1>4. Cardinality(Bytes(m1, S)) <= Cardinality(Bytes(m2, T))
  BY <1>2, <1>3, FS_Subset
<1> QED
  BY <1>4 DEF BytesHeld

\* Absent entries hold nothing.
LEMMA BytesNone ==
  ASSUME NEW m, NEW S, \A k \in S : m[k] = NoEntry
  PROVE  BytesHeld(m, S) = 0
<1>1. \A k \in S : LenAt(m, k) = 0
  BY DEF LenAt
<1>2. Bytes(m, S) = {}
  BY <1>1 DEF Bytes
<1> QED
  BY <1>2, FS_EmptySet DEF BytesHeld

\* Absent keys can be left out.
LEMMA BytesPresent ==
  ASSUME NEW m, NEW S
  PROVE  BytesHeld(m, S) = BytesHeld(m, {k \in S : m[k] # NoEntry})
<1>1. \A k \in S : m[k] = NoEntry => 1..LenAt(m, k) = {}
  BY DEF LenAt
<1>2. Bytes(m, S) = Bytes(m, {k \in S : m[k] # NoEntry})
  BY <1>1 DEF Bytes
<1> QED
  BY <1>2 DEF BytesHeld

\* The bytes of all keys are those of one key and those of the others.
LEMMA BytesSplit ==
  ASSUME NEW K, IsFiniteSet(K), NEW E, Sized(E),
         NEW m \in [K -> E \cup {NoEntry}], NEW key \in K
  PROVE  /\ BytesHeld(m, K) = BytesHeld(m, K \ {key}) + LenAt(m, key)
         /\ BytesHeld(m, K \ {key}) \in Nat
         /\ BytesHeld(m, K) \in Nat
<1>1. IsFiniteSet(K \ {key})
  BY FS_Subset
<1>2. (K \ {key}) \cup {key} = K
  OBVIOUS
<1>3. BytesHeld(m, (K \ {key}) \cup {key}) = BytesHeld(m, K \ {key}) + LenAt(m, key)
  BY <1>1, BytesAdd
<1>4. BytesHeld(m, K \ {key}) \in Nat /\ BytesHeld(m, K) \in Nat
  BY <1>1, BytesFinite
<1> QED
  BY <1>2, <1>3, <1>4

\* Binding one key replaces the length of its body.
LEMMA BytesBind ==
  ASSUME NEW K, IsFiniteSet(K), NEW E, Sized(E),
         NEW m \in [K -> E \cup {NoEntry}], NEW key \in K, NEW value \in E
  PROVE  BytesHeld([m EXCEPT ![key] = value], K)
           = BytesHeld(m, K) - LenAt(m, key) + value.data.len
<1> DEFINE new == [m EXCEPT ![key] = value]
<1>1. new \in [K -> E \cup {NoEntry}] /\ \A k \in K \ {key} : new[k] = m[k]
  OBVIOUS
<1>2. LenAt(new, key) = value.data.len /\ value.data.len \in Nat
  BY DEF LenAt, Sized
<1>3. LenAt(m, key) \in Nat
  BY LenAtNat
<1> HIDE DEF new
<1>4. BytesHeld(new, K \ {key}) = BytesHeld(m, K \ {key})
  BY <1>1, BytesSame
<1>5. /\ BytesHeld(new, K) = BytesHeld(new, K \ {key}) + LenAt(new, key)
      /\ BytesHeld(m, K) = BytesHeld(m, K \ {key}) + LenAt(m, key)
      /\ BytesHeld(m, K \ {key}) \in Nat
  BY <1>1, BytesSplit
<1>6. BytesHeld(new, K) = BytesHeld(m, K) - LenAt(m, key) + value.data.len
  BY <1>2, <1>3, <1>4, <1>5
<1> QED
  BY <1>6 DEF new

\* How far an account is behind the bytes its map holds under some keys.
Behind(c, K) == BytesHeld(c.entries, K) - c.size

\* putLocked's three exits: an oversized value takes the entry it was to replace
\* out of the account and leaves it in the map (cache.go:215-221), a cleared map
\* is accounted exactly (:223-226), and a stored value is added to both (:228-229).
LEMMA PutLockedBehind ==
  ASSUME NEW K, IsFiniteSet(K), NEW E, Sized(E), NEW c \in CacheType(K, E), NEW m \in Int,
         NEW key \in K, NEW value \in E
  PROVE  LET d == putLocked(c, m, key, value)
         IN  \/ /\ Exceeds(value.data.len, m)
                /\ d.entries = c.entries
                /\ d.size = c.size - LenAt(c.entries, key)
                /\ Behind(d, K) = Behind(c, K) + LenAt(c.entries, key)
             \/ Behind(d, K) = 0
             \/ Behind(d, K) = Behind(c, K)
<1> DEFINE d == putLocked(c, m, key, value)
           old == LenAt(c.entries, key)
           len == value.data.len
<1>1. c.entries \in [K -> E \cup {NoEntry}] /\ c.size \in Int
  BY DEF CacheType
<1>2. old \in Nat /\ len \in Nat
  BY <1>1, LenAtNat DEF Sized
<1>3. BytesHeld(c.entries, K) \in Nat
  BY <1>1, BytesSplit
<1>4. CASE Exceeds(len, m)
  <2>1. d = [c EXCEPT !.size = c.size - old]
    BY <1>4 DEF putLocked
  <2>2. d.entries = c.entries /\ d.size = c.size - old
    BY <2>1 DEF CacheType
  <2> HIDE DEF d, old, len
  <2>3. Behind(d, K) = Behind(c, K) + old
    BY <1>1, <1>2, <1>3, <2>2 DEF Behind
  <2> QED
    BY <1>4, <2>2, <2>3 DEF d, old, len
<1>5. CASE ~Exceeds(len, m) /\ Exceeds(c.size - old + len, m)
  <2> DEFINE new == [k \in DOMAIN c.entries |-> IF k = key THEN value ELSE NoEntry]
  <2>1. d = [entries |-> new, size |-> len]
    BY <1>5 DEF putLocked
  <2>2. new \in [K -> E \cup {NoEntry}] /\ \A k \in K \ {key} : new[k] = NoEntry
    BY <1>1
  <2>3. LenAt(new, key) = len
    BY <1>1 DEF LenAt, Sized
  <2>4. d.entries = new /\ d.size = len
    BY <2>1
  <2> HIDE DEF new, d, len
  <2>5. BytesHeld(new, K \ {key}) = 0
    BY <2>2, BytesNone
  <2>6. BytesHeld(new, K) = BytesHeld(new, K \ {key}) + LenAt(new, key)
    BY <2>2, BytesSplit
  <2>7. Behind(d, K) = 0
    BY <1>2, <2>3, <2>4, <2>5, <2>6 DEF Behind
  <2> QED
    BY <2>7 DEF d
<1>6. CASE ~Exceeds(len, m) /\ ~Exceeds(c.size - old + len, m)
  <2> DEFINE new == [c.entries EXCEPT ![key] = value]
  <2>1. d = [entries |-> new, size |-> c.size - old + len]
    BY <1>6 DEF putLocked
  <2>2. d.entries = new /\ d.size = c.size - old + len
    BY <2>1
  <2>3. BytesHeld(new, K) = BytesHeld(c.entries, K) - old + len
    BY <1>1, BytesBind
  <2> HIDE DEF new, d, old, len
  <2>4. Behind(d, K) = Behind(c, K)
    BY <1>1, <1>2, <1>3, <2>2, <2>3 DEF Behind
  <2> QED
    BY <2>4 DEF d
<1> QED
  BY <1>4, <1>5, <1>6

\* restore's loop binds a key that was absent, and accounts what it binds.
LEMMA RestoreItemBehind ==
  ASSUME NEW K, IsFiniteSet(K), NEW E, Sized(E), NEW c \in CacheType(K, E), NEW m \in Int,
         NEW key \in K, NEW item \in E, c.entries[key] = NoEntry
  PROVE  Behind(restoreItem(c, m, key, item), K) = Behind(c, K)
<1> DEFINE d == restoreItem(c, m, key, item)
           new == [c.entries EXCEPT ![key] = item]
<1>1. c.entries \in [K -> E \cup {NoEntry}] /\ c.size \in Int
  BY DEF CacheType
<1>2. LenAt(c.entries, key) = 0 /\ item.data.len \in Nat
  BY DEF LenAt, Sized
<1>3. d = c \/ (d.entries = new /\ d.size = c.size + item.data.len)
  BY DEF restoreItem
<1>4. BytesHeld(new, K) = BytesHeld(c.entries, K) - LenAt(c.entries, key) + item.data.len
  BY <1>1, BytesBind
<1>5. BytesHeld(c.entries, K) \in Nat
  BY <1>1, BytesSplit
<1> HIDE DEF d, new
<1>6. Behind(d, K) = Behind(c, K)
  BY <1>1, <1>2, <1>3, <1>4, <1>5 DEF Behind
<1> QED
  BY <1>6 DEF d
\* A value that fits beside the others is stored and nothing else changes
\* (cache.go:228-229).
LEMMA PutLockedFits ==
  ASSUME NEW K, IsFiniteSet(K), NEW E, Sized(E), NEW c \in CacheType(K, E), NEW m \in Int,
         NEW key \in K, NEW value \in E, c.size = BytesHeld(c.entries, K),
         ~Exceeds(BytesHeld([c.entries EXCEPT ![key] = value], K), m)
  PROVE  putLocked(c, m, key, value) =
           [entries |-> [c.entries EXCEPT ![key] = value],
            size    |-> BytesHeld([c.entries EXCEPT ![key] = value], K)]
<1> DEFINE new == [c.entries EXCEPT ![key] = value]
           old == LenAt(c.entries, key)
           len == value.data.len
           total == c.size - old + len
<1>1. c.entries \in [K -> E \cup {NoEntry}] /\ c.size \in Int
  BY DEF CacheType
<1>2. old \in Nat /\ len \in Nat
  BY <1>1, LenAtNat DEF Sized
<1>3. /\ BytesHeld(c.entries, K) = BytesHeld(c.entries, K \ {key}) + old
      /\ BytesHeld(c.entries, K \ {key}) \in Nat
  BY <1>1, BytesSplit
<1>4. BytesHeld(new, K) = total
  BY <1>1, BytesBind
<1>5. ~Exceeds(total, m)
  BY <1>4
<1>6. ~Exceeds(len, m)
  <2> HIDE DEF len, old
  <2>1. total >= len /\ total \in Int
    BY <1>1, <1>2, <1>3
  <2> QED
    BY <1>2, <1>5, <2>1 DEF Exceeds
<1>7. putLocked(c, m, key, value) = [entries |-> new, size |-> total]
  BY <1>5, <1>6 DEF putLocked
<1> QED
  BY <1>4, <1>7

-----------------------------------------------------------------------------
LEMMA LeastNat ==
  ASSUME NEW S \in SUBSET Nat, S # {}
  PROVE  \E n \in S : \A m \in S : n <= m
<1> DEFINE R == OpToRel(<, Nat)
<1>1. IsWellFoundedOn(R, Nat)
  BY NatLessThanWellFounded
<1>2. \A m, n \in Nat : m < n => <<m, n>> \in R
  BY DEF OpToRel
<1> HIDE DEF R
<1>3. PICK n \in S : \A m \in S : ~ (<<m, n>> \in R)
  BY <1>1, WFMin
<1>4. \A m \in S : ~ (m < n)
  BY <1>2, <1>3
<1> QED
  BY <1>4

\* after is the cache after each of the first n turns of restore's loop.
RestoresUpTo(after, n, saved, maxBytes, keys) ==
  after = [i \in 0..n |-> IF i = 0 THEN EmptyCache(DOMAIN saved)
                          ELSE restoreItem(after[i - 1], maxBytes, keys[i], saved[keys[i]])]

\* The loop runs for any number of turns.
LEMMA RestoreRuns ==
  ASSUME NEW saved, NEW maxBytes, NEW keys, NEW n \in Nat
  PROVE  \E after : RestoresUpTo(after, n, saved, maxBytes, keys)
<1> DEFINE Fails == {m \in Nat : ~\E f : RestoresUpTo(f, m, saved, maxBytes, keys)}
           base == EmptyCache(DOMAIN saved)
           Turn(c, m) == restoreItem(c, maxBytes, keys[m], saved[keys[m]])
<1> SUFFICES ASSUME Fails # {} PROVE FALSE
  OBVIOUS
<1>1. PICK m \in Fails : \A k \in Fails : m <= k
  BY LeastNat
<1>2. \A f, k : RestoresUpTo(f, k, saved, maxBytes, keys) <=>
        f = [i \in 0..k |-> IF i = 0 THEN base ELSE Turn(f[i - 1], i)]
  BY Zenon DEF RestoresUpTo
<1> HIDE DEF base, Turn
<1>3. CASE m = 0
  <2> DEFINE f == [i \in 0..0 |-> base]
  <2>1. f = [i \in 0..0 |-> IF i = 0 THEN base ELSE Turn(f[i - 1], i)]
    OBVIOUS
  <2>2. RestoresUpTo(f, 0, saved, maxBytes, keys)
    BY <1>2, <2>1, Zenon
  <2> QED
    BY <1>3, <2>2
<1>4. CASE m # 0
  <2>1. m - 1 \in Nat /\ m - 1 \notin Fails
    BY <1>1, <1>4
  <2>2. PICK g : RestoresUpTo(g, m - 1, saved, maxBytes, keys)
    BY <2>1
  <2>3. g = [i \in 0..(m - 1) |-> IF i = 0 THEN base ELSE Turn(g[i - 1], i)]
    BY <1>2, <2>2
  <2> DEFINE f == [i \in 0..m |-> IF i = m THEN Turn(g[m - 1], m) ELSE g[i]]
  <2>4. \A i \in 0..m : f[i] = IF i = 0 THEN base ELSE Turn(f[i - 1], i)
    BY <1>4, <2>1, <2>3
  <2>5. f = [i \in 0..m |-> f[i]]
    OBVIOUS
  <2> HIDE DEF f
  <2>6. f = [i \in 0..m |-> IF i = 0 THEN base ELSE Turn(f[i - 1], i)]
    BY <2>4, <2>5
  <2>7. RestoresUpTo(f, m, saved, maxBytes, keys)
    BY <1>2, <2>6
  <2> QED
    BY <2>7
<1> QED
  BY <1>3, <1>4

\* The sort puts each entry of the snapshot at one place (cache.go:174-191).
LEMMA OrdersOnce ==
  ASSUME NEW K, IsFiniteSet(K), NEW saved, DOMAIN saved = K, NEW keys \in RestoreOrders(saved)
  PROVE  /\ Len(keys) \in Nat
         /\ \A i \in 1..Len(keys) : keys[i] \in K /\ saved[keys[i]] # NoEntry
         /\ \A i, j \in 1..Len(keys) : i < j => keys[i] # keys[j]
         /\ \A k \in K : saved[k] # NoEntry => \E i \in 1..Len(keys) : keys[i] = k
<1> DEFINE held == {k \in K : saved[k] # NoEntry}
           n == Cardinality(held)
<1>1. IsFiniteSet(held) /\ n \in Nat
  BY FS_Subset, FS_CardinalityType
<1>2. /\ keys \in [1..n -> held]
      /\ \A i, j \in 1..n : i < j => keys[i] # keys[j]
  BY DEF RestoreOrders
<1> HIDE DEF n
<1>3. Len(keys) = n
  BY <1>1, <1>2
<1>4. keys \in Injection(1..n, held)
  BY <1>1, <1>2 DEF Injection, IsInjective
<1>5. IsFiniteSet(1..n) /\ Cardinality(1..n) = n
  BY <1>1, FS_Interval
<1>6. keys \in Surjection(1..n, held)
  BY <1>1, <1>4, <1>5, FS_Injection DEF n
<1> QED
  BY <1>1, <1>2, <1>3, <1>6 DEF Surjection

\* What restore leaves in the cache is made of the snapshot's entries, and is the
\* whole snapshot, exactly accounted, if that fits the limit (cache.go:194-208).
RestoredFrom(c, K, E, saved) ==
  c \in CacheType(K, E) /\ \A k \in K : c.entries[k] \in {NoEntry, saved[k]}

LEMMA Restored ==
  ASSUME NEW K, IsFiniteSet(K), NEW E, Sized(E), NEW saved \in [K -> E \cup {NoEntry}],
         NEW m \in Int, NEW keys \in RestoreOrders(saved)
  PROVE  /\ RestoredFrom(restored(saved, m, keys), K, E, saved)
         /\ ~Exceeds(BytesHeld(saved, K), m) =>
              restored(saved, m, keys) = [entries |-> saved, size |-> BytesHeld(saved, K)]
<1> DEFINE n == Len(keys)
           after == CHOOSE f : RestoresUpTo(f, n, saved, m, keys)
           fits == ~Exceeds(BytesHeld(saved, K), m)
<1>1. DOMAIN saved = K
  OBVIOUS
<1>2. /\ n \in Nat
      /\ \A i \in 1..n : keys[i] \in K /\ saved[keys[i]] # NoEntry
      /\ \A i, j \in 1..n : i < j => keys[i] # keys[j]
      /\ \A k \in K : saved[k] # NoEntry => \E i \in 1..n : keys[i] = k
  BY <1>1, OrdersOnce
<1>3. RestoresUpTo(after, n, saved, m, keys)
  BY <1>2, RestoreRuns, Zenon
<1>4. restored(saved, m, keys) = after[n]
  BY Zenon DEF restored, RestoresUpTo
<1>5. /\ after[0] = EmptyCache(K)
      /\ \A i \in 1..n : after[i] = restoreItem(after[i - 1], m, keys[i], saved[keys[i]])
  <2> DEFINE base == EmptyCache(K)
             Turn(c, i) == restoreItem(c, m, keys[i], saved[keys[i]])
  <2>1. after = [i \in 0..n |-> IF i = 0 THEN base ELSE Turn(after[i - 1], i)]
    BY <1>1, <1>3, Zenon DEF RestoresUpTo
  <2> HIDE DEF base, Turn, after, n
  <2>2. after[0] = base /\ \A i \in 1..n : after[i] = Turn(after[i - 1], i)
    BY <1>2, <2>1
  <2> QED
    BY <2>2 DEF base, Turn
<1> HIDE DEF after, n, fits
<1> DEFINE Turned(c, i) ==
             /\ RestoredFrom(c, K, E, saved)
             /\ fits => /\ Behind(c, K) = 0
                        /\ \A k \in K : c.entries[k] =
                             IF \E j \in 1..i : keys[j] = k THEN saved[k] ELSE NoEntry
<1>6. Turned(after[0], 0)
  <2>1. after[0] = [entries |-> [k \in K |-> NoEntry], size |-> 0]
    BY <1>5 DEF EmptyCache
  <2>2. BytesHeld([k \in K |-> NoEntry], K) = 0
    BY BytesNone
  <2>3. RestoredFrom(after[0], K, E, saved)
    BY <2>1 DEF RestoredFrom, CacheType
  <2> QED
    BY <2>1, <2>2, <2>3 DEF Behind
<1>7. ASSUME NEW i \in 1..n, Turned(after[i - 1], i - 1)
      PROVE  Turned(after[i], i)
  <2> DEFINE c == after[i - 1]
             key == keys[i]
             item == saved[key]
             d == after[i]
             new == [c.entries EXCEPT ![key] = item]
  <2>1. key \in K /\ item \in E /\ item.data.len \in Nat
    BY <1>2 DEF Sized
  <2>2. c \in CacheType(K, E) /\ \A k \in K : c.entries[k] \in {NoEntry, saved[k]}
    BY <1>7 DEF RestoredFrom
  <2>3. d = restoreItem(c, m, key, item)
    BY <1>5
  <2>4. c.entries \in [K -> E \cup {NoEntry}] /\ c.size \in Int
    BY <2>2 DEF CacheType
  <2>5. d = c \/ d = [entries |-> new, size |-> c.size + item.data.len]
    BY <2>3 DEF restoreItem
  <2>6. d \in CacheType(K, E)
    BY <2>1, <2>2, <2>3, RestoreItemType
  <2>7. \A k \in K : d.entries[k] \in {NoEntry, saved[k]}
    <3> HIDE DEF c, d, key
    <3> QED
      BY <2>1, <2>2, <2>4, <2>5
  <2>8. ASSUME fits
        PROVE  /\ Behind(d, K) = 0
               /\ \A k \in K : d.entries[k] =
                    IF \E j \in 1..i : keys[j] = k THEN saved[k] ELSE NoEntry
    <3>1. /\ Behind(c, K) = 0
          /\ \A k \in K : c.entries[k] =
               IF \E j \in 1..(i - 1) : keys[j] = k THEN saved[k] ELSE NoEntry
      BY <1>7, <2>8
    <3>2. ~\E j \in 1..(i - 1) : keys[j] = key
      BY <1>2
    <3>3. c.entries[key] = NoEntry
      BY <2>1, <3>1, <3>2
    <3>4. Behind(d, K) = 0
      BY <2>1, <2>2, <2>3, <3>1, <3>3, RestoreItemBehind
    <3>5. new \in [K -> E \cup {NoEntry}] /\ \A k \in K : new[k] \in {NoEntry, saved[k]}
      <4> HIDE DEF c, key
      <4> QED
        BY <2>1, <2>2, <2>4
    <3>6. BytesHeld(new, K) <= BytesHeld(saved, K)
      <4> HIDE DEF new
      <4> QED
        BY <3>5, BytesMonotone
    <3>7. BytesHeld(new, K) = BytesHeld(c.entries, K) - LenAt(c.entries, key) + item.data.len
      <4> HIDE DEF c, key
      <4> QED
        BY <2>1, <2>4, BytesBind
    <3>8. LenAt(c.entries, key) = 0 /\ BytesHeld(c.entries, K) = c.size
      <4>1. BytesHeld(c.entries, K) \in Nat
        BY <2>1, <2>4, BytesSplit
      <4> HIDE DEF c, key
      <4> QED
        BY <2>4, <3>1, <3>3, <4>1 DEF LenAt, Behind
    <3>9. BytesHeld(c.entries, K) \in Nat /\ BytesHeld(saved, K) \in Nat
      BY <2>1, <2>4, BytesSplit
    <3>10. ~Exceeds(item.data.len, m) /\ ~Exceeds(c.size + item.data.len, m)
      <4> DEFINE len == item.data.len
                 size == c.size
                 all == BytesHeld(saved, K)
                 total == BytesHeld(new, K)
      <4>1. len \in Nat /\ size \in Nat /\ all \in Nat /\ size + len <= all
        <5>1. total = size + len
          BY <2>1, <3>7, <3>8, <3>9
        <5> QED
          BY <2>1, <3>6, <3>8, <3>9, <5>1
      <4>2. ~Exceeds(all, m)
        BY <2>8 DEF fits
      <4> HIDE DEF len, size, all
      <4>3. ~Exceeds(len, m) /\ ~Exceeds(size + len, m)
        BY <4>1, <4>2 DEF Exceeds
      <4> QED
        BY <4>3 DEF len, size
    <3>11. d.entries = new
      BY <2>3, <3>10 DEF restoreItem
    <3>12. ASSUME NEW k \in K
           PROVE  new[k] = IF \E j \in 1..i : keys[j] = k THEN saved[k] ELSE NoEntry
      <4>1. CASE k = key
        BY <2>4, <4>1
      <4>2. CASE k # key
        <5>1. new[k] = c.entries[k]
          BY <2>4, <4>2
        <5>2. (\E j \in 1..i : keys[j] = k) <=> (\E j \in 1..(i - 1) : keys[j] = k)
          BY <1>2, <4>2
        <5> QED
          BY <3>1, <5>1, <5>2
      <4> QED
        BY <4>1, <4>2
    <3> QED
      BY <3>4, <3>11, <3>12
  <2> QED
    BY <2>6, <2>7, <2>8 DEF RestoredFrom
<1> HIDE DEF Turned
<1> DEFINE Wrong == {i \in 0..n : ~Turned(after[i], i)}
<1>8. Wrong = {}
  <2> SUFFICES ASSUME Wrong # {} PROVE FALSE
    OBVIOUS
  <2>1. PICK i \in Wrong : \A k \in Wrong : i <= k
    <3>1. Wrong \in SUBSET Nat
      BY <1>2
    <3> QED
      BY <3>1, LeastNat
  <2>2. CASE i = 0
    BY <1>6, <2>1, <2>2
  <2>3. CASE i # 0
    <3>1. i - 1 \in 0..n /\ i \in 1..n /\ i - 1 \notin Wrong
      BY <1>2, <2>1, <2>3
    <3> QED
      BY <1>7, <2>1, <3>1
  <2> QED
    BY <2>2, <2>3
<1>9. Turned(after[n], n)
  BY <1>2, <1>8
<1>10. ASSUME fits
       PROVE  after[n] = [entries |-> saved, size |-> BytesHeld(saved, K)]
  <2> DEFINE d == after[n]
  <2>1. /\ d \in CacheType(K, E) /\ Behind(d, K) = 0
        /\ \A k \in K : d.entries[k] =
             IF \E j \in 1..n : keys[j] = k THEN saved[k] ELSE NoEntry
    BY <1>9, <1>10 DEF Turned, RestoredFrom
  <2> HIDE DEF d
  <2>2. d.entries \in [K -> E \cup {NoEntry}] /\ d.size \in Int
        /\ d = [entries |-> d.entries, size |-> d.size]
    BY <2>1 DEF CacheType
  <2>3. \A k \in K : d.entries[k] = saved[k]
    BY <1>2, <2>1
  <2>4. d.entries = saved
    BY <2>2, <2>3
  <2>5. BytesHeld(saved, K) \in Nat
    BY BytesFinite
  <2>6. d.size = BytesHeld(saved, K)
    BY <2>1, <2>2, <2>4, <2>5 DEF Behind
  <2> QED
    BY <2>2, <2>4, <2>6 DEF d
<1> QED
  BY <1>4, <1>9, <1>10 DEF Turned, fits
=============================================================================
