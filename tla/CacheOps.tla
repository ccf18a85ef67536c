------------------------------ MODULE CacheOps ------------------------------
(***************************************************************************)
(* The critical sections of MemoryCache (internal/tcgapi/cache.go) as      *)
(* functions of the cache value [entries |-> a map, size |-> c.size].      *)
(* Each runs under c.mu, so each is one atomic step of the modules that    *)
(* use it.  An entry is a record with at least the field data, and data    *)
(* has at least the field len: len(entry.Data); one that is restored has   *)
(* the field FetchedAt too.                                                *)
(***************************************************************************)
EXTENDS Integers, FiniteSets, Sequences

CONSTANT NoEntry  \* what a key that is not in the map is bound to

\* NewMemoryCache: an empty map and no bytes accounted.
EmptyCache(keys) == [entries |-> [k \in keys |-> NoEntry], size |-> 0]

\* len(existing.Data) for the entry a map holds under k, 0 when k is absent.
LenAt(entries, k) == IF entries[k] = NoEntry THEN 0 ELSE entries[k].data.len

\* The bytes that a map holds under some keys, each told apart by its key and its
\* place in the body, and how many they are: what c.size is meant to count.
Bytes(entries, keys) == UNION {{k} \X (1..LenAt(entries, k)) : k \in keys}
BytesHeld(entries, keys) == Cardinality(Bytes(entries, keys))

\* c.maxBytes > 0 && n > c.maxBytes: a limit of 0 or less means no limit.
Exceeds(n, maxBytes) == maxBytes > 0 /\ n > maxBytes

-----------------------------------------------------------------------------
\* Mutants of putLocked: the replaced entry stays accounted; clearing does not
\* reset the account; an oversized value is stored; every value clears the map.
putLockedKeepsOld(c, maxBytes, key, value) ==
  LET size == c.size
      total == size + value.data.len
  IN  IF Exceeds(value.data.len, maxBytes) THEN [c EXCEPT !.size = size]
      ELSE IF Exceeds(total, maxBytes)
      THEN [entries |-> [k \in DOMAIN c.entries |-> IF k = key THEN value ELSE NoEntry],
            size    |-> value.data.len]
      ELSE [entries |-> [c.entries EXCEPT ![key] = value], size |-> total]

putLockedKeepsSize(c, maxBytes, key, value) ==
  LET size == c.size - LenAt(c.entries, key)
      total == size + value.data.len
  IN  IF Exceeds(value.data.len, maxBytes) THEN [c EXCEPT !.size = size]
      ELSE IF Exceeds(total, maxBytes)
      THEN [entries |-> [k \in DOMAIN c.entries |-> IF k = key THEN value ELSE NoEntry],
            size    |-> size]
      ELSE [entries |-> [c.entries EXCEPT ![key] = value], size |-> total]

putLockedAcceptsOversize(c, maxBytes, key, value) ==
  LET size == c.size - LenAt(c.entries, key)
      total == size + value.data.len
  IN  IF Exceeds(total, maxBytes)
      THEN [entries |-> [k \in DOMAIN c.entries |-> IF k = key THEN value ELSE NoEntry],
            size    |-> value.data.len]
      ELSE [entries |-> [c.entries EXCEPT ![key] = value], size |-> total]

putLockedAlwaysClears(c, maxBytes, key, value) ==
  IF Exceeds(value.data.len, maxBytes) THEN c
  ELSE [entries |-> [k \in DOMAIN c.entries |-> IF k = key THEN value ELSE NoEntry],
        size    |-> value.data.len]
-----------------------------------------------------------------------------
\* putLocked: the entry being replaced leaves the account first; a value that
\* alone exceeds the limit is dropped there and then (the replaced entry stays
\* in the map although it is no longer accounted); one that does not fit beside
\* the others clears the whole map before it is stored.
putLocked(c, maxBytes, key, value) ==
  LET size == c.size - LenAt(c.entries, key)
      total == size + value.data.len
  IN  IF Exceeds(value.data.len, maxBytes) THEN [c EXCEPT !.size = size]
      ELSE IF Exceeds(total, maxBytes)
      THEN [entries |-> [k \in DOMAIN c.entries |-> IF k = key THEN value ELSE NoEntry],
            size    |-> value.data.len]
      ELSE [entries |-> [c.entries EXCEPT ![key] = value], size |-> total]

\* Mutant of restoreItem: an exact fit is refused.
restoreItemStrict(c, maxBytes, key, item) ==
  IF \/ Exceeds(item.data.len, maxBytes)
     \/ Exceeds(c.size + item.data.len + 1, maxBytes)
  THEN c
  ELSE [entries |-> [c.entries EXCEPT ![key] = item], size |-> c.size + item.data.len]

\* One iteration of restore's loop: an item that does not fit is skipped, and
\* the loop goes on with the next one.
restoreItem(c, maxBytes, key, item) ==
  IF \/ Exceeds(item.data.len, maxBytes)
     \/ Exceeds(c.size + item.data.len, maxBytes)
  THEN c
  ELSE [entries |-> [c.entries EXCEPT ![key] = item], size |-> c.size + item.data.len]

\* The orders in which restore's sort may put the entries of a snapshot: the newest
\* first.  Entries of one age are taken in the order of their keys, here in any.
RestoreOrders(saved) ==
  LET held == {k \in DOMAIN saved : saved[k] # NoEntry}
  IN  {keys \in [1..Cardinality(held) -> held] :
         \A i, j \in DOMAIN keys : i < j =>
           /\ keys[i] # keys[j]
           /\ saved[keys[i]].FetchedAt >= saved[keys[j]].FetchedAt}

\* Mutant of restored: every entry gets the age of the newest, as if the snapshot's
\* time were theirs.
restoredAsNew(saved, maxBytes, keys) ==
  LET after[n \in 0..Len(keys)] ==
        IF n = 0 THEN EmptyCache(DOMAIN saved)
        ELSE restoreItem(after[n - 1], maxBytes, keys[n],
                         [saved[keys[n]] EXCEPT !.FetchedAt = saved[keys[1]].FetchedAt])
  IN  after[Len(keys)]

\* restore: the cache after the loop over the sorted entries.
restored(saved, maxBytes, keys) ==
  LET after[n \in 0..Len(keys)] ==
        IF n = 0 THEN EmptyCache(DOMAIN saved)
        ELSE restoreItem(after[n - 1], maxBytes, keys[n], saved[keys[n]])
  IN  after[Len(keys)]
=============================================================================
