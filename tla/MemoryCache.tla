---------------------------- MODULE MemoryCache -----------------------------
(***************************************************************************)
(* The in-memory response cache of internal/tcgapi/cache.go over several   *)
(* lives of the server: Put, SaveToDisk, and LoadFromDisk into the new     *)
(* cache of the next life.  Keys are numbered in the order of the strings  *)
(* they stand for, a body is its length, and the file system never fails   *)
(* here (CacheSnapshot models the file).                                   *)
(***************************************************************************)
EXTENDS CacheOps

CONSTANTS
  Keys,      \* request cache keys
  Lengths,   \* body lengths the upstream may send
  Limits,    \* values of maxBytes, one per life of the server
  MaxClock,  \* bound on the clock
  MaxDrift   \* bound on how far the account may fall behind the bytes held

ASSUME CacheAssumption ==
  /\ Keys \subseteq Nat
  /\ IsFiniteSet(Keys)
  /\ Lengths \subseteq Nat
  /\ Limits \subseteq Int
  /\ MaxClock \in Nat
  /\ MaxDrift \in Nat

Entry == [data : [len : Lengths], FetchedAt : 0..MaxClock]

ASSUME NoEntryAssumption == NoEntry \notin Entry

VARIABLES
  cache,      \* the map and its byte account
  maxBytes,   \* the limit of this life
  restoring,  \* snapshot keys that restore's loop has not reached yet
  disk,       \* Entries of the snapshot file
  now         \* the wall clock

vars == <<cache, maxBytes, restoring, disk, now>>

Maps == [Keys -> Entry \cup {NoEntry}]

TypeOK ==
  /\ cache \in [entries : Maps, size : Int]
  /\ maxBytes \in Limits
  /\ restoring \in SUBSET Keys
  /\ \A k \in restoring : disk[k] # NoEntry
  /\ disk \in Maps
  /\ now \in 0..MaxClock

-----------------------------------------------------------------------------
Init ==
  /\ cache = EmptyCache(Keys)
  /\ maxBytes \in Limits
  /\ restoring = {}
  /\ disk = [k \in Keys |-> NoEntry]
  /\ now = 0

\* restore holds c.mu for its whole loop, so nothing else uses the map then.
Unlocked == restoring = {}

Put(key, value) ==
  /\ Unlocked
  /\ cache' = putLocked(cache, maxBytes, key, value)
  /\ now' = value.FetchedAt
  /\ UNCHANGED <<maxBytes, restoring, disk>>

\* Mutant of SaveToDisk: the snapshot is taken without the lock.
SaveToDiskUnlocked ==
  /\ disk' = cache.entries
  /\ UNCHANGED <<cache, maxBytes, restoring, now>>

SaveToDisk ==
  /\ Unlocked
  /\ disk' = cache.entries
  /\ UNCHANGED <<cache, maxBytes, restoring, now>>

\* The process ends, saved or not (or dies while it restores), and the next one
\* loads the snapshot into a new cache under a limit of its own.
LoadFromDisk(limit) ==
  /\ cache' = EmptyCache(Keys)
  /\ maxBytes' = limit
  /\ restoring' = {k \in Keys : disk[k] # NoEntry}
  /\ UNCHANGED <<disk, now>>

\* Mutant of Before: the snapshot is restored oldest first.
BeforeOldest(j, k) ==
  \/ disk[j].FetchedAt < disk[k].FetchedAt
  \/ disk[j].FetchedAt = disk[k].FetchedAt /\ j < k

\* The order of restore's sort: newest first, ties by key.
Before(j, k) ==
  \/ disk[j].FetchedAt > disk[k].FetchedAt
  \/ disk[j].FetchedAt = disk[k].FetchedAt /\ j < k

restore(key) ==
  /\ key \in restoring
  /\ \A j \in restoring \ {key} : Before(key, j)
  /\ cache' = restoreItem(cache, maxBytes, key, disk[key])
  /\ restoring' = restoring \ {key}
  /\ UNCHANGED <<maxBytes, disk, now>>

\* The bytes really held: what size is meant to count.
Resident(entries) == BytesHeld(entries, Keys)

\* How far the account is behind the bytes held.
Drift == Resident(cache.entries) - cache.size

Next ==
  \/ /\ Drift <= MaxDrift
     /\ \E key \in Keys, value \in Entry :
          value.FetchedAt \in {now, now + 1} /\ Put(key, value)
  \/ SaveToDisk
  \/ \E limit \in Limits : LoadFromDisk(limit)
  \/ \E key \in Keys : restore(key)

Spec == Init /\ [][Next]_vars

-----------------------------------------------------------------------------
\* The account never passes the limit, and no single body does, whatever the
\* sequence of puts, clears, saves and restarts under changing limits
\* (putLocked's two limit tests and restore's two).
AccountWithinLimit ==
  maxBytes > 0 =>
    /\ cache.size <= maxBytes
    /\ \A k \in Keys : LenAt(cache.entries, k) <= maxBytes

\* The account follows every put, clear and restart exactly, with one exception:
\* a body larger than the limit, which is not stored although the entry it was to
\* replace has left the account.  Clearing the map sets the account right.
DriftsOnlyWhenOversized ==
  [][Drift' # Drift =>
       \/ Drift' = 0
       \/ /\ \E len \in Lengths : Exceeds(len, maxBytes)
          /\ cache'.entries = cache.entries
          /\ \E k \in Keys : cache'.size = cache.size - LenAt(cache.entries, k)]_vars

\* Even with oversized bodies the account only errs downwards: it never counts
\* bytes the map does not hold, so the cache is never cleared for nothing.
AccountNeverOverstates == cache.size <= Resident(cache.entries)

\* README.md:143 "In-memory cache size limit".
ResidentWithinLimit == maxBytes > 0 => Resident(cache.entries) <= maxBytes

\* The kept entries that restore's order puts before k.
EarlierKept(entries, k) == {j \in Keys \ {k} : entries[j] # NoEntry /\ Before(j, k)}

\* Entry k is kept exactly when it fits beside them.
KeptIfItFits(entries, k) ==
  entries[k] = IF Exceeds(BytesHeld(entries, EarlierKept(entries, k)) + disk[k].data.len,
                          maxBytes)
               THEN NoEntry ELSE disk[k]

IsGreedyRestore(entries) ==
  \A k \in {j \in Keys : disk[j] # NoEntry} : KeptIfItFits(entries, k)

\* Stated without the module's own order: a kept entry is never an older one
\* that took the place of a newer one, and nothing is kept that was not saved.
NewestFirst(entries) ==
  \A j, k \in Keys :
    /\ entries[j] \in {NoEntry, disk[j]}
    /\ disk[j] # NoEntry /\ entries[j] = NoEntry /\ entries[k] # NoEntry
         => \/ disk[k].FetchedAt >= disk[j].FetchedAt
            \/ disk[k].data.len < disk[j].data.len

RestoreEnds == restoring # {} /\ restoring' = {}

\* When LoadFromDisk returns, the map holds exactly the newest snapshot entries
\* that fit, an entry that does not fit being skipped and not ending the loop.
RestoreKeepsNewest ==
  [][RestoreEnds => IsGreedyRestore(cache'.entries) /\ NewestFirst(cache'.entries)]_vars

\* README.md:142 "Enables cache persistence across restarts": a snapshot whose
\* bodies fit the limit of the next life comes back whole.
NothingLostAcrossRestart ==
  [][RestoreEnds /\ ~Exceeds(Resident(disk), maxBytes) => cache'.entries = disk]_vars
=============================================================================
