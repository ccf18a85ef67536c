----------------------------- MODULE ServerLives ----------------------------
(***************************************************************************)
(* CachingTransport over several lives of the server: close() saves the    *)
(* cache while requests may still be under way, the process ends or is     *)
(* killed, and the next one starts from the snapshot (SaveToDisk and       *)
(* LoadFromDisk of internal/tcgapi/cache.go, buildRuntime and close of     *)
(* cmd/tcgapi-mcp/run.go).  The file operations are CacheSnapshot's.       *)
(***************************************************************************)
EXTENDS CachingTransport

CONSTANT MaxLives  \* bound on the starts of the server

ASSUME LivesAssumption == MaxLives \in Nat \ {0} /\ IsFiniteSet(URLs)

VARIABLES
  disk,     \* Entries of the snapshot file
  closing,  \* whether close() has taken its snapshot
  lives     \* starts so far

serverVars == <<disk, closing, lives>>

LivesInit ==
  /\ Init
  /\ disk = EmptyCache(Keys).entries
  /\ closing = FALSE
  /\ lives = 1

\* What goes on in one life.  Once the server is closing it takes no new calls,
\* but those under way go on.
Serve ==
  /\ Next
  /\ closing => \A w \in Workers : pc[w] = "idle" => pc'[w] = "idle"
  /\ UNCHANGED serverVars

\* close(): the snapshot of what the cache holds now.
Close ==
  /\ ~closing
  /\ closing' = TRUE
  /\ disk' = cache.entries
  /\ UNCHANGED <<vars, lives>>

\* The process ends, closed or killed, and with it the requests under way; the
\* next one loads the snapshot.  The upstream and the clock go on.
Restart ==
  /\ lives < MaxLives
  /\ \E keys \in RestoreOrders(disk) : cache' = restored(disk, maxBytes, keys)
  /\ pc' = [w \in Workers |-> "idle"]
  /\ req' = [w \in Workers |-> NoRequest]
  /\ cond' = [w \in Workers |-> NoHeaders]
  /\ held' = [w \in Workers |-> NoEntry]
  /\ resp' = [w \in Workers |-> NoResponse]
  /\ closing' = FALSE
  /\ lives' = lives + 1
  /\ UNCHANGED <<now, published, disk>>

LivesNext == Serve \/ Close \/ Restart

LivesSpec == LivesInit /\ [][LivesNext]_<<vars, serverVars>>

-----------------------------------------------------------------------------
\* The promise of StaleReads holds over restarts too: an entry that comes back
\* from the snapshot is as old as it was and expires when it would have
\* (FetchedAt and TTL are part of the snapshot, cache.go:20-26 and 194-206).
ImplementsStaleReadsOverLives == Reads!Spec
=============================================================================
