---------------------------- MODULE CacheSnapshot ---------------------------
(***************************************************************************)
(* Server processes and the snapshot file of one TCG_CACHE_DIR: the life   *)
(* of a process in cmd/tcgapi-mcp/run.go (load, start, serve, close) with  *)
(* the cache it fills under its limit, and the file operations of          *)
(* LoadFromDisk and SaveToDisk in cache.go, each of which may fail, and    *)
(* between any two of which the process may be killed.                     *)
(*                                                                         *)
(* Files are what the kernel holds: a crash of the machine itself is not   *)
(* modelled.                                                               *)
(***************************************************************************)
EXTENDS CacheOps

CONSTANTS
  Procs,      \* server processes that may run on the directory
  Keys,       \* request cache keys
  BodyLens,   \* lengths of response bodies
  Limits,     \* byte limits a process may be configured with
  Faults,     \* the file operations that may fail
  Kills,      \* bound on the processes killed
  Undeleted,  \* bound on the temporary files whose removal fails
  MaxTime,    \* bound on the clock, which counts fetches
  Foreign,    \* whether cache.json may start as one of another program version
  Absent      \* a file that does not exist, a map that is not known

Operations == {"load", "mkdir", "create", "write", "rename", "remove"}

ASSUME SnapshotAssumption ==
  /\ IsFiniteSet(Procs) /\ IsFiniteSet(Keys)
  /\ BodyLens \subseteq Nat /\ BodyLens # {}
  /\ Limits \subseteq Int
  /\ Faults \subseteq Operations
  /\ Kills \in Nat
  /\ Undeleted \in Nat
  /\ MaxTime \in Nat \ {0}
  /\ Foreign \in BOOLEAN

Entry == [data : [len : BodyLens], FetchedAt : 1..MaxTime]
Maps == [Keys -> Entry \cup {NoEntry}]

\* cacheSnapshot: version 1 is this program's, and a file that is only partly
\* written does not decode.
Snapshot == [version : {1, 2}, whole : BOOLEAN, entries : Maps]

ASSUME AbsentAssumption == NoEntry \notin Entry /\ Absent \notin Snapshot \cup Maps

VARIABLES
  file,      \* cache.json
  pc,        \* per process, what it is doing
  limit,     \* per process, its cache's maxBytes
  cache,     \* per process, its MemoryCache
  tmp,       \* per process, the cache-*.tmp it has created
  temps,     \* how many cache-*.tmp files there are
  kills,     \* processes killed so far
  undeleted, \* temporary files whose removal has failed so far
  time,      \* when the last fetch was
  expected   \* per process, a history that no step reads: what it has restored and
             \* put, or Absent once that did not fit its limit

vars == <<file, pc, limit, cache, tmp, temps, kills, undeleted, time, expected>>

States == {"down", "loading", "starting", "serving", "closing",
           "writing", "renaming", "replacing", "moving"}

Empty == EmptyCache(Keys)

TypeOK ==
  /\ file \in Snapshot \cup {Absent}
  /\ pc \in [Procs -> States]
  /\ limit \in [Procs -> Limits \cup {0}]
  /\ cache \in [Procs -> [entries : Maps, size : Int]]
  /\ tmp \in [Procs -> Snapshot \cup {Absent}]
  /\ \A p \in Procs :
       /\ pc[p] = "writing" => tmp[p] # Absent
       /\ pc[p] \in {"renaming", "replacing", "moving"} => tmp[p] # Absent /\ tmp[p].whole
  /\ temps \in Int
  /\ kills \in 0..Kills
  /\ undeleted \in 0..Undeleted
  /\ time \in 1..MaxTime
  /\ expected \in [Procs -> Maps \cup {Absent}]

Init ==
  /\ file \in {Absent} \cup
       (IF Foreign THEN {[version |-> 2, whole |-> TRUE, entries |-> Empty.entries]}
        ELSE {})
  /\ pc = [p \in Procs |-> "down"]
  /\ limit = [p \in Procs |-> 0]
  /\ cache = [p \in Procs |-> Empty]
  /\ tmp = [p \in Procs |-> Absent]
  /\ temps = 0
  /\ kills = 0
  /\ undeleted = 0
  /\ time = 1
  /\ expected = [p \in Procs |-> Empty.entries]

-----------------------------------------------------------------------------
Go(p, state) == pc' = [pc EXCEPT ![p] = state]

\* The process ends, and with it all that it held in memory.
Exit(p) ==
  /\ Go(p, "down")
  /\ limit' = [limit EXCEPT ![p] = 0]
  /\ cache' = [cache EXCEPT ![p] = Empty]
  /\ tmp' = [tmp EXCEPT ![p] = Absent]
  /\ expected' = [expected EXCEPT ![p] = Empty.entries]

\* What a process expects its cache to hold, as far as that fits its limit.
Expect(p, entries) ==
  expected' = [expected EXCEPT ![p] =
                 IF entries = Absent \/ Exceeds(BytesHeld(entries, Keys), limit[p])
                 THEN Absent ELSE entries]

\* A new cache, under the limit that this process is configured with.
Start(p) ==
  /\ pc[p] = "down"
  /\ Go(p, "loading")
  /\ \E maxBytes \in Limits : limit' = [limit EXCEPT ![p] = maxBytes]
  /\ UNCHANGED <<file, cache, tmp, temps, kills, undeleted, time, expected>>

Readable == file # Absent /\ file.whole /\ file.version = 1

\* os.ReadFile sees one version of the file, complete or not.  No file is an
\* empty snapshot.  restore takes of its entries what fits.
LoadFromDisk(p) ==
  /\ pc[p] = "loading"
  /\ Readable \/ file = Absent
  /\ LET saved == IF Readable THEN file.entries ELSE Empty.entries
     IN  /\ \E keys \in RestoreOrders(saved) :
              cache' = [cache EXCEPT ![p] = restored(saved, limit[p], keys)]
         /\ Expect(p, saved)
  /\ Go(p, "starting")
  /\ UNCHANGED <<file, limit, tmp, temps, kills, undeleted, time>>

\* It cannot be read, decoded, or is of another version: buildRuntime warns and
\* goes on with an empty cache (run.go:66-72).
LoadFails(p) ==
  /\ pc[p] = "loading"
  /\ "load" \in Faults \/ (file # Absent /\ ~Readable)
  /\ Go(p, "starting")
  /\ UNCHANGED <<file, limit, cache, tmp, temps, kills, undeleted, time, expected>>

\* Put of a fetched or revalidated response, while the categories are loaded or
\* by a tool call.  One that comes after SaveToDisk has taken its snapshot is
\* lost with the process, and is left out.
Put(p, key, len) ==
  /\ pc[p] \in {"starting", "serving"}
  /\ time < MaxTime
  /\ time' = time + 1
  /\ LET value == [data |-> [len |-> len], FetchedAt |-> time']
     IN  /\ cache' = [cache EXCEPT ![p] = putLocked(@, limit[p], key, value)]
         /\ Expect(p, IF expected[p] = Absent THEN Absent
                      ELSE [expected[p] EXCEPT ![key] = value])
  /\ UNCHANGED <<file, pc, limit, tmp, temps, kills, undeleted>>

\* apiClient.Categories decides whether the server runs.
Serve(p) ==
  /\ pc[p] = "starting"
  /\ Go(p, "serving")
  /\ UNCHANGED <<file, limit, cache, tmp, temps, kills, undeleted, time, expected>>

\* close() runs when the start fails (run.go:60-64) and when serving ends.
Close(p) ==
  /\ pc[p] \in {"starting", "serving"}
  /\ Go(p, "closing")
  /\ UNCHANGED <<file, limit, cache, tmp, temps, kills, undeleted, time, expected>>

-----------------------------------------------------------------------------
(* SaveToDisk. *)

\* os.MkdirAll or os.CreateTemp fails: nothing is saved.
CreateFails(p) ==
  /\ pc[p] = "closing"
  /\ Faults \cap {"mkdir", "create"} # {}
  /\ Exit(p)
  /\ UNCHANGED <<file, temps, kills, undeleted, time>>

\* Mutant of CreateTemp: os.Create of cache.json itself.
CreateInPlace(p) ==
  /\ pc[p] = "closing"
  /\ file' = [version |-> 1, whole |-> FALSE, entries |-> cache[p].entries]
  /\ tmp' = [tmp EXCEPT ![p] = file']
  /\ Go(p, "writing")
  /\ UNCHANGED <<limit, cache, temps, kills, undeleted, time, expected>>

\* c.snapshot() is taken, and a file to hold it created under a name of its own.
CreateTemp(p) ==
  /\ pc[p] = "closing"
  /\ tmp' = [tmp EXCEPT ![p] = [version |-> 1, whole |-> FALSE, entries |-> cache[p].entries]]
  /\ Go(p, "writing")
  /\ temps' = temps + 1
  /\ UNCHANGED <<file, limit, cache, kills, undeleted, time, expected>>

\* The error exits remove the temporary file.  An error of that removal is ignored,
\* and the file stays.
RemoveTemp(p) ==
  /\ Exit(p)
  /\ \/ temps' = temps - 1 /\ UNCHANGED undeleted
     \/ /\ "remove" \in Faults
        /\ undeleted < Undeleted
        /\ undeleted' = undeleted + 1
        /\ UNCHANGED temps
  /\ UNCHANGED <<file, kills, time>>

Write(p) ==
  /\ pc[p] = "writing"
  /\ tmp' = [tmp EXCEPT ![p].whole = TRUE]
  /\ Go(p, "renaming")
  /\ UNCHANGED <<file, limit, cache, temps, kills, undeleted, time, expected>>

\* Mutant of WriteFails: a failed Write only closes the file.
WriteFailsKeepsTemp(p) ==
  /\ pc[p] = "writing"
  /\ "write" \in Faults
  /\ Exit(p)
  /\ UNCHANGED <<file, temps, kills, undeleted, time>>

\* Mutant of WriteFails: the error of Write is overlooked.
WriteFailsUnnoticed(p) ==
  /\ pc[p] = "writing"
  /\ "write" \in Faults
  /\ Go(p, "renaming")
  /\ UNCHANGED <<file, limit, cache, tmp, temps, kills, undeleted, time, expected>>

\* tmp.Write or tmp.Close fails.
WriteFails(p) ==
  /\ pc[p] = "writing"
  /\ "write" \in Faults
  /\ RemoveTemp(p)

\* os.Rename puts the snapshot in place, whatever is there now.
Install(p) ==
  /\ file' = tmp[p]
  /\ temps' = temps - 1
  /\ Exit(p)
  /\ UNCHANGED <<kills, undeleted, time>>

Rename(p) == pc[p] = "renaming" /\ Install(p)

RenameFails(p) ==
  /\ pc[p] = "renaming"
  /\ "rename" \in Faults
  /\ Go(p, "replacing")
  /\ UNCHANGED <<file, limit, cache, tmp, temps, kills, undeleted, time, expected>>

\* The fallback: the old snapshot is removed (or was not there), and the new one
\* moved again.
Remove(p) ==
  /\ pc[p] = "replacing"
  /\ file' = Absent
  /\ Go(p, "moving")
  /\ UNCHANGED <<limit, cache, tmp, temps, kills, undeleted, time, expected>>

RemoveFails(p) ==
  /\ pc[p] = "replacing"
  /\ "remove" \in Faults
  /\ RemoveTemp(p)

Move(p) == pc[p] = "moving" /\ Install(p)

\* Mutant of MoveFails: the move is tried until it works.
MoveFailsRetries(p) ==
  /\ pc[p] = "moving"
  /\ "rename" \in Faults
  /\ Go(p, "replacing")
  /\ UNCHANGED <<file, limit, cache, tmp, temps, kills, undeleted, time, expected>>

MoveFails(p) ==
  /\ pc[p] = "moving"
  /\ "rename" \in Faults
  /\ RemoveTemp(p)

\* The process is killed; the file system keeps what it had created.
Kill(p) ==
  /\ pc[p] # "down"
  /\ kills < Kills
  /\ kills' = kills + 1
  /\ Exit(p)
  /\ UNCHANGED <<file, temps, undeleted, time>>

-----------------------------------------------------------------------------
\* What a process does by itself once it starts or closes.
Step(p) ==
  \/ LoadFromDisk(p) \/ LoadFails(p)
  \/ Serve(p)
  \/ pc[p] = "starting" /\ Close(p)
  \/ CreateFails(p) \/ CreateTemp(p)
  \/ Write(p) \/ WriteFails(p)
  \/ Rename(p) \/ RenameFails(p)
  \/ Remove(p) \/ RemoveFails(p)
  \/ Move(p) \/ MoveFails(p)

Next ==
  \E p \in Procs :
    \/ Start(p)
    \/ Step(p)
    \/ pc[p] = "serving" /\ Close(p)
    \/ \E key \in Keys, len \in BodyLens : Put(p, key, len)
    \/ Kill(p)

\* No host has to start or to stop a server, but the calls that a start or a
\* close makes return: those to the upstream within TCG_API_TIMEOUT.
Fairness == \A p \in Procs : WF_vars(Step(p))

Spec == Init /\ [][Next]_vars /\ Fairness

-----------------------------------------------------------------------------
\* A snapshot in place is never a partly written one, whoever else is saving and
\* whenever a process is killed: it is written elsewhere and renamed
\* (cache.go:126-152).
NeverPartial == file # Absent => file.whole

Saving == {p \in Procs : pc[p] \in {"writing", "renaming", "replacing", "moving"}}

\* A temporary file is left behind only by a process that was killed or whose
\* os.Remove failed: each exit of SaveToDisk renames or removes the one it has
\* created (cache.go:134, 138, 145, 149).
TempRemoved == temps <= Cardinality(Saving) + kills + undeleted

\* Every start and every close comes to an end, whichever file operations fail
\* (runServer, close).
Settles ==
  \A p \in Procs :
    pc[p] \notin {"down", "serving"} ~> pc[p] \in {"down", "serving"}

\* README.md:142 "Enables cache persistence across restarts": whoever gets a snapshot
\* in place has written into it all that it restored at its start and put since,
\* whatever others did to the directory, unless that did not fit its limit; and the
\* one in place is taken away only for a complete one that can replace it
\* (cache.go:115-152, 194-208, 211-231).
PersistedKept ==
  [][/\ \A p \in Procs :
          (Rename(p) \/ Move(p)) /\ expected[p] # Absent =>
            file' = [version |-> 1, whole |-> TRUE, entries |-> expected[p]]
     /\ file # Absent /\ file' = Absent =>
          \E p \in Procs : pc'[p] = "moving" /\ tmp'[p] # Absent /\ tmp'[p].whole]_vars
=============================================================================
