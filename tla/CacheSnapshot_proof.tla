------------------------- MODULE CacheSnapshot_proof ------------------------
(***************************************************************************)
(* For any processes, limits, faults and kills: the types, that the        *)
(* snapshot in place is never a partly written one, that temporary files   *)
(* are left only by a kill or by a removal that failed, and that whoever   *)
(* saves writes all that it has restored and put.                          *)
(***************************************************************************)
EXTENDS CacheSnapshot, CacheOps_proof

LEMMA Sizes == Sized(Entry)
BY SnapshotAssumption, AbsentAssumption DEF Sized, Entry

LEMMA EmptyHolds ==
  /\ Empty \in CacheType(Keys, Entry) /\ Empty.entries \in Maps
  /\ Empty = [entries |-> Empty.entries, size |-> BytesHeld(Empty.entries, Keys)]
<1>1. Empty = [entries |-> [k \in Keys |-> NoEntry], size |-> 0]
  BY DEF Empty, EmptyCache
<1>2. BytesHeld([k \in Keys |-> NoEntry], Keys) = 0
  BY BytesNone
<1> QED
  BY <1>1, <1>2 DEF CacheType, Maps

LEMMA LimitIsInt ==
  ASSUME TypeOK, NEW p \in Procs
  PROVE  limit[p] \in Int
<1>1. limit \in [Procs -> Limits \cup {0}]
  BY DEF TypeOK
<1>2. Limits \subseteq Int
  BY SnapshotAssumption
<1>3. limit[p] \in Limits \/ limit[p] = 0
  BY <1>1
<1>4. 0 \in Int
  OBVIOUS
<1> QED
  BY <1>2, <1>3, <1>4, Zenon

\* What a process loads is of the file, and is the file, exactly accounted, if that
\* fits its limit (cache.go:80-103, 194-208).
LEMMA Loaded ==
  ASSUME TypeOK, NEW p \in Procs, LoadFromDisk(p)
  PROVE  \E saved \in Maps, c \in CacheType(Keys, Entry) :
           /\ cache' = [cache EXCEPT ![p] = c]
           /\ Expect(p, saved)
           /\ ~Exceeds(BytesHeld(saved, Keys), limit[p]) =>
                c = [entries |-> saved, size |-> BytesHeld(saved, Keys)]
<1> DEFINE saved == IF Readable THEN file.entries ELSE Empty.entries
<1>1. saved \in Maps
  BY EmptyHolds DEF TypeOK, Readable, Snapshot
<1>2. limit[p] \in Int
  BY LimitIsInt
<1>3. PICK keys \in RestoreOrders(saved) :
        cache' = [cache EXCEPT ![p] = restored(saved, limit[p], keys)]
  BY DEF LoadFromDisk
<1>4. Expect(p, saved)
  BY DEF LoadFromDisk
<1> HIDE DEF saved
<1>5. /\ restored(saved, limit[p], keys) \in CacheType(Keys, Entry)
      /\ ~Exceeds(BytesHeld(saved, Keys), limit[p]) =>
           restored(saved, limit[p], keys) =
             [entries |-> saved, size |-> BytesHeld(saved, Keys)]
  BY <1>1, <1>2, Restored, Sizes, SnapshotAssumption DEF RestoredFrom, Maps
<1> QED
  BY <1>1, <1>3, <1>4, <1>5

\* A Put is one of an entry fetched now.
LEMMA PutOne ==
  ASSUME TypeOK, NEW p \in Procs, NEW key \in Keys, NEW len \in BodyLens, Put(p, key, len)
  PROVE  \E value \in Entry :
           /\ time' \in 1..MaxTime
           /\ cache' = [cache EXCEPT ![p] = putLocked(cache[p], limit[p], key, value)]
           /\ Expect(p, IF expected[p] = Absent THEN Absent
                        ELSE [expected[p] EXCEPT ![key] = value])
<1> DEFINE value == [data |-> [len |-> len], FetchedAt |-> time']
<1>1. time' \in 1..MaxTime
  BY SnapshotAssumption DEF Put, TypeOK
<1>2. value \in Entry
  BY <1>1 DEF Entry
<1>3. cache' = [cache EXCEPT ![p] = putLocked(cache[p], limit[p], key, value)]
  BY DEF Put, TypeOK
<1>4. Expect(p, IF expected[p] = Absent THEN Absent ELSE [expected[p] EXCEPT ![key] = value])
  BY DEF Put
<1> QED
  BY <1>1, <1>2, <1>3, <1>4

\* What is expected is a map, or not known.
LEMMA ExpectTyped ==
  ASSUME expected \in [Procs -> Maps \cup {Absent}], NEW p \in Procs,
         NEW entries \in Maps \cup {Absent}, Expect(p, entries)
  PROVE  expected' \in [Procs -> Maps \cup {Absent}]
<1> DEFINE e == IF entries = Absent \/ Exceeds(BytesHeld(entries, Keys), limit[p])
                THEN Absent ELSE entries
<1>1. e \in Maps \cup {Absent}
  OBVIOUS
<1>2. expected' = [expected EXCEPT ![p] = e]
  BY DEF Expect
<1> HIDE DEF e
<1> QED
  BY <1>1, <1>2

\* Types hold through every step of every process, and a file about to be
\* renamed is complete (SaveToDisk).
THEOREM TypeCorrect == Spec => []TypeOK
<1>1. Init => TypeOK
  <2> SUFFICES ASSUME Init PROVE TypeOK
    OBVIOUS
  <2>1. Empty \in [entries : Maps, size : Int] /\ Empty.entries \in Maps
    BY EmptyHolds DEF CacheType, Maps
  <2>2. [version |-> 2, whole |-> TRUE, entries |-> Empty.entries] \in Snapshot
    BY <2>1 DEF Snapshot
  <2>3. file \in Snapshot \cup {Absent}
    BY <2>2 DEF Init
  <2>4. kills \in 0..Kills /\ undeleted \in 0..Undeleted /\ time \in 1..MaxTime /\ temps \in Int
    BY SnapshotAssumption DEF Init
  <2> QED
    BY <2>1, <2>3, <2>4 DEF Init, TypeOK, States
<1>2. TypeOK /\ [Next]_vars => TypeOK'
  <2> SUFFICES ASSUME TypeOK, [Next]_vars PROVE TypeOK'
    OBVIOUS
  <2> USE DEF TypeOK, States, Go
  <2>0. Empty \in [entries : Maps, size : Int] /\ Empty.entries \in Maps
    BY EmptyHolds DEF CacheType, Maps
  <2>1. ASSUME NEW p \in Procs, Start(p) \/ Serve(p) \/ Close(p) \/ LoadFails(p)
        PROVE  TypeOK'
    BY <2>1 DEF Start, Serve, Close, LoadFails
  <2>2. ASSUME NEW p \in Procs, LoadFromDisk(p)
        PROVE  TypeOK'
    <3>1. PICK saved \in Maps, c \in CacheType(Keys, Entry) :
             cache' = [cache EXCEPT ![p] = c] /\ Expect(p, saved)
      BY <2>2, Loaded
    <3>2. expected' \in [Procs -> Maps \cup {Absent}]
      BY <3>1, ExpectTyped
    <3>3. cache' \in [Procs -> [entries : Maps, size : Int]]
      BY <3>1 DEF CacheType, Maps
    <3>4. pc' = [pc EXCEPT ![p] = "starting"]
          /\ UNCHANGED <<file, limit, tmp, temps, kills, undeleted, time>>
      BY <2>2 DEF LoadFromDisk
    <3> QED
      BY <3>2, <3>3, <3>4
  <2>3. ASSUME NEW p \in Procs, NEW key \in Keys, NEW len \in BodyLens, Put(p, key, len)
        PROVE  TypeOK'
    <3>1. PICK value \in Entry :
             /\ time' \in 1..MaxTime
             /\ cache' = [cache EXCEPT ![p] = putLocked(cache[p], limit[p], key, value)]
             /\ Expect(p, IF expected[p] = Absent THEN Absent
                          ELSE [expected[p] EXCEPT ![key] = value])
      BY <2>3, PutOne
    <3>2. cache[p] \in CacheType(Keys, Entry) /\ limit[p] \in Int
      BY LimitIsInt DEF CacheType, Maps
    <3>3. putLocked(cache[p], limit[p], key, value) \in [entries : Maps, size : Int]
      BY <3>2, PutLockedType, Sizes DEF CacheType, Maps
    <3>4. (IF expected[p] = Absent THEN Absent ELSE [expected[p] EXCEPT ![key] = value])
             \in Maps \cup {Absent}
      BY DEF Maps
    <3>5. expected' \in [Procs -> Maps \cup {Absent}]
      BY <3>1, <3>4, ExpectTyped
    <3>6. UNCHANGED <<file, pc, limit, tmp, temps, kills, undeleted>>
      BY <2>3 DEF Put
    <3> QED
      BY <3>1, <3>3, <3>5, <3>6
  <2>4. ASSUME NEW p \in Procs, CreateFails(p)
        PROVE  TypeOK'
    BY <2>0, <2>4 DEF CreateFails, Exit
  <2>5. ASSUME NEW p \in Procs, CreateTemp(p)
        PROVE  TypeOK'
    <3>1. [version |-> 1, whole |-> FALSE, entries |-> cache[p].entries] \in Snapshot
      BY DEF Snapshot
    <3>2. [version |-> 1, whole |-> FALSE, entries |-> cache[p].entries] # Absent
      BY <3>1, AbsentAssumption
    <3> DEFINE new == [version |-> 1, whole |-> FALSE, entries |-> cache[p].entries]
    <3>3. tmp' = [tmp EXCEPT ![p] = new] /\ pc' = [pc EXCEPT ![p] = "writing"]
          /\ temps' = temps + 1 /\ UNCHANGED <<file, limit, cache, kills, undeleted, time, expected>>
      BY <2>5 DEF CreateTemp
    <3> HIDE DEF new
    <3> QED
      BY <3>1, <3>2, <3>3 DEF new
  <2>6. ASSUME NEW p \in Procs, Write(p)
        PROVE  TypeOK'
    <3>1. tmp[p] \in Snapshot
      BY <2>6 DEF Write
    <3>2. [tmp[p] EXCEPT !.whole = TRUE] \in Snapshot /\ [tmp[p] EXCEPT !.whole = TRUE].whole
      BY <3>1 DEF Snapshot
    <3> QED
      BY <2>6, <3>2, AbsentAssumption DEF Write
  <2>7. ASSUME NEW p \in Procs, WriteFails(p) \/ RemoveFails(p) \/ MoveFails(p)
        PROVE  TypeOK'
    <3>1. Exit(p) /\ temps' \in Int /\ undeleted' \in 0..Undeleted /\ UNCHANGED <<file, kills, time>>
      BY <2>7, SnapshotAssumption DEF WriteFails, RemoveFails, MoveFails, RemoveTemp
    <3> QED
      BY <2>0, <3>1 DEF Exit
  <2>8. ASSUME NEW p \in Procs, Rename(p) \/ Move(p)
        PROVE  TypeOK'
    <3>1. Exit(p) /\ file' = tmp[p] /\ temps' \in Int /\ UNCHANGED <<kills, undeleted, time>>
      BY <2>8 DEF Rename, Move, Install
    <3> QED
      BY <2>0, <3>1 DEF Exit
  <2>9. ASSUME NEW p \in Procs, RenameFails(p) \/ Remove(p)
        PROVE  TypeOK'
    BY <2>9 DEF RenameFails, Remove
  <2>10. ASSUME NEW p \in Procs, Kill(p)
         PROVE  TypeOK'
    <3>1. kills' \in 0..Kills /\ Exit(p) /\ UNCHANGED <<file, temps, undeleted, time>>
      BY <2>10, SnapshotAssumption DEF Kill
    <3> QED
      BY <2>0, <3>1 DEF Exit
  <2>11. CASE UNCHANGED vars
    BY <2>11 DEF vars
  <2> QED
    BY <2>1, <2>2, <2>3, <2>4, <2>5, <2>6, <2>7, <2>8, <2>9, <2>10, <2>11 DEF Next, Step
<1> QED
  BY <1>1, <1>2, PTL DEF Spec

-----------------------------------------------------------------------------
\* cache.json only ever changes by a rename of a complete file, or is removed,
\* so that no reader finds half a snapshot (cache.go:126-152).
THEOREM NeverPartialHolds == Spec => []NeverPartial
<1>1. Init => NeverPartial
  BY DEF Init, NeverPartial
<1>2. TypeOK /\ NeverPartial /\ [Next]_vars => NeverPartial'
  <2> SUFFICES ASSUME TypeOK, NeverPartial, [Next]_vars PROVE NeverPartial'
    OBVIOUS
  <2>1. ASSUME NEW p \in Procs, Rename(p) \/ Move(p)
        PROVE  NeverPartial'
    BY <2>1 DEF Rename, Move, Install, NeverPartial, TypeOK
  <2>2. ASSUME NEW p \in Procs, Remove(p)
        PROVE  NeverPartial'
    BY <2>2 DEF Remove, NeverPartial
  <2>3. CASE UNCHANGED file
    BY <2>3 DEF NeverPartial
  <2>4. \/ \E p \in Procs : Rename(p) \/ Move(p) \/ Remove(p)
        \/ UNCHANGED file
    BY DEF Next, Step, Start, LoadFromDisk, LoadFails, Serve, Close, Put, CreateFails,
           CreateTemp, Write, WriteFails, RemoveTemp, RenameFails, RemoveFails, MoveFails,
           Kill, vars
  <2> QED
    BY <2>1, <2>2, <2>3, <2>4
<1> QED
  BY <1>1, <1>2, TypeCorrect, PTL DEF Spec

-----------------------------------------------------------------------------
\* A process that starts or ends saving is one more or one less.
LEMMA SavingCounted ==
  ASSUME NEW p
  PROVE  /\ Cardinality(Saving) \in Nat
         /\ Saving' = Saving \cup {p} /\ p \notin Saving =>
              Cardinality(Saving') = Cardinality(Saving) + 1
         /\ Saving' = Saving \ {p} =>
              Cardinality(Saving') = Cardinality(Saving) - (IF p \in Saving THEN 1 ELSE 0)
<1>1. Saving \subseteq Procs
  BY DEF Saving
<1>2. IsFiniteSet(Saving)
  BY <1>1, FS_Subset, SnapshotAssumption
<1>3. Cardinality(Saving) \in Nat
  BY <1>2, FS_CardinalityType
<1>4. Cardinality(Saving \cup {p}) = Cardinality(Saving) + (IF p \in Saving THEN 0 ELSE 1)
  BY <1>2, <1>3, FS_AddElement
<1>5. Cardinality(Saving \ {p}) = Cardinality(Saving) - (IF p \in Saving THEN 1 ELSE 0)
  BY <1>2, <1>3, FS_RemoveElement
<1> DEFINE n == Cardinality(Saving)
           added == Cardinality(Saving \cup {p})
           removed == Cardinality(Saving \ {p})
<1> QED
  BY <1>3, <1>4, <1>5

\* As many temporary files as processes are saving, were killed, or could not remove
\* theirs: every exit of SaveToDisk renames or removes the one it has created
\* (cache.go:126-152).
THEOREM TempRemovedHolds == Spec => []TempRemoved
<1>1. Init => TempRemoved
  <2> SUFFICES ASSUME Init PROVE TempRemoved
    OBVIOUS
  <2>1. Saving = {}
    BY DEF Init, Saving
  <2> QED
    BY <2>1, FS_EmptySet DEF Init, TempRemoved
<1>2. TypeOK /\ TempRemoved /\ [Next]_vars => TempRemoved'
  <2> SUFFICES ASSUME TypeOK, TempRemoved, [Next]_vars PROVE TempRemoved'
    OBVIOUS
  <2>0. /\ temps \in Int /\ kills \in Nat /\ undeleted \in Nat /\ Cardinality(Saving) \in Nat
        /\ temps <= Cardinality(Saving) + kills + undeleted
    <3>1. Cardinality(Saving) \in Nat
      BY SavingCounted
    <3>2. kills \in Nat /\ undeleted \in Nat /\ temps \in Int
      BY SnapshotAssumption DEF TypeOK
    <3> QED
      BY <3>1, <3>2 DEF TempRemoved
  <2>1. CASE Saving' = Saving /\ UNCHANGED <<temps, kills, undeleted>>
    BY <2>0, <2>1 DEF TempRemoved
  <2>2. ASSUME NEW p \in Procs, CreateTemp(p)
        PROVE  TempRemoved'
    <3>1. Saving' = Saving \cup {p} /\ p \notin Saving
          /\ temps' = temps + 1 /\ UNCHANGED <<kills, undeleted>>
      BY <2>2 DEF CreateTemp, Saving, TypeOK, Go
    <3>2. Cardinality(Saving') = Cardinality(Saving) + 1
      BY <3>1, SavingCounted
    <3>3. Cardinality(Saving)' = Cardinality(Saving')
      OBVIOUS
    <3> QED
      BY <2>0, <3>1, <3>2, <3>3 DEF TempRemoved
  <2>3. ASSUME NEW p \in Procs,
               WriteFails(p) \/ RemoveFails(p) \/ MoveFails(p) \/ Rename(p) \/ Move(p)
        PROVE  TempRemoved'
    <3>1. p \in Saving /\ Exit(p) /\ UNCHANGED kills
      BY <2>3 DEF WriteFails, RemoveFails, MoveFails, RemoveTemp, Rename, Move, Install, Saving
    <3>2. \/ temps' = temps - 1 /\ UNCHANGED undeleted
          \/ temps' = temps /\ undeleted' = undeleted + 1
      BY <2>3 DEF WriteFails, RemoveFails, MoveFails, RemoveTemp, Rename, Move, Install
    <3>3. Saving' = Saving \ {p}
      BY <3>1 DEF Saving, Exit, Go, TypeOK
    <3>4. Cardinality(Saving') = Cardinality(Saving) - 1
      BY <3>1, <3>3, SavingCounted
    <3> QED
      BY <2>0, <3>1, <3>2, <3>4 DEF TempRemoved
  <2>4. ASSUME NEW p \in Procs, Kill(p)
        PROVE  TempRemoved'
    <3>1. Exit(p) /\ kills' = kills + 1 /\ UNCHANGED <<temps, undeleted>>
      BY <2>4 DEF Kill
    <3>2. Saving' = Saving \ {p}
      BY <3>1 DEF Saving, Exit, Go, TypeOK
    <3>3. Cardinality(Saving') >= Cardinality(Saving) - 1 /\ Cardinality(Saving') \in Int
      BY <2>0, <3>2, SavingCounted
    <3> QED
      BY <2>0, <3>1, <3>3 DEF TempRemoved
  <2>5. ASSUME NEW p \in Procs,
               \/ Start(p) \/ LoadFromDisk(p) \/ LoadFails(p) \/ Serve(p) \/ Close(p)
               \/ CreateFails(p) \/ Write(p) \/ RenameFails(p) \/ Remove(p)
        PROVE  Saving' = Saving /\ UNCHANGED <<temps, kills, undeleted>>
    <3>1. UNCHANGED <<temps, kills, undeleted>>
      BY <2>5 DEF Start, LoadFromDisk, LoadFails, Serve, Close, CreateFails, Write, RenameFails,
                  Remove
    <3>2. \E state \in States :
            /\ pc' = [pc EXCEPT ![p] = state]
            /\ state \in {"writing", "renaming", "replacing", "moving"} <=> p \in Saving
      BY <2>5 DEF Start, LoadFromDisk, LoadFails, Serve, Close, CreateFails, Write, RenameFails,
                  Remove, Exit, Go, Saving, States
    <3> QED
      BY <3>1, <3>2 DEF Saving, TypeOK
  <2>6. ASSUME NEW p \in Procs, NEW key \in Keys, NEW len \in BodyLens, Put(p, key, len)
        PROVE  Saving' = Saving /\ UNCHANGED <<temps, kills, undeleted>>
    BY <2>6 DEF Put, Saving
  <2>7. CASE UNCHANGED vars
    BY <2>1, <2>7 DEF vars, Saving
  <2> QED
    BY <2>1, <2>2, <2>3, <2>4, <2>5, <2>6, <2>7 DEF Next, Step
<1> QED
  BY <1>1, <1>2, TypeCorrect, PTL DEF Spec

-----------------------------------------------------------------------------
\* PersistedKept is not inductive: what is expected has to be in the cache from the
\* start on, exactly accounted, or the next Put could clear it, and in the temporary
\* file from its creation on.
AsExpected(p) ==
  expected[p] # Absent =>
    /\ cache[p] = [entries |-> expected[p], size |-> BytesHeld(expected[p], Keys)]
    /\ p \in Saving => tmp[p].version = 1 /\ tmp[p].entries = expected[p]

\* A Put keeps the cache as expected as long as all fits (cache.go:211-231).
LEMMA PutAsExpected ==
  ASSUME TypeOK, NEW p \in Procs, NEW key \in Keys, NEW len \in BodyLens, Put(p, key, len),
         AsExpected(p), expected'[p] # Absent
  PROVE  cache'[p] = [entries |-> expected'[p], size |-> BytesHeld(expected'[p], Keys)]
<1>1. PICK value \in Entry :
         /\ cache' = [cache EXCEPT ![p] = putLocked(cache[p], limit[p], key, value)]
         /\ Expect(p, IF expected[p] = Absent THEN Absent
                      ELSE [expected[p] EXCEPT ![key] = value])
  BY PutOne
<1> DEFINE c == cache[p]
           new == [expected[p] EXCEPT ![key] = value]
<1>2. cache' = [cache EXCEPT ![p] = putLocked(c, limit[p], key, value)] /\ p \in DOMAIN cache
  BY <1>1 DEF TypeOK
<1>3. p \in DOMAIN expected
  BY DEF TypeOK
<1>4. expected[p] # Absent
  BY <1>1, <1>3 DEF Expect
<1>5. expected'[p] = new /\ ~Exceeds(BytesHeld(new, Keys), limit[p])
  BY <1>1, <1>3, <1>4 DEF Expect
<1>6. c.entries = expected[p] /\ c.size = BytesHeld(expected[p], Keys)
  BY <1>4 DEF AsExpected
<1>7. c \in CacheType(Keys, Entry)
  BY DEF TypeOK, CacheType, Maps
<1> HIDE DEF c
<1>8. [c.entries EXCEPT ![key] = value] = new /\ c.size = BytesHeld(c.entries, Keys)
  BY <1>6
<1> HIDE DEF new
<1>9. putLocked(c, limit[p], key, value) = [entries |-> new, size |-> BytesHeld(new, Keys)]
  BY <1>5, <1>7, <1>8, PutLockedFits, LimitIsInt, Sizes, SnapshotAssumption
<1> QED
  BY <1>2, <1>5, <1>9

\* A step of one process leaves the others as they are.
Untouched(p) ==
  \A q \in Procs \ {p} :
    /\ cache'[q] = cache[q] /\ expected'[q] = expected[q] /\ tmp'[q] = tmp[q]
    /\ q \in Saving' <=> q \in Saving

LEMMA OthersUntouched ==
  ASSUME TypeOK, NEW p \in Procs,
         Start(p) \/ Step(p) \/ Close(p) \/ Kill(p)
           \/ \E key \in Keys, len \in BodyLens : Put(p, key, len)
  PROVE  Untouched(p)
<1>1. ASSUME NEW q \in Procs \ {p} PROVE cache'[q] = cache[q]
  BY <1>1 DEF TypeOK, Start, Step, Close, Kill, Put, LoadFromDisk, LoadFails, Serve, CreateFails,
         CreateTemp, Write, WriteFails, Rename, RenameFails, Remove, RemoveFails, Move,
         MoveFails, RemoveTemp, Install, Exit
<1>2. ASSUME NEW q \in Procs \ {p} PROVE expected'[q] = expected[q]
  BY <1>2 DEF TypeOK, Start, Step, Close, Kill, Put, LoadFromDisk, LoadFails, Serve, CreateFails,
         CreateTemp, Write, WriteFails, Rename, RenameFails, Remove, RemoveFails, Move,
         MoveFails, RemoveTemp, Install, Exit, Expect
<1>3. ASSUME NEW q \in Procs \ {p} PROVE tmp'[q] = tmp[q]
  BY <1>3 DEF TypeOK, Start, Step, Close, Kill, Put, LoadFromDisk, LoadFails, Serve, CreateFails,
         CreateTemp, Write, WriteFails, Rename, RenameFails, Remove, RemoveFails, Move,
         MoveFails, RemoveTemp, Install, Exit
<1>4. ASSUME NEW q \in Procs \ {p} PROVE pc'[q] = pc[q]
  BY <1>4 DEF TypeOK, Start, Step, Close, Kill, Put, LoadFromDisk, LoadFails, Serve, CreateFails,
         CreateTemp, Write, WriteFails, Rename, RenameFails, Remove, RemoveFails, Move,
         MoveFails, RemoveTemp, Install, Exit, Go
<1> QED
  BY <1>1, <1>2, <1>3, <1>4 DEF Untouched, Saving

\* A process's own step keeps what it has as expected.
LEMMA OwnAsExpected ==
  ASSUME TypeOK, NEW p \in Procs, AsExpected(p),
         Start(p) \/ Step(p) \/ Close(p) \/ Kill(p)
           \/ \E key \in Keys, len \in BodyLens : Put(p, key, len)
  PROVE  AsExpected(p)'
<1> USE DEF TypeOK, Go
<1>1. CASE Start(p) \/ LoadFails(p) \/ Serve(p) \/ Close(p) \/ RenameFails(p) \/ Remove(p)
  <2>1. UNCHANGED <<cache, expected, tmp>> /\ (p \in Saving' => p \in Saving)
    BY <1>1 DEF Start, LoadFails, Serve, Close, RenameFails, Remove, Saving
  <2> QED
    BY <2>1 DEF AsExpected
<1>2. CASE LoadFromDisk(p)
  <2>1. PICK saved \in Maps, c \in CacheType(Keys, Entry) :
           /\ cache' = [cache EXCEPT ![p] = c]
           /\ Expect(p, saved)
           /\ ~Exceeds(BytesHeld(saved, Keys), limit[p]) =>
                c = [entries |-> saved, size |-> BytesHeld(saved, Keys)]
    BY <1>2, Loaded
  <2>2. p \notin Saving'
    BY <1>2 DEF LoadFromDisk, Saving
  <2>3. cache'[p] = c
    BY <2>1
  <2>4. expected'[p] # Absent =>
          expected'[p] = saved /\ ~Exceeds(BytesHeld(saved, Keys), limit[p])
    BY <2>1 DEF Expect
  <2> QED
    BY <2>1, <2>2, <2>3, <2>4 DEF AsExpected
<1>3. ASSUME NEW key \in Keys, NEW len \in BodyLens, Put(p, key, len)
      PROVE  AsExpected(p)'
  <2>1. p \notin Saving'
    BY <1>3 DEF Put, Saving
  <2>2. expected'[p] # Absent =>
          cache'[p] = [entries |-> expected'[p], size |-> BytesHeld(expected'[p], Keys)]
    BY <1>3, PutAsExpected
  <2> QED
    BY <2>1, <2>2 DEF AsExpected
<1>4. CASE CreateTemp(p)
  <2>1. /\ tmp'[p].version = 1 /\ tmp'[p].entries = cache[p].entries
        /\ UNCHANGED <<cache, expected>>
    BY <1>4 DEF CreateTemp
  <2> QED
    BY <2>1 DEF AsExpected
<1>5. CASE Write(p)
  <2>1. p \in Saving /\ tmp[p] \in Snapshot /\ tmp' = [tmp EXCEPT ![p] = [tmp[p] EXCEPT !.whole = TRUE]]
        /\ UNCHANGED <<cache, expected>>
    BY <1>5 DEF Write, Saving
  <2>2. tmp'[p].version = tmp[p].version /\ tmp'[p].entries = tmp[p].entries
    BY <2>1 DEF Snapshot
  <2> QED
    BY <2>1, <2>2 DEF AsExpected
<1>6. CASE \/ CreateFails(p) \/ WriteFails(p) \/ RemoveFails(p) \/ MoveFails(p)
           \/ Rename(p) \/ Move(p) \/ Kill(p)
  <2>1. Exit(p)
    BY <1>6 DEF CreateFails, WriteFails, RemoveFails, MoveFails, RemoveTemp, Rename, Move,
                Install, Kill
  <2>2. p \notin Saving' /\ cache'[p] = Empty /\ expected'[p] = Empty.entries
    BY <2>1 DEF Exit, Saving
  <2> QED
    BY <2>2, EmptyHolds DEF AsExpected
<1> QED
  BY <1>1, <1>2, <1>3, <1>4, <1>5, <1>6 DEF Step

\* Whoever gets a snapshot in place has written into it all that it restored and put,
\* if that fitted its limit, whatever other processes do, fail at or are killed in; and
\* a snapshot is removed only when a complete one is ready (cache.go:115-152).
THEOREM SnapshotsAreComplete == Spec => PersistedKept
<1> DEFINE Inv == \A p \in Procs : AsExpected(p)
<1>1. Init => Inv
  BY EmptyHolds DEF Init, AsExpected, Saving
<1>2. ASSUME TypeOK, Inv, [Next]_vars PROVE Inv'
  <2>1. CASE UNCHANGED vars
    BY <1>2, <2>1 DEF vars, AsExpected, Saving
  <2>2. CASE Next
    <3>1. PICK p \in Procs : Start(p) \/ Step(p) \/ Close(p) \/ Kill(p)
            \/ \E key \in Keys, len \in BodyLens : Put(p, key, len)
      BY <2>2, Zenon DEF Next
    <3>2. AsExpected(p)'
      BY <1>2, <3>1, OwnAsExpected
    <3>3. Untouched(p)
      BY <1>2, <3>1, OthersUntouched
    <3>4. ASSUME NEW q \in Procs \ {p} PROVE AsExpected(q)'
      BY <1>2, <3>3, <3>4 DEF Untouched, AsExpected
    <3> QED
      BY <3>2, <3>4
  <2> QED
    BY <1>2, <2>1, <2>2
<1> DEFINE Kept ==
      /\ \A p \in Procs :
           (Rename(p) \/ Move(p)) /\ expected[p] # Absent =>
             file' = [version |-> 1, whole |-> TRUE, entries |-> expected[p]]
      /\ file # Absent /\ file' = Absent =>
           \E p \in Procs : pc'[p] = "moving" /\ tmp'[p] # Absent /\ tmp'[p].whole
<1>3. ASSUME TypeOK, Inv, [Next]_vars PROVE Kept
  <2>1. ASSUME NEW p \in Procs, Rename(p) \/ Move(p), expected[p] # Absent
        PROVE  file' = [version |-> 1, whole |-> TRUE, entries |-> expected[p]]
    <3>1. file' = tmp[p] /\ p \in Saving /\ tmp[p] # Absent /\ tmp[p].whole
      BY <1>3, <2>1 DEF Rename, Move, Install, Saving, TypeOK
    <3>2. tmp[p] \in Snapshot
      BY <1>3, <3>1 DEF TypeOK
    <3>3. tmp[p].version = 1 /\ tmp[p].entries = expected[p]
      BY <1>3, <2>1, <3>1 DEF AsExpected
    <3> QED
      BY <3>1, <3>2, <3>3 DEF Snapshot
  <2>2. ASSUME file # Absent, file' = Absent
        PROVE  \E p \in Procs : pc'[p] = "moving" /\ tmp'[p] # Absent /\ tmp'[p].whole
    <3>1. ~UNCHANGED file
      BY <2>2
    <3>2. PICK p \in Procs : Rename(p) \/ Move(p) \/ Remove(p)
      BY <1>3, <3>1
      DEF Next, Step, Start, LoadFromDisk, LoadFails, Serve, Close, Put, CreateFails,
          CreateTemp, Write, WriteFails, RemoveTemp, RenameFails, RemoveFails, MoveFails,
          Kill, vars
    <3>3. ~(Rename(p) \/ Move(p))
      BY <1>3, <2>2 DEF Rename, Move, Install, TypeOK
    <3> QED
      BY <1>3, <3>2, <3>3 DEF Remove, Go, TypeOK
  <2> QED
    BY <2>1, <2>2
<1>4. TypeOK /\ Inv /\ [Next]_vars => [Kept]_vars
  BY <1>3
<1> HIDE DEF Kept, Inv
<1>5. Spec => [][Kept]_vars
  BY <1>1, <1>2, <1>4, TypeCorrect, PTL DEF Spec
<1> QED
  BY <1>5 DEF PersistedKept, Kept
=============================================================================
