--------------------------- MODULE StaleReads_proof --------------------------
(***************************************************************************)
(* CachingTransport implements StaleReads, its revalidated answers are     *)
(* current and its validators are not newer than their bodies, for any     *)
(* number of workers, URLs, versions and limits, as long as no three       *)
(* requests for one URL are handled at once and every TTL is longer than   *)
(* the request timeout.  With three, none of this holds (the runs'         *)
(* ConfirmedIsCurrent counterexample).                                     *)
(***************************************************************************)
EXTENDS CachingTransport_proof, ServerLives

\* A worker in the middle of RoundTrip.
Busy(w) == pc[w] \notin {"idle", "done"}

\* At most two requests for one URL are handled at a time.
NoThreeOverlap ==
  \A a, b, c \in Workers :
    /\ Busy(a) /\ Busy(b) /\ Busy(c)
    /\ req[a].url = req[b].url /\ req[b].url = req[c].url
    => a = b \/ b = c \/ a = c

\* An entry that is not fresh was stamped before any request under way began
\* (http.go:15-21 and the default of TCG_API_TIMEOUT, config.go:35).
TTLsExceedTimeout ==
  \A url \in URLs : ttlForPath(url.path) > 0 => ttlForPath(url.path) > Timeout

\* No endpoint is cached for longer than openapi/tcgtracking-openapi.yaml says.
TTLsPromised == \A url \in URLs : ttlForPath(url.path) <= PromisedTTL[url]

-----------------------------------------------------------------------------
(* The inductive invariant. *)

EntryOf(w) == cache.entries[KeyOf(w)]

\* The version a worker is about to put in the cache or to answer with, once it
\* has a body.
Carries(w) == pc[w] = "merge" \/ (pc[w] = "replied" /\ resp[w].status = "200")
CarriedVer(w) == IF pc[w] = "merge" THEN held[w].data.ver ELSE resp[w].data.ver

\* No validator the worker sent is newer than version v.
SentUpTo(w, v) == cond[w].IfNoneMatch <= v /\ cond[w].IfModifiedSince <= v

\* The version a 304 confirms: If-None-Match, or else If-Modified-Since.
Confirmed(w) ==
  IF cond[w].IfNoneMatch # 0 THEN cond[w].IfNoneMatch ELSE cond[w].IfModifiedSince

\* Version v of url was the upstream's at time t or later.
CurrentSince(url, v, t) == Superseded(url, v) => t <= SupersededAt(url, v)

\* Versions replace each other in time.
Chronicle ==
  \A url \in URLs :
    /\ \A i \in 1..Current(url) : published[url][i] <= now
    /\ \A i, j \in 1..Current(url) : i <= j => published[url][i] <= published[url][j]

RequestOf(w) ==
  /\ pc[w] = "idle" => req[w] = NoRequest
  /\ pc[w] \in {"idle", "validators"} => cond[w] = NoHeaders
  /\ pc[w] # "idle" => req[w].start <= now /\ now <= req[w].start + Timeout

\* An entry's validators are not newer than its body, which was the upstream's at
\* most one timeout before the entry was stamped.
SoundEntry(url, entry) ==
  /\ entry.data.ver <= Current(url)
  /\ entry.ETag <= entry.data.ver
  /\ entry.LastModified <= entry.data.ver
  /\ entry.FetchedAt <= now
  /\ Superseded(url, entry.data.ver) =>
       entry.FetchedAt <= SupersededAt(url, entry.data.ver) + Timeout

SoundEntries ==
  \A url \in URLs : LET entry == cache.entries[requestCacheKey(url)]
                    IN  entry # NoEntry => SoundEntry(url, entry)

\* What a worker carries was current after its request began, and an entry that
\* was stamped before the request is not newer.
CarriedBy(w) ==
  Carries(w) =>
    /\ CarriedVer(w) <= Current(req[w].url)
    /\ CurrentSince(req[w].url, CarriedVer(w), req[w].start)
    /\ resp[w].ETag <= CarriedVer(w)
    /\ resp[w].LastModified <= CarriedVer(w)
    /\ pc[w] = "merge" => /\ held[w].ETag <= CarriedVer(w)
                          /\ held[w].LastModified <= CarriedVer(w)
    /\ EntryOf(w) # NoEntry /\ EntryOf(w).FetchedAt < req[w].start =>
         EntryOf(w).data.ver <= CarriedVer(w)

\* The entry whose validators a worker sent is still there, or one as new, or
\* none; a 304 confirms a version that was current after the request began.
AskedBy(w) ==
  /\ pc[w] \in {"sent", "replied"} =>
       /\ SentUpTo(w, Current(req[w].url))
       /\ EntryOf(w) # NoEntry => SentUpTo(w, EntryOf(w).data.ver)
  /\ pc[w] = "replied" /\ resp[w].status = "304" =>
       /\ Confirmed(w) > 0
       /\ CurrentSince(req[w].url, Confirmed(w), req[w].start)
       /\ resp[w].ETag <= Confirmed(w)
       /\ resp[w].LastModified <= Confirmed(w)

\* The other request b for the same URL carries nothing older than what a will
\* read as validators, or has sent.
Paired(a, b) ==
  a # b /\ Busy(a) /\ Carries(b) /\ req[a].url = req[b].url =>
    /\ pc[a] = "validators" /\ EntryOf(a) # NoEntry => EntryOf(a).data.ver <= CarriedVer(b)
    /\ pc[a] \in {"sent", "replied"} => SentUpTo(a, CarriedVer(b))

ReadsInv ==
  /\ Chronicle
  /\ SoundEntries
  /\ \A w \in Workers : RequestOf(w) /\ CarriedBy(w) /\ AskedBy(w)
  /\ \A a, b \in Workers : Paired(a, b)

-----------------------------------------------------------------------------
(* What TypeOK says of the numbers above. *)

LEMMA TimeFacts ==
  ASSUME TypeOK
  PROVE  /\ now \in Nat /\ Timeout \in Nat /\ Timeout > 0
         /\ \A url \in URLs : /\ Current(url) \in Nat \ {0}
                              /\ \A i \in 1..Current(url) : published[url][i] \in Nat
<1>1. now \in Nat /\ Timeout \in Nat /\ Timeout > 0
  BY TransportAssumption DEF TypeOK
<1>2. ASSUME NEW url \in URLs
      PROVE  /\ Current(url) \in Nat \ {0}
             /\ \A i \in 1..Current(url) : published[url][i] \in Nat
  <2>1. published[url] \in Seq(0..MaxTime) /\ Current(url) = Len(published[url])
    BY DEF TypeOK, Current
  <2>2. Current(url) \in 1..MaxVersion
    BY CurrentOK
  <2>3. \A i \in 1..Len(published[url]) : published[url][i] \in 0..MaxTime
    BY <2>1, ElementOfSeq
  <2>4. \A i \in 1..Len(published[url]) : published[url][i] \in Nat
    BY <2>3
  <2>5. Current(url) \in Nat \ {0}
    BY <2>2, TransportAssumption
  <2> QED
    BY <2>1, <2>4, <2>5
<1> QED
  BY <1>1, <1>2

LEMMA EntryFacts ==
  ASSUME NEW entry \in Entry
  PROVE  /\ entry.data \in Body /\ entry.data.ver \in Nat \ {0} /\ entry.data.url \in URLs
         /\ entry.ETag \in Nat /\ entry.LastModified \in Nat
         /\ entry.FetchedAt \in Nat /\ entry.TTL \in Nat
<1>1. /\ entry.data \in Body /\ entry.ETag \in 0..MaxVersion
      /\ entry.LastModified \in 0..MaxVersion
      /\ entry.FetchedAt \in 0..MaxTime /\ entry.TTL \in Nat
  BY DEF Entry, Validator
<1>2. entry.data.ver \in 1..MaxVersion /\ entry.data.url \in URLs
  BY <1>1 DEF Body
<1> QED
  BY <1>1, <1>2, TransportAssumption

LEMMA CachedFacts ==
  ASSUME TypeOK, NEW url \in URLs
  PROVE  /\ requestCacheKey(url) \in Keys
         /\ cache.entries[requestCacheKey(url)] \in Entry \cup {NoEntry}
BY DEF TypeOK, Keys

LEMMA WorkerFacts ==
  ASSUME TypeOK, NEW w \in Workers
  PROVE  /\ cond[w].IfNoneMatch \in Nat /\ cond[w].IfModifiedSince \in Nat
         /\ resp[w].ETag \in Nat /\ resp[w].LastModified \in Nat
         /\ pc[w] # "idle" => /\ req[w].url \in URLs /\ req[w].start \in Nat
                              /\ KeyOf(w) = requestCacheKey(req[w].url)
                              /\ EntryOf(w) \in Entry \cup {NoEntry}
         /\ pc[w] = "merge" => held[w] \in Entry
         /\ Carries(w) => CarriedVer(w) \in Nat \ {0}
<1>1. /\ cond[w] \in [IfNoneMatch : Validator, IfModifiedSince : Validator]
      /\ resp[w] \in Responses
  BY DEF TypeOK, Responses
<1>2. /\ cond[w].IfNoneMatch \in Nat /\ cond[w].IfModifiedSince \in Nat
      /\ resp[w].ETag \in Nat /\ resp[w].LastModified \in Nat
  BY <1>1, TransportAssumption DEF Validator, Responses
<1>3. pc[w] # "idle" => /\ req[w].url \in URLs /\ req[w].start \in Nat
                        /\ KeyOf(w) = requestCacheKey(req[w].url)
                        /\ EntryOf(w) \in Entry \cup {NoEntry}
  <2> SUFFICES ASSUME pc[w] # "idle"
               PROVE  /\ req[w].url \in URLs /\ req[w].start \in Nat
                      /\ KeyOf(w) = requestCacheKey(req[w].url)
                      /\ EntryOf(w) \in Entry \cup {NoEntry}
    OBVIOUS
  <2>1. req[w] \in Request /\ req[w].url \in URLs
    BY KeyOfOK
  <2>2. req[w].start \in 0..MaxTime
    BY <2>1 DEF Request
  <2> QED
    BY <2>1, <2>2, CachedFacts, TransportAssumption DEF KeyOf, EntryOf
<1>4. pc[w] = "merge" => held[w] \in Entry
  BY DEF TypeOK
<1>5. Carries(w) => CarriedVer(w) \in Nat \ {0}
  <2>1. resp[w].status = "200" => resp[w].data \in Body
    BY <1>1 DEF TypeOK, Responses
  <2>2. \A body \in Body : body.ver \in Nat \ {0}
    BY TransportAssumption DEF Body
  <2>3. pc[w] = "merge" => held[w].data.ver \in Nat \ {0}
    BY <1>4, EntryFacts
  <2> QED
    BY <2>1, <2>2, <2>3 DEF Carries, CarriedVer
<1> QED
  BY <1>2, <1>3, <1>4, <1>5

\* A later version was current at least as late.
LEMMA SinceMonotone ==
  ASSUME TypeOK, Chronicle, NEW url \in URLs, NEW v \in Nat \ {0}, NEW u \in Nat, v <= u,
         NEW t \in Nat, CurrentSince(url, v, t)
  PROVE  CurrentSince(url, u, t)
<1> SUFFICES ASSUME Superseded(url, u) PROVE t <= SupersededAt(url, u)
  BY DEF CurrentSince
<1>1. Current(url) \in Nat /\ v < Current(url) /\ u < Current(url)
  BY TimeFacts DEF Superseded
<1>2. v + 1 \in 1..Current(url) /\ u + 1 \in 1..Current(url) /\ v + 1 <= u + 1
  BY <1>1
<1>3. published[url][v + 1] <= published[url][u + 1]
  BY <1>2 DEF Chronicle
<1>4. published[url][v + 1] \in Nat /\ published[url][u + 1] \in Nat
  BY <1>2, TimeFacts
<1>5. t <= published[url][v + 1]
  BY <1>1 DEF CurrentSince, Superseded, SupersededAt
<1> QED
  BY <1>3, <1>4, <1>5 DEF SupersededAt

-----------------------------------------------------------------------------
(* The steps. *)

\* A step of one worker that leaves the cache and the upstream alone keeps the
\* invariant if it keeps what the invariant says of that worker.
LEMMA LocalStep ==
  ASSUME TypeOK, ReadsInv, NEW w \in Workers,
         cache' = cache, published' = published, now' = now,
         \A v \in Workers \ {w} : /\ pc'[v] = pc[v] /\ req'[v] = req[v] /\ cond'[v] = cond[v]
                                  /\ held'[v] = held[v] /\ resp'[v] = resp[v],
         RequestOf(w)', CarriedBy(w)', AskedBy(w)',
         \A v \in Workers \ {w} : Paired(w, v)' /\ Paired(v, w)'
  PROVE  ReadsInv'
<1>1. Chronicle'
  BY DEF ReadsInv, Chronicle, Current
<1>2. SoundEntries'
  BY DEF ReadsInv, SoundEntries, SoundEntry, Superseded, SupersededAt, Current
<1>3. ASSUME NEW v \in Workers \ {w}
      PROVE  RequestOf(v)' /\ CarriedBy(v)' /\ AskedBy(v)'
  <2>1. RequestOf(v) /\ CarriedBy(v) /\ AskedBy(v)
    BY DEF ReadsInv
  <2>2. RequestOf(v)'
    BY <2>1 DEF RequestOf
  <2>3. CarriedBy(v)'
    BY <2>1 DEF CarriedBy, Carries, CarriedVer, EntryOf, KeyOf, CurrentSince, Superseded,
                SupersededAt, Current
  <2>4. AskedBy(v)'
    BY <2>1 DEF AskedBy, SentUpTo, Confirmed, EntryOf, KeyOf, CurrentSince, Superseded,
                SupersededAt, Current
  <2> QED
    BY <2>2, <2>3, <2>4
<1>4. ASSUME NEW a \in Workers \ {w}, NEW b \in Workers \ {w}
      PROVE  Paired(a, b)'
  <2>1. Paired(a, b)
    BY DEF ReadsInv
  <2> QED
    BY <2>1 DEF Paired, Busy, Carries, CarriedVer, SentUpTo, EntryOf, KeyOf
<1>5. Paired(w, w)'
  BY DEF Paired
<1>6. \A a, b \in Workers : Paired(a, b)'
  BY <1>4, <1>5
<1> QED
  BY <1>1, <1>2, <1>3, <1>6 DEF ReadsInv

\* One that ends with the worker answered, or idle, keeps the invariant.
LEMMA EndingStep ==
  ASSUME TypeOK, ReadsInv, NEW w \in Workers,
         cache' = cache, published' = published, now' = now,
         \A v \in Workers \ {w} : /\ pc'[v] = pc[v] /\ req'[v] = req[v] /\ cond'[v] = cond[v]
                                  /\ held'[v] = held[v] /\ resp'[v] = resp[v],
         ~Busy(w)', RequestOf(w)'
  PROVE  ReadsInv'
<1>1. CarriedBy(w)' /\ AskedBy(w)'
  BY DEF Busy, CarriedBy, Carries, AskedBy
<1>2. \A v \in Workers : Paired(w, v)' /\ Paired(v, w)'
  BY DEF Busy, Paired, Carries
<1> QED
  BY <1>1, <1>2, LocalStep

\* A request that was not answered fresh: what another worker carries for the same
\* URL is not older than the entry, which was stamped before that worker began.
LEMMA MissStep ==
  ASSUME TTLsExceedTimeout, TypeOK, OwnEntries(cache), ReadsInv,
         NEW w \in Workers, NEW url \in URLs, MissLookup(w, url)
  PROVE  ReadsInv'
<1>1. /\ pc[w] = "idle" /\ req'[w] = [url |-> url, start |-> now]
      /\ pc'[w] = IF ttlForPath(url.path) > 0 THEN "validators" ELSE "sent"
      /\ cond'[w] = NoHeaders
      /\ UNCHANGED <<now, published, cache, cond, held, resp>>
      /\ \A v \in Workers \ {w} : pc'[v] = pc[v] /\ req'[v] = req[v]
  BY DEF MissLookup, TypeOK, ReadsInv, RequestOf
<1>2. now \in Nat /\ Timeout \in Nat /\ Current(url) \in Nat
  BY TimeFacts
<1> DEFINE entry == cache.entries[requestCacheKey(url)]
<1>3. entry \in Entry \cup {NoEntry} /\ (entry # NoEntry => entry.data.ver \in Nat)
  BY CachedFacts, EntryFacts
<1>4. KeyOf(w)' = requestCacheKey(url) /\ EntryOf(w)' = entry
  BY <1>1 DEF KeyOf, EntryOf
<1>5. RequestOf(w)'
  BY <1>1, <1>2 DEF RequestOf
<1>6. CarriedBy(w)' /\ ~Carries(w)'
  BY <1>1 DEF CarriedBy, Carries
<1>7. \A v \in Nat : SentUpTo(w, v)'
  BY <1>1 DEF SentUpTo, NoHeaders
<1>8. AskedBy(w)'
  <2>1. Current(req[w].url)' = Current(url)
    BY <1>1 DEF Current
  <2> HIDE DEF entry
  <2> QED
    BY <1>1, <1>2, <1>3, <1>4, <1>7, <2>1 DEF AskedBy, SentUpTo, NoHeaders
<1>9. ASSUME NEW v \in Workers \ {w} PROVE Paired(w, v)'
  <2> SUFFICES ASSUME Carries(v)', req'[w].url = req'[v].url
               PROVE  /\ pc'[w] = "validators" /\ entry # NoEntry => entry.data.ver <= CarriedVer(v)
                      /\ SentUpTo(w, CarriedVer(v))'
    BY <1>1, <1>4 DEF Paired, CarriedVer
  <2>1. /\ Carries(v) /\ req[v].url = url /\ pc[v] # "idle"
        /\ CarriedVer(v) = CarriedVer(v)'
    BY <1>1 DEF Carries, CarriedVer
  <2>2. CarriedVer(v) \in Nat /\ req[v].start \in Nat /\ EntryOf(v) = entry
    BY <2>1, WorkerFacts DEF EntryOf
  <2>3. SentUpTo(w, CarriedVer(v))'
    BY <1>1, <2>1, <2>2 DEF SentUpTo, NoHeaders
  <2>4. ASSUME pc'[w] = "validators", entry # NoEntry
        PROVE  entry.data.ver <= CarriedVer(v)
    <3>1. ttlForPath(url.path) > Timeout /\ entry.TTL = ttlForPath(url.path)
      BY <1>1, <2>4 DEF TTLsExceedTimeout, OwnEntries
    <3>2. entry.TTL \in Nat /\ entry.FetchedAt \in Nat
      BY <1>3, <2>4, EntryFacts
    <3>3. ~lookupFresh(requestCacheKey(url))
      BY <1>1, <2>4 DEF MissLookup
    <3>4. now - entry.FetchedAt >= entry.TTL
      <4> HIDE DEF entry
      <4>1. ~(entry # NoEntry /\ entry.TTL > 0 /\ now - entry.FetchedAt < entry.TTL)
        BY <3>3 DEF lookupFresh, entry
      <4> QED
        BY <1>2, <2>4, <3>1, <3>2, <4>1
    <3>5. now <= req[v].start + Timeout
      BY <2>1 DEF ReadsInv, RequestOf
    <3>6. entry.FetchedAt < req[v].start
      <4> HIDE DEF entry
      <4> QED
        BY <1>2, <2>2, <3>1, <3>2, <3>4, <3>5
    <3> QED
      BY <2>1, <2>2, <2>4, <3>6 DEF ReadsInv, CarriedBy
  <2> QED
    BY <2>3, <2>4
<1>10. \A v \in Workers \ {w} : Paired(v, w)'
  BY <1>6 DEF Paired
<1> QED
  BY <1>1, <1>5, <1>6, <1>8, <1>9, <1>10, LocalStep

\* The validators read are those of an entry no newer than its body, and what the
\* other worker carries is at least as new.
LEMMA ValidatorsStep ==
  ASSUME TypeOK, ReadsInv, NEW w \in Workers, ReadValidators(w)
  PROVE  ReadsInv'
<1> DEFINE entry == EntryOf(w)
           url == req[w].url
<1>1. /\ pc[w] = "validators" /\ pc'[w] = "sent"
      /\ UNCHANGED <<now, published, cache, req, held, resp>>
      /\ cond'[w] = IF entry = NoEntry THEN NoHeaders
                    ELSE [IfNoneMatch |-> entry.ETag, IfModifiedSince |-> entry.LastModified]
      /\ \A v \in Workers \ {w} : pc'[v] = pc[v] /\ cond'[v] = cond[v]
  BY DEF ReadValidators, TypeOK, EntryOf
<1>2. /\ url \in URLs /\ entry \in Entry \cup {NoEntry} /\ entry = cache.entries[requestCacheKey(url)]
      /\ Current(url) \in Nat
  BY <1>1, WorkerFacts, TimeFacts DEF EntryOf
<1>3. entry # NoEntry => /\ entry.data.ver \in Nat /\ entry.data.ver <= Current(url)
                         /\ entry.ETag \in Nat /\ entry.ETag <= entry.data.ver
                         /\ entry.LastModified \in Nat /\ entry.LastModified <= entry.data.ver
  BY <1>2, EntryFacts DEF ReadsInv, SoundEntries, SoundEntry
<1>4. \A n \in Nat : (entry # NoEntry => entry.data.ver <= n) =>
        cond'[w].IfNoneMatch <= n /\ cond'[w].IfModifiedSince <= n
  <2> HIDE DEF entry
  <2> QED
    BY <1>1, <1>3 DEF NoHeaders
<1>5. RequestOf(w)'
  BY <1>1 DEF ReadsInv, RequestOf
<1>6. CarriedBy(w)' /\ ~Carries(w)'
  BY <1>1 DEF CarriedBy, Carries
<1>7. EntryOf(w)' = entry /\ Current(req[w].url)' = Current(url)
  BY <1>1 DEF EntryOf, KeyOf, Current
<1>8. AskedBy(w)'
  <2> HIDE DEF entry, url
  <2>1. SentUpTo(w, Current(req[w].url))'
    BY <1>2, <1>3, <1>4, <1>7 DEF SentUpTo
  <2>2. EntryOf(w)' # NoEntry => SentUpTo(w, EntryOf(w).data.ver)'
    BY <1>2, <1>3, <1>4, <1>7 DEF SentUpTo
  <2> QED
    BY <1>1, <2>1, <2>2 DEF AskedBy
<1>9. ASSUME NEW v \in Workers \ {w} PROVE Paired(w, v)'
  <2> SUFFICES ASSUME Carries(v)', req'[w].url = req'[v].url PROVE SentUpTo(w, CarriedVer(v))'
    BY <1>1 DEF Paired
  <2>1. Carries(v) /\ CarriedVer(v)' = CarriedVer(v) /\ CarriedVer(v) \in Nat
    BY <1>1, WorkerFacts DEF Carries, CarriedVer
  <2>2. Paired(w, v) /\ Busy(w) /\ req[w].url = req[v].url
    BY <1>1 DEF ReadsInv, Busy
  <2>3. entry # NoEntry => entry.data.ver <= CarriedVer(v)
    BY <1>1, <2>1, <2>2 DEF Paired
  <2> QED
    BY <1>4, <2>1, <2>3 DEF SentUpTo
<1>10. \A v \in Workers \ {w} : Paired(v, w)'
  BY <1>6 DEF Paired
<1> QED
  BY <1>1, <1>5, <1>6, <1>8, <1>9, <1>10, LocalStep

\* What two workers of one URL share: the key, and so the entry.
LEMMA SameEntry ==
  ASSUME TypeOK, NEW v \in Workers, NEW w \in Workers, pc[v] # "idle", pc[w] # "idle"
  PROVE  /\ req[v].url = req[w].url => KeyOf(v) = KeyOf(w) /\ EntryOf(v) = EntryOf(w)
         /\ KeyOf(v) = KeyOf(w) => req[v].url = req[w].url
BY WorkerFacts, KeyInjective DEF EntryOf

\* The upstream answers with its current version: nothing that is cached, carried
\* or sent is newer.
LEMMA BodyStep ==
  ASSUME TypeOK, ReadsInv, NEW w \in Workers, UpstreamOK(w)
  PROVE  ReadsInv'
<1> DEFINE url == req[w].url
<1>1. /\ pc[w] = "sent" /\ pc'[w] = "replied" /\ resp'[w].status = "200"
      /\ resp'[w].data.ver = Current(url)
      /\ resp'[w].ETag \in {0, Current(url)} /\ resp'[w].LastModified \in {0, Current(url)}
      /\ UNCHANGED <<now, published, cache, req, cond, held>>
      /\ \A v \in Workers \ {w} : pc'[v] = pc[v] /\ resp'[v] = resp[v]
  BY DEF UpstreamOK, Reply, Response, Header, TypeOK
<1>2. /\ url \in URLs /\ Current(url) \in Nat \ {0} /\ EntryOf(w) \in Entry \cup {NoEntry}
      /\ EntryOf(w) = cache.entries[requestCacheKey(url)]
  BY <1>1, WorkerFacts, TimeFacts DEF EntryOf
<1>3. EntryOf(w) # NoEntry => EntryOf(w).data.ver <= Current(url)
  BY <1>2 DEF ReadsInv, SoundEntries, SoundEntry
<1>4. /\ \A v \in Workers : EntryOf(v)' = EntryOf(v) /\ KeyOf(v)' = KeyOf(v)
      /\ Current(url)' = Current(url) /\ Carries(w)' /\ CarriedVer(w)' = Current(url)
      /\ req'[w].url = url
  BY <1>1 DEF EntryOf, KeyOf, Current, Carries, CarriedVer
<1>5. RequestOf(w)'
  BY <1>1 DEF ReadsInv, RequestOf
<1>6. CarriedBy(w)'
  <2>1. CurrentSince(req[w].url, CarriedVer(w), req[w].start)'
    BY <1>1, <1>2, <1>4 DEF CurrentSince, Superseded
  <2>2. Current(req[w].url)' = Current(url)
    BY <1>1, <1>4
  <2> HIDE DEF url
  <2> QED
    BY <1>1, <1>2, <1>3, <1>4, <2>1, <2>2 DEF CarriedBy
<1>7. AskedBy(w)'
  BY <1>1, <1>4 DEF ReadsInv, AskedBy, SentUpTo
<1>8. ASSUME NEW v \in Workers \ {w} PROVE Paired(w, v)'
  <2>1. Paired(w, v)
    BY DEF ReadsInv
  <2> QED
    BY <1>1, <1>4, <2>1 DEF Paired, Busy, Carries, CarriedVer, SentUpTo
<1>9. ASSUME NEW v \in Workers \ {w} PROVE Paired(v, w)'
  <2> SUFFICES ASSUME Busy(v), req[v].url = url
               PROVE  /\ EntryOf(v) # NoEntry => EntryOf(v).data.ver <= Current(url)
                      /\ pc[v] \in {"sent", "replied"} => SentUpTo(v, Current(url))
    BY <1>1, <1>4 DEF Paired, Busy, SentUpTo
  <2>1. EntryOf(v) = EntryOf(w)
    BY <1>1, SameEntry DEF Busy
  <2>2. pc[v] \in {"sent", "replied"} => SentUpTo(v, Current(url))
    BY DEF ReadsInv, AskedBy
  <2> QED
    BY <1>3, <2>1, <2>2
<1> QED
  BY <1>1, <1>5, <1>6, <1>7, <1>8, <1>9, LocalStep

\* A 304 confirms the version whose validator was sent, which is the current one.
LEMMA NotModifiedStep ==
  ASSUME TypeOK, ReadsInv, NEW w \in Workers, UpstreamNotModified(w)
  PROVE  ReadsInv'
<1> DEFINE url == req[w].url
<1>1. /\ pc[w] = "sent" /\ pc'[w] = "replied" /\ resp'[w].status = "304"
      /\ resp'[w].ETag \in {0, Current(url)} /\ resp'[w].LastModified \in {0, Current(url)}
      /\ UNCHANGED <<now, published, cache, req, cond, held>>
      /\ \A v \in Workers \ {w} : pc'[v] = pc[v] /\ resp'[v] = resp[v]
  BY DEF UpstreamNotModified, Reply, Response, Header, TypeOK
<1>2. Current(url) \in Nat \ {0}
  BY <1>1, WorkerFacts, TimeFacts
<1>3. Confirmed(w) = Current(url)
  BY <1>1 DEF UpstreamNotModified, Matches, Confirmed
<1>4. /\ EntryOf(w)' = EntryOf(w) /\ KeyOf(w)' = KeyOf(w)
      /\ Current(url)' = Current(url) /\ req'[w] = req[w]
      /\ Confirmed(w)' = Confirmed(w)
  BY <1>1 DEF EntryOf, KeyOf, Current, Confirmed
<1>5. RequestOf(w)'
  BY <1>1 DEF ReadsInv, RequestOf
<1>6. CarriedBy(w)' /\ ~Carries(w)'
  BY <1>1 DEF CarriedBy, Carries
<1>7. AskedBy(w)'
  <2>1. CurrentSince(req[w].url, Confirmed(w), req[w].start)'
    BY <1>1, <1>2, <1>3, <1>4 DEF CurrentSince, Superseded
  <2>2. AskedBy(w)
    BY DEF ReadsInv
  <2> QED
    BY <1>1, <1>2, <1>3, <1>4, <2>1, <2>2 DEF AskedBy, SentUpTo
<1>8. ASSUME NEW v \in Workers \ {w} PROVE Paired(w, v)' /\ Paired(v, w)'
  <2>1. Paired(w, v)
    BY DEF ReadsInv
  <2> QED
    BY <1>1, <1>4, <1>6, <2>1 DEF Paired, Busy, Carries, CarriedVer, SentUpTo
<1> QED
  BY <1>1, <1>5, <1>6, <1>7, <1>8, LocalStep

\* Any other status confirms nothing and carries nothing.
LEMMA OtherStep ==
  ASSUME TypeOK, ReadsInv, NEW w \in Workers, UpstreamOther(w)
  PROVE  ReadsInv'
<1>1. /\ pc[w] = "sent" /\ pc'[w] = "replied" /\ resp'[w].status = "other"
      /\ UNCHANGED <<now, published, cache, req, cond, held>>
      /\ \A v \in Workers \ {w} : pc'[v] = pc[v] /\ resp'[v] = resp[v]
  BY DEF UpstreamOther, Reply, Response, TypeOK
<1>2. EntryOf(w)' = EntryOf(w) /\ Current(req[w].url)' = Current(req[w].url)
  BY <1>1 DEF EntryOf, KeyOf, Current
<1>3. RequestOf(w)'
  BY <1>1 DEF ReadsInv, RequestOf
<1>4. CarriedBy(w)' /\ ~Carries(w)'
  BY <1>1 DEF CarriedBy, Carries
<1>5. AskedBy(w)'
  BY <1>1, <1>2 DEF ReadsInv, AskedBy, SentUpTo
<1>6. ASSUME NEW v \in Workers \ {w} PROVE Paired(w, v)' /\ Paired(v, w)'
  <2>1. Paired(w, v)
    BY DEF ReadsInv
  <2> QED
    BY <1>1, <1>2, <1>4, <2>1 DEF Paired, Busy, Carries, CarriedVer, SentUpTo
<1> QED
  BY <1>1, <1>3, <1>4, <1>5, <1>6, LocalStep

\* The entry read for a 304 is at least as new as the version it confirms.
LEMMA MergeReadStep ==
  ASSUME TypeOK, ReadsInv, NEW w \in Workers, MergeRead(w)
  PROVE  ReadsInv'
<1> DEFINE entry == EntryOf(w)
           url == req[w].url
           found == entry # NoEntry /\ LenAt(cache.entries, KeyOf(w)) > 0
<1>1. /\ pc[w] = "replied" /\ resp[w].status = "304"
      /\ pc'[w] = IF found THEN "merge" ELSE "done"
      /\ found => held'[w] = entry /\ resp'[w] = resp[w]
      /\ UNCHANGED <<now, published, cache, req, cond>>
      /\ \A v \in Workers \ {w} : pc'[v] = pc[v] /\ held'[v] = held[v] /\ resp'[v] = resp[v]
  BY DEF MergeRead, TypeOK, EntryOf
<1>2. RequestOf(w)'
  BY <1>1 DEF ReadsInv, RequestOf
<1>3. CASE ~found
  <2>1. ~Busy(w)'
    BY <1>1, <1>3 DEF Busy
  <2> QED
    BY <1>1, <1>2, <2>1, EndingStep
<1>4. CASE found
  <2>1. /\ url \in URLs /\ entry \in Entry /\ entry # NoEntry
        /\ entry = cache.entries[requestCacheKey(url)]
        /\ req[w].start \in Nat /\ Current(url) \in Nat
    BY <1>1, <1>4, WorkerFacts, TimeFacts DEF EntryOf
  <2>2. /\ entry.data.ver \in Nat \ {0} /\ entry.data.ver <= Current(url)
        /\ entry.ETag <= entry.data.ver /\ entry.LastModified <= entry.data.ver
    BY <2>1, EntryFacts DEF ReadsInv, SoundEntries, SoundEntry
  <2>3. /\ pc'[w] = "merge" /\ Carries(w)' /\ CarriedVer(w)' = entry.data.ver
        /\ held'[w] = entry /\ resp'[w] = resp[w] /\ req'[w] = req[w]
        /\ \A v \in Workers : EntryOf(v)' = EntryOf(v) /\ KeyOf(v)' = KeyOf(v)
        /\ Current(url)' = Current(url)
    BY <1>1, <1>4 DEF Carries, CarriedVer, EntryOf, KeyOf, Current
  <2>4. /\ SentUpTo(w, entry.data.ver) /\ Confirmed(w) > 0
        /\ CurrentSince(url, Confirmed(w), req[w].start)
        /\ resp[w].ETag <= Confirmed(w) /\ resp[w].LastModified <= Confirmed(w)
    BY <1>1, <1>4 DEF ReadsInv, AskedBy
  <2>5. /\ Confirmed(w) \in Nat \ {0} /\ Confirmed(w) <= entry.data.ver
        /\ resp[w].ETag \in Nat /\ resp[w].LastModified \in Nat
    <3>1. cond[w].IfNoneMatch \in Nat /\ cond[w].IfModifiedSince \in Nat
          /\ resp[w].ETag \in Nat /\ resp[w].LastModified \in Nat
      BY WorkerFacts
    <3> HIDE DEF entry
    <3> QED
      BY <2>4, <3>1 DEF Confirmed, SentUpTo
  <2>6. CurrentSince(url, entry.data.ver, req[w].start)
    BY <2>1, <2>2, <2>4, <2>5, SinceMonotone DEF ReadsInv
  <2>7. CarriedBy(w)'
    <3>1. CurrentSince(req[w].url, CarriedVer(w), req[w].start)'
      BY <1>1, <2>3, <2>6 DEF CurrentSince, Superseded, SupersededAt, Current
    <3>2. resp[w].ETag <= entry.data.ver /\ resp[w].LastModified <= entry.data.ver
      <4> HIDE DEF entry
      <4> QED
        BY <2>2, <2>4, <2>5
    <3>3. EntryOf(w)' = entry /\ Current(req[w].url)' = Current(url)
      BY <2>3
    <3>4. entry.data.ver <= entry.data.ver
      BY <2>2
    <3> HIDE DEF entry
    <3> QED
      BY <2>2, <2>3, <3>1, <3>2, <3>3, <3>4 DEF CarriedBy
  <2>8. AskedBy(w)'
    BY <2>3 DEF AskedBy
  <2>9. ASSUME NEW v \in Workers \ {w} PROVE Paired(w, v)'
    BY <2>3 DEF Paired
  <2>10. ASSUME NEW v \in Workers \ {w} PROVE Paired(v, w)'
    <3> SUFFICES ASSUME Busy(v), req[v].url = url
                 PROVE  /\ EntryOf(v) # NoEntry => EntryOf(v).data.ver <= entry.data.ver
                        /\ pc[v] \in {"sent", "replied"} => SentUpTo(v, entry.data.ver)
      BY <1>1, <2>3 DEF Paired, Busy, SentUpTo
    <3>1. EntryOf(v) = entry
      BY <1>1, SameEntry DEF Busy
    <3>2. pc[v] \in {"sent", "replied"} => SentUpTo(v, entry.data.ver)
      BY <2>1, <3>1 DEF ReadsInv, AskedBy
    <3> HIDE DEF entry
    <3> QED
      BY <2>2, <3>1, <3>2
  <2> QED
    BY <1>1, <1>2, <2>7, <2>8, <2>9, <2>10, LocalStep
<1> QED
  BY <1>3, <1>4

\* A worker that puts what it carries: the entry is sound, and the one other
\* worker of that URL has sent no validator newer than it.  A third one could
\* have; this is where two are the limit.
LEMMA PutStep ==
  ASSUME TypeOK, NoThreeOverlap, ReadsInv, NEW w \in Workers, Carries(w), NEW entry \in Entry,
         entry.data.ver = CarriedVer(w), entry.ETag <= entry.data.ver,
         entry.LastModified <= entry.data.ver, entry.FetchedAt = now,
         Put(KeyOf(w), entry), pc' = [pc EXCEPT ![w] = "done"],
         published' = published, now' = now, req' = req, cond' = cond,
         \A v \in Workers \ {w} : held'[v] = held[v] /\ resp'[v] = resp[v]
  PROVE  ReadsInv'
<1> DEFINE url == req[w].url
<1>1. /\ Busy(w) /\ pc[w] # "idle" /\ url \in URLs /\ req[w].start \in Nat
      /\ KeyOf(w) = requestCacheKey(url) /\ KeyOf(w) \in Keys
      /\ now \in Nat /\ Timeout \in Nat /\ Current(url) \in Nat
      /\ pc'[w] = "done" /\ \A v \in Workers \ {w} : pc'[v] = pc[v]
  BY WorkerFacts, TimeFacts, CachedFacts DEF Carries, Busy, TypeOK
<1>2. /\ CarriedVer(w) <= Current(url) /\ CurrentSince(url, CarriedVer(w), req[w].start)
      /\ req[w].start <= now /\ now <= req[w].start + Timeout
  BY <1>1 DEF ReadsInv, CarriedBy, RequestOf
<1>3. ASSUME NEW key \in Keys
      PROVE  \/ cache'.entries[key] \in {cache.entries[key], NoEntry}
             \/ key = KeyOf(w) /\ cache'.entries[key] = entry
  <2>1. cache \in CacheType(Keys, Entry) /\ maxBytes \in Int
    BY TransportAssumption DEF TypeOK, CacheType
  <2> QED
    BY <1>1, <2>1, EntrySized, PutLockedEntries DEF Put
<1>4. \A v \in Workers : KeyOf(v)' = KeyOf(v) /\ EntryOf(v)' = cache'.entries[KeyOf(v)]
  BY DEF KeyOf, EntryOf
<1>5. ASSUME NEW v \in Workers \ {w}, pc[v] # "idle"
      PROVE  \/ EntryOf(v)' \in {EntryOf(v), NoEntry}
             \/ req[v].url = url /\ EntryOf(v)' = entry
  <2>1. KeyOf(v) \in Keys
    BY <1>5, KeyOfOK
  <2>2. KeyOf(v) = KeyOf(w) => req[v].url = url
    BY <1>1, <1>5, SameEntry
  <2> QED
    BY <1>3, <1>4, <2>1, <2>2 DEF EntryOf
<1>6. SoundEntry(url, entry)
  <2>1. entry.data.ver \in Nat /\ entry.FetchedAt <= now
    BY <1>1, EntryFacts
  <2>2. ASSUME Superseded(url, entry.data.ver)
        PROVE  now <= SupersededAt(url, entry.data.ver) + Timeout
    <3>1. entry.data.ver + 1 \in 1..Current(url)
      BY <1>1, <2>1, <2>2 DEF Superseded
    <3>2. SupersededAt(url, entry.data.ver) \in Nat
      BY <1>1, <3>1, TimeFacts DEF SupersededAt
    <3>3. req[w].start <= SupersededAt(url, entry.data.ver)
      BY <1>2, <2>2 DEF CurrentSince
    <3> QED
      BY <1>1, <1>2, <3>2, <3>3
  <2> QED
    BY <1>2, <2>1, <2>2 DEF SoundEntry
<1>7. Chronicle'
  BY DEF ReadsInv, Chronicle, Current
<1>8. SoundEntries'
  <2> SUFFICES ASSUME NEW u \in URLs, cache'.entries[requestCacheKey(u)] # NoEntry
               PROVE  SoundEntry(u, cache'.entries[requestCacheKey(u)])
    BY DEF SoundEntries, SoundEntry, Superseded, SupersededAt, Current
  <2>1. requestCacheKey(u) \in Keys
    BY CachedFacts
  <2>2. requestCacheKey(u) = KeyOf(w) => u = url
    BY <1>1, KeyInjective
  <2> QED
    BY <1>3, <1>6, <2>1, <2>2 DEF ReadsInv, SoundEntries
<1>9. RequestOf(w)' /\ CarriedBy(w)' /\ AskedBy(w)'
  BY <1>1, <1>2 DEF RequestOf, CarriedBy, Carries, AskedBy
<1>10. ASSUME NEW v \in Workers \ {w}
       PROVE  RequestOf(v)' /\ CarriedBy(v)' /\ AskedBy(v)'
  <2>0. /\ RequestOf(v) /\ CarriedBy(v) /\ AskedBy(v) /\ Paired(v, w)
        /\ pc'[v] = pc[v] /\ held'[v] = held[v] /\ resp'[v] = resp[v]
        /\ pc[v] # "idle" => req[v].start \in Nat
    BY <1>1, WorkerFacts DEF ReadsInv
  <2>1. RequestOf(v)'
    BY <2>0 DEF RequestOf
  <2>2. CarriedBy(v)'
    <3> SUFFICES ASSUME Carries(v) PROVE CarriedBy(v)'
      BY <2>0 DEF CarriedBy, Carries
    <3>1. pc[v] # "idle"
      BY DEF Carries
    <3>2. EntryOf(v)' # NoEntry /\ (EntryOf(v).FetchedAt)' < req[v].start =>
            (EntryOf(v).data.ver)' <= CarriedVer(v)
      <4>1. ~(now < req[v].start)
        BY <1>1, <2>0, <3>1 DEF RequestOf
      <4> QED
        BY <1>5, <2>0, <3>1, <4>1 DEF CarriedBy
    <3> QED
      BY <2>0, <3>2 DEF CarriedBy, Carries, CarriedVer, CurrentSince, Superseded,
                        SupersededAt, Current
  <2>3. AskedBy(v)'
    <3>1. ASSUME pc[v] \in {"sent", "replied"}, EntryOf(v)' # NoEntry
          PROVE  SentUpTo(v, EntryOf(v)'.data.ver)
      <4>1. pc[v] # "idle" /\ Busy(v)
        BY <3>1 DEF Busy
      <4>2. CASE EntryOf(v)' = EntryOf(v)
        BY <2>0, <3>1, <4>2 DEF AskedBy
      <4>3. CASE req[v].url = url /\ EntryOf(v)' = entry
        BY <2>0, <3>1, <4>1, <4>3 DEF Paired
      <4> QED
        BY <1>5, <3>1, <4>1, <4>2, <4>3
    <3> QED
      BY <2>0, <3>1 DEF AskedBy, SentUpTo, Confirmed, CurrentSince, Superseded,
                        SupersededAt, Current
  <2> QED
    BY <2>1, <2>2, <2>3
<1>11. ASSUME NEW a \in Workers, NEW b \in Workers
       PROVE  Paired(a, b)'
  <2> SUFFICES ASSUME a # b, Busy(a)', Carries(b)', req[a].url = req[b].url
               PROVE  /\ pc'[a] = "validators" /\ EntryOf(a)' # NoEntry =>
                           (EntryOf(a).data.ver)' <= CarriedVer(b)'
                      /\ pc'[a] \in {"sent", "replied"} => SentUpTo(a, CarriedVer(b))'
    BY DEF Paired
  <2>1. a # w /\ b # w
    BY <1>1 DEF Busy, Carries
  <2>2. /\ pc'[a] = pc[a] /\ Busy(a) /\ Carries(b) /\ Busy(b) /\ CarriedVer(b)' = CarriedVer(b)
        /\ pc[a] # "idle"
    BY <1>1, <2>1 DEF Busy, Carries, CarriedVer
  <2>3. req[a].url # url
    BY <1>1, <2>1, <2>2 DEF NoThreeOverlap
  <2>4. EntryOf(a)' \in {EntryOf(a), NoEntry}
    BY <1>5, <2>1, <2>2, <2>3
  <2>5. Paired(a, b)
    BY DEF ReadsInv
  <2> QED
    BY <2>2, <2>4, <2>5 DEF Paired, SentUpTo
<1> QED
  BY <1>7, <1>8, <1>9, <1>10, <1>11 DEF ReadsInv

\* A version that was current at or after t still is when a newer one is published
\* at t or later.
LEMMA PublishSince ==
  ASSUME TypeOK, NEW url \in URLs, Publish(url), NEW u \in URLs, NEW v \in Nat \ {0},
         v <= Current(u), NEW t \in Nat, t <= now, CurrentSince(u, v, t)
  PROVE  CurrentSince(u, v, t)'
<1>1. /\ published[url] \in Seq(0..MaxTime) /\ now \in 0..MaxTime
      /\ published' = [published EXCEPT ![url] = Append(published[url], now)]
  BY DEF Publish, TypeOK
<1>2. CASE u # url
  <2>1. published'[u] = published[u]
    BY <1>1, <1>2 DEF TypeOK
  <2> QED
    BY <2>1 DEF CurrentSince, Superseded, SupersededAt, Current
<1>3. CASE u = url
  <2>1. /\ Len(published'[u]) = Len(published[u]) + 1 /\ Len(published[u]) \in Nat
        /\ \A i \in 1..Len(published[u]) : published'[u][i] = published[u][i]
        /\ published'[u][Len(published[u]) + 1] = now
    BY <1>1, <1>3, AppendProperties DEF TypeOK
  <2> SUFFICES ASSUME v < Len(published'[u]) PROVE t <= published'[u][v + 1]
    BY DEF CurrentSince, Superseded, SupersededAt, Current
  <2>2. CASE v < Len(published[u])
    BY <2>1, <2>2 DEF CurrentSince, Superseded, SupersededAt, Current
  <2>3. CASE v = Len(published[u])
    BY <2>1, <2>3
  <2> QED
    BY <2>1, <2>2, <2>3 DEF Current
<1> QED
  BY <1>2, <1>3

\* An entry as new as its body's time stays so when a version is published.
LEMMA PublishSound ==
  ASSUME TypeOK, NEW url \in URLs, Publish(url), NEW u \in URLs, NEW entry \in Entry,
         SoundEntry(u, entry)
  PROVE  SoundEntry(u, entry)'
<1>1. /\ now' = now /\ now \in Nat /\ Timeout \in Nat
      /\ published[url] \in Seq(0..MaxTime) /\ now \in 0..MaxTime
      /\ published' = [published EXCEPT ![url] = Append(published[url], now)]
  BY TimeFacts DEF Publish, TypeOK
<1>2. entry.data.ver \in Nat \ {0} /\ entry.FetchedAt \in Nat
  BY EntryFacts
<1>3. CASE u # url
  <2>1. published'[u] = published[u]
    BY <1>1, <1>3 DEF TypeOK
  <2> QED
    BY <1>1, <2>1 DEF SoundEntry, Superseded, SupersededAt, Current
<1>4. CASE u = url
  <2> DEFINE n == Len(published[u])
  <2>1. /\ n \in Nat /\ Len(published'[u]) = n + 1
        /\ \A i \in 1..n : published'[u][i] = published[u][i]
        /\ published'[u][n + 1] = now
    BY <1>1, <1>4, AppendProperties DEF TypeOK
  <2>2. /\ entry.data.ver <= n /\ entry.FetchedAt <= now
        /\ entry.ETag <= entry.data.ver /\ entry.LastModified <= entry.data.ver
        /\ entry.data.ver < n => entry.FetchedAt <= published[u][entry.data.ver + 1] + Timeout
    BY DEF SoundEntry, Superseded, SupersededAt, Current
  <2> HIDE DEF n
  <2>3. entry.FetchedAt <= published'[u][entry.data.ver + 1] + Timeout
    <3>1. CASE entry.data.ver < n
      <4>1. entry.data.ver + 1 \in 1..n
        BY <1>2, <2>1, <3>1
      <4> QED
        BY <2>1, <2>2, <3>1, <4>1
    <3>2. CASE entry.data.ver = n
      BY <1>1, <1>2, <2>1, <2>2, <3>2
    <3> QED
      BY <1>2, <2>1, <2>2, <3>1, <3>2
  <2>4. entry.data.ver <= n + 1
    BY <1>2, <2>1, <2>2
  <2> QED
    BY <1>1, <2>1, <2>2, <2>3, <2>4 DEF SoundEntry, Superseded, SupersededAt, Current
<1> QED
  BY <1>3, <1>4

LEMMA PublishStep ==
  ASSUME TypeOK, ReadsInv, NEW url \in URLs, Publish(url)
  PROVE  ReadsInv'
<1>1. /\ UNCHANGED <<now, cache, pc, req, cond, held, resp>>
      /\ published[url] \in Seq(0..MaxTime)
      /\ published' = [published EXCEPT ![url] = Append(published[url], now)]
  BY DEF Publish, TypeOK
<1>2. \A u \in URLs : u # url => published'[u] = published[u]
  BY <1>1 DEF TypeOK
<1>3. now \in Nat /\ Timeout \in Nat
      /\ \A u \in URLs : Current(u) \in Nat \ {0}
                         /\ \A i \in 1..Current(u) : published[u][i] \in Nat
  BY TimeFacts
<1>4. /\ Len(published'[url]) = Len(published[url]) + 1
      /\ \A i \in 1..Len(published[url]) : published'[url][i] = published[url][i]
      /\ published'[url][Len(published[url]) + 1] = now
  <2>1. published'[url] = Append(published[url], now) /\ now \in 0..MaxTime
    BY <1>1 DEF TypeOK
  <2> QED
    BY <1>1, <2>1, AppendProperties
<1>5. \A u \in URLs : Current(u)' \in Nat /\ Current(u) <= Current(u)'
  BY <1>2, <1>3, <1>4 DEF Current
<1>6. Chronicle'
  <2> SUFFICES ASSUME NEW u \in URLs
               PROVE  /\ \A i \in 1..Current(u)' : published'[u][i] <= now
                      /\ \A i, j \in 1..Current(u)' :
                           i <= j => published'[u][i] <= published'[u][j]
    BY <1>1 DEF Chronicle
  <2>1. /\ \A i \in 1..Current(u) : published[u][i] <= now
        /\ \A i, j \in 1..Current(u) : i <= j => published[u][i] <= published[u][j]
    BY DEF ReadsInv, Chronicle
  <2>2. CASE u # url
    BY <1>2, <2>1, <2>2 DEF Current
  <2>3. CASE u = url
    <3>1. Current(u) \in Nat /\ Current(u)' = Current(u) + 1
      BY <1>3, <1>4, <2>3 DEF Current
    <3>2. /\ \A i \in 1..Current(u) : published'[u][i] = published[u][i]
          /\ published'[u][Current(u)'] = now
      BY <1>4, <2>3, <3>1 DEF Current
    <3>3. ASSUME NEW i \in 1..Current(u)'
          PROVE  published'[u][i] <= now
      BY <1>3, <2>1, <3>1, <3>2
    <3>4. ASSUME NEW i \in 1..Current(u)', NEW j \in 1..Current(u)', i <= j
          PROVE  published'[u][i] <= published'[u][j]
      <4>1. CASE j = Current(u)'
        BY <3>2, <3>3, <4>1
      <4>2. CASE j # Current(u)'
        <5>1. i \in 1..Current(u) /\ j \in 1..Current(u)
          BY <3>1, <3>4, <4>2
        <5> QED
          BY <2>1, <3>2, <3>4, <5>1
      <4> QED
        BY <4>1, <4>2
    <3> QED
      BY <3>3, <3>4
  <2> QED
    BY <2>2, <2>3
<1>7. SoundEntries'
  <2> SUFFICES ASSUME NEW u \in URLs, NEW entry, entry # NoEntry,
                      entry = cache.entries[requestCacheKey(u)]
               PROVE  SoundEntry(u, entry)'
    BY <1>1 DEF SoundEntries, SoundEntry, Superseded, SupersededAt, Current
  <2>1. entry \in Entry /\ SoundEntry(u, entry)
    BY CachedFacts DEF ReadsInv, SoundEntries
  <2> QED
    BY <2>1, PublishSound
<1>8. ASSUME NEW w \in Workers
      PROVE  RequestOf(w)' /\ CarriedBy(w)' /\ AskedBy(w)'
  <2>0. /\ RequestOf(w) /\ CarriedBy(w) /\ AskedBy(w)
        /\ EntryOf(w)' = EntryOf(w)
    BY <1>1 DEF ReadsInv, EntryOf, KeyOf
  <2>1. RequestOf(w)'
    BY <1>1, <2>0 DEF RequestOf
  <2>2. pc[w] # "idle" => /\ req[w].url \in URLs /\ req[w].start \in Nat /\ req[w].start <= now
                          /\ Current(req[w].url) \in Nat /\ Current(req[w].url)' \in Nat
                          /\ Current(req[w].url) <= Current(req[w].url)'
    BY <1>1, <1>3, <1>5, <2>0, WorkerFacts DEF RequestOf
  <2>3. CarriedBy(w)'
    <3> SUFFICES ASSUME Carries(w) PROVE CarriedBy(w)'
      BY <1>1 DEF CarriedBy, Carries
    <3>1. pc[w] # "idle" /\ CarriedVer(w) \in Nat \ {0} /\ CarriedVer(w)' = CarriedVer(w)
      BY <1>1, WorkerFacts DEF Carries, CarriedVer
    <3>2. CarriedVer(w) <= Current(req[w].url)
          /\ CurrentSince(req[w].url, CarriedVer(w), req[w].start)
      BY <2>0 DEF CarriedBy
    <3>3. CurrentSince(req[w].url, CarriedVer(w), req[w].start)'
      BY <1>1, <2>2, <3>1, <3>2, PublishSince DEF CurrentSince, Superseded, SupersededAt
    <3>4. CarriedVer(w) <= Current(req[w].url)'
      BY <2>2, <3>1, <3>2
    <3> QED
      BY <1>1, <2>0, <3>1, <3>3, <3>4 DEF CarriedBy
  <2>4. AskedBy(w)'
    <3> SUFFICES ASSUME pc[w] \in {"sent", "replied"} PROVE AskedBy(w)'
      BY <1>1 DEF AskedBy
    <3>1. /\ cond[w].IfNoneMatch \in Nat /\ cond[w].IfModifiedSince \in Nat
          /\ SentUpTo(w, Current(req[w].url))
      BY <2>0, WorkerFacts DEF AskedBy
    <3>2. SentUpTo(w, Current(req[w].url))'
      BY <1>1, <2>2, <3>1 DEF SentUpTo
    <3>3. ASSUME pc[w] = "replied", resp[w].status = "304"
          PROVE  CurrentSince(req[w].url, Confirmed(w), req[w].start)'
      <4>1. Confirmed(w) \in Nat \ {0} /\ Confirmed(w) <= Current(req[w].url)
            /\ CurrentSince(req[w].url, Confirmed(w), req[w].start)
        BY <2>0, <3>1, <3>3 DEF AskedBy, Confirmed, SentUpTo
      <4>2. Confirmed(w)' = Confirmed(w)
        BY <1>1 DEF Confirmed
      <4> QED
        BY <1>1, <2>2, <4>1, <4>2, PublishSince DEF CurrentSince, Superseded, SupersededAt
    <3> QED
      BY <1>1, <2>0, <3>2, <3>3 DEF AskedBy, SentUpTo, Confirmed
  <2> QED
    BY <2>1, <2>3, <2>4
<1>9. \A a, b \in Workers : Paired(a, b)'
  BY <1>1 DEF ReadsInv, Paired, Busy, Carries, CarriedVer, SentUpTo, EntryOf, KeyOf
<1> QED
  BY <1>6, <1>7, <1>8, <1>9 DEF ReadsInv

\* And when time passes.
LEMMA TickSound ==
  ASSUME TypeOK, Tick, NEW u \in URLs, NEW entry \in Entry, SoundEntry(u, entry)
  PROVE  SoundEntry(u, entry)'
<1>1. now' = now + 1 /\ now \in Nat /\ published' = published /\ entry.FetchedAt \in Nat
  BY TimeFacts, EntryFacts DEF Tick
<1> QED
  BY <1>1 DEF SoundEntry, Superseded, SupersededAt, Current

\* The clock stays within the timeout of every request under way.
LEMMA TickStep ==
  ASSUME TypeOK, ReadsInv, Tick
  PROVE  ReadsInv'
<1>1. /\ now' = now + 1 /\ now \in Nat
      /\ UNCHANGED <<published, cache, pc, req, cond, held, resp>>
  BY TimeFacts DEF Tick
<1>2. Chronicle'
  BY <1>1, TimeFacts DEF ReadsInv, Chronicle, Current
<1>3. SoundEntries'
  <2> SUFFICES ASSUME NEW u \in URLs, cache.entries[requestCacheKey(u)] # NoEntry
               PROVE  SoundEntry(u, cache.entries[requestCacheKey(u)])'
    BY <1>1 DEF SoundEntries
  <2>1. cache.entries[requestCacheKey(u)].FetchedAt \in Nat
    BY CachedFacts, EntryFacts
  <2> QED
    BY <1>1, <2>1 DEF ReadsInv, SoundEntries, SoundEntry, Superseded, SupersededAt, Current
<1>4. ASSUME NEW w \in Workers PROVE RequestOf(w)' /\ CarriedBy(w)' /\ AskedBy(w)'
  <2>1. RequestOf(w)'
    <3>1. pc[w] # "idle" => req[w].start \in Nat /\ now < req[w].start + Timeout /\ Timeout \in Nat
      BY WorkerFacts, TimeFacts DEF Tick
    <3> QED
      BY <1>1, <3>1 DEF ReadsInv, RequestOf
  <2>2. CarriedBy(w)' /\ AskedBy(w)'
    BY <1>1 DEF ReadsInv, CarriedBy, AskedBy, Carries, CarriedVer, SentUpTo, Confirmed, EntryOf,
                KeyOf, CurrentSince, Superseded, SupersededAt, Current
  <2> QED
    BY <2>1, <2>2
<1>5. \A a, b \in Workers : Paired(a, b)'
  BY <1>1 DEF ReadsInv, Paired, Busy, Carries, CarriedVer, SentUpTo, EntryOf, KeyOf
<1> QED
  BY <1>2, <1>3, <1>4, <1>5 DEF ReadsInv

\* Every step of Next keeps the invariant: the actions of one worker, of the
\* upstream and of the clock.
LEMMA StepKeeps ==
  ASSUME TTLsExceedTimeout, TypeOK, Attributed, NoThreeOverlap, ReadsInv, [Next]_vars
  PROVE  ReadsInv'
<1>0. OwnEntries(cache)
  BY DEF Attributed, OwnBody, OwnEntries
<1>1. ASSUME NEW w \in Workers, NEW url \in URLs, ServeFresh(w, url)
      PROVE  ReadsInv'
  <2>1. /\ cache' = cache /\ published' = published /\ now' = now /\ cond' = cond /\ held' = held
        /\ pc'[w] = "done" /\ req'[w].start = now
        /\ \A v \in Workers \ {w} : pc'[v] = pc[v] /\ req'[v] = req[v] /\ resp'[v] = resp[v]
    BY <1>1 DEF ServeFresh, TypeOK
  <2>2. RequestOf(w)' /\ ~Busy(w)'
    BY <2>1, TimeFacts DEF RequestOf, Busy
  <2> QED
    BY <2>1, <2>2, EndingStep
<1>2. ASSUME NEW w \in Workers, NEW url \in URLs, MissLookup(w, url)
      PROVE  ReadsInv'
  BY <1>0, <1>2, MissStep
<1>3. ASSUME NEW w \in Workers, PassThrough(w) \/ Fail(w)
      PROVE  ReadsInv'
  <2>1. /\ cache' = cache /\ published' = published /\ now' = now /\ cond' = cond
        /\ held' = held /\ req' = req /\ pc[w] # "idle" /\ pc'[w] = "done"
        /\ \A v \in Workers \ {w} : pc'[v] = pc[v] /\ resp'[v] = resp[v]
    BY <1>3 DEF PassThrough, Fail, TypeOK
  <2>2. RequestOf(w)' /\ ~Busy(w)'
    BY <2>1 DEF ReadsInv, RequestOf, Busy
  <2> QED
    BY <2>1, <2>2, EndingStep
<1>4. ASSUME NEW w \in Workers, Return(w)
      PROVE  ReadsInv'
  <2>1. /\ cache' = cache /\ published' = published /\ now' = now /\ held' = held
        /\ pc'[w] = "idle" /\ req'[w] = NoRequest /\ cond'[w] = NoHeaders
        /\ \A v \in Workers \ {w} : /\ pc'[v] = pc[v] /\ resp'[v] = resp[v] /\ req'[v] = req[v]
                                    /\ cond'[v] = cond[v]
    BY <1>4 DEF Return, TypeOK
  <2>2. RequestOf(w)' /\ ~Busy(w)'
    BY <2>1 DEF RequestOf, Busy
  <2> QED
    BY <2>1, <2>2, EndingStep
<1>5. ASSUME NEW w \in Workers, StoreBody(w)
      PROVE  ReadsInv'
  <2> DEFINE entry == [data |-> resp[w].data, ETag |-> resp[w].ETag,
                       LastModified |-> resp[w].LastModified, FetchedAt |-> now, TTL |-> TTLOf(w)]
  <2>1. /\ pc[w] = "replied" /\ resp[w].status = "200" /\ entry \in Entry
        /\ pc' = [pc EXCEPT ![w] = "done"] /\ Put(KeyOf(w), entry)
        /\ UNCHANGED <<now, published, req, cond, held, resp>>
    BY <1>5, StoredOK DEF StoreBody
  <2>2. /\ Carries(w) /\ entry.data.ver = CarriedVer(w) /\ entry.FetchedAt = now
        /\ entry.ETag = resp[w].ETag /\ entry.LastModified = resp[w].LastModified
    BY <2>1 DEF Carries, CarriedVer
  <2>3. resp[w].ETag <= CarriedVer(w) /\ resp[w].LastModified <= CarriedVer(w)
    BY <2>2 DEF ReadsInv, CarriedBy
  <2> HIDE DEF entry
  <2> QED
    BY <2>1, <2>2, <2>3, PutStep
<1>6. ASSUME NEW w \in Workers, MergePut(w)
      PROVE  ReadsInv'
  <2>1. /\ pc[w] = "merge" /\ held[w] \in Entry /\ merged(w) \in Entry
        /\ merged(w).data = held[w].data
        /\ pc' = [pc EXCEPT ![w] = "done"] /\ Put(KeyOf(w), merged(w))
        /\ UNCHANGED <<now, published, req, cond>>
        /\ \A v \in Workers \ {w} : held'[v] = held[v] /\ resp'[v] = resp[v]
    BY <1>6, MergedOK DEF MergePut, TypeOK
  <2>2. /\ Carries(w) /\ merged(w).data.ver = CarriedVer(w) /\ merged(w).FetchedAt = now
        /\ merged(w).ETag \in {resp[w].ETag, held[w].ETag}
        /\ merged(w).LastModified \in {resp[w].LastModified, held[w].LastModified}
    BY <2>1 DEF Carries, CarriedVer, merged, Entry
  <2>3. /\ resp[w].ETag <= CarriedVer(w) /\ resp[w].LastModified <= CarriedVer(w)
        /\ held[w].ETag <= CarriedVer(w) /\ held[w].LastModified <= CarriedVer(w)
    BY <2>1, <2>2 DEF ReadsInv, CarriedBy
  <2>4. merged(w).ETag <= merged(w).data.ver /\ merged(w).LastModified <= merged(w).data.ver
    BY <2>2, <2>3
  <2> QED
    BY <2>1, <2>2, <2>4, PutStep
<1>7. CASE UNCHANGED vars
  BY <1>7 DEF vars, ReadsInv, Chronicle, SoundEntries, SoundEntry, RequestOf, CarriedBy, AskedBy,
              Paired, Busy, Carries, CarriedVer, SentUpTo, Confirmed, EntryOf, KeyOf,
              CurrentSince, Superseded, SupersededAt, Current
<1> QED
  BY <1>1, <1>2, <1>3, <1>4, <1>5, <1>6, <1>7, ValidatorsStep, BodyStep, NotModifiedStep,
     OtherStep, MergeReadStep, PublishStep, TickStep DEF Next, Worker

LEMMA InitReads == Init => ReadsInv
<1> SUFFICES ASSUME Init PROVE ReadsInv
  OBVIOUS
<1>1. \A url \in URLs : published[url] = <<0>> /\ Current(url) = 1 /\ published[url][1] = 0
  BY DEF Init, Current
<1>2. Chronicle
  <2>1. now = 0
    BY DEF Init
  <2> SUFFICES ASSUME NEW url \in URLs
               PROVE  /\ \A i \in 1..1 : published[url][i] <= now
                      /\ \A i, j \in 1..1 : i <= j => published[url][i] <= published[url][j]
    BY <1>1 DEF Chronicle
  <2> QED
    BY <1>1, <2>1
<1>3. SoundEntries
  BY DEF Init, EmptyCache, SoundEntries, Keys
<1>4. \A w \in Workers : pc[w] = "idle" /\ req[w] = NoRequest /\ cond[w] = NoHeaders
  BY DEF Init
<1> QED
  BY <1>2, <1>3, <1>4 DEF ReadsInv, RequestOf, CarriedBy, AskedBy, Paired, Busy, Carries

LEMMA ReadsInvariant ==
  ASSUME TTLsExceedTimeout
  PROVE  Spec /\ []NoThreeOverlap => []ReadsInv
<1>1. TypeOK /\ Attributed /\ NoThreeOverlap /\ ReadsInv /\ [Next]_vars => ReadsInv'
  BY StepKeeps
<1> QED
  BY <1>1, InitReads, TypeCorrect, AttributedInvariant, PTL DEF Spec

\* A cached validator never promises more than the body beside it, through any
\* overlap of two requests per URL (http.go:107-131).
THEOREM ValidatorsKeepUp ==
  ASSUME TTLsExceedTimeout
  PROVE  Spec /\ []NoThreeOverlap => []ValidatorsNotNewer
<1>1. ReadsInv => ValidatorsNotNewer
  BY DEF ReadsInv, SoundEntries, SoundEntry, ValidatorsNotNewer, Keys
<1> QED
  BY <1>1, ReadsInvariant, PTL

\* A worker answers with a body once it carries one, and with that one.
LEMMA AnswerIsCarried ==
  ASSUME TypeOK, [Next]_vars, NEW w \in Workers, Answers(w), pc[w] # "idle"
  PROVE  Carries(w) /\ resp'[w].data.ver = CarriedVer(w) /\ published' = published
<1>1. ASSUME NEW v \in Workers, Worker(v)
      PROVE  v = w
  <2>1. \A u \in Workers \ {v} : pc'[u] = pc[u]
    BY <1>1 DEF Worker, ServeFresh, MissLookup, ReadValidators, UpstreamOK, UpstreamNotModified,
                UpstreamOther, Reply, PassThrough, Fail, StoreBody, MergeRead, MergePut, Return,
                TypeOK
  <2> QED
    BY <2>1 DEF Answers
<1>2. Worker(w)
  <2>1. ~UNCHANGED vars /\ ~Tick /\ ~\E url \in URLs : Publish(url)
    BY DEF vars, Tick, Publish, Answers
  <2> QED
    BY <1>1, <2>1 DEF Next
<1>3. PassThrough(w) \/ StoreBody(w) \/ MergePut(w)
  BY <1>2 DEF Worker, Answers, ServeFresh, MissLookup, ReadValidators, UpstreamOK,
              UpstreamNotModified, UpstreamOther, Reply, Fail, Failure, Response, MergeRead,
              Return, TypeOK
<1>4. CASE PassThrough(w) \/ StoreBody(w)
  BY <1>4 DEF PassThrough, StoreBody, Answers, Carries, CarriedVer
<1>5. CASE MergePut(w)
  BY <1>5 DEF MergePut, Response, Carries, CarriedVer, TypeOK
<1> QED
  BY <1>3, <1>4, <1>5

\* An answer that this request asked the upstream for is not older than the
\* request, however two requests for the URL overlap (README.md:220).
THEOREM ConfirmedAreCurrent ==
  ASSUME TTLsExceedTimeout
  PROVE  Spec /\ []NoThreeOverlap => ConfirmedIsCurrent
<1> DEFINE Confirms ==
      \A w \in Workers :
        Answers(w) /\ pc[w] # "idle" =>
          ~ /\ Superseded(req[w].url, resp'[w].data.ver)
            /\ SupersededAt(req[w].url, resp'[w].data.ver) < req[w].start
<1>1. TypeOK /\ ReadsInv /\ [Next]_vars => Confirms
  <2> SUFFICES ASSUME TypeOK, ReadsInv, [Next]_vars, NEW w \in Workers, Answers(w), pc[w] # "idle",
                      Superseded(req[w].url, CarriedVer(w))
               PROVE  ~(SupersededAt(req[w].url, CarriedVer(w)) < req[w].start)
    BY AnswerIsCarried
  <2>1. Carries(w)
    BY AnswerIsCarried
  <2>2. req[w].start <= SupersededAt(req[w].url, CarriedVer(w))
    BY <2>1 DEF ReadsInv, CarriedBy, CurrentSince
  <2>3. CarriedVer(w) + 1 \in 1..Current(req[w].url)
    BY <2>1, WorkerFacts, TimeFacts DEF Superseded
  <2>4. SupersededAt(req[w].url, CarriedVer(w)) \in Nat /\ req[w].start \in Nat
    BY <2>3, WorkerFacts, TimeFacts DEF SupersededAt
  <2> QED
    BY <2>2, <2>4
<1>2. TypeOK /\ ReadsInv /\ [Next]_vars => [Confirms]_vars
  BY <1>1
<1> HIDE DEF Confirms
<1>3. Spec /\ []NoThreeOverlap => [][Confirms]_vars
  BY <1>2, TypeCorrect, ReadsInvariant, PTL DEF Spec
<1> QED
  BY <1>3 DEF ConfirmedIsCurrent, Confirms

-----------------------------------------------------------------------------
(* The refinement: StaleReads' answer is what a worker that is done holds. *)

AnswerOf(w) ==
  IF pc[w] # "done" THEN NoRequest
  ELSE IF resp[w].status = "200" THEN [url |-> resp[w].data.url, ver |-> resp[w].data.ver]
  ELSE [ver |-> 0]

Answered == [w \in Workers |-> AnswerOf(w)]

\* A request is over, or answered, exactly when RoundTrip is.
LEMMA AnswerFacts ==
  ASSUME TypeOK, ReadsInv, NEW w \in Workers
  PROVE  /\ Answered[w] # NoRequest <=> pc[w] = "done"
         /\ req[w] # NoRequest <=> pc[w] # "idle"
         /\ pc[w] # "idle" => req[w] \in Request
<1>1. resp[w].status = "200" => resp[w].data.url \in URLs /\ resp[w].data.ver \in Nat
  <2>1. resp[w].status = "200" => resp[w].data \in Body
    BY DEF TypeOK
  <2> QED
    BY <2>1, TransportAssumption DEF Body
<1>2. \A url \in URLs, ver \in Nat : NoRequest # [url |-> url, ver |-> ver]
  BY TransportAssumption
<1>3. NoRequest # [ver |-> 0]
  BY TransportAssumption
<1>4. Answered[w] # NoRequest <=> pc[w] = "done"
  BY <1>1, <1>2, <1>3 DEF Answered, AnswerOf
<1>5. req[w] # NoRequest <=> pc[w] # "idle"
  BY DEF ReadsInv, RequestOf, TypeOK
<1>6. req[w] \in Request \cup {NoRequest}
  BY DEF TypeOK
<1> QED
  BY <1>4, <1>5, <1>6

LEMMA AnsweredExcept ==
  ASSUME NEW w \in Workers, NEW x, AnswerOf(w)' = x,
         \A v \in Workers \ {w} : pc'[v] = pc[v] /\ resp'[v] = resp[v]
  PROVE  Answered' = [Answered EXCEPT ![w] = x]
BY DEF Answered, AnswerOf

\* The body a worker carries is one that StaleReads allows.
LEMMA CarriedAllowed ==
  ASSUME TypeOK, ReadsInv, NEW w \in Workers, Carries(w)
  PROVE  CarriedVer(w) \in Reads!Allowed(req[w].url)
<1>1. /\ pc[w] # "idle" /\ CarriedVer(w) \in Nat \ {0}
      /\ req[w].url \in URLs /\ req[w].start \in Nat
  BY WorkerFacts DEF Carries
<1>2. /\ CarriedVer(w) <= Current(req[w].url) /\ now <= req[w].start + Timeout
      /\ CurrentSince(req[w].url, CarriedVer(w), req[w].start)
  BY <1>1 DEF ReadsInv, CarriedBy, RequestOf
<1>3. /\ now \in Nat /\ Timeout \in Nat /\ Current(req[w].url) \in Nat
      /\ PromisedTTL[req[w].url] \in Nat \ {0}
  BY <1>1, TimeFacts, TransportAssumption
<1>4. ASSUME CarriedVer(w) < Current(req[w].url)
      PROVE  now < published[req[w].url][CarriedVer(w) + 1] + PromisedTTL[req[w].url] + Timeout
  <2>1. CarriedVer(w) + 1 \in 1..Current(req[w].url)
    BY <1>1, <1>3, <1>4
  <2>2. published[req[w].url][CarriedVer(w) + 1] \in Nat
    BY <1>1, <2>1, TimeFacts
  <2>3. req[w].start <= published[req[w].url][CarriedVer(w) + 1]
    BY <1>2, <1>4 DEF CurrentSince, Superseded, SupersededAt
  <2> QED
    BY <1>1, <1>2, <1>3, <2>2, <2>3
<1> QED
  BY <1>1, <1>2, <1>3, <1>4 DEF Reads!Allowed, Current

\* So is a body that is served fresh.
LEMMA FreshAllowed ==
  ASSUME TTLsPromised, TypeOK, OwnEntries(cache), ReadsInv, NEW url \in URLs,
         lookupFresh(requestCacheKey(url))
  PROVE  /\ cache.entries[requestCacheKey(url)].data.ver \in Reads!Allowed(url)
         /\ cache.entries[requestCacheKey(url)].data.url = url
<1> DEFINE entry == cache.entries[requestCacheKey(url)]
<1>1. entry # NoEntry /\ now - entry.FetchedAt < entry.TTL
  BY DEF lookupFresh
<1>2. /\ entry \in Entry /\ entry.data.ver \in Nat \ {0} /\ entry.FetchedAt \in Nat
      /\ entry.TTL \in Nat
  BY <1>1, CachedFacts, EntryFacts
<1>3. entry.data.url = url /\ entry.TTL = ttlForPath(url.path)
  BY <1>1 DEF OwnEntries
<1>4. entry.TTL <= PromisedTTL[url]
  BY <1>3 DEF TTLsPromised
<1>5. SoundEntry(url, entry)
  BY <1>1 DEF ReadsInv, SoundEntries
<1>6. now \in Nat /\ Timeout \in Nat /\ Current(url) \in Nat /\ PromisedTTL[url] \in Nat
  BY TimeFacts, TransportAssumption
<1> HIDE DEF entry
<1>7. ASSUME entry.data.ver < Current(url)
      PROVE  now < published[url][entry.data.ver + 1] + PromisedTTL[url] + Timeout
  <2>1. entry.data.ver + 1 \in 1..Current(url)
    BY <1>2, <1>6, <1>7
  <2>2. published[url][entry.data.ver + 1] \in Nat
    BY <2>1, TimeFacts
  <2>3. entry.FetchedAt <= published[url][entry.data.ver + 1] + Timeout
    BY <1>5, <1>7 DEF SoundEntry, Superseded, SupersededAt
  <2> QED
    BY <1>1, <1>2, <1>4, <1>6, <2>2, <2>3
<1>8. entry.data.ver \in Reads!Allowed(url)
  BY <1>2, <1>5, <1>6, <1>7 DEF SoundEntry, Reads!Allowed, Current
<1> QED
  BY <1>3, <1>8 DEF entry

\* Each step of the transport is one of StaleReads or changes nothing it has.
LEMMA AnsweringStep ==
  ASSUME TypeOK, Attributed, ReadsInv, NEW w \in Workers,
         pc[w] \notin {"idle", "done"}, pc'[w] = "done",
         resp'[w].status # "200" \/ (Carries(w) /\ resp'[w].data.url = req[w].url
                                                /\ resp'[w].data.ver = CarriedVer(w)),
         UNCHANGED <<now, published, req>>,
         \A v \in Workers \ {w} : pc'[v] = pc[v] /\ resp'[v] = resp[v]
  PROVE  Reads!Answer(w)
<1>1. req[w] # NoRequest /\ Answered[w] = NoRequest
  BY AnswerFacts
<1>2. CASE resp'[w].status # "200"
  <2>1. Answered' = [Answered EXCEPT ![w] = [ver |-> 0]]
    BY <1>2, AnsweredExcept DEF AnswerOf
  <2> QED
    BY <1>1, <2>1 DEF Answered, AnswerOf, Reads!Answer, Reads!Failed
<1>3. CASE resp'[w].status = "200"
  <2>1. Answered' = [Answered EXCEPT ![w] = [url |-> req[w].url, ver |-> CarriedVer(w)]]
    BY <1>3, AnsweredExcept DEF AnswerOf
  <2>2. CarriedVer(w) \in Reads!Allowed(req[w].url)
    BY <1>3, CarriedAllowed
  <2> QED
    BY <1>1, <2>1, <2>2 DEF Answered, AnswerOf, Reads!Answer
<1> QED
  BY <1>2, <1>3

LEMMA StepImplements ==
  ASSUME TTLsPromised, TypeOK, Attributed, ReadsInv, [Next]_vars
  PROVE  [Reads!Next]_(Reads!vars)
<1>0. OwnEntries(cache)
  BY DEF Attributed, OwnBody, OwnEntries
<1>1. ASSUME NEW w \in Workers, NEW url \in URLs, ServeFresh(w, url)
      PROVE  Reads!AskAndAnswer(w, url)
  <2> DEFINE entry == cache.entries[requestCacheKey(url)]
  <2>1. /\ pc[w] = "idle" /\ lookupFresh(requestCacheKey(url))
        /\ req' = [req EXCEPT ![w] = [url |-> url, start |-> now]]
        /\ pc'[w] = "done" /\ resp'[w].status = "200" /\ resp'[w].data = entry.data
        /\ UNCHANGED <<now, published>>
        /\ \A v \in Workers \ {w} : pc'[v] = pc[v] /\ resp'[v] = resp[v]
    BY <1>1 DEF ServeFresh, Response, TypeOK
  <2>2. entry.data.ver \in Reads!Allowed(url) /\ entry.data.url = url
    BY <1>0, <2>1, FreshAllowed
  <2> HIDE DEF entry
  <2>3. Answered' = [Answered EXCEPT ![w] = [url |-> url, ver |-> entry.data.ver]]
    <3>1. AnswerOf(w)' = [url |-> url, ver |-> entry.data.ver]
      BY <2>1, <2>2 DEF AnswerOf
    <3> QED
      BY <2>1, <3>1, AnsweredExcept
  <2>4. req[w] = NoRequest
    BY <2>1, AnswerFacts
  <2> QED
    BY <2>1, <2>2, <2>3, <2>4 DEF Answered, AnswerOf, Reads!AskAndAnswer
<1>2. ASSUME NEW w \in Workers, NEW url \in URLs, MissLookup(w, url)
      PROVE  Reads!Ask(w, url)
  <2>1. /\ pc[w] = "idle" /\ pc'[w] # "done"
        /\ req' = [req EXCEPT ![w] = [url |-> url, start |-> now]]
        /\ UNCHANGED <<now, published>>
        /\ \A v \in Workers \ {w} : pc'[v] = pc[v] /\ resp'[v] = resp[v]
    BY <1>2 DEF MissLookup, TypeOK
  <2>2. req[w] = NoRequest
    BY <2>1, AnswerFacts
  <2>3. Answered' = Answered
    BY <2>1 DEF Answered, AnswerOf
  <2> QED
    BY <2>1, <2>2, <2>3 DEF Answered, AnswerOf, Reads!Ask
<1>3. ASSUME NEW w \in Workers,
             \/ ReadValidators(w) \/ UpstreamOK(w) \/ UpstreamNotModified(w) \/ UpstreamOther(w)
             \/ MergeRead(w) /\ pc'[w] # "done"
      PROVE  UNCHANGED Reads!vars
  <2>1. /\ pc[w] # "done" /\ pc'[w] # "done" /\ UNCHANGED <<now, published, req>>
        /\ \A v \in Workers \ {w} : pc'[v] = pc[v] /\ resp'[v] = resp[v]
    BY <1>3 DEF ReadValidators, UpstreamOK, UpstreamNotModified, UpstreamOther, Reply, MergeRead,
                TypeOK
  <2>2. Answered' = Answered
    BY <2>1 DEF Answered, AnswerOf
  <2> QED
    BY <2>1, <2>2 DEF Answered, AnswerOf, Reads!vars
<1>4. ASSUME NEW w \in Workers,
             \/ PassThrough(w) \/ Fail(w) \/ StoreBody(w) \/ MergePut(w)
             \/ MergeRead(w) /\ pc'[w] = "done"
      PROVE  Reads!Answer(w)
  <2>1. /\ pc[w] \notin {"idle", "done"} /\ pc'[w] = "done"
        /\ UNCHANGED <<now, published, req>>
        /\ \A v \in Workers \ {w} : pc'[v] = pc[v] /\ resp'[v] = resp[v]
    BY <1>4 DEF PassThrough, Fail, StoreBody, MergePut, MergeRead, TypeOK
  <2>2. ASSUME resp'[w].status = "200"
        PROVE  /\ Carries(w) /\ resp'[w].data.ver = CarriedVer(w)
               /\ resp'[w].data.url = req[w].url
    <3>1. CASE PassThrough(w) \/ StoreBody(w)
      BY <2>2, <3>1 DEF PassThrough, StoreBody, Carries, CarriedVer, Attributed, OwnBody
    <3>2. CASE MergePut(w)
      BY <3>2 DEF MergePut, Response, Carries, CarriedVer, Attributed, TypeOK
    <3>3. ~Fail(w) /\ ~(MergeRead(w) /\ pc'[w] = "done")
      BY <2>2 DEF Fail, MergeRead, Failure, Response, TypeOK
    <3> QED
      BY <1>4, <3>1, <3>2, <3>3
  <2> QED
    BY <2>1, <2>2, AnsweringStep
<1>5. ASSUME NEW w \in Workers, Return(w)
      PROVE  Reads!Return(w)
  <2>1. /\ pc[w] = "done" /\ pc'[w] = "idle" /\ UNCHANGED <<now, published>>
        /\ req' = [req EXCEPT ![w] = NoRequest]
        /\ \A v \in Workers \ {w} : pc'[v] = pc[v] /\ resp'[v] = resp[v]
    BY <1>5 DEF Return, TypeOK
  <2>2. Answered[w] # NoRequest
    BY <2>1, AnswerFacts
  <2>3. Answered' = [Answered EXCEPT ![w] = NoRequest]
    BY <2>1, AnsweredExcept DEF AnswerOf
  <2> QED
    BY <2>1, <2>2, <2>3 DEF Answered, AnswerOf, Reads!Return
<1>6. ASSUME NEW url \in URLs, Publish(url)
      PROVE  Reads!Publish(url)
  BY <1>6 DEF Publish, Current, Reads!Publish
<1>7. ASSUME Tick
      PROVE  Reads!Tick
  BY <1>7, AnswerFacts DEF Tick, Reads!Tick
<1>8. CASE UNCHANGED vars
  BY <1>8 DEF vars, Reads!vars
<1> QED
  BY <1>1, <1>2, <1>3, <1>4, <1>5, <1>6, <1>7, <1>8 DEF Next, Worker, Reads!Next

\* Whatever two tool calls for a URL do at the same time, each is answered with its
\* own URL's document, no older than the endpoint's TTL plus one request timeout
\* (http.go:64-149).
THEOREM TransportImplementsStaleReads ==
  ASSUME TTLsExceedTimeout, TTLsPromised
  PROVE  Spec /\ []NoThreeOverlap => ImplementsStaleReads
<1>1. Init => Reads!Init
  BY DEF Init, Reads!Init
<1>2. TypeOK /\ Attributed /\ ReadsInv /\ [Next]_vars => [Reads!Next]_(Reads!vars)
  BY StepImplements
<1> QED
  BY <1>1, <1>2, TypeCorrect, AttributedInvariant, ReadsInvariant, PTL
  DEF Spec, ImplementsStaleReads, Reads!Spec

\* Two requests at a time need no further condition: the transport then implements
\* StaleReads, what a 304 confirmed is current, and validators never run ahead
\* (http.go:64-149).
COROLLARY TwoWorkersReadCurrent ==
  ASSUME TTLsExceedTimeout, TTLsPromised,
         \A a, b, c \in Workers : a = b \/ b = c \/ a = c
  PROVE  Spec => ImplementsStaleReads /\ ConfirmedIsCurrent /\ []ValidatorsNotNewer
<1>1. NoThreeOverlap
  BY DEF NoThreeOverlap
<1> QED
  BY <1>1, TransportImplementsStaleReads, ConfirmedAreCurrent, ValidatorsKeepUp, PTL

-----------------------------------------------------------------------------
(***************************************************************************)
(* Over several lives of the server: ServerLives.  The snapshot's entries   *)
(* are as sound as the cache's they were, and stay so, because they carry   *)
(* the time they were fetched at.                                           *)
(***************************************************************************)

AllVars == <<vars, serverVars>>

LEMMA RestoredKeys ==
  ASSUME disk \in [Keys -> Entry \cup {NoEntry}], NEW keys \in RestoreOrders(disk)
  PROVE  RestoredFrom(restored(disk, maxBytes, keys), Keys, Entry, disk)
<1>1. IsFiniteSet(Keys)
  <2> DEFINE key == [url \in URLs |-> requestCacheKey(url)]
  <2>1. key \in Surjection(URLs, Keys)
    BY DEF Surjection, Keys
  <2> QED
    BY <2>1, FS_Surjection, LivesAssumption
<1>2. maxBytes \in Int /\ Sized(Entry)
  BY EntrySized, TransportAssumption
<1> QED
  BY <1>1, <1>2, Restored

\* The snapshot is typed, and its entries are of their own URLs.
DiskOwn ==
  /\ disk \in [Keys -> Entry \cup {NoEntry}]
  /\ \A url \in URLs :
       LET entry == disk[requestCacheKey(url)]
       IN  entry # NoEntry => entry.data.url = url /\ entry.TTL = ttlForPath(url.path)

DiskSound ==
  \A url \in URLs : LET entry == disk[requestCacheKey(url)]
                    IN  entry # NoEntry => SoundEntry(url, entry)

LEMMA InitLives ==
  LivesInit => TypeOK /\ Attributed /\ ReadsInv /\ DiskOwn /\ DiskSound
BY InitTypeOK, InitAttributed, InitReads
DEF LivesInit, EmptyCache, DiskOwn, DiskSound, Keys

\* A start of the server: nobody asks, and the cache is made of the snapshot.
LEMMA RestartFacts ==
  ASSUME DiskOwn, Restart
  PROVE  /\ RestoredFrom(cache', Keys, Entry, disk)
         /\ \A w \in Workers : /\ pc'[w] = "idle" /\ req'[w] = NoRequest /\ cond'[w] = NoHeaders
                               /\ held'[w] = NoEntry /\ resp'[w] = NoResponse
         /\ UNCHANGED <<now, published, disk>>
BY RestoredKeys DEF Restart, DiskOwn

LEMMA RestartTyped ==
  ASSUME TypeOK, DiskOwn, Restart
  PROVE  TypeOK' /\ Attributed'
<1>1. /\ cache' \in CacheType(Keys, Entry)
      /\ \A key \in Keys : cache'.entries[key] \in {NoEntry, disk[key]}
      /\ UNCHANGED <<now, published>>
  BY RestartFacts DEF RestoredFrom
<1>2. /\ pc' = [w \in Workers |-> "idle"]
      /\ req' = [w \in Workers |-> NoRequest]
      /\ cond' = [w \in Workers |-> NoHeaders]
      /\ held' = [w \in Workers |-> NoEntry]
      /\ resp' = [w \in Workers |-> NoResponse]
  BY DEF Restart
<1>3. /\ NoHeaders \in [IfNoneMatch : Validator, IfModifiedSince : Validator]
      /\ NoResponse \in Responses /\ NoResponse.status = "none"
  BY TransportAssumption DEF NoHeaders, NoResponse, Response, Responses, Validator
<1>4. TypeOK'
  BY <1>1, <1>2, <1>3 DEF TypeOK, CacheType, Responses
<1>5. ASSUME NEW url \in URLs, cache'.entries[requestCacheKey(url)] # NoEntry
      PROVE  /\ cache'.entries[requestCacheKey(url)].data.url = url
             /\ cache'.entries[requestCacheKey(url)].TTL = ttlForPath(url.path)
  <2>1. cache'.entries[requestCacheKey(url)] = disk[requestCacheKey(url)]
    BY <1>1, <1>5 DEF Keys
  <2> QED
    BY <1>5, <2>1 DEF DiskOwn
<1>6. Attributed'
  BY <1>2, <1>3, <1>5 DEF Attributed, OwnBody
<1> QED
  BY <1>4, <1>6

LEMMA RestartReads ==
  ASSUME TypeOK, DiskOwn, DiskSound, ReadsInv, Restart
  PROVE  ReadsInv'
<1>1. /\ \A key \in Keys : cache'.entries[key] \in {NoEntry, disk[key]}
      /\ \A w \in Workers : pc'[w] = "idle" /\ req'[w] = NoRequest /\ cond'[w] = NoHeaders
      /\ UNCHANGED <<now, published, disk>>
  BY RestartFacts DEF RestoredFrom
<1>2. Chronicle'
  BY <1>1 DEF ReadsInv, Chronicle, Current
<1>3. SoundEntries'
  <2> SUFFICES ASSUME NEW url \in URLs, cache'.entries[requestCacheKey(url)] # NoEntry
               PROVE  SoundEntry(url, cache.entries[requestCacheKey(url)])'
    BY DEF SoundEntries
  <2>1. /\ cache'.entries[requestCacheKey(url)] = disk[requestCacheKey(url)]
        /\ disk[requestCacheKey(url)] # NoEntry
    BY <1>1 DEF Keys
  <2>2. SoundEntry(url, disk[requestCacheKey(url)])
    BY <2>1 DEF DiskSound
  <2> QED
    BY <1>1, <2>1, <2>2 DEF SoundEntry, Superseded, SupersededAt, Current
<1>4. \A w \in Workers : RequestOf(w)' /\ CarriedBy(w)' /\ AskedBy(w)'
  BY <1>1 DEF RequestOf, CarriedBy, Carries, AskedBy
<1>5. \A a, b \in Workers : Paired(a, b)'
  BY <1>1 DEF Paired, Busy
<1> QED
  BY <1>2, <1>3, <1>4, <1>5 DEF ReadsInv

LEMMA LifeTyped ==
  TypeOK /\ Attributed /\ DiskOwn /\ [LivesNext]_AllVars => TypeOK' /\ Attributed' /\ DiskOwn'
<1> SUFFICES ASSUME TypeOK, Attributed, DiskOwn, [LivesNext]_AllVars
             PROVE  TypeOK' /\ Attributed' /\ DiskOwn'
  OBVIOUS
<1>1. CASE [Next]_vars /\ UNCHANGED serverVars
  <2>1. TypeOK' /\ Attributed'
    BY <1>1, TypeKept, AttributedKept
  <2> QED
    BY <1>1, <2>1 DEF DiskOwn, serverVars
<1>2. CASE Close
  <2>1. UNCHANGED vars /\ disk' = cache.entries
    BY <1>2 DEF Close
  <2>2. TypeOK' /\ Attributed'
    BY <2>1, TypeKept, AttributedKept
  <2> QED
    BY <2>1, <2>2 DEF DiskOwn, TypeOK, Attributed, OwnBody
<1>3. CASE Restart
  BY <1>3, RestartTyped, RestartFacts DEF DiskOwn
<1> QED
  BY <1>1, <1>2, <1>3 DEF LivesNext, Serve, AllVars

\* Time goes by for every sound entry alike, in the cache or not.
LEMMA SoundKept ==
  ASSUME TypeOK, [Next]_vars, NEW u \in URLs, NEW entry \in Entry, SoundEntry(u, entry)
  PROVE  SoundEntry(u, entry)'
<1>1. CASE Tick
  BY <1>1, TickSound
<1>2. CASE \E url \in URLs : Publish(url)
  BY <1>2, PublishSound
<1>3. CASE UNCHANGED vars \/ \E w \in Workers : Worker(w)
  <2>1. UNCHANGED <<now, published>>
    BY <1>3 DEF vars, Worker, ServeFresh, MissLookup, ReadValidators, UpstreamOK,
                UpstreamNotModified, UpstreamOther, Reply, PassThrough, Fail, StoreBody, MergeRead,
                MergePut, Return
  <2> QED
    BY <2>1 DEF SoundEntry, Superseded, SupersededAt, Current
<1> QED
  BY <1>1, <1>2, <1>3 DEF Next

LEMMA LifeReads ==
  ASSUME TTLsExceedTimeout, TypeOK, Attributed, DiskOwn, NoThreeOverlap, ReadsInv, DiskSound,
         [LivesNext]_AllVars
  PROVE  ReadsInv' /\ DiskSound'
<1>1. CASE [Next]_vars /\ UNCHANGED serverVars
  <2>1. ReadsInv'
    BY <1>1, StepKeeps
  <2>2. ASSUME NEW url \in URLs, disk[requestCacheKey(url)] # NoEntry
        PROVE  SoundEntry(url, disk[requestCacheKey(url)])'
    <3>1. /\ disk[requestCacheKey(url)] \in Entry
          /\ SoundEntry(url, disk[requestCacheKey(url)]) /\ disk' = disk
      BY <1>1, <2>2 DEF DiskOwn, DiskSound, Keys, serverVars
    <3> DEFINE entry == disk[requestCacheKey(url)]
    <3>2. entry' = entry
      BY <3>1
    <3>3. entry \in Entry /\ SoundEntry(url, entry)
      BY <3>1
    <3> HIDE DEF entry
    <3>4. \A e \in Entry : SoundEntry(url, e) => SoundEntry(url, e)'
      BY <1>1, SoundKept
    <3>5. SoundEntry(url, entry)'
      BY <3>2, <3>3, <3>4 DEF SoundEntry
    <3> QED
      BY <3>5 DEF entry
  <2> QED
    BY <1>1, <2>1, <2>2 DEF DiskSound, serverVars
<1>2. CASE Close
  <2>1. UNCHANGED vars /\ disk' = cache.entries
    BY <1>2 DEF Close
  <2>2. ReadsInv'
    BY <2>1, StepKeeps
  <2>3. SoundEntries'
    BY <2>2 DEF ReadsInv
  <2> QED
    BY <2>1, <2>2, <2>3 DEF DiskSound, SoundEntries, vars
<1>3. CASE Restart
  <2>1. ReadsInv' /\ UNCHANGED <<now, published, disk>>
    BY <1>3, RestartReads, RestartFacts
  <2> QED
    BY <2>1 DEF DiskSound, SoundEntry, Superseded, SupersededAt, Current
<1> QED
  BY <1>1, <1>2, <1>3 DEF LivesNext, Serve, AllVars

LEMMA LivesTyped == LivesSpec => [](TypeOK /\ Attributed /\ DiskOwn)
<1>1. LivesInit => TypeOK /\ Attributed /\ DiskOwn
  BY InitLives
<1> QED
  BY <1>1, LifeTyped, PTL DEF LivesSpec, AllVars

LEMMA LivesRead ==
  ASSUME TTLsExceedTimeout
  PROVE  LivesSpec /\ []NoThreeOverlap => [](ReadsInv /\ DiskSound)
<1>1. LivesInit => ReadsInv /\ DiskSound
  BY InitLives
<1>2. TypeOK /\ Attributed /\ DiskOwn /\ NoThreeOverlap /\ ReadsInv /\ DiskSound /\
      [LivesNext]_AllVars => ReadsInv' /\ DiskSound'
  BY LifeReads
<1> QED
  BY <1>1, <1>2, LivesTyped, PTL DEF LivesSpec, AllVars

\* The values keep their types over every save, end and start of the server,
\* with any snapshot that the server itself has written (cache.go:99-152).
THEOREM TypesOverLives == LivesSpec => []TypeOK
BY LivesTyped, PTL

\* No start of the server mixes up the bodies of two URLs: an entry that comes
\* back from the snapshot is under the key of its own URL and has its URL's TTL
\* (cache.go:176-206).
THEOREM BodiesOverLives == LivesSpec => []OwnBody
<1>1. Attributed => OwnBody
  BY DEF Attributed
<1> QED
  BY <1>1, LivesTyped, PTL

\* Restarts do not make answers older than promised: whatever was saved when, and
\* however long the server was away, an answer is its own URL's and no older than
\* the endpoint's TTL plus one request timeout (cache.go:176-206, http.go:64-149).
THEOREM LivesImplementStaleReads ==
  ASSUME TTLsExceedTimeout, TTLsPromised
  PROVE  LivesSpec /\ []NoThreeOverlap => ImplementsStaleReadsOverLives
<1>1. LivesInit => Reads!Init
  BY DEF LivesInit, Init, Reads!Init
<1>2. TypeOK /\ Attributed /\ DiskOwn /\ ReadsInv /\ [LivesNext]_AllVars
        => [Reads!Next]_(Reads!vars)
  <2> SUFFICES ASSUME TypeOK, Attributed, DiskOwn, ReadsInv, [LivesNext]_AllVars
               PROVE  [Reads!Next]_(Reads!vars)
    OBVIOUS
  <2>1. CASE [Next]_vars
    BY <2>1, StepImplements
  <2>2. CASE Restart
    <3>1. /\ \A w \in Workers : pc'[w] = "idle"
          /\ req' = [w \in Workers |-> NoRequest]
          /\ UNCHANGED <<now, published>>
      BY <2>2 DEF Restart
    <3>2. Answered' = [w \in Workers |-> NoRequest]
      BY <3>1 DEF Answered, AnswerOf
    <3>3. Reads!Abandon
      BY <3>1, <3>2 DEF Answered, AnswerOf, Reads!Abandon
    <3> QED
      BY <3>3 DEF Reads!Next
  <2> QED
    BY <2>1, <2>2 DEF LivesNext, Serve, Close, AllVars
<1> QED
  BY <1>1, <1>2, LivesTyped, LivesRead, PTL
  DEF LivesSpec, ImplementsStaleReadsOverLives, Reads!Spec, AllVars

\* With at most two requests at a time this needs no condition on what overlaps,
\* and no snapshot brings back a validator newer than its body.
COROLLARY TwoWorkersOverLives ==
  ASSUME TTLsExceedTimeout, TTLsPromised,
         \A a, b, c \in Workers : a = b \/ b = c \/ a = c
  PROVE  LivesSpec => ImplementsStaleReadsOverLives /\ []ValidatorsNotNewer
<1>1. NoThreeOverlap
  BY DEF NoThreeOverlap
<1>2. ReadsInv => ValidatorsNotNewer
  BY DEF ReadsInv, SoundEntries, SoundEntry, ValidatorsNotNewer, Keys
<1> QED
  BY <1>1, <1>2, LivesRead, LivesImplementStaleReads, PTL
=============================================================================
