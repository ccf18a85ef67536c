------------------------ MODULE CachingTransport_proof ----------------------
(***************************************************************************)
(* Type correctness of CachingTransport, that no answer and no cached body *)
(* is another URL's, for any number of workers, any URLs, any limit and    *)
(* any timing, that nothing is lost while there is room for all, and that  *)
(* the account is exact where there is none.                               *)
(***************************************************************************)
EXTENDS CachingTransport, CacheOps_proof, SequenceTheorems

\* Bodies have a length and the absent entry is none of them (CacheEntry).
LEMMA EntrySized == Sized(Entry)
BY TransportAssumption DEF Sized, Entry, Body

\* ttlForPath returns a duration for every path: the suffix that matched is one
\* of those it has a TTL for (http.go:158-177).
LEMMA TTLNat ==
  ASSUME NEW path \in Seq(STRING)
  PROVE  ttlForPath(path) \in Nat
<1>1. ASSUME NEW segment \in DOMAIN SuffixTTL, EndsWith(path, segment)
      PROVE  SuffixTTL[path[Len(path)]] \in Nat
  BY <1>1, TTLAssumption DEF SuffixTTL, EndsWith
<1> QED
  BY <1>1, TTLAssumption DEF ttlForPath

\* Two URLs with one cache key are the same URL (requestCacheKey, http.go:180).
LEMMA KeyInjective ==
  ASSUME NEW u \in URLs, NEW v \in URLs, requestCacheKey(u) = requestCacheKey(v)
  PROVE  u = v
<1>1. u \in Url /\ v \in Url
  BY TransportAssumption
<1>2. u.path = v.path /\ u.query = v.query
  BY DEF requestCacheKey
<1> QED
  BY <1>1, <1>2 DEF Url
-----------------------------------------------------------------------------
Responses == [status : {"none", "200", "304", "other", "error"},
              data : Body \cup {NoBody}, ETag : Validator, LastModified : Validator]

\* What the upstream's current version is allows it to be a validator.
LEMMA CurrentOK ==
  ASSUME TypeOK, NEW url \in URLs
  PROVE  Current(url) \in 1..MaxVersion
BY DEF TypeOK, Current

LEMMA KeyOfOK ==
  ASSUME TypeOK, NEW w \in Workers, pc[w] # "idle"
  PROVE  /\ req[w] \in Request /\ req[w].url \in URLs
         /\ KeyOf(w) \in Keys /\ TTLOf(w) \in Nat
<1>1. req[w] \in Request /\ req[w].url \in URLs
  BY DEF TypeOK, Request
<1>2. req[w].url.path \in Seq(STRING)
  BY <1>1, TransportAssumption DEF Url
<1> QED
  BY <1>1, <1>2, TTLNat DEF KeyOf, Keys, TTLOf

\* The entry a worker puts after a 200 or a 304 is an entry.
LEMMA StoredOK ==
  ASSUME TypeOK, NEW w \in Workers, pc[w] = "replied", resp[w].status = "200"
  PROVE  [data |-> resp[w].data, ETag |-> resp[w].ETag,
          LastModified |-> resp[w].LastModified, FetchedAt |-> now, TTL |-> TTLOf(w)] \in Entry
<1>1. resp[w] \in Responses /\ resp[w].data # NoBody /\ now \in 0..MaxTime
  BY DEF TypeOK, Responses
<1>2. TTLOf(w) \in Nat
  BY KeyOfOK
<1> QED
  BY <1>1, <1>2 DEF Responses, Entry

LEMMA MergedOK ==
  ASSUME TypeOK, NEW w \in Workers, pc[w] = "merge"
  PROVE  /\ held[w] \in Entry
         /\ merged(w) \in Entry
         /\ merged(w).data = held[w].data
         /\ merged(w).TTL = TTLOf(w)
<1>1. resp[w] \in Responses /\ now \in 0..MaxTime /\ held[w] \in Entry
  BY DEF TypeOK, Responses
<1>2. TTLOf(w) \in Nat
  BY KeyOfOK
<1> QED
  BY <1>1, <1>2 DEF Responses, Entry, merged

LEMMA InitTypeOK == Init => TypeOK
<1> SUFFICES ASSUME Init PROVE TypeOK
  OBVIOUS
<1>1. EmptyCache(Keys) \in [entries : [Keys -> Entry \cup {NoEntry}], size : Int]
  BY DEF EmptyCache
<1>2. published \in [URLs -> Seq(0..MaxTime)] /\ \A u \in URLs : Len(published[u]) = 1
  BY TransportAssumption DEF Init
<1>3. resp \in [Workers -> Responses]
  BY TransportAssumption DEF Init, NoResponse, Response, Responses, Validator
<1>4. cond \in [Workers -> [IfNoneMatch : Validator, IfModifiedSince : Validator]]
  BY TransportAssumption DEF Init, NoHeaders, Validator
<1> QED
  BY <1>1, <1>2, <1>3, <1>4, TransportAssumption
  DEF Init, TypeOK, Responses, NoResponse, Response

\* A Put of an entry under the key of a request keeps the cache's type.
LEMMA PutOK ==
  ASSUME TypeOK, NEW w \in Workers, pc[w] # "idle", NEW entry \in Entry, Put(KeyOf(w), entry)
  PROVE  cache' \in CacheType(Keys, Entry)
<1>1. cache \in CacheType(Keys, Entry) /\ maxBytes \in Int
  BY TransportAssumption DEF TypeOK, CacheType
<1> QED
  BY <1>1, KeyOfOK, EntrySized, PutLockedType DEF Put

\* Every step of RoundTrip, of the upstream and of the clock keeps the types.
LEMMA TypeKept == TypeOK /\ [Next]_vars => TypeOK'
<1> SUFFICES ASSUME TypeOK, [Next]_vars PROVE TypeOK'
  OBVIOUS
<1>0. cache \in CacheType(Keys, Entry) <=>
        cache \in [entries : [Keys -> Entry \cup {NoEntry}], size : Int]
  BY DEF CacheType
<1>1. ASSUME NEW w \in Workers, NEW url \in URLs, ServeFresh(w, url)
      PROVE  TypeOK'
  <2>1. requestCacheKey(url) \in Keys
    BY DEF Keys
  <2>2. cache.entries[requestCacheKey(url)] \in Entry
    BY <1>1, <2>1 DEF ServeFresh, lookupFresh, TypeOK
  <2>3. /\ resp'[w] \in Responses /\ resp'[w].data # NoBody
        /\ resp' \in [Workers -> Responses]
    BY <1>1, <2>2, TransportAssumption DEF ServeFresh, Response, Responses, Entry, TypeOK
  <2>4. [url |-> url, start |-> now] \in Request
    BY DEF TypeOK, Request
  <2> QED
    BY <1>1, <2>3, <2>4, TransportAssumption DEF ServeFresh, TypeOK, Responses
<1>2. ASSUME NEW w \in Workers, NEW url \in URLs, MissLookup(w, url)
      PROVE  TypeOK'
  <2>1. [url |-> url, start |-> now] \in Request
    BY DEF TypeOK, Request
  <2> QED
    BY <1>2, <2>1, TransportAssumption DEF MissLookup, TypeOK
<1>3. ASSUME NEW w \in Workers, ReadValidators(w)
      PROVE  TypeOK'
  <2>1. cache.entries[KeyOf(w)] \in Entry \cup {NoEntry}
    BY <1>3, KeyOfOK DEF ReadValidators, TypeOK
  <2>2. cond' \in [Workers -> [IfNoneMatch : Validator, IfModifiedSince : Validator]]
    BY <1>3, <2>1, TransportAssumption
    DEF ReadValidators, NoHeaders, Entry, Validator, TypeOK
  <2> QED
    BY <1>3, <2>2 DEF ReadValidators, TypeOK
<1>4. ASSUME NEW w \in Workers, NEW response \in Responses, Reply(w, response),
             response.status = "200" => response.data # NoBody
      PROVE  TypeOK'
  BY <1>4 DEF Reply, TypeOK, Responses
<1>5. ASSUME NEW w \in Workers, UpstreamOK(w)
      PROVE  TypeOK'
  <2>1. req[w].url \in URLs
    BY <1>5, KeyOfOK DEF UpstreamOK
  <2>2. Current(req[w].url) \in 1..MaxVersion
    BY <2>1, CurrentOK
  <2>3. BodyLen[req[w].url][Current(req[w].url)] \in Nat
    BY <2>1, <2>2, TransportAssumption
  <2> DEFINE body == [url |-> req[w].url, ver |-> Current(req[w].url),
                      len |-> BodyLen[req[w].url][Current(req[w].url)]]
             response == Response("200", body,
                                  Header("ETag", Headers200, req[w].url),
                                  Header("Last-Modified", Headers200, req[w].url))
  <2>4. body \in Body /\ body # NoBody
    BY <2>1, <2>2, <2>3, TransportAssumption DEF Body
  <2>5. /\ Header("ETag", Headers200, req[w].url) \in Validator
        /\ Header("Last-Modified", Headers200, req[w].url) \in Validator
    BY <2>2, TransportAssumption DEF Header, Validator
  <2>6. response \in Responses /\ response.status = "200" /\ response.data = body
    BY <2>4, <2>5 DEF Response, Responses
  <2>7. Reply(w, response)
    BY <1>5 DEF UpstreamOK
  <2> HIDE DEF body, response
  <2> QED
    BY <1>4, <2>4, <2>6, <2>7
<1>6. ASSUME NEW w \in Workers, UpstreamNotModified(w)
      PROVE  TypeOK'
  <2>1. Current(req[w].url) \in 1..MaxVersion
    BY <1>6, KeyOfOK, CurrentOK DEF UpstreamNotModified
  <2> DEFINE response == Response("304", NoBody,
                                  Header("ETag", Headers304, req[w].url),
                                  Header("Last-Modified", Headers304, req[w].url))
  <2>2. response \in Responses /\ response.status = "304"
    BY <2>1, TransportAssumption DEF Response, Responses, Header, Validator
  <2>3. Reply(w, response)
    BY <1>6 DEF UpstreamNotModified
  <2> HIDE DEF response
  <2> QED
    BY <1>4, <2>2, <2>3
<1>7. ASSUME NEW w \in Workers, UpstreamOther(w)
      PROVE  TypeOK'
  <2> DEFINE response == Response("other", NoBody, 0, 0)
  <2>1. response \in Responses /\ response.status = "other"
    BY TransportAssumption DEF Response, Responses, Validator
  <2>2. Reply(w, response)
    BY <1>7 DEF UpstreamOther
  <2> HIDE DEF response
  <2> QED
    BY <1>4, <2>1, <2>2
<1>8. ASSUME NEW w \in Workers, PassThrough(w)
      PROVE  TypeOK'
  BY <1>8 DEF PassThrough, TypeOK
<1>9. ASSUME NEW w \in Workers, Fail(w)
      PROVE  TypeOK'
  <2>1. Failure \in Responses /\ Failure.status = "error"
    BY TransportAssumption DEF Failure, Response, Responses, Validator
  <2> QED
    BY <1>9, <2>1 DEF Fail, TypeOK, Responses
<1>10. ASSUME NEW w \in Workers, StoreBody(w)
       PROVE  TypeOK'
  <2>1. cache' \in CacheType(Keys, Entry)
    BY <1>10, StoredOK, PutOK DEF StoreBody
  <2> QED
    BY <1>10, <2>1 DEF StoreBody, TypeOK, CacheType
<1>11. ASSUME NEW w \in Workers, MergeRead(w)
       PROVE  TypeOK'
  <2>1. cache.entries[KeyOf(w)] \in Entry \cup {NoEntry}
    BY <1>11, KeyOfOK DEF MergeRead, TypeOK
  <2>2. Failure \in Responses /\ Failure.status = "error"
    BY TransportAssumption DEF Failure, Response, Responses, Validator
  <2> QED
    BY <1>11, <2>1, <2>2 DEF MergeRead, TypeOK, Responses
<1>12. ASSUME NEW w \in Workers, MergePut(w)
       PROVE  TypeOK'
  <2>1. held[w] \in Entry /\ merged(w) \in Entry
    BY <1>12, MergedOK DEF MergePut
  <2>2. cache' \in CacheType(Keys, Entry)
    BY <1>12, <2>1, PutOK DEF MergePut
  <2>3. /\ Response("200", held[w].data, merged(w).ETag, merged(w).LastModified) \in Responses
        /\ held[w].data # NoBody
    BY <2>1, TransportAssumption DEF Response, Responses, Entry
  <2> QED
    BY <1>12, <2>2, <2>3 DEF MergePut, TypeOK, CacheType, Responses, Response
<1>13. ASSUME NEW w \in Workers, Return(w)
       PROVE  TypeOK'
  <2>1. NoResponse \in Responses /\ NoResponse.status = "none"
    BY TransportAssumption DEF NoResponse, Response, Responses, Validator
  <2>2. NoHeaders \in [IfNoneMatch : Validator, IfModifiedSince : Validator]
    BY TransportAssumption DEF NoHeaders, Validator
  <2> QED
    BY <1>13, <2>1, <2>2 DEF Return, TypeOK, Responses
<1>14. ASSUME NEW url \in URLs, Publish(url)
       PROVE  TypeOK'
  <2>1. published[url] \in Seq(0..MaxTime) /\ Len(published[url]) < MaxVersion /\ now \in 0..MaxTime
    BY <1>14 DEF Publish, Current, TypeOK
  <2>2. /\ Append(published[url], now) \in Seq(0..MaxTime)
        /\ Len(Append(published[url], now)) = Len(published[url]) + 1
    BY <2>1, AppendProperties
  <2>3. published' = [published EXCEPT ![url] = Append(published[url], now)]
    BY <1>14 DEF Publish
  <2>4. /\ published' \in [URLs -> Seq(0..MaxTime)]
        /\ \A u \in URLs : published'[u] = IF u = url THEN Append(published[url], now)
                                           ELSE published[u]
    BY <2>2, <2>3 DEF TypeOK
  <2>5. Len(published[url]) + 1 \in 1..MaxVersion
    <3>1. Len(published[url]) \in 1..MaxVersion /\ MaxVersion \in Nat
      BY TransportAssumption DEF TypeOK
    <3> QED
      BY <2>1, <3>1
  <2>6. \A u \in URLs : Len(published'[u]) \in 1..MaxVersion
    BY <2>2, <2>4, <2>5 DEF TypeOK
  <2> QED
    BY <1>14, <2>4, <2>6 DEF Publish, TypeOK
<1>15. CASE Tick
  BY <1>15, TransportAssumption DEF Tick, TypeOK
<1>16. CASE UNCHANGED vars
  BY <1>16 DEF vars, TypeOK
<1> QED
  BY <1>1, <1>2, <1>3, <1>5, <1>6, <1>7, <1>8, <1>9, <1>10, <1>11, <1>12, <1>13,
     <1>14, <1>15, <1>16 DEF Next, Worker

\* Every value keeps its type through every step of RoundTrip, of the upstream
\* and of the clock.
THEOREM TypeCorrect == Spec => []TypeOK
BY InitTypeOK, TypeKept, PTL DEF Spec

-----------------------------------------------------------------------------
\* OwnBody is not inductive alone: what a worker will answer with, or put in the
\* cache, must already belong to its request while it is only held, and a worker
\* that takes a new request must have let go of the answer to the one before.
Attributed ==
  /\ \A w \in Workers :
       /\ held[w] # NoEntry => pc[w] = "merge" /\ held[w].data.url = req[w].url
       /\ pc[w] \in {"idle", "validators", "sent"} => resp[w].status = "none"
  /\ OwnBody

\* The part of OwnBody about the cache.
OwnEntries(c) ==
  \A url \in URLs :
    LET entry == c.entries[requestCacheKey(url)]
    IN  entry # NoEntry => entry.data.url = url /\ entry.TTL = ttlForPath(url.path)

\* Putting an entry that belongs to the request under the request's key leaves
\* every entry with its own URL.
LEMMA PutOwn ==
  ASSUME TypeOK, OwnEntries(cache), NEW w \in Workers, pc[w] # "idle",
         NEW entry \in Entry, entry.data.url = req[w].url, entry.TTL = TTLOf(w),
         Put(KeyOf(w), entry)
  PROVE  OwnEntries(cache')
<1> SUFFICES ASSUME NEW url \in URLs, cache'.entries[requestCacheKey(url)] # NoEntry
             PROVE  /\ cache'.entries[requestCacheKey(url)].data.url = url
                    /\ cache'.entries[requestCacheKey(url)].TTL = ttlForPath(url.path)
  BY DEF OwnEntries
<1> DEFINE key == requestCacheKey(url)
<1>1. cache \in CacheType(Keys, Entry) /\ maxBytes \in Int
  BY TransportAssumption DEF TypeOK, CacheType
<1>2. key \in Keys
  BY DEF Keys
<1>3. \/ cache'.entries[key] \in {cache.entries[key], NoEntry}
      \/ key = KeyOf(w) /\ cache'.entries[key] = entry
  BY <1>1, <1>2, KeyOfOK, EntrySized, PutLockedEntries DEF Put
<1>4. CASE cache'.entries[key] = cache.entries[key]
  BY <1>4 DEF OwnEntries
<1>5. CASE key = KeyOf(w) /\ cache'.entries[key] = entry
  <2>1. url = req[w].url
    BY <1>5, KeyOfOK, KeyInjective DEF KeyOf
  <2> QED
    BY <1>5, <2>1 DEF TTLOf
<1> QED
  BY <1>3, <1>4, <1>5

LEMMA InitAttributed == Init => Attributed
<1> SUFFICES ASSUME Init PROVE Attributed
  OBVIOUS
<1>1. \A url \in URLs : cache.entries[requestCacheKey(url)] = NoEntry
  BY DEF Init, EmptyCache, Keys
<1> QED
  BY <1>1 DEF Init, Attributed, OwnBody, NoResponse, Response

\* Every step of RoundTrip passes on what belongs to its own request.
LEMMA AttributedKept ==
  TypeOK /\ TypeOK' /\ Attributed /\ [Next]_vars => Attributed'
<1> SUFFICES ASSUME TypeOK, TypeOK', Attributed, [Next]_vars PROVE Attributed'
  OBVIOUS
<1>0. /\ OwnEntries(cache)
      /\ OwnEntries(cache') /\ (\A w \in Workers : resp'[w].status = "200" =>
                                  resp'[w].data.url = req'[w].url) => OwnBody'
  BY DEF Attributed, OwnBody, OwnEntries
<1>1. ASSUME NEW w \in Workers, NEW url \in URLs, ServeFresh(w, url)
      PROVE  Attributed'
  <2>1. cache.entries[requestCacheKey(url)].data.url = url
    BY <1>0, <1>1 DEF ServeFresh, lookupFresh, OwnEntries
  <2>2. held[w] = NoEntry
    BY <1>1 DEF ServeFresh, Attributed
  <2> QED
    BY <1>0, <1>1, <2>1, <2>2 DEF ServeFresh, Response, Attributed, OwnBody, TypeOK
<1>2. ASSUME NEW w \in Workers, NEW url \in URLs, MissLookup(w, url)
      PROVE  Attributed'
  <2>1. held[w] = NoEntry /\ resp[w].status = "none"
    BY <1>2 DEF MissLookup, Attributed
  <2> QED
    BY <1>0, <1>2, <2>1 DEF MissLookup, Attributed, OwnBody, TypeOK
<1>3. ASSUME NEW w \in Workers, ReadValidators(w)
      PROVE  Attributed'
  BY <1>0, <1>3 DEF ReadValidators, Attributed, OwnBody, TypeOK
<1>4. ASSUME NEW w \in Workers, UpstreamOK(w) \/ UpstreamNotModified(w) \/ UpstreamOther(w)
      PROVE  Attributed'
  <2>1. resp'[w].status = "200" => resp'[w].data.url = req[w].url
    BY <1>4 DEF UpstreamOK, UpstreamNotModified, UpstreamOther, Reply, Response, TypeOK
  <2>2. /\ pc[w] = "sent" /\ pc' = [pc EXCEPT ![w] = "replied"]
        /\ \A v \in Workers \ {w} : resp'[v] = resp[v]
        /\ UNCHANGED <<cache, req, held>>
    BY <1>4 DEF UpstreamOK, UpstreamNotModified, UpstreamOther, Reply, TypeOK
  <2>3. held[w] = NoEntry
    BY <2>2 DEF Attributed
  <2>4. ASSUME NEW v \in Workers
        PROVE  /\ held'[v] # NoEntry => pc'[v] = "merge" /\ held'[v].data.url = req'[v].url
               /\ pc'[v] \in {"idle", "validators", "sent"} => resp'[v].status = "none"
               /\ resp'[v].status = "200" => resp'[v].data.url = req'[v].url
    BY <2>1, <2>2, <2>3 DEF Attributed, OwnBody, TypeOK
  <2> QED
    BY <1>0, <2>2, <2>4 DEF Attributed
<1>5. ASSUME NEW w \in Workers, PassThrough(w)
      PROVE  Attributed'
  BY <1>0, <1>5 DEF PassThrough, Attributed, OwnBody, TypeOK
<1>6. ASSUME NEW w \in Workers, Fail(w)
      PROVE  Attributed'
  BY <1>0, <1>6 DEF Fail, Failure, Response, Attributed, OwnBody, TypeOK
<1>7. ASSUME NEW w \in Workers, StoreBody(w)
      PROVE  Attributed'
  <2>1. OwnEntries(cache')
    BY <1>0, <1>7, StoredOK, PutOwn DEF StoreBody, Attributed, OwnBody
  <2> QED
    BY <1>0, <1>7, <2>1 DEF StoreBody, Attributed, OwnBody, TypeOK
<1>8. ASSUME NEW w \in Workers, MergeRead(w)
      PROVE  Attributed'
  <2>1. KeyOf(w) = requestCacheKey(req[w].url) /\ req[w].url \in URLs
    BY <1>8, KeyOfOK DEF MergeRead, KeyOf
  <2>2. cache.entries[KeyOf(w)] # NoEntry => cache.entries[KeyOf(w)].data.url = req[w].url
    BY <1>0, <2>1 DEF OwnEntries
  <2> QED
    BY <1>0, <1>8, <2>2 DEF MergeRead, Failure, Response, Attributed, OwnBody, TypeOK
<1>9. ASSUME NEW w \in Workers, MergePut(w)
      PROVE  Attributed'
  <2>1. /\ held[w] \in Entry /\ merged(w) \in Entry
        /\ merged(w).data = held[w].data /\ merged(w).TTL = TTLOf(w)
    BY <1>9, MergedOK DEF MergePut
  <2>2. held[w].data.url = req[w].url
    BY <2>1, EntrySized DEF Attributed, Sized
  <2>3. OwnEntries(cache')
    BY <1>0, <1>9, <2>1, <2>2, PutOwn DEF MergePut
  <2> QED
    BY <1>0, <1>9, <2>2, <2>3 DEF MergePut, Response, Attributed, OwnBody, TypeOK
<1>10. ASSUME NEW w \in Workers, Return(w)
       PROVE  Attributed'
  BY <1>0, <1>10 DEF Return, NoResponse, Response, Attributed, OwnBody, TypeOK
<1>11. CASE Tick \/ UNCHANGED vars \/ \E url \in URLs : Publish(url)
  <2>1. UNCHANGED <<cache, pc, req, held, resp>>
    BY <1>11 DEF Tick, vars, Publish
  <2> QED
    BY <1>0, <2>1 DEF Attributed, OwnBody
<1> QED
  BY <1>1, <1>2, <1>3, <1>4, <1>5, <1>6, <1>7, <1>8, <1>9, <1>10, <1>11 DEF Next, Worker

LEMMA AttributedInvariant == Spec => []Attributed
BY InitAttributed, AttributedKept, TypeCorrect, PTL DEF Spec

\* No cached body and no answer is another URL's, however the requests of the
\* workers overlap and whatever is cleared meanwhile (RoundTrip, requestCacheKey).
THEOREM BodiesNotMixedUp == Spec => []OwnBody
<1>1. Attributed => OwnBody
  BY DEF Attributed
<1> QED
  BY <1>1, AttributedInvariant, PTL

-----------------------------------------------------------------------------
(***************************************************************************)
(* Nothing leaves a cache that has room for a longest body of every URL.   *)
(***************************************************************************)
\* The limit is off, or at least the sum of a length per key that no body of its
\* URL exceeds (the bytes of each key told apart as in CacheOps).
HasRoom ==
  \/ maxBytes <= 0
  \/ /\ IsFiniteSet(Keys)
     /\ \E most \in [Keys -> Nat] :
          /\ \A url \in URLs, v \in 1..MaxVersion :
               BodyLen[url][v] <= most[requestCacheKey(url)]
          /\ Cardinality(UNION {{k} \X (1..most[k]) : k \in Keys}) <= maxBytes

NoEmptyBody == \A url \in URLs, v \in 1..MaxVersion : BodyLen[url][v] > 0

\* A body is as long as the upstream made it.
Genuine(body) == body.len = BodyLen[body.url][body.ver]

\* Whoever sent validators, was answered 304, or answered from a cached path has
\* an entry; and as long as nothing is cleared, the account is exact.
KeptBy(w) ==
  /\ resp[w].status = "200" => Genuine(resp[w].data)
  /\ held[w] # NoEntry => Genuine(held[w].data)
  /\ pc[w] \in {"idle", "validators"} => cond[w] = NoHeaders
  /\ pc[w] = "replied" /\ resp[w].status = "304" => cond[w] # NoHeaders
  /\ pc[w] \in {"sent", "replied"} /\ cond[w] # NoHeaders => cache.entries[KeyOf(w)] # NoEntry
  /\ pc[w] = "done" /\ resp[w].status = "200" /\ TTLOf(w) > 0
       => cache.entries[KeyOf(w)] # NoEntry

KeptEntries ==
  /\ \A k \in Keys : cache.entries[k] # NoEntry => Genuine(cache.entries[k].data)
  /\ maxBytes > 0 => cache.size = BytesHeld(cache.entries, Keys)

KeptInv == KeptEntries /\ \A w \in Workers : KeptBy(w)

\* With room nothing is cleared and nothing refused: a Put binds its key and the
\* account stays exact (putLocked, cache.go:219-229).
LEMMA RoomPut ==
  ASSUME TypeOK, OwnEntries(cache), KeptInv, HasRoom, NEW w \in Workers, pc[w] # "idle",
         NEW entry \in Entry, entry.data.url = req[w].url, Genuine(entry.data),
         Put(KeyOf(w), entry)
  PROVE  /\ cache'.entries = [cache.entries EXCEPT ![KeyOf(w)] = entry]
         /\ maxBytes > 0 => cache'.size = BytesHeld(cache'.entries, Keys)
<1> DEFINE key == KeyOf(w)
           new == [cache.entries EXCEPT ![key] = entry]
           len == entry.data.len
           total == cache.size - LenAt(cache.entries, key) + len
<1>1. /\ cache.entries \in [Keys -> Entry \cup {NoEntry}] /\ cache.size \in Int
      /\ maxBytes \in Int /\ key \in Keys /\ req[w].url \in URLs
      /\ key = requestCacheKey(req[w].url)
  BY TransportAssumption, KeyOfOK DEF TypeOK, KeyOf
<1>2. /\ LenAt(cache.entries, key) \in Nat /\ len \in Nat
      /\ new \in [Keys -> Entry \cup {NoEntry}]
  BY <1>1, EntrySized, LenAtNat DEF Sized
<1>3. cache' = putLocked(cache, maxBytes, key, entry)
  BY DEF Put
<1>4. ASSUME maxBytes > 0
      PROVE  total = BytesHeld(new, Keys) /\ total <= maxBytes /\ len <= total
  <2>1. PICK most \in [Keys -> Nat] :
          /\ \A url \in URLs, v \in 1..MaxVersion :
               BodyLen[url][v] <= most[requestCacheKey(url)]
          /\ Cardinality(UNION {{k} \X (1..most[k]) : k \in Keys}) <= maxBytes
    BY <1>1, <1>4 DEF HasRoom
  <2>2. IsFiniteSet(Keys)
    BY <1>1, <1>4 DEF HasRoom
  <2>3. cache.size = BytesHeld(cache.entries, Keys)
    BY <1>4 DEF KeptInv, KeptEntries
  <2>4. total = BytesHeld(new, Keys)
    <3>1. BytesHeld(new, Keys) = BytesHeld(cache.entries, Keys) - LenAt(cache.entries, key) + len
      BY <1>1, <2>2, EntrySized, BytesBind
    <3> QED
      BY <2>3, <3>1
  <2>5. ASSUME NEW k \in Keys PROVE LenAt(new, k) <= most[k]
    <3>1. PICK url \in URLs : k = requestCacheKey(url)
      BY DEF Keys
    <3>2. CASE new[k] = NoEntry
      BY <3>2 DEF LenAt
    <3>3. CASE new[k] # NoEntry
      <4>1. new[k] \in Entry /\ new[k].data \in Body
        BY <1>2, <3>3 DEF Entry
      <4>2. requestCacheKey(new[k].data.url) = k /\ Genuine(new[k].data)
        <5>1. CASE k = key
          BY <1>1, <5>1
        <5>2. CASE k # key
          <6>1. new[k] = cache.entries[k]
            BY <1>1, <5>2
          <6> QED
            BY <3>1, <3>3, <6>1 DEF OwnEntries, KeptInv, KeptEntries
        <5> QED
          BY <5>1, <5>2
      <4>3. /\ new[k].data.url \in URLs /\ new[k].data.ver \in 1..MaxVersion
        BY <4>1 DEF Body
      <4>4. BodyLen[new[k].data.url][new[k].data.ver] <= most[k]
        BY <2>1, <4>2, <4>3
      <4>5. LenAt(new, k) = BodyLen[new[k].data.url][new[k].data.ver]
        BY <3>3, <4>2 DEF LenAt, Genuine
      <4> QED
        BY <4>4, <4>5
    <3> QED
      BY <3>2, <3>3
  <2> DEFINE most_bytes == UNION {{k} \X (1..most[k]) : k \in Keys}
  <2>6. \A k \in Keys : LenAt(new, k) \in Nat
    BY <1>2, EntrySized, LenAtNat
  <2>7. \A k \in Keys : 1..LenAt(new, k) \subseteq 1..most[k]
    <3> HIDE DEF new
    <3> QED
      BY <2>5, <2>6
  <2>8. Bytes(new, Keys) \subseteq most_bytes
    <3> HIDE DEF new
    <3> QED
      BY <2>7 DEF Bytes
  <2>9. IsFiniteSet(most_bytes)
    BY <2>2, BlocksFinite
  <2>10. BytesHeld(new, Keys) \in Nat /\ Cardinality(most_bytes) \in Int
    <3> HIDE DEF new, most_bytes
    <3>1. BytesHeld(new, Keys) \in Nat
      BY <1>2, <2>2, EntrySized, BytesFinite
    <3>2. Cardinality(most_bytes) \in Int
      BY <2>9, FS_CardinalityType
    <3> QED
      BY <3>1, <3>2
  <2>11. BytesHeld(new, Keys) <= Cardinality(most_bytes)
    BY <2>8, <2>9, FS_Subset DEF BytesHeld
  <2>12. total <= maxBytes
    <3> HIDE DEF new, total, most_bytes
    <3> QED
      BY <1>1, <2>1, <2>4, <2>10, <2>11 DEF most_bytes
  <2>13. len <= total
    <3>1. BytesHeld(new, Keys) = BytesHeld(new, Keys \ {key}) + LenAt(new, key)
          /\ BytesHeld(new, Keys \ {key}) \in Nat
      BY <1>1, <1>2, <2>2, EntrySized, BytesSplit
    <3>2. LenAt(new, key) = len
      BY <1>1, EntrySized DEF LenAt, Sized
    <3> HIDE DEF new, total, len
    <3> QED
      BY <1>2, <2>4, <3>1, <3>2
  <2> QED
    BY <2>4, <2>12, <2>13
<1>5. ~Exceeds(len, maxBytes) /\ ~Exceeds(total, maxBytes)
  <2> HIDE DEF new, total, len, key
  <2>1. total \in Int
    BY <1>1, <1>2 DEF total
  <2> QED
    BY <1>1, <1>2, <1>4, <2>1 DEF Exceeds
<1>6. cache' = [entries |-> new, size |-> total]
  BY <1>3, <1>5 DEF putLocked
<1> HIDE DEF total
<1> QED
  BY <1>4, <1>6

LEMMA KeptInvariant ==
  ASSUME HasRoom
  PROVE  Spec => []KeptInv
<1>1. Init => KeptInv
  <2> SUFFICES ASSUME Init PROVE KeptInv
    OBVIOUS
  <2>1. \A k \in Keys : cache.entries[k] = NoEntry
    BY DEF Init, EmptyCache
  <2>2. BytesHeld(cache.entries, Keys) = 0
    BY <2>1, BytesNone
  <2>3. KeptEntries
    BY <2>1, <2>2 DEF Init, EmptyCache, KeptEntries
  <2>4. \A w \in Workers : KeptBy(w)
    BY DEF Init, KeptBy, NoResponse, Response
  <2> QED
    BY <2>3, <2>4 DEF KeptInv
<1>2. TypeOK /\ Attributed /\ KeptInv /\ [Next]_vars => KeptInv'
  <2> SUFFICES ASSUME TypeOK, Attributed, KeptInv, [Next]_vars PROVE KeptInv'
    OBVIOUS
  <2>0. OwnEntries(cache) /\ KeptEntries
    BY DEF Attributed, OwnBody, OwnEntries, KeptInv
  <2>a. ASSUME NEW w \in Workers, cache' = cache, KeptBy(w)',
               \A v \in Workers \ {w} : /\ pc'[v] = pc[v] /\ req'[v] = req[v]
                                        /\ cond'[v] = cond[v] /\ held'[v] = held[v]
                                        /\ resp'[v] = resp[v]
        PROVE  KeptInv'
    <3>1. KeptEntries'
      BY <2>0, <2>a DEF KeptEntries
    <3>2. \A v \in Workers \ {w} : KeptBy(v)'
      BY <2>a DEF KeptInv, KeptBy, KeyOf, TTLOf
    <3> QED
      BY <2>a, <3>1, <3>2 DEF KeptInv
  <2>b. ASSUME NEW w \in Workers, pc[w] # "idle", NEW entry \in Entry,
               entry.data.url = req[w].url, Genuine(entry.data), Put(KeyOf(w), entry),
               req' = req, cond' = cond, pc' = [pc EXCEPT ![w] = "done"],
               held'[w] = NoEntry, resp'[w].status = "200" => Genuine(resp'[w].data),
               \A v \in Workers \ {w} : held'[v] = held[v] /\ resp'[v] = resp[v]
        PROVE  KeptInv'
    <3>1. /\ cache'.entries = [cache.entries EXCEPT ![KeyOf(w)] = entry]
          /\ maxBytes > 0 => cache'.size = BytesHeld(cache'.entries, Keys)
      BY <2>0, <2>b, RoomPut
    <3>2. cache.entries \in [Keys -> Entry \cup {NoEntry}] /\ entry # NoEntry /\ KeyOf(w) \in Keys
      BY <2>b, KeyOfOK, EntrySized DEF TypeOK, Sized
    <3>3. KeptEntries'
      BY <2>0, <2>b, <3>1, <3>2 DEF KeptEntries
    <3>4. ASSUME NEW v \in Workers PROVE KeptBy(v)'
      <4>1. KeyOf(v)' = KeyOf(v) /\ TTLOf(v)' = TTLOf(v)
        BY <2>b DEF KeyOf, TTLOf
      <4>2. pc[v] # "idle" => KeyOf(v) \in Keys
        BY KeyOfOK
      <4>3. pc[v] # "idle" /\ cache.entries[KeyOf(v)] # NoEntry => cache'.entries[KeyOf(v)] # NoEntry
        BY <3>1, <3>2, <4>2
      <4>4. CASE v = w
        BY <2>b, <3>1, <3>2, <4>1, <4>4 DEF KeptBy, TypeOK
      <4>5. CASE v # w
        <5>1. /\ pc'[v] = pc[v] /\ cond'[v] = cond[v] /\ held'[v] = held[v] /\ resp'[v] = resp[v]
          BY <2>b, <4>5 DEF TypeOK
        <5> QED
          BY <4>1, <4>3, <5>1 DEF KeptInv, KeptBy
      <4> QED
        BY <4>4, <4>5
    <3> QED
      BY <3>3, <3>4 DEF KeptInv
  <2>1. ASSUME NEW w \in Workers, NEW url \in URLs, ServeFresh(w, url)
        PROVE  KeptInv'
    <3> DEFINE key == requestCacheKey(url)
    <3>1. key \in Keys /\ cache.entries[key] # NoEntry
      BY <2>1 DEF ServeFresh, lookupFresh, Keys
    <3>2. Genuine(cache.entries[key].data)
      BY <2>0, <3>1 DEF KeptEntries
    <3>3. /\ pc'[w] = "done" /\ req'[w].url = url /\ resp'[w].data = cache.entries[key].data
          /\ held' = held /\ cond' = cond /\ cache' = cache
      BY <2>1 DEF ServeFresh, Response, TypeOK
    <3>4. KeptBy(w)'
      BY <3>1, <3>2, <3>3 DEF KeptInv, KeptBy, KeyOf
    <3> QED
      BY <2>1, <2>a, <3>4 DEF ServeFresh, TypeOK
  <2>2. ASSUME NEW w \in Workers, NEW url \in URLs, MissLookup(w, url)
        PROVE  KeptInv'
    <3>1. resp[w].status = "none" /\ cond[w] = NoHeaders
      BY <2>2 DEF MissLookup, Attributed, KeptInv, KeptBy
    <3>2. KeptBy(w)'
      BY <2>2, <3>1 DEF MissLookup, KeptInv, KeptBy, TypeOK
    <3> QED
      BY <2>2, <2>a, <3>2 DEF MissLookup, TypeOK
  <2>3. ASSUME NEW w \in Workers, ReadValidators(w)
        PROVE  KeptInv'
    <3>1. cond'[w] # NoHeaders => cache.entries[KeyOf(w)] # NoEntry
      BY <2>3 DEF ReadValidators, TypeOK
    <3>2. KeptBy(w)'
      BY <2>3, <3>1 DEF ReadValidators, KeptInv, KeptBy, KeyOf, TTLOf, TypeOK
    <3> QED
      BY <2>3, <2>a, <3>2 DEF ReadValidators, TypeOK
  <2>4. ASSUME NEW w \in Workers, UpstreamOK(w)
        PROVE  KeptInv'
    <3>1. resp'[w].status = "200" /\ Genuine(resp'[w].data)
      BY <2>4 DEF UpstreamOK, Reply, Response, Genuine, TypeOK
    <3>2. KeptBy(w)'
      BY <2>4, <3>1 DEF UpstreamOK, Reply, KeptInv, KeptBy, KeyOf, TypeOK
    <3> QED
      BY <2>4, <2>a, <3>2 DEF UpstreamOK, Reply, TypeOK
  <2>5. ASSUME NEW w \in Workers, UpstreamNotModified(w)
        PROVE  KeptInv'
    <3>1. cond[w] # NoHeaders
      BY <2>5 DEF UpstreamNotModified, Matches, NoHeaders
    <3>2. KeptBy(w)'
      BY <2>5, <3>1 DEF UpstreamNotModified, Reply, Response, KeptInv, KeptBy, KeyOf, TypeOK
    <3> QED
      BY <2>5, <2>a, <3>2 DEF UpstreamNotModified, Reply, TypeOK
  <2>6. ASSUME NEW w \in Workers, UpstreamOther(w)
        PROVE  KeptInv'
    <3>1. KeptBy(w)'
      BY <2>6 DEF UpstreamOther, Reply, Response, KeptInv, KeptBy, KeyOf, TypeOK
    <3> QED
      BY <2>6, <2>a, <3>1 DEF UpstreamOther, Reply, TypeOK
  <2>7. ASSUME NEW w \in Workers, PassThrough(w)
        PROVE  KeptInv'
    <3>1. KeptBy(w)'
      BY <2>7 DEF PassThrough, KeptInv, KeptBy, KeyOf, TTLOf, TypeOK
    <3> QED
      BY <2>7, <2>a, <3>1 DEF PassThrough, TypeOK
  <2>8. ASSUME NEW w \in Workers, Fail(w)
        PROVE  KeptInv'
    <3>1. KeptBy(w)'
      BY <2>8 DEF Fail, Failure, Response, KeptInv, KeptBy, TypeOK
    <3> QED
      BY <2>8, <2>a, <3>1 DEF Fail, TypeOK
  <2>9. ASSUME NEW w \in Workers, StoreBody(w)
        PROVE  KeptInv'
    <3> DEFINE entry == [data |-> resp[w].data, ETag |-> resp[w].ETag,
                         LastModified |-> resp[w].LastModified,
                         FetchedAt |-> now, TTL |-> TTLOf(w)]
    <3>1. entry \in Entry /\ pc[w] = "replied" /\ resp[w].status = "200"
      BY <2>9, StoredOK DEF StoreBody
    <3>2. entry.data = resp[w].data /\ resp[w].data.url = req[w].url /\ Genuine(resp[w].data)
      BY <3>1 DEF Attributed, OwnBody, KeptInv, KeptBy
    <3>3. held[w] = NoEntry
      BY <3>1 DEF Attributed
    <3>4. /\ Put(KeyOf(w), entry) /\ req' = req /\ cond' = cond /\ held' = held /\ resp' = resp
          /\ pc' = [pc EXCEPT ![w] = "done"]
      BY <2>9 DEF StoreBody
    <3> HIDE DEF entry
    <3> QED
      BY <2>b, <3>1, <3>2, <3>3, <3>4
  <2>10. ASSUME NEW w \in Workers, MergeRead(w)
         PROVE  KeptInv'
    <3>1. KeyOf(w) \in Keys
      BY <2>10, KeyOfOK DEF MergeRead
    <3>2. held'[w] # NoEntry => Genuine(held'[w].data)
      BY <2>0, <2>10, <3>1 DEF MergeRead, KeptEntries, TypeOK
    <3>3. KeptBy(w)'
      BY <2>10, <3>2 DEF MergeRead, Failure, Response, KeptInv, KeptBy, TypeOK
    <3> QED
      BY <2>10, <2>a, <3>3 DEF MergeRead, TypeOK
  <2>11. ASSUME NEW w \in Workers, MergePut(w)
         PROVE  KeptInv'
    <3>1. /\ held[w] \in Entry /\ merged(w) \in Entry /\ merged(w).data = held[w].data
          /\ pc[w] = "merge" /\ held[w] # NoEntry
      BY <2>11, MergedOK, EntrySized DEF MergePut, Sized
    <3>2. held[w].data.url = req[w].url /\ Genuine(held[w].data)
      BY <3>1 DEF Attributed, KeptInv, KeptBy
    <3>3. /\ Put(KeyOf(w), merged(w)) /\ req' = req /\ cond' = cond
          /\ pc' = [pc EXCEPT ![w] = "done"]
          /\ held'[w] = NoEntry /\ resp'[w].data = held[w].data
          /\ \A v \in Workers \ {w} : held'[v] = held[v] /\ resp'[v] = resp[v]
      BY <2>11 DEF MergePut, Response, TypeOK
    <3> QED
      BY <2>b, <3>1, <3>2, <3>3
  <2>12. ASSUME NEW w \in Workers, Return(w)
         PROVE  KeptInv'
    <3>1. KeptBy(w)'
      BY <2>12 DEF Return, NoResponse, Response, KeptInv, KeptBy, TypeOK
    <3> QED
      BY <2>12, <2>a, <3>1 DEF Return, TypeOK
  <2>13. CASE Tick \/ UNCHANGED vars \/ \E url \in URLs : Publish(url)
    <3>1. UNCHANGED <<cache, pc, req, cond, held, resp>>
      BY <2>13 DEF Tick, vars, Publish
    <3> QED
      BY <3>1 DEF KeptInv, KeptEntries, KeptBy, KeyOf, TTLOf
  <2> QED
    BY <2>1, <2>2, <2>3, <2>4, <2>5, <2>6, <2>7, <2>8, <2>9, <2>10, <2>11, <2>12, <2>13
    DEF Next, Worker
<1> QED
  BY <1>1, <1>2, TypeCorrect, AttributedInvariant, PTL DEF Spec

\* With room for every URL, and every URL one of a path that has a TTL, an
\* endpoint that was answered is in the cache when RoundTrip returns, for any
\* number of workers and any interleaving (http.go:107-137).
THEOREM AnswersKept ==
  ASSUME HasRoom, \A url \in URLs : ttlForPath(url.path) > 0
  PROVE  Spec => []AnswerIsKept
<1>1. TypeOK /\ KeptInv => AnswerIsKept
  BY KeyOfOK DEF TTLOf, KeptInv, KeptBy, AnswerIsKept
<1> QED
  BY <1>1, TypeCorrect, KeptInvariant, PTL

\* With room, a 304 always finds the body it confirms, unless bodies are empty:
\* the error of http.go:121 needs an eviction between the validators and the merge.
THEOREM NotModifiedFindsBody ==
  ASSUME HasRoom, NoEmptyBody
  PROVE  Spec => []NotModifiedHasBody
<1>1. TypeOK /\ KeptInv => NotModifiedHasBody
  <2> SUFFICES ASSUME TypeOK, KeptInv, NEW w \in Workers, pc[w] = "replied",
                      resp[w].status = "304"
               PROVE  LenAt(cache.entries, KeyOf(w)) > 0
    BY DEF NotModifiedHasBody
  <2> DEFINE entry == cache.entries[KeyOf(w)]
  <2>1. entry # NoEntry /\ KeyOf(w) \in Keys
    BY KeyOfOK DEF KeptInv, KeptBy
  <2>2. entry \in Entry /\ Genuine(entry.data)
    BY <2>1 DEF TypeOK, KeptInv, KeptEntries
  <2>3. entry.data.url \in URLs /\ entry.data.ver \in 1..MaxVersion
    BY <2>2 DEF Entry, Body
  <2> QED
    BY <2>1, <2>2, <2>3 DEF LenAt, Genuine, NoEmptyBody
<1> QED
  BY <1>1, TypeCorrect, KeptInvariant, PTL

-----------------------------------------------------------------------------
(***************************************************************************)
(* The account of a cache that is cleared while requests are under way.    *)
(***************************************************************************)
AllFit == \A url \in URLs : \A v \in 1..MaxVersion : ~Exceeds(BodyLen[url][v], maxBytes)

\* A body that was read, or is held for a merge, is a whole body of the upstream's,
\* and so is put within the limit; c.size is what the map holds.
GenuineAt(w) ==
  /\ resp[w].status = "200" => Genuine(resp[w].data)
  /\ held[w] # NoEntry => Genuine(held[w].data)

AccountInv ==
  /\ \A k \in Keys : cache.entries[k] # NoEntry => Genuine(cache.entries[k].data)
  /\ \A w \in Workers : GenuineAt(w)
  /\ Behind(cache, Keys) = 0
  /\ Within(cache, Keys, maxBytes)

\* A Put of a body of the upstream's, whatever is in the map by then, never takes
\* the exit that lets the account drift (cache.go:219).
LEMMA GenuinePut ==
  ASSUME TypeOK, AccountInv, AllFit, IsFiniteSet(Keys), NEW w \in Workers, pc[w] # "idle",
         NEW entry \in Entry, Genuine(entry.data), Put(KeyOf(w), entry)
  PROVE  /\ \A k \in Keys : cache'.entries[k] # NoEntry => Genuine(cache'.entries[k].data)
         /\ Behind(cache', Keys) = 0
         /\ Within(cache', Keys, maxBytes)
<1>1. cache \in CacheType(Keys, Entry) /\ maxBytes \in Int /\ KeyOf(w) \in Keys
  BY TransportAssumption, KeyOfOK DEF TypeOK, CacheType
<1>2. cache' = putLocked(cache, maxBytes, KeyOf(w), entry)
  BY DEF Put
<1>3. ~Exceeds(entry.data.len, maxBytes)
  <2>1. entry.data.url \in URLs /\ entry.data.ver \in 1..MaxVersion
    BY DEF Entry, Body
  <2> QED
    BY <2>1 DEF AllFit, Genuine
<1>4. Behind(cache', Keys) = 0
  BY <1>1, <1>2, <1>3, EntrySized, PutLockedBehind DEF AccountInv
<1>5. Within(cache', Keys, maxBytes)
  BY <1>1, <1>2, EntrySized, PutLockedWithin DEF AccountInv
<1>6. ASSUME NEW k \in Keys, cache'.entries[k] # NoEntry
      PROVE  Genuine(cache'.entries[k].data)
  <2>1. \/ cache'.entries[k] \in {cache.entries[k], NoEntry}
        \/ cache'.entries[k] = entry
    BY <1>1, <1>2, EntrySized, PutLockedEntries
  <2> QED
    BY <1>6, <2>1 DEF AccountInv
<1> QED
  BY <1>4, <1>5, <1>6

LEMMA AccountKept ==
  ASSUME AllFit, IsFiniteSet(Keys), TypeOK, AccountInv, [Next]_vars
  PROVE  AccountInv'
<1>a. ASSUME NEW w \in Workers, cache' = cache, GenuineAt(w)',
             \A v \in Workers \ {w} : held'[v] = held[v] /\ resp'[v] = resp[v]
      PROVE  AccountInv'
  <2>1. \A v \in Workers \ {w} : GenuineAt(v)'
    BY <1>a DEF AccountInv, GenuineAt
  <2> QED
    BY <1>a, <2>1 DEF AccountInv
<1>b. ASSUME NEW w \in Workers, pc[w] # "idle", NEW entry \in Entry, Genuine(entry.data),
             Put(KeyOf(w), entry), GenuineAt(w)',
             \A v \in Workers \ {w} : held'[v] = held[v] /\ resp'[v] = resp[v]
      PROVE  AccountInv'
  <2>1. \A v \in Workers \ {w} : GenuineAt(v)'
    BY <1>b DEF AccountInv, GenuineAt
  <2>2. /\ \A k \in Keys : cache'.entries[k] # NoEntry => Genuine(cache'.entries[k].data)
        /\ Behind(cache', Keys) = 0
        /\ Within(cache', Keys, maxBytes)
    BY <1>b, GenuinePut
  <2> QED
    BY <1>b, <2>1, <2>2 DEF AccountInv, Behind
<1>1. ASSUME NEW w \in Workers, NEW url \in URLs, ServeFresh(w, url)
      PROVE  AccountInv'
  <2>1. Genuine(cache.entries[requestCacheKey(url)].data)
    BY <1>1 DEF ServeFresh, lookupFresh, Keys, AccountInv
  <2>2. GenuineAt(w)'
    BY <1>1, <2>1 DEF ServeFresh, Response, AccountInv, GenuineAt, TypeOK
  <2> QED
    BY <1>1, <1>a, <2>2 DEF ServeFresh, TypeOK
<1>2. ASSUME NEW w \in Workers, NEW url \in URLs, MissLookup(w, url)
      PROVE  AccountInv'
  BY <1>2, <1>a DEF MissLookup, AccountInv, GenuineAt
<1>3. ASSUME NEW w \in Workers, ReadValidators(w) \/ PassThrough(w)
      PROVE  AccountInv'
  BY <1>3, <1>a DEF ReadValidators, PassThrough, AccountInv, GenuineAt
<1>4. ASSUME NEW w \in Workers, UpstreamOK(w) \/ UpstreamNotModified(w) \/ UpstreamOther(w)
      PROVE  AccountInv'
  <2>1. resp'[w].status = "200" => Genuine(resp'[w].data)
    BY <1>4 DEF UpstreamOK, UpstreamNotModified, UpstreamOther, Reply, Response, Genuine, TypeOK
  <2>2. /\ cache' = cache /\ held' = held
        /\ \A v \in Workers \ {w} : resp'[v] = resp[v]
    BY <1>4 DEF UpstreamOK, UpstreamNotModified, UpstreamOther, Reply, TypeOK
  <2>3. GenuineAt(w)'
    BY <2>1, <2>2 DEF AccountInv, GenuineAt
  <2> QED
    BY <1>a, <2>2, <2>3
<1>5. ASSUME NEW w \in Workers, Fail(w)
      PROVE  AccountInv'
  <2>1. GenuineAt(w)'
    BY <1>5 DEF Fail, Failure, Response, AccountInv, GenuineAt, TypeOK
  <2> QED
    BY <1>5, <1>a, <2>1 DEF Fail, TypeOK
<1>6. ASSUME NEW w \in Workers, StoreBody(w)
      PROVE  AccountInv'
  <2> DEFINE entry == [data |-> resp[w].data, ETag |-> resp[w].ETag,
                       LastModified |-> resp[w].LastModified,
                       FetchedAt |-> now, TTL |-> TTLOf(w)]
  <2>1. entry \in Entry /\ pc[w] = "replied" /\ resp[w].status = "200"
    BY <1>6, StoredOK DEF StoreBody
  <2>2. entry.data = resp[w].data /\ Genuine(resp[w].data)
    BY <2>1 DEF AccountInv, GenuineAt
  <2>3. Put(KeyOf(w), entry) /\ held' = held /\ resp' = resp
    BY <1>6 DEF StoreBody
  <2>4. GenuineAt(w)'
    BY <2>3 DEF AccountInv, GenuineAt
  <2> HIDE DEF entry
  <2> QED
    BY <1>b, <2>1, <2>2, <2>3, <2>4
<1>7. ASSUME NEW w \in Workers, MergeRead(w)
      PROVE  AccountInv'
  <2>1. KeyOf(w) \in Keys
    BY <1>7, KeyOfOK DEF MergeRead
  <2>2. held'[w] # NoEntry => Genuine(held'[w].data)
    BY <1>7, <2>1 DEF MergeRead, AccountInv, TypeOK
  <2>3. GenuineAt(w)'
    BY <1>7, <2>2 DEF MergeRead, Failure, Response, AccountInv, GenuineAt, TypeOK
  <2> QED
    BY <1>7, <1>a, <2>3 DEF MergeRead, TypeOK
<1>8. ASSUME NEW w \in Workers, MergePut(w)
      PROVE  AccountInv'
  <2>1. /\ held[w] \in Entry /\ merged(w) \in Entry /\ merged(w).data = held[w].data
        /\ pc[w] = "merge" /\ held[w] # NoEntry
    BY <1>8, MergedOK, EntrySized DEF MergePut, Sized
  <2>2. Genuine(held[w].data)
    BY <2>1 DEF AccountInv, GenuineAt
  <2>3. /\ Put(KeyOf(w), merged(w)) /\ held'[w] = NoEntry /\ resp'[w].data = held[w].data
        /\ \A v \in Workers \ {w} : held'[v] = held[v] /\ resp'[v] = resp[v]
    BY <1>8 DEF MergePut, Response, TypeOK
  <2>4. GenuineAt(w)'
    BY <2>2, <2>3 DEF GenuineAt
  <2> QED
    BY <1>b, <2>1, <2>2, <2>3, <2>4
<1>9. ASSUME NEW w \in Workers, Return(w)
      PROVE  AccountInv'
  <2>1. GenuineAt(w)'
    BY <1>9 DEF Return, NoResponse, Response, AccountInv, GenuineAt, TypeOK
  <2> QED
    BY <1>9, <1>a, <2>1 DEF Return, TypeOK
<1>10. CASE Tick \/ UNCHANGED vars \/ \E url \in URLs : Publish(url)
  <2>1. UNCHANGED <<cache, held, resp>>
    BY <1>10 DEF Tick, vars, Publish
  <2> QED
    BY <2>1 DEF AccountInv, GenuineAt
<1> QED
  BY <1>1, <1>2, <1>3, <1>4, <1>5, <1>6, <1>7, <1>8, <1>9, <1>10 DEF Next, Worker

\* However many requests overlap, and whatever limit clears the map between the
\* three Gets of one and its Put (http.go:73-132), c.size is what the map holds
\* and within the limit.  Without an oversized body there is no other way to drift.
THEOREM AccountExact ==
  ASSUME IsFiniteSet(URLs)
  PROVE  Spec => []AccountIsExact
<1>0. IsFiniteSet(Keys)
  <2> DEFINE f == [u \in URLs |-> requestCacheKey(u)]
  <2>1. f \in Surjection(URLs, Keys)
    BY DEF Surjection, Keys
  <2> QED
    BY <2>1, FS_Surjection
<1>1. CASE AllFit
  <2>1. Init => AccountInv
    <3> SUFFICES ASSUME Init PROVE AccountInv
      OBVIOUS
    <3>1. \A k \in Keys : cache.entries[k] = NoEntry
      BY DEF Init, EmptyCache
    <3>2. Behind(cache, Keys) = 0
      BY <3>1, BytesNone DEF Init, EmptyCache, Behind
    <3>3. Within(cache, Keys, maxBytes)
      BY TransportAssumption, EmptyCacheOK DEF Init
    <3>4. \A w \in Workers : GenuineAt(w)
      BY DEF Init, GenuineAt, NoResponse, Response
    <3> QED
      BY <3>1, <3>2, <3>3, <3>4 DEF AccountInv
  <2>2. TypeOK /\ AccountInv /\ [Next]_vars => AccountInv'
    BY <1>0, <1>1, AccountKept
  <2>3. TypeOK /\ AccountInv => AccountIsExact
    <3> SUFFICES ASSUME TypeOK, AccountInv PROVE AccountIsExact
      OBVIOUS
    <3>1. cache.entries \in [Keys -> Entry \cup {NoEntry}] /\ cache.size \in Int
      BY DEF TypeOK
    <3>2. BytesHeld(cache.entries, Keys) \in Nat
      BY <1>0, <3>1, EntrySized, BytesFinite
    <3>3. cache.size = BytesHeld(cache.entries, Keys)
      BY <3>1, <3>2 DEF AccountInv, Behind
    <3>4. ~Exceeds(cache.size, maxBytes)
      BY <3>1, TransportAssumption DEF AccountInv, Within, Exceeds
    <3> QED
      BY <3>3, <3>4 DEF AccountIsExact
  <2> QED
    BY <2>1, <2>2, <2>3, TypeCorrect, PTL DEF Spec
<1>2. CASE ~AllFit
  <2>1. AccountIsExact
    BY <1>2 DEF AllFit, AccountIsExact
  <2>2. Init => AccountIsExact
    BY <2>1
  <2>3. AccountIsExact /\ [Next]_vars => AccountIsExact'
    BY <1>2 DEF AllFit, AccountIsExact
  <2> QED
    BY <2>2, <2>3, PTL DEF Spec
<1> QED
  BY <1>1, <1>2
=============================================================================
