--------------------------- MODULE CachingTransport -------------------------
(***************************************************************************)
(* cachingTransport.RoundTrip of internal/tcgapi/http.go, run by several   *)
(* goroutines over one MemoryCache and an upstream that publishes new      *)
(* versions of its documents.  Every access to the cache is a step of its  *)
(* own, because the lock is released between them.                         *)
(*                                                                         *)
(* A validator (ETag or Last-Modified) is the version it was issued for,   *)
(* and 0 is the empty string.  A URL never gets an old version back, so a  *)
(* version has one validator.                                              *)
(***************************************************************************)
EXTENDS CacheOps, Endpoints

CONSTANTS
  Workers,     \* goroutines that handle tool calls
  URLs,        \* the URLs they ask for
  BodyLen,     \* length of each version of each URL's body
  maxBytes,    \* limit of the cache
  Headers200,  \* the validators the upstream sends with a body
  Headers304,  \* and those it repeats with a 304
  PromisedTTL, \* per URL, the age openapi/tcgtracking-openapi.yaml allows
  Timeout,     \* http.Client.Timeout, in clock units
  MaxVersion,  \* bound on the versions of a URL
  MaxTime,     \* bound on the clock
  NoBody,      \* the body of a response that has none
  NoRequest    \* what an idle worker is asking for

Keys == {requestCacheKey(u) : u \in URLs}
Body == [url : URLs, ver : 1..MaxVersion, len : Nat]
Request == [url : URLs, start : 0..MaxTime]
Validator == 0..MaxVersion

Entry == [data : Body, ETag : Validator, LastModified : Validator,
          FetchedAt : 0..MaxTime, TTL : Nat]

ASSUME TransportAssumption ==
  /\ URLs \subseteq Url
  /\ BodyLen \in [URLs -> [1..MaxVersion -> Nat]]
  /\ PromisedTTL \in [URLs -> Nat \ {0}]
  /\ maxBytes \in Int
  /\ Headers200 \subseteq {"ETag", "Last-Modified"}
  /\ Headers304 \subseteq {"ETag", "Last-Modified"}
  /\ Timeout \in Nat \ {0}
  /\ MaxVersion \in Nat \ {0}
  /\ MaxTime \in Nat
  /\ NoEntry \notin Entry
  /\ NoBody \notin Body
  /\ NoRequest \notin Request \cup [url : URLs, ver : Nat] \cup {[ver |-> 0]}

VARIABLES
  now,        \* the clock
  published,  \* per URL, when each of its versions replaced the one before
  cache,      \* the shared MemoryCache
  pc,         \* per worker, the step of RoundTrip it is at
  req,        \* per worker, the URL asked for and when
  cond,       \* per worker, If-None-Match and If-Modified-Since
  held,       \* per worker, the copy of an entry that a 304 is merged into
  resp        \* per worker, the upstream's answer, then RoundTrip's

vars == <<now, published, cache, pc, req, cond, held, resp>>

NoHeaders == [IfNoneMatch |-> 0, IfModifiedSince |-> 0]
Response(status, body, etag, lastModified) ==
  [status |-> status, data |-> body, ETag |-> etag, LastModified |-> lastModified]
NoResponse == Response("none", NoBody, 0, 0)
Failure == Response("error", NoBody, 0, 0)

TypeOK ==
  /\ now \in 0..MaxTime
  /\ published \in [URLs -> Seq(0..MaxTime)]
  /\ \A u \in URLs : Len(published[u]) \in 1..MaxVersion
  /\ cache \in [entries : [Keys -> Entry \cup {NoEntry}], size : Int]
  /\ pc \in [Workers -> {"idle", "validators", "sent", "replied", "merge", "done"}]
  /\ req \in [Workers -> Request \cup {NoRequest}]
  /\ cond \in [Workers -> [IfNoneMatch : Validator, IfModifiedSince : Validator]]
  /\ held \in [Workers -> Entry \cup {NoEntry}]
  /\ resp \in [Workers -> [status : {"none", "200", "304", "other", "error"},
                           data : Body \cup {NoBody},
                           ETag : Validator, LastModified : Validator]]
  /\ \A w \in Workers :
       /\ pc[w] # "idle" => req[w] # NoRequest
       /\ pc[w] = "merge" => held[w] # NoEntry
       /\ resp[w].status = "200" => resp[w].data # NoBody

Init ==
  /\ now = 0
  /\ published = [u \in URLs |-> <<0>>]
  /\ cache = EmptyCache(Keys)
  /\ pc = [w \in Workers |-> "idle"]
  /\ req = [w \in Workers |-> NoRequest]
  /\ cond = [w \in Workers |-> NoHeaders]
  /\ held = [w \in Workers |-> NoEntry]
  /\ resp = [w \in Workers |-> NoResponse]

-----------------------------------------------------------------------------
KeyOf(w) == requestCacheKey(req[w].url)
TTLOf(w) == ttlForPath(req[w].url.path)

\* Mutant of lookupFresh: the last instant counts as fresh.
lookupFreshInclusive(key) ==
  LET entry == cache.entries[key]
  IN  entry # NoEntry /\ entry.TTL > 0 /\ now - entry.FetchedAt <= entry.TTL

lookupFresh(key) ==
  LET entry == cache.entries[key]
  IN  entry # NoEntry /\ entry.TTL > 0 /\ now - entry.FetchedAt < entry.TTL

\* RoundTrip with a fresh entry under the key: the cached body is the answer.
ServeFresh(w, url) ==
  LET key == requestCacheKey(url)
      entry == cache.entries[key]
  IN  /\ pc[w] = "idle"
      /\ ttlForPath(url.path) > 0
      /\ lookupFresh(key)
      /\ req' = [req EXCEPT ![w] = [url |-> url, start |-> now]]
      /\ resp' = [resp EXCEPT ![w] = Response("200", entry.data, entry.ETag, entry.LastModified)]
      /\ pc' = [pc EXCEPT ![w] = "done"]
      /\ UNCHANGED <<now, published, cache, cond, held>>

\* RoundTrip without one: it goes on to look for validators.  For a path without a
\* TTL the cache is not used at all.
MissLookup(w, url) ==
  LET cached == ttlForPath(url.path) > 0
  IN  /\ pc[w] = "idle"
      /\ cached => ~lookupFresh(requestCacheKey(url))
      /\ req' = [req EXCEPT ![w] = [url |-> url, start |-> now]]
      /\ pc' = [pc EXCEPT ![w] = IF cached THEN "validators" ELSE "sent"]
      /\ UNCHANGED <<now, published, cache, cond, held, resp>>

\* The second Get, whatever the entry's age by now, then base.RoundTrip starts.
ReadValidators(w) ==
  LET entry == cache.entries[KeyOf(w)]
  IN  /\ pc[w] = "validators"
      /\ cond' = [cond EXCEPT ![w] =
           IF entry = NoEntry THEN NoHeaders
           ELSE [IfNoneMatch |-> entry.ETag, IfModifiedSince |-> entry.LastModified]]
      /\ pc' = [pc EXCEPT ![w] = "sent"]
      /\ UNCHANGED <<now, published, cache, req, held, resp>>

-----------------------------------------------------------------------------
(* base.RoundTrip: the upstream and the network. *)
Current(url) == Len(published[url])
Header(name, sent, url) == IF name \in sent THEN Current(url) ELSE 0

\* If-None-Match, when present, is decisive; If-Modified-Since is looked at
\* only without it.
Matches(c, url) ==
  IF c.IfNoneMatch # 0 THEN c.IfNoneMatch = Current(url)
  ELSE c.IfModifiedSince # 0 /\ c.IfModifiedSince = Current(url)

Reply(w, response) ==
  /\ pc[w] = "sent"
  /\ pc' = [pc EXCEPT ![w] = "replied"]
  /\ resp' = [resp EXCEPT ![w] = response]
  /\ UNCHANGED <<now, published, cache, req, cond, held>>

UpstreamOK(w) ==
  /\ pc[w] = "sent"
  /\ LET url == req[w].url
         v == Current(url)
     IN  Reply(w, Response("200", [url |-> url, ver |-> v, len |-> BodyLen[url][v]],
                           Header("ETag", Headers200, url),
                           Header("Last-Modified", Headers200, url)))

UpstreamNotModified(w) ==
  /\ pc[w] = "sent"
  /\ Matches(cond[w], req[w].url)
  /\ Reply(w, Response("304", NoBody, Header("ETag", Headers304, req[w].url),
                       Header("Last-Modified", Headers304, req[w].url)))

\* Any other status.
UpstreamOther(w) == Reply(w, Response("other", NoBody, 0, 0))

-----------------------------------------------------------------------------
\* The answer of a path without a TTL, or of a status RoundTrip does not
\* handle, is handed on as it is.
PassThrough(w) ==
  /\ pc[w] = "replied"
  /\ TTLOf(w) = 0 \/ resp[w].status = "other"
  /\ pc' = [pc EXCEPT ![w] = "done"]
  /\ UNCHANGED <<now, published, cache, req, cond, held, resp>>

\* base.RoundTrip fails, or io.ReadAll does on the body of a 200, because of the
\* network or because Timeout is over.
Fail(w) ==
  /\ \/ pc[w] = "sent"
     \/ pc[w] = "replied" /\ TTLOf(w) > 0 /\ resp[w].status = "200"
  /\ resp' = [resp EXCEPT ![w] = Failure]
  /\ pc' = [pc EXCEPT ![w] = "done"]
  /\ UNCHANGED <<now, published, cache, req, cond, held>>

Put(key, entry) == cache' = putLocked(cache, maxBytes, key, entry)

\* Mutant of StoreBody: an entry that exists only gets the new validators, as
\* after a 304.
StoreBodyKeepsData(w) ==
  LET old == cache.entries[KeyOf(w)]
  IN  /\ pc[w] = "replied"
      /\ TTLOf(w) > 0
      /\ resp[w].status = "200"
      /\ Put(KeyOf(w), [data |-> IF old = NoEntry THEN resp[w].data ELSE old.data,
                        ETag |-> resp[w].ETag, LastModified |-> resp[w].LastModified,
                        FetchedAt |-> now, TTL |-> TTLOf(w)])
      /\ pc' = [pc EXCEPT ![w] = "done"]
      /\ UNCHANGED <<now, published, req, cond, held, resp>>

\* case http.StatusOK: the body read, it is put in the cache, whatever another
\* worker has put there since this one looked, and becomes the answer.
StoreBody(w) ==
  /\ pc[w] = "replied"
  /\ TTLOf(w) > 0
  /\ resp[w].status = "200"
  /\ Put(KeyOf(w), [data |-> resp[w].data,
                    ETag |-> resp[w].ETag, LastModified |-> resp[w].LastModified,
                    FetchedAt |-> now, TTL |-> TTLOf(w)])
  /\ pc' = [pc EXCEPT ![w] = "done"]
  /\ UNCHANGED <<now, published, req, cond, held, resp>>

\* Mutant of MergeRead: the entry whose validators were sent is taken to be there.
MergeReadUnchecked(w) ==
  /\ pc[w] = "replied"
  /\ TTLOf(w) > 0
  /\ resp[w].status = "304"
  /\ held' = [held EXCEPT ![w] = cache.entries[KeyOf(w)]]
  /\ pc' = [pc EXCEPT ![w] = "merge"]
  /\ UNCHANGED <<now, published, cache, req, cond, resp>>

\* case http.StatusNotModified: the third Get; no entry, or an empty body, is an
\* error.
MergeRead(w) ==
  LET entry == cache.entries[KeyOf(w)]
      found == entry # NoEntry /\ LenAt(cache.entries, KeyOf(w)) > 0
  IN  /\ pc[w] = "replied"
      /\ TTLOf(w) > 0
      /\ resp[w].status = "304"
      /\ held' = [held EXCEPT ![w] = IF found THEN entry ELSE NoEntry]
      /\ resp' = [resp EXCEPT ![w] = IF found THEN @ ELSE Failure]
      /\ pc' = [pc EXCEPT ![w] = IF found THEN "merge" ELSE "done"]
      /\ UNCHANGED <<now, published, cache, req, cond>>

\* The entry as the 304 renews it: the validators it repeats replace the old ones.
merged(w) ==
  [held[w] EXCEPT
     !.ETag = IF resp[w].ETag # 0 THEN resp[w].ETag ELSE @,
     !.LastModified = IF resp[w].LastModified # 0 THEN resp[w].LastModified ELSE @,
     !.FetchedAt = now,
     !.TTL = TTLOf(w)]

\* Mutant of MergePut: the entry is renewed where it stands, as if nobody could
\* have replaced or cleared it since it was read.
MergePutInPlace(w) ==
  /\ pc[w] = "merge"
  /\ cache' = [cache EXCEPT !.entries[KeyOf(w)] = merged(w)]
  /\ resp' = [resp EXCEPT ![w] =
       Response("200", held[w].data, merged(w).ETag, merged(w).LastModified)]
  /\ held' = [held EXCEPT ![w] = NoEntry]
  /\ pc' = [pc EXCEPT ![w] = "done"]
  /\ UNCHANGED <<now, published, req, cond>>

\* The renewed entry is put back, and answers the request.
MergePut(w) ==
  /\ pc[w] = "merge"
  /\ Put(KeyOf(w), merged(w))
  /\ resp' = [resp EXCEPT ![w] =
       Response("200", held[w].data, merged(w).ETag, merged(w).LastModified)]
  /\ held' = [held EXCEPT ![w] = NoEntry]
  /\ pc' = [pc EXCEPT ![w] = "done"]
  /\ UNCHANGED <<now, published, req, cond>>

\* RoundTrip returns to the tool handler, which is free to ask again.
Return(w) ==
  /\ pc[w] = "done"
  /\ pc' = [pc EXCEPT ![w] = "idle"]
  /\ req' = [req EXCEPT ![w] = NoRequest]
  /\ cond' = [cond EXCEPT ![w] = NoHeaders]
  /\ resp' = [resp EXCEPT ![w] = NoResponse]
  /\ UNCHANGED <<now, published, cache, held>>

-----------------------------------------------------------------------------
Publish(url) ==
  /\ Current(url) < MaxVersion
  /\ published' = [published EXCEPT ![url] = Append(@, now)]
  /\ UNCHANGED <<now, cache, pc, req, cond, held, resp>>

\* http.Client.Timeout cancels a request that is Timeout old, so the clock does
\* not pass the deadline of a request under way.
Tick ==
  /\ now < MaxTime
  /\ \A w \in Workers : pc[w] # "idle" => now < req[w].start + Timeout
  /\ now' = now + 1
  /\ UNCHANGED <<published, cache, pc, req, cond, held, resp>>

Worker(w) ==
  \/ \E url \in URLs : ServeFresh(w, url) \/ MissLookup(w, url)
  \/ ReadValidators(w)
  \/ UpstreamOK(w)
  \/ UpstreamNotModified(w)
  \/ UpstreamOther(w)
  \/ PassThrough(w)
  \/ Fail(w)
  \/ StoreBody(w)
  \/ MergeRead(w)
  \/ MergePut(w)
  \/ Return(w)

Next ==
  \/ \E w \in Workers : Worker(w)
  \/ \E url \in URLs : Publish(url)
  \/ Tick

Spec == Init /\ [][Next]_vars

-----------------------------------------------------------------------------
\* A cached body, and an answer, belong to the URL they are given for, and an
\* entry has the TTL of its URL: no two URLs share a key (requestCacheKey), and
\* no worker mixes up the two requests it is between (RoundTrip).
OwnBody ==
  /\ \A url \in URLs :
       LET entry == cache.entries[requestCacheKey(url)]
       IN  entry # NoEntry => entry.data.url = url /\ entry.TTL = ttlForPath(url.path)
  /\ \A w \in Workers : resp[w].status = "200" => resp[w].data.url = req[w].url

\* When the version ver of url stopped being the upstream's.
Superseded(url, ver) == ver < Current(url)
SupersededAt(url, ver) == published[url][ver + 1]

\* StaleReads, with what RoundTrip returns for its answers.
Reads == INSTANCE StaleReads WITH
  None    <- NoRequest,
  request <- req,
  answer  <- [w \in Workers |->
                IF pc[w] # "done" THEN NoRequest
                ELSE IF resp[w].status = "200"
                THEN [url |-> resp[w].data.url, ver |-> resp[w].data.ver]
                ELSE [ver |-> 0]]

\* The transport implements StaleReads whatever two tool calls do to the same
\* entry: each answer is its own URL's and not older than the TTL promised for
\* the endpoint plus the request timeout (an answer in flight may be that old
\* when it is stamped with t.now(), http.go:112 and 131).
ImplementsStaleReads == Reads!Spec

Answers(w) == pc[w] # "done" /\ pc'[w] = "done" /\ resp'[w].status = "200"

\* README.md:220 "computed from current API data": an answer that did not come
\* fresh from the cache, because this very request asked the upstream, is not
\* older than what the upstream had when the request began.
ConfirmedIsCurrent ==
  [][\A w \in Workers :
       Answers(w) /\ pc[w] # "idle" =>
         ~ /\ Superseded(req[w].url, resp'[w].data.ver)
           /\ SupersededAt(req[w].url, resp'[w].data.ver) < req[w].start]_vars

\* A validator in the cache is never newer than the body it stands beside.  If
\* it were, every later revalidation of the old body would be a 304.
ValidatorsNotNewer ==
  \A key \in Keys :
    LET entry == cache.entries[key]
    IN  entry # NoEntry => /\ entry.ETag <= entry.data.ver
                           /\ entry.LastModified <= entry.data.ver

\* The entry whose validators a 304 answers is still there with a body when the
\* 304 is handled (http.go:118), as long as the cache holds all URLs and no body
\* is empty: the error of http.go:121 does not happen.
NotModifiedHasBody ==
  \A w \in Workers :
    pc[w] = "replied" /\ resp[w].status = "304" => LenAt(cache.entries, KeyOf(w)) > 0

\* openapi/tcgtracking-openapi.yaml:70 and :99 (meta: "5 min TTL", categories:
\* "7 day TTL"), http.go:15-21: with room for all URLs, an endpoint that was
\* answered is in the cache from then on.
AnswerIsKept ==
  \A w \in Workers :
    pc[w] = "done" /\ resp[w].status = "200" => cache.entries[KeyOf(w)] # NoEntry

\* c.size stays the bytes of the bodies in the map, and within the limit, however
\* the Gets and Puts of several requests are ordered, the Put of a 304 (http.go:132)
\* that brings back a body which another Put has replaced or cleared since it was
\* read included, as long as no body alone exceeds the limit (cache.go:219).
AccountIsExact ==
  (\A url \in URLs : \A v \in 1..MaxVersion : ~Exceeds(BodyLen[url][v], maxBytes)) =>
    /\ cache.size = BytesHeld(cache.entries, Keys)
    /\ ~Exceeds(cache.size, maxBytes)
=============================================================================
