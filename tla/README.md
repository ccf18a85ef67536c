# TLA+ models of tcgapi-mcp

`tcgapi-mcp` is an MCP server for trading-card data. A host (an LLM client) calls
its tools over stdio; the server answers from an upstream HTTP API through an
in-memory response cache that can be saved to disk. This directory holds TLA+
modules translated from its Go source, the TLC configurations that check them, and
TLAPS proofs. `PROJECT.json` lists the runs, what each definition models, the
hazards of the code, and the theorems.

    tlc -workers 2 -config MCMemoryCache.cfg MCMemoryCache    # a run
    tlapm MemoryCache_proof.tla                               # the proofs of a module

## 1. The system

| Component | Source | State | Operations |
| --- | --- | --- | --- |
| MemoryCache | `internal/tcgapi/cache.go` | map of entries, `size`, `maxBytes`, under one RWMutex | Get, Put, LoadFromDisk, SaveToDisk |
| Caching transport | `internal/tcgapi/http.go` | none of its own; shares the cache | RoundTrip, run by one goroutine per request |
| Upstream URLs | `internal/tcgapi/generated/client.gen.go` | none | seven GET operations |
| Persistence and server life | `cmd/tcgapi-mcp/run.go`, `cache.go` | `cache.json` and temporary files in `TCG_CACHE_DIR` | buildRuntime, ServeStdio, close |
| Product paging | `catalog/normalizer.go`, `server/tools.go` | none; the host keeps the offset | get_set_products |
| API adapter | `internal/tcgapi/*.go` | none | decode and map responses to domain values |
| Category resolver | `catalog/resolver.go`, `aliases.go` | indexes built once at start | ResolveCategory, ResolveCategoryID, Categories |
| Joined outputs | `server/joined_output.go` | none | join of prices or SKUs with products |
| Analysis | `analysis/service.go`, `heuristics.go` | none | SummarizeReleaseCounts, AnalyzeSetInsights |
| Tools and resources | `server/tools.go`, `resources.go` | per call, what it has read | seven tools, ten resources |
| Prompts | `server/prompts.go` | none | fixed text |
| Configuration | `internal/config` | read once | Load, Validate |
| Logging, build info, domain types, OpenAPI tools | | | no behaviour of their own |

How they interact. `buildRuntime` makes the cache, loads the snapshot into it, builds
the HTTP client over it and fetches the categories (whose failure fails the start)
and the metadata (whose failure does not). The resolver keeps that list of categories.
Each tool call runs in a goroutine of its own, makes one or more API calls in sequence,
and each API call is one `RoundTrip`, which touches the cache up to three times with
the lock released in between. When serving ends, or the start fails, `close` writes
the snapshot.

What is hard, and what correctness means for each component:

- **MemoryCache**: one counter stands for the bytes of a map that is written, cleared
  as a whole, snapshot and restored under a limit that may change between lives. The
  counter has to be right, the limit has to hold, and a restart has to bring back the
  newest entries that fit.
- **Transport**: concurrent requests for one URL, answers overtaken by others, entries
  cleared or replaced between the three accesses, revalidation by ETag. An answer has
  to belong to its URL and be no older than the endpoint's TTL allows; an answer the
  upstream has just confirmed has to be current; caching has to happen at all.
- **Persistence**: kills, failing file operations, several servers on one directory. A
  snapshot must never be read half written, must not lose what it holds, must not leave
  garbage, and a start or a close has to end.
- **Paging**: `int` arithmetic on host-supplied numbers, a list that changes between
  pages. Following `has_more` has to deliver each product once, and has to end.
- **Tool calls**: one answer joins up to four documents, fetched one after the other
  while time passes and the upstream changes, with categories as old as the server. All
  of them have to be recent, none may be missing, and the call has to end. A cached
  document that is broken, or lacks a new set, may fail calls only for a while.
- **Resolver**: names, display names and aliases in one index, where the last one wins.
  A name that stands for one category has to lead to it.
- **Joined outputs, analysis**: tables matched by ids that come as strings, and sections
  of one answer computed by loops of their own. No row is lost or given to another
  product, and the sections do not contradict each other or another tool.

## 2. Modules

| Module | Models | State and actions |
| --- | --- | --- |
| `CacheOps` | the critical sections of `cache.go` | none: `putLocked`, `restoreItem`, `restored` (the whole loop), `EmptyCache` as functions of `[entries, size]` |
| `MemoryCache` | the cache over several lives | `Put`, `SaveToDisk`, `LoadFromDisk` (a new cache under a limit of its own), `restore` (one iteration of its loop per step, nothing else in between because the lock is held) |
| `Endpoints` | URLs, TTLs, cache keys | none: the seven endpoints, `ttlForPath`, `requestCacheKey` |
| `CachingTransport` | `RoundTrip` by several workers, with the upstream and the clock | one action per stretch of `RoundTrip` between two cache or network accesses |
| `StaleReads` | the promise to a tool handler, without a cache | `Ask`, `Answer`, `Return`, `Abandon` (a restart), `Publish`, `Tick` |
| `CacheSnapshot` | processes, their caches and the snapshot file | the life of a process with `LoadFromDisk` and `Put` under its limit, one action per file operation and its failure, `Kill` |
| `Paging` | `get_set_products` and a host that follows `has_more` | `GetSetProducts`, `Continue`, `Refresh` |
| `ServerLives` | the transport over restarts | `Serve` (a step of the transport), `Close` (the snapshot is taken, requests under way go on), `Restart` (restore, after a close or a kill) |
| `ToolCalls` | the handlers over the promise of `StaleReads` | per worker `Begin` (arguments resolved), `Fetch`, `Respond`, `Receive`, `Finish`, `Reply`; `Republish`, `Wait`, `Restart` |
| `Domain`, `Adapter` | `mapping.go`, `categories.go`, ... | none: documents to domain values, sorted and parsed |
| `Resolver` | `resolver.go`, `aliases.go` | none: the indices as sets of places, the last place wins |
| `JoinedOutput` | `joined_output.go`, the pricing and SKU tools | none |
| `ReleaseCounts`, `SetInsights` | `analysis/` | none: the loops as recursive functions, folds and sets |
| `Resources` | `resources.go` | none: the templates and the switch, as two tables like the code has them |
| `Config` | `config.go`, and the MiB of `run.go` | none |
| `Operations` | a request to any of these, answered in one step | `Load`, `Resolve`, `Route`, `GetSetPricing`, `GetSetSKUs`, `GetReleaseCounts`, `GetSetInsights` |
| `MC*` | instances for TLC | constants only |
| `*_proof` | theorems: one module each for `CacheOps`, `MemoryCache`, `CachingTransport`, `StaleReads` (with `ServerLives`), `CacheSnapshot`, `Paging`, `ToolCalls` and `Operations` | |

`MemoryCache`, `CachingTransport` and `CacheSnapshot` extend `CacheOps`, so the eviction
that the first checks by itself is the one that runs under the workers of the second, and
decides what the third saves and restores.
`CachingTransport` extends `Endpoints` and is shown to implement `StaleReads`; so is
`ServerLives`, which adds restarts to it. `ToolCalls` is built over `StaleReads`, and so
over what both implement: a handler sees of the cache only how old an answer may be.
It reads with the URLs of `Endpoints`, the ids of `Resolver` and `Resources` and the
decoding of `Adapter`, and what it reads is what the operators under `Operations` compute
from.
Definitions called a mutant are variants of the definition after them with a plausible
bug. Each checked property has one that violates it; no specification uses them.

### How the models stand for the code

- **Lock.** Get, Put and snapshot hold `c.mu`, so each is atomic. `restore` is a loop
  of steps, but with `Unlocked` guarding everything else.
- **Sums** of body lengths are the number of bytes, each told apart by its key and its place
  (`BytesHeld`), which is what the account of the cache is compared with.
- **Bodies** are lengths (`MemoryCache`, `CacheSnapshot`) or a URL, a version and a length
  (`CachingTransport`). A **validator** is the version it was issued for, 0 the empty
  string: the upstream is assumed not to give one version two ETags or two versions
  one.
- **Three Gets.** `ServeFresh`/`MissLookup` are the first Get, in `lookupFresh`;
  `ReadValidators` the second; `MergeRead` the one after a 304, whose copy `held` is
  written back by `MergePut`. A 200 is stored by `StoreBody`. Each is a step of its
  own, so other workers run in between, as they can in the code.
- **Clock and timeout.** `now` ticks; `http.Client.Timeout` also covers reading the
  body, so `Tick` does not pass the deadline of a request under way. `Fail` is any
  network error or timeout. A unit of time is a whole timeout (30 seconds by default), so
  the few statements between reading the clock for `FetchedAt` (`http.go:112`, `131`) and
  storing the entry are taken to happen in the same instant, and those after the answer
  has arrived before the deadline.
- **Upstream.** `Publish` replaces a document. `UpstreamOK` may always answer,
  `UpstreamNotModified` when the request's conditions match (RFC 9110: If-None-Match
  first), `UpstreamOther` with any other status. Which validators it sends with a 200
  and repeats with a 304 are constants.
- **Paths** are sequences of segments. Every suffix `ttlForPath` tests starts with a
  slash and is therefore a whole last segment.
- **Snapshot.** The temporary file is private to its process until it is renamed.
  `whole` says whether it is completely written; a file that is not does not decode.
  Version 0, which the code accepts too, is version 1 here. `close` runs from both a
  failed start and the end of serving. `SaveToDisk` ignores what `os.Remove` of its
  temporary file returns, so `RemoveTemp` may leave the file; `temps` counts the files that
  there are, `kills` and `undeleted` those that nobody will remove. Each start has a
  limit of its own, under which `LoadFromDisk` skips entries and `Put` clears or drops
  them. `expected` is a history of what a process has restored and put, with no limit but
  until the limit is passed; no step reads it.
- **Int.** `Sum` wraps around like Go's `int`, whose width is the constant `MaxInt`.
- **Restarts.** In `ServerLives` the snapshot is what the map holds when `Close` takes
  it; the file operations are `CacheSnapshot`'s. Requests under way go on storing until the
  process ends, and the entries they add are lost. Entries of one age are restored in
  any order. The URLs are finitely many, as the entries of a file are.
- **Calls.** A handler makes its requests one after the other (`Wanted`), and its first
  error ends it. Time passes only while a request is under way. `Content` fixes what each
  version of a URL contains: a body that is not JSON, one that does not unmarshal (`Nil`),
  or one sent with another content type, which decodes from the cache only
  (`http.go:195`). `listed` is the resolver's list of the start; a server whose upstream
  had no categories lists whatever it fetches. `valid` stands for the checks of years,
  options and fields, which fail before the first request, and `URLs` bounds what is asked
  for. `Restart` starts a new life over the promise, as `ServerLives` justifies.
- **Documents and texts.** The text of a category argument is a member of a small set with
  its spelling (`Normal`) and value (`Number`) as functions; a key of a price object is
  its place in the sort and the id it parses to, `Nil` for none. Names are sets of the
  phrases the heuristics look for. Years are calendar years and prices whole numbers: dates
  are only used for their year, and rounding is not modelled. Fields that are only copied
  are left out.
- **Lists of products** that were filtered are sets of places in the whole list, and the
  loops over them functions of how many turns were made (`Buckets`, `MarketSums`). A sort
  puts each place after as many as come before it (`InOrder`). `sort.Slice` is not stable,
  so two entries of one product with one price and one name may come in any order; `Precedes`
  takes them as they are listed, and no property depends on it.
- **Configuration.** A text is what `time.ParseDuration` or `strconv.Atoi` returns for it.
  `MiB` and `MaxInt` scale the machine down.
- **Left out**: the empty key, which `restore` skips and no request has; the 50 that
  `PaginateProducts` takes for a limit that is not positive, because its callers pass a
  positive one; crashes of the whole machine, against which the code does not sync.

## 3. Runs

| Run | Question | Bounds, and why they suffice |
| --- | --- | --- |
| `memory_cache` | Is the account right, the limit kept, and does a restart bring the newest entries back? | 3 keys, lengths 1, 2 and 4, limits none/2/3: a put that replaces, one that clears, one that just fits, one that fits no limit, and a restart under a smaller limit all occur; 3 keys are the least with one entry skipped between two kept. `MaxDrift` stops puts once the account is more than 2 bytes behind |
| `memory_cache_resident` (violated) | Do the bytes held stay within the limit? | as above |
| `transport` | Does the transport implement `StaleReads`? Are confirmed answers current, is everything answered cached, and does a 304 find its body? | 2 workers, prices and categories with TTL 2 and 3 under a base URL without a path, room for both, timeout 1, 2 versions, clock to 4: past the expiry of a revalidated entry |
| `transport_eviction` | Is the promise kept, and the account right, when entries are cleared or replaced between the steps of a request? | 2 workers, 2 searches with bodies of 1 and 2 bytes and a limit of 2: both fit as long as neither has changed, so a put that clears, one that replaces, a 304 that finds no entry or a newer one, and a renewal that brings a body back all occur; TTL 2, timeout 1, clock to 4 |
| `transport_race` (violated) | Are confirmed answers current with 3 workers on one URL? | 1 tick, 2 versions: the least for a confirmed body to be late |
| `server_lives` | Does the promise hold over restarts, and do two searches and an uncached endpoint get their own bodies in a cache without room for both once one has changed? | 1 worker, two lives, TTL 2, timeout 1, clock to 4, so that an entry expires in the second life; `maxBytes` 2 with lengths growing with the version, so that one search clears the other's entry and a snapshot that does not fit is restored in part |
| `transport_base_path` (violated) | Is everything answered cached under the default base URL? | 2 workers, 1 version; one answer is enough |
| `snapshot_faults` | Is the snapshot never partial, does it have everything that its process restored and put, is it taken away only for a complete one, are temporary files removed, and does everything end? | 2 processes, each start under a limit of 2 or 3, 2 keys, bodies of 1 and 2 bytes: what is restored may not fit, a put may clear the map or fit exactly; every operation may fail, 1 kill, 1 temporary file that is not removed, 2 fetches, a snapshot of another version at first |
| `paging` | Is every page answered, do they add up to the list, and does reading end? | all lists of up to 3 of 3 products, limits and offsets below, inside and past it; one change of the list; ints to 7, so that every limit fits |
| `paging_overflow` (violated) | Is every limit answered? | all ints from -8 to 7 |
| `operations` | Does each computed answer agree with its definition, its own sections and the other tools? | every request of `MCOperations`: lists of up to three categories with shared, empty and alias names; every path of up to four segments; up to three products, some with one id, two spellings of an id, keys that do not parse, prices with and without a market value, filters, limits and fields; up to three sets in years with gaps, options with and without bounds, and the year 1 of a set without a date; configurations on both sides of every check and of the overflow. Three is the least with two that agree and one that does not |
| `tool_calls` | Are calls answered with all their documents, all of them recent? Do failures over cached documents end, do shown ids resolve, and do calls end? | 1 worker, since calls share only the upstream in `StaleReads`; 9 URLs; TTL 1 and 2, timeout 1, clock to 6: past the TTL and the timeouts of a call with four requests; at most 2 replaced documents, the least for a document that breaks and is repaired |

Time is scaled: a timeout is one unit, a TTL two or three. What matters is the order
of timeout and TTL, and that there is an instant at which an entry is old but not
stale. Worker symmetry is used in the safety runs of the transport only.

`ImplementsStaleReads` is the promise for TTLs above the timeout and at most two requests
that overlap, as configured by default and as checked. With the TTL at the timeout two
workers break it, and with three on one URL the 304 of `transport_race` does.
`server_lives` has one worker, which keeps it to 3 million states, so nothing comes between
the validators of a request and its 304 there. `transport_eviction` is about that, with two
workers: `TypeOK` says that a merge has a body to merge, and `AccountIsExact` that the
account follows the map when a `MergePut` stores its copy after another put has cleared or
replaced the entry. That bodies are not mixed up then is proved for any number of workers and
any limit (`BodiesNotMixedUp`).

`ReadsAreRecent` bounds the age of the i-th of n documents by its TTL and n - i + 2
timeouts. The bound is tight: with one timeout less, `tool_calls` finds a call that
breaks it. `FailuresHeal` is the same for what a call fails over: the document it had to
read next, which does not decode as the upstream sent it, or the list of sets of its own
category, which is still without its set. Both hold as far as each request gets what
`StaleReads` promises, which the transport does not do once three requests for one URL
overlap (`transport_race`). `AnswersAreWhole` says that an answered call has read exactly
the URLs it wants, in their order, and relates a summary to the list of the start;
`ListedResolve` relates what is shown to what the other tools resolve. It excludes a
server that started with no categories: that one shows the list it fetches, but resolves
none of it until it is started again.

`SectionsAgree`, `TopCardsAreTop`, `TopPriceIsListed` and `SinglesAreCardLike` compare
sections of one set summary that the code computes by separate loops, and the summary with
`get_set_pricing` on the same documents. The last three are about lists that name each product
once (`EachProductOnce`), which the code relies on without checking. With two entries of one
id, the kind, the price and the summary are those of the last (`classifyProducts`,
`buildProductValueMap`, `productSummaryIndex`), so that one card may come twice among the top
cards, under a number that `get_set_pricing` does not show, and a plain product may count as a
single card. `SectionsAgree` and `JoinKeepsRows` hold of such lists too, and the run has
them. `NamesReachTheirCategory` and `RoutesAgree` state
what the resolver and the routes promise without their tables' order.

`DriftsOnlyWhenOversized` and `AccountNeverOverstates` together say that the account is
exact as long as no body alone exceeds the limit. `RestoreKeepsNewest` is stated twice: as the greedy selection in the order of the sort,
and, without that order, as "no dropped entry is newer than a kept one unless it was
too long for the room left". `ValidatorsNotNewer` explains `ConfirmedIsCurrent`: a 304
can only confirm an old body if the validator beside it belongs to a newer one.

**Fairness.** The transport's specification has none: its properties are safety
properties. `CacheSnapshot` assumes weak fairness of a process's own steps while it
starts or closes: file operations return, and upstream calls are bounded by the client's
timeout. Nothing is assumed of the host (`Start`, the end of serving), of `Put` or of
`Kill`. `Paging` assumes that the host goes on asking while there is more and that the
server answers; nothing is assumed of `Refresh`. `ToolCalls` assumes weak fairness of each
worker's handler and of the answer to its request: the handler's goroutine runs on, and a
request ends at the latest with the client's timeout. Nothing is assumed of `Begin`,
`Republish` and `Restart`.

### What the code does otherwise than it says

1. **`memory_cache_resident`**: replacing an entry by a body larger than the whole limit
   subtracts the old one and then returns, leaving it in the map uncounted
   (`cache.go:215-221`). Other entries then fill the same bytes again.
2. **`transport_race`**: A asks with the old validator and is slow; B fetches the new
   body; C, which got its 304 for the old one, writes its copy back over it with the
   validator of a later 304. From then on the old body is confirmed by every
   revalidation. Two workers cannot do this while the timeout is below the TTL.
3. **`transport_base_path`**: `/meta` and `/categories` are compared with the whole path,
   which under the default base URL is `/tcgapi/v1/meta`. Neither is ever cached, and
   each start fetches the categories again whatever the snapshot holds.
4. **`paging_overflow`**: `offset + limit` wraps around for limits near the greatest
   int, and the slice expression panics.

Not a disagreement, but a limit of what is promised: closing overwrites the snapshot with
what this process holds, even if another process has saved in the meantime, if its own
load failed, which is only logged (`run.go:66-72`), or if its limit made it give entries up.
`PersistedKept` therefore promises of a snapshot what its own process restored and put and
what fitted its limit. Nor is there always a snapshot: where the first rename fails, the one
in place is removed, and a kill or a second failure then leaves none (`cache.go:144-151`).
What is promised is that this happens only when a complete one was ready to take its place.

## 4. Proofs

The theorems hold for every value of the constants that meets the named assumptions of the
modules, and those named here.

- `CacheOps_proof`: lemmas. `putLocked` and the loop body of `restore` keep the type of
  the cache, never take the account, or a single body, over the limit, and change the bytes
  held by what they say they do. What the whole loop leaves in the cache (`Restored`): entries
  of the snapshot only, all of them if they fit together.
- `MemoryCache_proof`: `TypeCorrect`; `AccountBounded`, whose invariant is the type with the
  bound; `AccountNeverAhead` and `DriftOnlyWhenOversized`: the account never exceeds the bytes
  held, and falls behind only in a step that puts a body longer than the limit;
  `RestoreIsNewestFirst` and `NothingLost` for the restart. All but the first two rest on
  `RestoreInv`: while the loop of `restore` runs, the account is exact, the keys still to come
  are absent and come after those that were looked at, and each of these was kept
  exactly when it fitted. Nothing of the sort holds outside the loop, so the invariant is
  relative to `restoring`.
- `CachingTransport_proof`: `TypeCorrect`; `BodiesNotMixedUp`, for any number of workers.
  `OwnBody` is not inductive: the invariant `Attributed` adds that an answer on its way, and
  the copy held for merging, belong to the URL of their worker's request, and rests on the
  injectivity of `requestCacheKey`. `AnswersKept` and `NotModifiedFindsBody` need a cache with
  room for a longest body of every URL (`HasRoom`), the latter also bodies that are not
  empty, since `http.go:119` takes an entry without bytes for none. Their invariant `KeptInv` says
  that whoever has sent validators, or answered for a path with a TTL, has an entry, and that
  the account is exact as long as nothing is cleared. `AccountExact` is about the cache that is
  cleared, under any limit that no body alone exceeds: whatever is put, after whatever others
  have done, is a whole body of the upstream's (`AccountInv`, `GenuinePut`), so that the one
  exit of `putLocked` that lets the account drift is never taken.
- `StaleReads_proof`: the transport implements `StaleReads`
  (`TransportImplementsStaleReads`), revalidated answers are current (`ConfirmedAreCurrent`)
  and validators never newer than their bodies (`ValidatorsKeepUp`). The hypotheses are that
  no three requests for one URL overlap, that TTLs exceed the timeout (5 minutes and 30
  seconds by default) and that none is longer than the API's document says;
  `TwoWorkersReadCurrent` replaces the first by at most two workers. With three, all of it is
  false: `transport_race` shows it. The invariant `ReadsInv` follows what a version was
  confirmed by: entries and what workers carry are of a version that was current when their
  `FetchedAt` was read or later, a validator sent is no newer than the body it is merged
  with, and of two requests for one URL, what one carries is no older than the entry the
  other will read or the validators it has sent (`Paired`). The refinement takes a transport step to `Ask`, `Answer`, `Return`, `Publish`,
  `Tick` or a stutter.
  `ServerLives` implements it too (`LivesImplementStaleReads`, under the same hypotheses, and
  `TwoWorkersOverLives`), for any number of lives; `TypesOverLives` and `BodiesOverLives` need
  none of them. Between two lives only the snapshot stands for the cache, so the invariant
  says the same of its entries as `ReadsInv` does of the cache's: they are of the right type and
  URL (`DiskOwn`) and of a version that was current when their `FetchedAt` was read or later
  (`DiskSound`). It is kept because restoring leaves `FetchedAt`, TTL and validators as they
  were saved, and because a restart ends every request, so that `Paired` holds of what comes
  back without a word about the order in which the last life stored it. The refinement takes `Restart`
  to `Abandon`, in which every reader is gone, and `Close` to a stutter.
- `CacheSnapshot_proof`: `TypeCorrect`, `NeverPartialHolds`, `TempRemovedHolds` and
  `SnapshotsAreComplete`, which is `PersistedKept`, for any number of processes, keys, limits,
  faults and kills. The invariant of the last, `AsExpected`, says that a process whose history
  has fitted its limit so far holds exactly that history, with an exact account, and that the
  temporary file it is saving is that too. It is kept because a put that fits neither clears
  nor drops anything (`PutLockedFits`) and because a whole snapshot that fits is restored in
  any order of its entries (`Restored`).
- `Paging_proof`: `PagingTypes` and `PagesExact` for all lists, offsets and limits, those
  included whose sum with the offset wraps around: such a page panics and delivers nothing.
  The invariant `Exact` says that what was read is the stretch of the list from the first
  offset to the next, as long as the list has not changed. `PagingNeverPanics` needs
  `limit + MaxTotal <= MaxInt`, which is exactly what `paging_overflow` lacks.
- `ToolCalls_proof`: `AnswersRecent`, for any number of workers, URLs, categories and
  documents per call. `ReadsAreRecent` speaks of ended calls only and is not inductive.
  `CallRecent` says the same of calls that are reading, at the time `Since`: now, or when the
  pending request was made, since while it is under way the documents age by less than the
  timeout that `Slack` adds with its answer. `AnswerRecent` bounds the answer by the time of
  its request, and `Pending` says that no request is older than the timeout.
  `FailuresAreTheUpstreams` builds on it: answers and reads are of versions that exist and
  decode to what was read (`AnswerExists`, `ReadsExist`), a request is for the next wanted URL
  (`AsksNext`), a call ends as undecodable with its last document (`LastUndecodable`), and
  insights that miss their set do so in the list of their category (`NotListed`). Both are
  theorems about calls over `StaleReads`, and so about the transport under the hypotheses of
  `TransportImplementsStaleReads`. `AnswersWhole` and `ListedCategoriesResolve` rest on
  `WholeInv`: what was read is a prefix of what is wanted, in order (`InOrder`), with the
  categories of the start. What is wanted does not change any more once the categories are read
  (`WantedFixed`), and it is a sequence (`WantedIsSeq`), so a prefix of its length is all of it.
  `ListedCategoriesResolve` assumes `IDsAreUsable`: the ids of one list are distinct
  (the API's document calls the id unique) and their decimal form parses to them. Like its
  property it says nothing of a server that started with no categories.
- `Operations_proof`: from `Computed` (the answer is the operation's result) follow
  `ConfigUsable`, by what multiplication does below the overflow; `NamesReach`, whose core is
  that no alias stands for two categories (`AliasesDisjoint`) and that the last place of a
  name wins; `RoutesAgreeAlways`, in both directions, template by template, since the switch
  and the templates are two tables (`AnnouncedIsServed`, `ServedIsAnnounced`); `RowsAreKept` and
  `NarrowedIsPart`, from a bijection between the keys of an object and their places in the
  sort (`SortedPlaces`, `PlacesOfPart`); `CountsAreRight`, from the invariant `HasCounted` of
  the loop over the sets, by induction on its turns. `SectionsAgreeAlways` holds of all
  documents and options. Its core is `HasAdded`, the invariant of the loop over the rarities
  and of the one that sums up the prices, run side by side: the buckets together have each
  product that was taken once and all the prices, and the highest price of each is that of
  one of its products and of none below. It rests on what a sum over a function does when one
  value changes (`SumGrows`, from the fold of the community modules) and on the sort, which for
  any strict order of a finite set is a bijection from the places to its members, in order
  (`PlacesInOrder`). `CardsAreTheTop`, `TopPriceListed` and `SinglesCardLike` use besides that
  the id of a product leads to its only place (`OnlyPlace`).

The assumptions on constants say what the values are: `ToolsAssumption` and
`CategoriesAssumption` that TTLs are numbers, the timeout is positive, "no request" is no
request and a document that decodes as categories is a list of them; `ConfigAssumption` that
an int holds the default of 256 MB; `ResolverAssumption` that numbers parse to numbers and no
alias is one; `RequestsAssumption` that documents have their fields' types, the keys of an
object are finitely many different strings, and Nil and Error are no values;
`InsightsAssumption` that the default of `top_n` is positive.

Proving `CountsAddUp` showed that it did not hold as first stated, with a set without a date
counting in no year: its date is the zero date, and `year_from` 1 counts it as a set of the
year 1. The property now says so, and the run has such a request. Likewise, three properties of
a set summary held in the run only because its lists named each product once: they say so, and
the run has lists that do not.

Every invariant and every action property of a passing run is the conclusion of a theorem.
Only model-checked are the liveness properties `Settles`, `PagingEnds` and `CallsEnd`, since
liveness under fairness and ENABLED are out of the prover's reach. Where an induction is
needed, on the turns of a loop, the size of a set or for the last of some places, it is by the
least counterexample (`Least`), which is the well-foundedness of the naturals.

## 5. Plan

Order: what decides whether an answer is right comes first, then what persists it, then
what is computed from it.

1. *(done)* `CacheOps`, `MemoryCache`, `Endpoints`, `CachingTransport`, `StaleReads`,
   `CacheSnapshot`, `Paging`, with their proofs.
2. *(done)* `ServerLives`: transport and snapshot composed, with restarts that restore
   entries with their age.
3. *(done)* `Resolver`, `Adapter`, `JoinedOutput`, `ReleaseCounts`, `SetInsights`,
   `Resources`, `Config` under `Operations`, and `ToolCalls` over `StaleReads`, with the
   proofs of its two age bounds.
4. *(done)* Theorems: the account and the restart of `MemoryCache`, the refinement of
   `StaleReads` and the currency of confirmed answers, whole answers, exact pages, and the
   operations up to release counts.
5. *(done)* Theorems: the refinement of `StaleReads` over restarts, and the sections of a set
   summary, whose filters, sort and loops are stated by sets of places for it.

### Not modelled

- Prompts, the wording of heuristic notes, logging, build information, the generated
  response types, fields that are only copied, `NormalizeProduct` (one field for each) and
  the sample of collector numbers: no decisions that a property would be about.
- `expandHomeDir`, flags and the MCP library's session and encoding: I/O of libraries.
- A clock that is set back: freshness is then a matter of how far, and no bound holds.
- The capacity of a summary's years (`service.go:108`): memory, not behaviour.
- The tools that validate the OpenAPI document: they run at build time.
