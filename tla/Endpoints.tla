------------------------------ MODULE Endpoints -----------------------------
(***************************************************************************)
(* The upstream's URLs as internal/tcgapi/http.go sees them: the path and  *)
(* the query of a request, its time to live and its cache key.  A path is  *)
(* the sequence of its segments.  Every request of the client is a GET.    *)
(***************************************************************************)
EXTENDS Naturals, Sequences

CONSTANTS
  BasePath,  \* path of TCG_API_URL: <<>> or, by default, <<"tcgapi", "v1">>
  metaTTL, categoriesTTL, setsTTL, productsTTL, pricingTTL, skusTTL, searchTTL

ASSUME TTLAssumption ==
  /\ BasePath \in Seq(STRING)
  /\ {metaTTL, categoriesTTL, setsTTL, productsTTL, pricingTTL, skusTTL, searchTTL}
       \subseteq Nat \ {0}

Url == [path : Seq(STRING), query : STRING]

\* The operations of the generated client: the server URL with the operation's
\* path resolved against it (the server always ends in a slash).
Endpoint(segments) == [path |-> BasePath \o segments, query |-> ""]

GetMeta                     == Endpoint(<<"meta">>)
GetCategories               == Endpoint(<<"categories">>)
SearchSets(category, q)     == [Endpoint(<<category, "search">>) EXCEPT !.query = q]
GetCategorySets(category)   == Endpoint(<<category, "sets">>)
GetSetProducts(category, s) == Endpoint(<<category, "sets", s>>)
GetSetPricing(category, s)  == Endpoint(<<category, "sets", s, "pricing">>)
GetSetSkus(category, s)     == Endpoint(<<category, "sets", s, "skus">>)

\* The suffixes ttlForPath tests, each a whole last segment because its string
\* starts with a slash.  No two of them end the same path.
SuffixTTL == [search |-> searchTTL, pricing |-> pricingTTL, skus |-> skusTTL, sets |-> setsTTL]

EndsWith(path, segment) == path # <<>> /\ path[Len(path)] = segment

\* strings.Contains(path, "/sets/"): a segment sets with another one after it.
ContainsSets(path) == \E i \in 1..Len(path) - 1 : path[i] = "sets"

\* Mutant of ttlForPath: the case of categories is lost.
ttlForPathNoCategories(path) ==
  IF path = <<"meta">> THEN metaTTL
  ELSE IF \E segment \in DOMAIN SuffixTTL : EndsWith(path, segment)
       THEN SuffixTTL[path[Len(path)]]
  ELSE IF ContainsSets(path) THEN productsTTL
  ELSE 0

\* The first case that matches decides; meta and categories are compared with
\* the whole path, the other endpoints by how the path ends.
ttlForPath(path) ==
  IF path = <<"meta">> THEN metaTTL
  ELSE IF path = <<"categories">> THEN categoriesTTL
  ELSE IF \E segment \in DOMAIN SuffixTTL : EndsWith(path, segment)
       THEN SuffixTTL[path[Len(path)]]
  ELSE IF ContainsSets(path) THEN productsTTL
  ELSE 0

\* Mutant of requestCacheKey: req.URL.Path in place of req.URL.String().
requestCacheKeyPathOnly(url) == <<"GET", url.path, "">>

requestCacheKey(url) == <<"GET", url.path, url.query>>
=============================================================================
