------------------------ MODULE MCCachingTransport --------------------------
(***************************************************************************)
(* Instances of CachingTransport.  Time is scaled: the timeout is one unit *)
(* and a TTL two, the smallest with a time at which an entry is old but    *)
(* not yet stale, and with every TTL longer than the timeout.              *)
(***************************************************************************)
EXTENDS CachingTransport, TLC

Root == <<>>
DefaultPath == <<"tcgapi", "v1">>  \* of https://tcgtracking.com/tcgapi/v1

PricingAndCategories == {GetSetPricing("3", "7"), GetCategories}
Pricing == {GetSetPricing("3", "7")}
Searches == {SearchSets("3", "q=a"), SearchSets("3", "q=b")}
SearchesAndMeta == Searches \cup {GetMeta}
Listings == {GetMeta, GetCategories}

UnitLengths == [u \in URLs |-> [v \in 1..MaxVersion |-> 1]]
GrowingLengths == [u \in URLs |-> [v \in 1..MaxVersion |-> v]]

ETagOnly == {"ETag"}
DateOnly == {"Last-Modified"}
Both == {"ETag", "Last-Modified"}
Neither == {}

\* openapi/tcgtracking-openapi.yaml: 24 hours for prices, 7 days for categories.
ByEndpoint ==
  [u \in URLs |-> IF u = GetSetPricing("3", "7") THEN pricingTTL ELSE categoriesTTL]
Two == [u \in URLs |-> 2]

WorkerSymmetry == Permutations(Workers)
=============================================================================
