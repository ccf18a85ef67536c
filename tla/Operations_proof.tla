--------------------------- MODULE Operations_proof ----------------------------
(***************************************************************************)
(* What the operations of the server answer, for every request.            *)
(***************************************************************************)
EXTENDS Operations, TLAPS, FiniteSetTheorems, SequenceTheorems, WellFoundedInduction

-----------------------------------------------------------------------------
(* The answer is the operation's result. *)

Computed ==
  /\ request \in Requests
  /\ answer # NoAnswer =>
       /\ request.op = "load" => answer = LoadFromLookup(request.env)
       /\ request.op = "resolve" => answer = ResolveCategory(request.categories, request.text)
       /\ request.op = "route" => answer = readResourceValue(request.path)
       /\ request.op = "pricing" =>
            answer = pricingOutput(request.prices, request.products, request.productID)
       /\ request.op = "skus" =>
            answer = skuOutput(request.skus, request.products, request.productID)
       /\ request.op = "releases" =>
            answer = SummarizeReleaseCounts(mapSets(request.sets), request.options)
       /\ request.op = "insights" =>
            LET selection == parseAnalyzeSetInsightsFields(request.fields)
                insights  == AnalyzeSetInsights(request.docs, request.setID, request.options)
            IN  answer = IF Error \in {selection, insights} THEN Error
                         ELSE newAnalyzeSetInsightsOutput(insights, selection)

LEMMA AnswerIsComputed == Spec => []Computed
<1>1. Init => Computed
  BY DEF Init, Computed
<1>2. Computed /\ [Next]_vars => Computed'
  <2> SUFFICES ASSUME Computed, [Next]_vars PROVE Computed'
    OBVIOUS
  <2>1. CASE Load
    BY <2>1 DEF Load, Answer, Computed
  <2>2. CASE Resolve
    BY <2>2 DEF Resolve, Answer, Computed
  <2>3. CASE Route
    BY <2>3 DEF Route, Answer, Computed
  <2>4. CASE GetSetPricing
    BY <2>4 DEF GetSetPricing, Answer, Computed
  <2>5. CASE GetSetSKUs
    BY <2>5 DEF GetSetSKUs, Answer, Computed
  <2>6. CASE GetReleaseCounts
    BY <2>6 DEF GetReleaseCounts, Answer, Computed
  <2>7. CASE GetSetInsights
    BY <2>7 DEF GetSetInsights, Answer, Computed
  <2>8. CASE UNCHANGED vars
    BY <2>8 DEF vars, Computed
  <2> QED
    BY <2>1, <2>2, <2>3, <2>4, <2>5, <2>6, <2>7, <2>8 DEF Next
<1> QED
  BY <1>1, <1>2, PTL DEF Spec

-----------------------------------------------------------------------------
(* Configuration. *)

\* A number of megabytes whose bytes are an int is multiplied without overflow.
LEMMA Multiplied ==
  ASSUME NEW c, c.CacheMaxMB \in 1..MaxInt, c.CacheMaxMB <= MaxInt \div MiB
  PROVE  CacheBytes(c) = c.CacheMaxMB * MiB /\ CacheBytes(c) > 0
<1> DEFINE mb == c.CacheMaxMB
           x  == mb * MiB
           q  == MaxInt \div MiB
<1>0. mb \in Nat /\ mb > 0 /\ MaxInt \in Nat /\ MiB \in Nat /\ MiB > 0 /\ mb <= q
  BY ConfigAssumption
<1> HIDE DEF mb
<1>1. q \in Nat /\ q * MiB <= MaxInt
  BY <1>0
<1> HIDE DEF q
<1>2. mb * MiB <= q * MiB
  BY <1>0, <1>1
<1>3. x \in Nat /\ x > 0 /\ x <= MaxInt
  BY <1>0, <1>1, <1>2
<1>4. CacheBytes(c) = ((x + MaxInt + 1) % (2 * (MaxInt + 1))) - (MaxInt + 1)
  BY DEF CacheBytes, mb
<1> HIDE DEF x
<1>5. (x + MaxInt + 1) % (2 * (MaxInt + 1)) = x + MaxInt + 1
  BY <1>0, <1>3
<1> QED
  BY <1>0, <1>3, <1>4, <1>5 DEF x, mb

\* TCG_API_TIMEOUT, TCG_CACHE_MAX_MB and TCG_PAGE_SIZE, when they are accepted, are
\* what the client and the cache take for granted (config.go, run.go:54).
THEOREM ConfigUsable == Spec => []ConfigIsUsable
<1>1. Computed => ConfigIsUsable
  <2> SUFFICES ASSUME Computed, Answered("load")
               PROVE  /\ answer.APITimeout > 0
                      /\ answer.PageSize \in 1..MaxInt
                      /\ \/ /\ CacheBytes(answer) = answer.CacheMaxMB * MiB
                            /\ CacheBytes(answer) > 0
                         \/ answer.CacheMaxMB > MaxInt \div MiB
    BY DEF ConfigIsUsable
  <2> DEFINE env == request.env
             c   == [APIBaseURL |-> lookup(env.TCG_API_URL,
                                           "https://tcgtracking.com/tcgapi/v1"),
                     LogLevel   |-> lookup(env.TCG_LOG_LEVEL, "info"),
                     APITimeout |-> lookup(env.TCG_API_TIMEOUT, 30),
                     CacheMaxMB |-> lookup(env.TCG_CACHE_MAX_MB, 256),
                     PageSize   |-> lookup(env.TCG_PAGE_SIZE, 50)]
  <2>1. answer = LoadFromLookup(env) /\ answer # Error /\ IsEnv(env)
    BY RequestsAssumption DEF Answered, Computed
  <2>2. answer = c /\ Validate(c) /\ Error \notin {c.APITimeout, c.CacheMaxMB, c.PageSize}
    BY <2>1 DEF LoadFromLookup
  <2>3. c.APITimeout \in Int /\ c.CacheMaxMB \in Ints /\ c.PageSize \in Ints
    BY <2>1, <2>2, ConfigAssumption DEF IsEnv, Ints, lookup
  <2> HIDE DEF c
  <2>4. c.APITimeout > 0 /\ c.CacheMaxMB \in 1..MaxInt /\ c.PageSize \in 1..MaxInt
    BY <2>2, <2>3, ConfigAssumption DEF Validate, Ints
  <2>5. c.CacheMaxMB > MaxInt \div MiB \/ c.CacheMaxMB <= MaxInt \div MiB
    BY <2>4, ConfigAssumption
  <2> QED
    BY <2>2, <2>4, <2>5, Multiplied
<1> QED
  BY <1>1, AnswerIsComputed, PTL
-----------------------------------------------------------------------------
(* Names. *)

LEMMA Least ==
  ASSUME NEW S \in SUBSET Nat, S # {}
  PROVE  \E n \in S : \A m \in S : n <= m
<1> DEFINE R == OpToRel(<, Nat)
<1>1. IsWellFoundedOn(R, Nat)
  BY NatLessThanWellFounded
<1>2. \A m, n \in Nat : m < n => <<m, n>> \in R
  BY DEF OpToRel
<1> HIDE DEF R
<1>3. PICK n \in S : \A m \in S : ~ (<<m, n>> \in R)
  BY <1>1, WFMin
<1>4. \A m \in S : n <= m
  <2> SUFFICES ASSUME NEW m \in S PROVE n <= m
    OBVIOUS
  <2>1. ~ (m < n)
    BY <1>2, <1>3
  <2> QED
    BY <2>1
<1> QED
  BY <1>4

\* A set of places that is not empty has a last one.
LEMMA LastPlace ==
  ASSUME NEW n \in Nat, NEW S \in SUBSET (1..n), S # {}
  PROVE  Max(S) \in S /\ \A i \in S : i <= Max(S)
<1> DEFINE T == {n - i : i \in S}
<1>1. T \in SUBSET Nat /\ T # {}
  <2>1. \A i \in S : n - i \in Nat
    OBVIOUS
  <2> QED
    BY <2>1
<1>2. PICK t \in T : \A m \in T : t <= m
  BY <1>1, Least
<1>3. PICK last \in S : t = n - last
  BY <1>2
<1>4. \A i \in S : last >= i
  <2> SUFFICES ASSUME NEW i \in S PROVE last >= i
    OBVIOUS
  <2>1. n - i \in T
    OBVIOUS
  <2>2. n - last <= n - i
    BY <1>2, <1>3, <2>1
  <2> QED
    BY <2>2
<1>5. Max(S) \in S /\ \A i \in S : Max(S) >= i
  BY <1>4 DEF Max
<1> QED
  BY <1>5

\* The aliases by name.
AliasOf(key, id) ==
  \/ id = 1  /\ key \in {"magic", "mtg", "magic the gathering"}
  \/ id = 2  /\ key \in {"yugioh", "yu-gi-oh", "yu-gi-oh!", "ygo"}
  \/ id = 3  /\ key \in {"pokemon", "pok'emon", "ptcg"}
  \/ id = 62 /\ key \in {"fab", "flesh and blood", "flesh & blood"}
  \/ id = 68 /\ key \in {"one piece", "optcg", "one piece card game"}
  \/ id = 71 /\ key \in {"lorcana", "disney lorcana"}
  \/ id = 85 /\ key \in {"pokemon japan", "pokemon jp"}
  \/ id = 63 /\ key \in {"digimon", "digimon card game"}
  \/ id = 79 /\ key \in {"star wars unlimited", "swu"}
  \/ id = 20 /\ key \in {"weiss schwarz", "weiss"}

LEMMA AliasNames ==
  ASSUME NEW a \in DefaultAliases, NEW key \in a.names
  PROVE  AliasOf(key, a.ID)
<1>1. CASE a = [ID |-> 1, names |-> {"magic", "mtg", "magic the gathering"}]
  BY <1>1 DEF AliasOf
<1>2. CASE a = [ID |-> 2, names |-> {"yugioh", "yu-gi-oh", "yu-gi-oh!", "ygo"}]
  BY <1>2 DEF AliasOf
<1>3. CASE a = [ID |-> 3, names |-> {"pokemon", "pok'emon", "ptcg"}]
  BY <1>3 DEF AliasOf
<1>4. CASE a = [ID |-> 62, names |-> {"fab", "flesh and blood", "flesh & blood"}]
  BY <1>4 DEF AliasOf
<1>5. CASE a = [ID |-> 68, names |-> {"one piece", "optcg", "one piece card game"}]
  BY <1>5 DEF AliasOf
<1>6. CASE a = [ID |-> 71, names |-> {"lorcana", "disney lorcana"}]
  BY <1>6 DEF AliasOf
<1>7. CASE a = [ID |-> 85, names |-> {"pokemon japan", "pokemon jp"}]
  BY <1>7 DEF AliasOf
<1>8. CASE a = [ID |-> 63, names |-> {"digimon", "digimon card game"}]
  BY <1>8 DEF AliasOf
<1>9. CASE a = [ID |-> 79, names |-> {"star wars unlimited", "swu"}]
  BY <1>9 DEF AliasOf
<1>10. CASE a = [ID |-> 20, names |-> {"weiss schwarz", "weiss"}]
  BY <1>10 DEF AliasOf
<1> QED
  BY <1>1, <1>2, <1>3, <1>4, <1>5, <1>6, <1>7, <1>8, <1>9, <1>10, Zenon DEF DefaultAliases

\* No name is an alias of two categories, or empty (aliases.go).
LEMMA AliasesDisjoint ==
  ASSUME NEW a \in DefaultAliases, NEW b \in DefaultAliases, NEW key,
         key \in a.names, key \in b.names
  PROVE  a.ID = b.ID /\ key # ""
<1>1. AliasOf(key, a.ID) /\ AliasOf(key, b.ID)
  BY AliasNames
<1> QED
  BY <1>1 DEF AliasOf

\* A number is taken for an id.
LEMMA NumberIsID ==
  ASSUME NEW categories, NEW text, normalize(text) # "", Atoi(normalize(text)) # Error
  PROVE  ResolveCategoryID(categories, text) = Atoi(normalize(text))
BY Zenon DEF ResolveCategoryID

\* A text that is neither a number nor an alias is looked up among the names.
LEMMA NameIsLast ==
  ASSUME NEW categories, NEW text, normalize(text) # "", Atoi(normalize(text)) = Error,
         \A a \in DefaultAliases : normalize(text) \notin a.names,
         NameIndex(categories, normalize(text)) # {}
  PROVE  ResolveCategoryID(categories, text) =
           categories[Max(NameIndex(categories, normalize(text)))].ID
BY Zenon DEF ResolveCategoryID

\* A category that is found by its id is the last with it.
LEMMA FoundByID ==
  ASSUME NEW categories \in Seq(CategoryType), NEW text,
         NEW c \in {categories[i] : i \in DOMAIN categories},
         ResolveCategoryID(categories, text) = c.ID
  PROVE  LET found == ResolveCategory(categories, text)
         IN  found \in {categories[i] : i \in DOMAIN categories} /\ found.ID = c.ID
<1> DEFINE loaded == {i \in DOMAIN categories : categories[i].ID = c.ID}
<1>1. Len(categories) \in Nat /\ DOMAIN categories = 1..Len(categories)
  OBVIOUS
<1>2. c \in CategoryType
  BY <1>1
<1>3. c.ID # Error
  BY <1>2, ResolverAssumption DEF CategoryType
<1>4. loaded # {} /\ loaded \in SUBSET (1..Len(categories))
  BY <1>1
<1>5. Max(loaded) \in loaded
  BY <1>1, <1>4, LastPlace
<1>6. ResolveCategory(categories, text) = categories[Max(loaded)]
  BY <1>3, <1>4 DEF ResolveCategory
<1> QED
  BY <1>5, <1>6

\* A category argument leads to the category it stands for and to no other, whatever
\* categories are loaded (ResolveCategory, resolver.go).
THEOREM NamesReach == Spec => []NamesReachTheirCategory
<1>1. Computed => NamesReachTheirCategory
  <2> SUFFICES ASSUME Computed, request.op = "resolve", answer # NoAnswer
               PROVE  NamesReachTheirCategory
    BY DEF NamesReachTheirCategory
  <2> DEFINE categories == request.categories
             text   == request.text
             key    == normalize(text)
             loaded == {categories[i] : i \in DOMAIN categories}
             named  == NameIndex(categories, key)
             Stands(c) ==
               \/ /\ Unambiguous(categories, text)
                  /\ key \in {normalize(c.Name), normalize(c.DisplayName)} \ {""}
               \/ Atoi(key) = c.ID
               \/ \E a \in DefaultAliases : a.ID = c.ID /\ key \in a.names
  <2>1. answer = ResolveCategory(categories, text) /\ categories \in Seq(CategoryType)
    BY RequestsAssumption DEF Computed
  <2>2. Len(categories) \in Nat /\ DOMAIN categories = 1..Len(categories)
    BY <2>1
  <2>3. answer \in loaded \cup {Error}
    <3> DEFINE places == {i \in DOMAIN categories :
                            categories[i].ID = ResolveCategoryID(categories, text)}
    <3>1. CASE places = {}
      BY <2>1, <3>1 DEF ResolveCategory
    <3>2. CASE places # {}
      <4>1. Max(places) \in places
        BY <2>2, <3>2, LastPlace
      <4> QED
        BY <2>1, <4>1 DEF ResolveCategory
    <3> QED
      BY <3>1, <3>2
  <2>4. ASSUME NEW c \in loaded, Stands(c)
        PROVE  answer # Error /\ answer.ID = c.ID
    <3>1. c \in CategoryType
      BY <2>1, <2>2
    <3>2. c.ID \in Int /\ c.ID # Error /\ Atoi("") = Error
      BY <3>1, ResolverAssumption DEF CategoryType, Atoi
    <3>3. ASSUME Atoi(key) = c.ID
          PROVE  ResolveCategoryID(categories, text) = c.ID
      <4>1. key # "" /\ Atoi(key) # Error
        BY <3>2, <3>3
      <4> QED
        BY <3>3, <4>1, NumberIsID
    <3>4. ASSUME NEW a \in DefaultAliases, a.ID = c.ID, key \in a.names
          PROVE  ResolveCategoryID(categories, text) = c.ID
      <4>1. key # "" /\ Atoi(key) = Error
        BY <3>4, AliasesDisjoint, ResolverAssumption DEF Atoi
      <4> DEFINE aliased == {b \in DefaultAliases : key \in b.names}
      <4>2. aliased # {} /\ \A b \in aliased : b.ID = c.ID
        BY <3>4, AliasesDisjoint
      <4>3. (CHOOSE b \in aliased : TRUE) \in aliased
        BY <4>2
      <4> QED
        BY <4>1, <4>2, <4>3 DEF ResolveCategoryID
    <3>5. ASSUME /\ Unambiguous(categories, text)
                 /\ key \in {normalize(c.Name), normalize(c.DisplayName)} \ {""}
          PROVE  ResolveCategoryID(categories, text) = c.ID
      <4>1. PICK i \in DOMAIN categories : c = categories[i]
        OBVIOUS
      <4>2. i \in named /\ named \in SUBSET (1..Len(categories))
        BY <2>2, <3>5, <4>1 DEF NameIndex
      <4>3. Max(named) \in named
        BY <2>2, <4>2, LastPlace
      <4>4. categories[Max(named)].ID = c.ID
        BY <3>5, <4>1, <4>2, <4>3 DEF Unambiguous
      <4>5. Atoi(key) = Error /\ \A a \in DefaultAliases : key \notin a.names
        BY <3>5 DEF Unambiguous
      <4> QED
        BY <3>5, <4>2, <4>4, <4>5, NameIsLast
    <3>6. ResolveCategoryID(categories, text) = c.ID
      BY <2>4, <3>3, <3>4, <3>5
    <3>7. answer \in loaded /\ answer.ID = c.ID
      BY <2>1, <3>6, FoundByID
    <3>8. answer \in CategoryType
      BY <2>1, <2>2, <3>7
    <3> QED
      BY <3>7, <3>8, RequestsAssumption
  <2> QED
    BY <2>3, <2>4 DEF NamesReachTheirCategory
<1> QED
  BY <1>1, AnswerIsComputed, PTL

-----------------------------------------------------------------------------
(* Routes. *)

\* A segment is a template's part where it is the same, or an id.
Matches(segment, part) ==
  IF part \in {"{categoryId}", "{setId}"} THEN Atoi(segment) # Error ELSE segment = part

LEMMA FitsBySegment ==
  ASSUME NEW path \in Seq(STRING), NEW r
  PROVE  /\ Len(path) \in Nat
         /\ Fits(path, r) <=> /\ Len(path) = Len(r.parts)
                              /\ \A i \in 1..Len(path) : Matches(path[i], r.parts[i])
<1>1. DOMAIN path = 1..Len(path) /\ Len(path) \in Nat
  OBVIOUS
<1>2. \A i \in DOMAIN path :
        (IF r.parts[i] \in {"{categoryId}", "{setId}"} THEN Atoi(path[i]) # Error
         ELSE path[i] = r.parts[i])
        <=> Matches(path[i], r.parts[i])
  BY DEF Matches
<1> QED
  BY <1>1, <1>2, Zenon DEF Fits

\* Which paths a template with one to four parts fits.
LEMMA FitsOne ==
  ASSUME NEW path \in Seq(STRING), NEW r, NEW a, r.parts = <<a>>
  PROVE  Fits(path, r) <=> /\ Len(path) = 1
                           /\ Matches(path[1], a)
<1>1. Len(r.parts) = 1 /\ r.parts[1] = a
  OBVIOUS
<1>2. Fits(path, r) <=> Len(path) = 1 /\ \A i \in 1..1 : Matches(path[i], r.parts[i])
  BY <1>1, FitsBySegment
<1>3. (\A i \in 1..1 : Matches(path[i], r.parts[i])) <=>
        /\ Matches(path[1], a)
  BY <1>1
<1> QED
  BY <1>2, <1>3

LEMMA FitsTwo ==
  ASSUME NEW path \in Seq(STRING), NEW r, NEW a, NEW b, r.parts = <<a, b>>
  PROVE  Fits(path, r) <=> /\ Len(path) = 2
                           /\ Matches(path[1], a) /\ Matches(path[2], b)
<1>1. Len(r.parts) = 2 /\ r.parts[1] = a /\ r.parts[2] = b
  OBVIOUS
<1>2. Fits(path, r) <=> Len(path) = 2 /\ \A i \in 1..2 : Matches(path[i], r.parts[i])
  BY <1>1, FitsBySegment
<1>3. (\A i \in 1..2 : Matches(path[i], r.parts[i])) <=>
        /\ Matches(path[1], a) /\ Matches(path[2], b)
  BY <1>1
<1> QED
  BY <1>2, <1>3

LEMMA FitsThree ==
  ASSUME NEW path \in Seq(STRING), NEW r, NEW a, NEW b, NEW c, r.parts = <<a, b, c>>
  PROVE  Fits(path, r) <=> /\ Len(path) = 3
                           /\ Matches(path[1], a) /\ Matches(path[2], b)
                           /\ Matches(path[3], c)
<1>1. Len(r.parts) = 3 /\ r.parts[1] = a /\ r.parts[2] = b /\ r.parts[3] = c
  OBVIOUS
<1>2. Fits(path, r) <=> Len(path) = 3 /\ \A i \in 1..3 : Matches(path[i], r.parts[i])
  BY <1>1, FitsBySegment
<1>3. (\A i \in 1..3 : Matches(path[i], r.parts[i])) <=>
        /\ Matches(path[1], a) /\ Matches(path[2], b) /\ Matches(path[3], c)
  BY <1>1
<1> QED
  BY <1>2, <1>3

LEMMA FitsFour ==
  ASSUME NEW path \in Seq(STRING), NEW r, NEW a, NEW b, NEW c, NEW d, r.parts = <<a, b, c, d>>
  PROVE  Fits(path, r) <=> /\ Len(path) = 4
                           /\ Matches(path[1], a) /\ Matches(path[2], b)
                           /\ Matches(path[3], c) /\ Matches(path[4], d)
<1>1. /\ Len(r.parts) = 4 /\ r.parts[1] = a /\ r.parts[2] = b /\ r.parts[3] = c
      /\ r.parts[4] = d
  OBVIOUS
<1>2. Fits(path, r) <=> Len(path) = 4 /\ \A i \in 1..4 : Matches(path[i], r.parts[i])
  BY <1>1, FitsBySegment
<1>3. (\A i \in 1..4 : Matches(path[i], r.parts[i])) <=>
        /\ Matches(path[1], a) /\ Matches(path[2], b) /\ Matches(path[3], c)
        /\ Matches(path[4], d)
  BY <1>1
<1> QED
  BY <1>2, <1>3

LEMMA PairOf ==
  ASSUME NEW S, NEW s \in Seq(S), NEW a, NEW b
  PROVE  s = <<a, b>> <=> Len(s) = 2 /\ s[1] = a /\ s[2] = b
<1>1. Len(<<a, b>>) = 2 /\ <<a, b>>[1] = a /\ <<a, b>>[2] = b
  OBVIOUS
<1>2. ASSUME Len(s) = 2, s[1] = a, s[2] = b
      PROVE  s = <<a, b>>
  <2>1. a \in S /\ b \in S
    BY <1>2
  <2>2. <<a, b>> \in Seq(S)
    BY <2>1
  <2>3. \A i \in 1..Len(s) : s[i] = <<a, b>>[i]
    BY <1>1, <1>2
  <2> QED
    BY <1>1, <1>2, <2>2, <2>3, SeqEqual
<1> QED
  BY <1>1, <1>2

LEMMA TailOfThree ==
  ASSUME NEW S, NEW s \in Seq(S), NEW a, NEW b, Len(s) = 3
  PROVE  Tail(s) = <<a, b>> <=> s[2] = a /\ s[3] = b
<1>1. s # <<>>
  OBVIOUS
<1>2. /\ Tail(s) \in Seq(S) /\ Len(Tail(s)) = 2
      /\ \A i \in 1..2 : Tail(s)[i] = s[i + 1]
  BY <1>1, HeadTailProperties
<1>3. Tail(s)[1] = s[2] /\ Tail(s)[2] = s[3]
  BY <1>2
<1>4. Tail(s) = <<a, b>> <=> Len(Tail(s)) = 2 /\ Tail(s)[1] = a /\ Tail(s)[2] = b
  <2> DEFINE t == Tail(s)
  <2>1. t \in Seq(S)
    BY <1>2
  <2> HIDE DEF t
  <2>2. t = <<a, b>> <=> Len(t) = 2 /\ t[1] = a /\ t[2] = b
    BY <2>1, PairOf
  <2> QED
    BY <2>2 DEF t
<1> QED
  BY <1>2, <1>3, <1>4

\* The conditions of the switch, segment by segment.
IsPath2(path, a, b) == Len(path) = 2 /\ path[1] = a /\ path[2] = b
IsReleases(path) == Len(path) = 3 /\ path[2] = "analytics" /\ path[3] = "releases-by-year"
IsSets(path, n) == Len(path) = n /\ path[2] = "sets"
IsView(path) == Len(path) = 4 /\ path[2] = "sets" /\ path[4] \in {"insights", "pricing", "skus"}

LEMMA SwitchBySegments ==
  ASSUME NEW path \in Seq(STRING)
  PROVE  readResourceValue(path) =
           CASE Len(path) = 1 /\ path[1] \in {"meta", "categories"} -> Target(path[1], Nil, Nil)
             [] IsPath2(path, "meta", "heuristics") -> Target("meta-heuristics", Nil, Nil)
             [] IsPath2(path, "analytics", "releases-by-year") ->
                  Target("analytics-releases-by-year", Nil, Nil)
             [] IsSets(path, 2) -> OfCategory("category-sets", path[1])
             [] IsReleases(path) -> OfCategory("category-analytics-releases-by-year", path[1])
             [] IsSets(path, 3) -> OfSet("set-products", path[1], path[3])
             [] IsView(path) -> OfSet(Views[path[4]], path[1], path[3])
             [] OTHER -> Error
<1>1. ASSUME NEW a, NEW b
      PROVE  (path = <<a, b>>) = IsPath2(path, a, b)
  <2>1. (path = <<a, b>>) <=> Len(path) = 2 /\ path[1] = a /\ path[2] = b
    BY PairOf
  <2> QED
    BY <2>1 DEF IsPath2
<1>2. (Len(path) = 3 /\ Tail(path) = <<"analytics", "releases-by-year">>) = IsReleases(path)
  BY TailOfThree DEF IsReleases
<1>3. (Len(path) = 4 /\ path[2] = "sets" /\ path[4] \in DOMAIN Views) = IsView(path)
  BY DEF Views, IsView
<1> QED
  BY <1>1, <1>2, <1>3, Zenon DEF readResourceValue, IsSets

\* What is served for a path is what a resource announces: its name, and the ids at
\* the places of its parts.
ServesAt(value, path, i, part) ==
  /\ part = "{categoryId}" => value.category = Atoi(path[i])
  /\ part = "{setId}" => value.set = Atoi(path[i])

Serves(value, path, r) ==
  /\ value # Error
  /\ value.op = r.Name
  /\ \A i \in DOMAIN r.parts : ServesAt(value, path, i, r.parts[i])

LEMMA OneParts ==
  \A P, a : P = <<a>> =>
    \A i \in DOMAIN P : i = 1 /\ P[1] = a
OBVIOUS

LEMMA TwoParts ==
  \A P, a, b : P = <<a, b>> =>
    \A i \in DOMAIN P : (i = 1 /\ P[1] = a) \/ (i = 2 /\ P[2] = b)
OBVIOUS

LEMMA ThreeParts ==
  \A P, a, b, c : P = <<a, b, c>> =>
    \A i \in DOMAIN P : (i = 1 /\ P[1] = a) \/ (i = 2 /\ P[2] = b) \/ (i = 3 /\ P[3] = c)
OBVIOUS

LEMMA FourParts ==
  \A P, a, b, c, d : P = <<a, b, c, d>> =>
    \A i \in DOMAIN P : \/ i = 1 /\ P[1] = a
                        \/ i = 2 /\ P[2] = b
                        \/ i = 3 /\ P[3] = c
                        \/ i = 4 /\ P[4] = d
OBVIOUS

LEMMA ServesOne ==
  ASSUME NEW path, NEW value, NEW r, NEW a, r.parts = <<a>>,
         value # Error, value.op = r.Name,
         ServesAt(value, path, 1, a)
  PROVE  Serves(value, path, r)
<1>1. \A i \in DOMAIN r.parts :
        i = 1 /\ r.parts[1] = a
  BY OneParts
<1>2. ASSUME NEW i \in DOMAIN r.parts
      PROVE  ServesAt(value, path, i, r.parts[i])
  BY <1>1, Zenon
<1> QED
  BY <1>2, Zenon DEF Serves

LEMMA ServesTwo ==
  ASSUME NEW path, NEW value, NEW r, NEW a, NEW b, r.parts = <<a, b>>,
         value # Error, value.op = r.Name,
         ServesAt(value, path, 1, a),
         ServesAt(value, path, 2, b)
  PROVE  Serves(value, path, r)
<1>1. \A i \in DOMAIN r.parts :
        (i = 1 /\ r.parts[1] = a) \/ (i = 2 /\ r.parts[2] = b)
  BY TwoParts
<1>2. ASSUME NEW i \in DOMAIN r.parts
      PROVE  ServesAt(value, path, i, r.parts[i])
  BY <1>1, Zenon
<1> QED
  BY <1>2, Zenon DEF Serves

LEMMA ServesThree ==
  ASSUME NEW path, NEW value, NEW r, NEW a, NEW b, NEW c, r.parts = <<a, b, c>>,
         value # Error, value.op = r.Name,
         ServesAt(value, path, 1, a),
         ServesAt(value, path, 2, b),
         ServesAt(value, path, 3, c)
  PROVE  Serves(value, path, r)
<1>1. \A i \in DOMAIN r.parts :
        (i = 1 /\ r.parts[1] = a) \/ (i = 2 /\ r.parts[2] = b) \/ (i = 3 /\ r.parts[3] = c)
  BY ThreeParts
<1>2. ASSUME NEW i \in DOMAIN r.parts
      PROVE  ServesAt(value, path, i, r.parts[i])
  BY <1>1, Zenon
<1> QED
  BY <1>2, Zenon DEF Serves

LEMMA ServesFour ==
  ASSUME NEW path, NEW value, NEW r, NEW a, NEW b, NEW c, NEW d, r.parts = <<a, b, c, d>>,
         value # Error, value.op = r.Name,
         ServesAt(value, path, 1, a),
         ServesAt(value, path, 2, b),
         ServesAt(value, path, 3, c),
         ServesAt(value, path, 4, d)
  PROVE  Serves(value, path, r)
<1>1. \A i \in DOMAIN r.parts :
        \/ i = 1 /\ r.parts[1] = a
        \/ i = 2 /\ r.parts[2] = b
        \/ i = 3 /\ r.parts[3] = c
        \/ i = 4 /\ r.parts[4] = d
  BY FourParts
<1>2. ASSUME NEW i \in DOMAIN r.parts
      PROVE  ServesAt(value, path, i, r.parts[i])
  BY <1>1, Zenon
<1> QED
  BY <1>2, Zenon DEF Serves

\* The names of the resources.
Names == {r.Name : r \in resources \cup resourceTemplates}

LEMMA TargetNotError ==
  ASSUME NEW op \in Names, NEW c \in Int \cup {Nil}, NEW s \in Int \cup {Nil}
  PROVE  Target(op, c, s) # Error
<1>1. \A N, C : op \in N /\ c \in C /\ s \in C =>
        [op |-> op, category |-> c, set |-> s, query |-> ""]
          \in [op : N, category : C, set : C, query : {""}]
  OBVIOUS
<1>2. Target(op, c, s) \in Targets
  BY <1>1 DEF Target, Targets, Names
<1> QED
  BY <1>2, RequestsAssumption

\* An id is a number.
LEMMA AtoiInt ==
  ASSUME NEW text, Atoi(text) # Error
  PROVE  Atoi(text) \in Int
BY ResolverAssumption DEF Atoi

LEMMA TargetFields ==
  ASSUME NEW op, NEW c, NEW s
  PROVE  /\ Target(op, c, s).op = op /\ Target(op, c, s).category = c
         /\ Target(op, c, s).set = s
BY DEF Target

LEMMA OfSetServes ==
  ASSUME NEW op \in Names, NEW category, NEW set, Atoi(category) # Error, Atoi(set) # Error
  PROVE  LET value == OfSet(op, category, set)
         IN  /\ value # Error /\ value.op = op
             /\ value.category = Atoi(category) /\ value.set = Atoi(set)
<1>1. OfSet(op, category, set) = Target(op, Atoi(category), Atoi(set))
  BY DEF OfSet
<1>2. Atoi(category) \in Int /\ Atoi(set) \in Int
  BY AtoiInt
<1>3. Target(op, Atoi(category), Atoi(set)) # Error
  BY <1>2, TargetNotError
<1> QED
  BY <1>1, <1>3, TargetFields

LEMMA OfCategoryServes ==
  ASSUME NEW op \in Names, NEW category, Atoi(category) # Error
  PROVE  LET value == OfCategory(op, category)
         IN  value # Error /\ value.op = op /\ value.category = Atoi(category)
<1>1. OfCategory(op, category) = Target(op, Atoi(category), Nil)
  BY DEF OfCategory
<1>2. Atoi(category) \in Int
  BY AtoiInt
<1>3. Target(op, Atoi(category), Nil) # Error
  BY <1>2, TargetNotError
<1> QED
  BY <1>1, <1>3, TargetFields

LEMMA PlainServes ==
  ASSUME NEW op \in Names
  PROVE  Target(op, Nil, Nil) # Error /\ Target(op, Nil, Nil).op = op
<1>1. Target(op, Nil, Nil) # Error
  BY TargetNotError
<1> QED
  BY <1>1 DEF Target

LEMMA ViewNames ==
  /\ Views["insights"] = "set-insights" /\ Views["pricing"] = "set-pricing"
  /\ Views["skus"] = "set-skus"
BY Zenon DEF Views

\* Every path that fits what was announced is served as announced.
LEMMA AnnouncedIsServed ==
  ASSUME NEW path \in Seq(STRING), NEW r \in resources \cup resourceTemplates, Fits(path, r)
  PROVE  Serves(readResourceValue(path), path, r)
<1> DEFINE value == readResourceValue(path)
<1>0. r.Name \in Names
  BY DEF Names
<1>1. ASSUME NEW a, r.Name = "meta", r.parts = <<a>>,
             a = "meta"
      PROVE  Serves(value, path, r)
  <2>1. Len(path) = 1 /\ Matches(path[1], a)
    BY <1>1, FitsOne
  <2>2. path[1] = "meta"
    BY <1>1, <2>1 DEF Matches
  <2>3. value = Target(r.Name, Nil, Nil)
    BY <1>1, <2>1, <2>2, SwitchBySegments DEF IsPath2, IsReleases, IsSets, IsView
  <2>4. value # Error /\ value.op = r.Name
    BY <1>0, <2>2, <2>3, PlainServes
  <2>5. ServesAt(value, path, 1, a)
    BY <1>1, <2>4 DEF ServesAt
  <2> HIDE DEF value
  <2> QED
    BY <1>1, <2>4, <2>5, ServesOne
<1>2. ASSUME NEW a, r.Name = "categories", r.parts = <<a>>,
             a = "categories"
      PROVE  Serves(value, path, r)
  <2>1. Len(path) = 1 /\ Matches(path[1], a)
    BY <1>2, FitsOne
  <2>2. path[1] = "categories"
    BY <1>2, <2>1 DEF Matches
  <2>3. value = Target(r.Name, Nil, Nil)
    BY <1>2, <2>1, <2>2, SwitchBySegments DEF IsPath2, IsReleases, IsSets, IsView
  <2>4. value # Error /\ value.op = r.Name
    BY <1>0, <2>2, <2>3, PlainServes
  <2>5. ServesAt(value, path, 1, a)
    BY <1>2, <2>4 DEF ServesAt
  <2> HIDE DEF value
  <2> QED
    BY <1>2, <2>4, <2>5, ServesOne
<1>3. ASSUME NEW a, NEW b, r.Name = "meta-heuristics", r.parts = <<a, b>>,
             a = "meta", b = "heuristics"
      PROVE  Serves(value, path, r)
  <2>1. Len(path) = 2 /\ Matches(path[1], a) /\ Matches(path[2], b)
    BY <1>3, FitsTwo
  <2>2. path[1] = "meta" /\ path[2] = "heuristics"
    BY <1>3, <2>1 DEF Matches
  <2>3. value = Target(r.Name, Nil, Nil)
    BY <1>3, <2>1, <2>2, SwitchBySegments DEF IsPath2, IsReleases, IsSets, IsView
  <2>4. value # Error /\ value.op = r.Name
    BY <1>0, <2>2, <2>3, PlainServes
  <2>5. ServesAt(value, path, 1, a) /\ ServesAt(value, path, 2, b)
    BY <1>3, <2>4 DEF ServesAt
  <2> HIDE DEF value
  <2> QED
    BY <1>3, <2>4, <2>5, ServesTwo
<1>4. ASSUME NEW a, NEW b, r.Name = "analytics-releases-by-year", r.parts = <<a, b>>,
             a = "analytics", b = "releases-by-year"
      PROVE  Serves(value, path, r)
  <2>1. Len(path) = 2 /\ Matches(path[1], a) /\ Matches(path[2], b)
    BY <1>4, FitsTwo
  <2>2. path[1] = "analytics" /\ path[2] = "releases-by-year"
    BY <1>4, <2>1 DEF Matches
  <2>3. value = Target(r.Name, Nil, Nil)
    BY <1>4, <2>1, <2>2, SwitchBySegments DEF IsPath2, IsReleases, IsSets, IsView
  <2>4. value # Error /\ value.op = r.Name
    BY <1>0, <2>2, <2>3, PlainServes
  <2>5. ServesAt(value, path, 1, a) /\ ServesAt(value, path, 2, b)
    BY <1>4, <2>4 DEF ServesAt
  <2> HIDE DEF value
  <2> QED
    BY <1>4, <2>4, <2>5, ServesTwo
<1>5. ASSUME NEW a, NEW b, r.Name = "category-sets", r.parts = <<a, b>>,
             a = "{categoryId}", b = "sets"
      PROVE  Serves(value, path, r)
  <2>1. Len(path) = 2 /\ Matches(path[1], a) /\ Matches(path[2], b)
    BY <1>5, FitsTwo
  <2>2. Atoi(path[1]) # Error /\ path[2] = "sets"
    BY <1>5, <2>1 DEF Matches
  <2>3. value = OfCategory(r.Name, path[1])
    <3>1. /\ ~(Len(path) = 1 /\ path[1] \in {"meta", "categories"})
          /\ ~IsPath2(path, "meta", "heuristics")
          /\ ~IsPath2(path, "analytics", "releases-by-year")
      BY <2>1, <2>2 DEF IsPath2
    <3>2. IsSets(path, 2) /\ ~IsSets(path, 3) /\ ~IsReleases(path) /\ ~IsView(path)
      BY <2>1, <2>2 DEF IsReleases, IsSets, IsView
    <3> QED
      BY <1>5, <3>1, <3>2, SwitchBySegments
  <2>4. value # Error /\ value.op = r.Name /\ value.category = Atoi(path[1])
    BY <1>0, <2>2, <2>3, OfCategoryServes
  <2>5. ServesAt(value, path, 1, a) /\ ServesAt(value, path, 2, b)
    BY <1>5, <2>4 DEF ServesAt
  <2> HIDE DEF value
  <2> QED
    BY <1>5, <2>4, <2>5, ServesTwo
<1>6. ASSUME NEW a, NEW b, NEW c, r.Name = "set-products", r.parts = <<a, b, c>>,
             a = "{categoryId}", b = "sets", c = "{setId}"
      PROVE  Serves(value, path, r)
  <2>1. Len(path) = 3 /\ Matches(path[1], a) /\ Matches(path[2], b) /\ Matches(path[3], c)
    BY <1>6, FitsThree
  <2>2. Atoi(path[1]) # Error /\ path[2] = "sets" /\ Atoi(path[3]) # Error
    BY <1>6, <2>1 DEF Matches
  <2>3. value = OfSet(r.Name, path[1], path[3])
    <3>1. /\ ~(Len(path) = 1 /\ path[1] \in {"meta", "categories"})
          /\ ~IsPath2(path, "meta", "heuristics")
          /\ ~IsPath2(path, "analytics", "releases-by-year")
      BY <2>1, <2>2 DEF IsPath2
    <3>2. ~IsSets(path, 2) /\ IsSets(path, 3) /\ ~IsReleases(path) /\ ~IsView(path)
      BY <2>1, <2>2 DEF IsReleases, IsSets, IsView
    <3> QED
      BY <1>6, <3>1, <3>2, SwitchBySegments
  <2>4. /\ value # Error /\ value.op = r.Name
        /\ value.category = Atoi(path[1]) /\ value.set = Atoi(path[3])
    BY <1>0, <2>2, <2>3, OfSetServes
  <2>5. /\ ServesAt(value, path, 1, a) /\ ServesAt(value, path, 2, b)
        /\ ServesAt(value, path, 3, c)
    BY <1>6, <2>4 DEF ServesAt
  <2> HIDE DEF value
  <2> QED
    BY <1>6, <2>4, <2>5, ServesThree
<1>7. ASSUME NEW a, NEW b, NEW c, NEW d, r.Name = "set-pricing", r.parts = <<a, b, c, d>>,
             a = "{categoryId}", b = "sets", c = "{setId}", d = "pricing"
      PROVE  Serves(value, path, r)
  <2>1. /\ Len(path) = 4 /\ Matches(path[1], a) /\ Matches(path[2], b)
        /\ Matches(path[3], c) /\ Matches(path[4], d)
    BY <1>7, FitsFour
  <2>2. /\ Atoi(path[1]) # Error /\ path[2] = "sets" /\ Atoi(path[3]) # Error
        /\ path[4] = "pricing"
    BY <1>7, <2>1 DEF Matches
  <2>3. value = OfSet(r.Name, path[1], path[3])
    <3>1. /\ ~(Len(path) = 1 /\ path[1] \in {"meta", "categories"})
          /\ ~IsPath2(path, "meta", "heuristics")
          /\ ~IsPath2(path, "analytics", "releases-by-year")
      BY <2>1, <2>2 DEF IsPath2
    <3>2. ~IsSets(path, 2) /\ ~IsSets(path, 3) /\ ~IsReleases(path) /\ IsView(path)
      BY <2>1, <2>2 DEF IsReleases, IsSets, IsView
    <3>3. value = OfSet(Views[path[4]], path[1], path[3])
      BY <3>1, <3>2, SwitchBySegments
    <3>4. Views[path[4]] = r.Name
      BY <1>7, <2>2, ViewNames, Zenon
    <3> QED
      BY <3>3, <3>4
  <2>4. /\ value # Error /\ value.op = r.Name
        /\ value.category = Atoi(path[1]) /\ value.set = Atoi(path[3])
    BY <1>0, <2>2, <2>3, OfSetServes
  <2>5. /\ ServesAt(value, path, 1, a) /\ ServesAt(value, path, 2, b)
        /\ ServesAt(value, path, 3, c) /\ ServesAt(value, path, 4, d)
    BY <1>7, <2>4 DEF ServesAt
  <2> HIDE DEF value
  <2> QED
    BY <1>7, <2>4, <2>5, ServesFour
<1>8. ASSUME NEW a, NEW b, NEW c, NEW d, r.Name = "set-skus", r.parts = <<a, b, c, d>>,
             a = "{categoryId}", b = "sets", c = "{setId}", d = "skus"
      PROVE  Serves(value, path, r)
  <2>1. /\ Len(path) = 4 /\ Matches(path[1], a) /\ Matches(path[2], b)
        /\ Matches(path[3], c) /\ Matches(path[4], d)
    BY <1>8, FitsFour
  <2>2. /\ Atoi(path[1]) # Error /\ path[2] = "sets" /\ Atoi(path[3]) # Error
        /\ path[4] = "skus"
    BY <1>8, <2>1 DEF Matches
  <2>3. value = OfSet(r.Name, path[1], path[3])
    <3>1. /\ ~(Len(path) = 1 /\ path[1] \in {"meta", "categories"})
          /\ ~IsPath2(path, "meta", "heuristics")
          /\ ~IsPath2(path, "analytics", "releases-by-year")
      BY <2>1, <2>2 DEF IsPath2
    <3>2. ~IsSets(path, 2) /\ ~IsSets(path, 3) /\ ~IsReleases(path) /\ IsView(path)
      BY <2>1, <2>2 DEF IsReleases, IsSets, IsView
    <3>3. value = OfSet(Views[path[4]], path[1], path[3])
      BY <3>1, <3>2, SwitchBySegments
    <3>4. Views[path[4]] = r.Name
      BY <1>8, <2>2, ViewNames, Zenon
    <3> QED
      BY <3>3, <3>4
  <2>4. /\ value # Error /\ value.op = r.Name
        /\ value.category = Atoi(path[1]) /\ value.set = Atoi(path[3])
    BY <1>0, <2>2, <2>3, OfSetServes
  <2>5. /\ ServesAt(value, path, 1, a) /\ ServesAt(value, path, 2, b)
        /\ ServesAt(value, path, 3, c) /\ ServesAt(value, path, 4, d)
    BY <1>8, <2>4 DEF ServesAt
  <2> HIDE DEF value
  <2> QED
    BY <1>8, <2>4, <2>5, ServesFour
<1>9. ASSUME NEW a, NEW b, NEW c, NEW d, r.Name = "set-insights", r.parts = <<a, b, c, d>>,
             a = "{categoryId}", b = "sets", c = "{setId}", d = "insights"
      PROVE  Serves(value, path, r)
  <2>1. /\ Len(path) = 4 /\ Matches(path[1], a) /\ Matches(path[2], b)
        /\ Matches(path[3], c) /\ Matches(path[4], d)
    BY <1>9, FitsFour
  <2>2. /\ Atoi(path[1]) # Error /\ path[2] = "sets" /\ Atoi(path[3]) # Error
        /\ path[4] = "insights"
    BY <1>9, <2>1 DEF Matches
  <2>3. value = OfSet(r.Name, path[1], path[3])
    <3>1. /\ ~(Len(path) = 1 /\ path[1] \in {"meta", "categories"})
          /\ ~IsPath2(path, "meta", "heuristics")
          /\ ~IsPath2(path, "analytics", "releases-by-year")
      BY <2>1, <2>2 DEF IsPath2
    <3>2. ~IsSets(path, 2) /\ ~IsSets(path, 3) /\ ~IsReleases(path) /\ IsView(path)
      BY <2>1, <2>2 DEF IsReleases, IsSets, IsView
    <3>3. value = OfSet(Views[path[4]], path[1], path[3])
      BY <3>1, <3>2, SwitchBySegments
    <3>4. Views[path[4]] = r.Name
      BY <1>9, <2>2, ViewNames, Zenon
    <3> QED
      BY <3>3, <3>4
  <2>4. /\ value # Error /\ value.op = r.Name
        /\ value.category = Atoi(path[1]) /\ value.set = Atoi(path[3])
    BY <1>0, <2>2, <2>3, OfSetServes
  <2>5. /\ ServesAt(value, path, 1, a) /\ ServesAt(value, path, 2, b)
        /\ ServesAt(value, path, 3, c) /\ ServesAt(value, path, 4, d)
    BY <1>9, <2>4 DEF ServesAt
  <2> HIDE DEF value
  <2> QED
    BY <1>9, <2>4, <2>5, ServesFour
<1>10. ASSUME NEW a, NEW b, NEW c, r.Name = "category-analytics-releases-by-year",
              r.parts = <<a, b, c>>,
             a = "{categoryId}", b = "analytics", c = "releases-by-year"
      PROVE  Serves(value, path, r)
  <2>1. Len(path) = 3 /\ Matches(path[1], a) /\ Matches(path[2], b) /\ Matches(path[3], c)
    BY <1>10, FitsThree
  <2>2. Atoi(path[1]) # Error /\ path[2] = "analytics" /\ path[3] = "releases-by-year"
    BY <1>10, <2>1 DEF Matches
  <2>3. value = OfCategory(r.Name, path[1])
    BY <1>10, <2>1, <2>2, SwitchBySegments DEF IsPath2, IsReleases, IsSets, IsView
  <2>4. value # Error /\ value.op = r.Name /\ value.category = Atoi(path[1])
    BY <1>0, <2>2, <2>3, OfCategoryServes
  <2>5. /\ ServesAt(value, path, 1, a) /\ ServesAt(value, path, 2, b)
        /\ ServesAt(value, path, 3, c)
    BY <1>10, <2>4 DEF ServesAt
  <2> HIDE DEF value
  <2> QED
    BY <1>10, <2>4, <2>5, ServesThree
<1> SUFFICES Serves(value, path, r)
  OBVIOUS
<1> HIDE DEF value
<1>11. CASE r = [Name |-> "meta", parts |-> <<"meta">>]
  <2>1. PICK a : /\ r.Name = "meta" /\ r.parts = <<a>>
                /\ a = "meta"
    BY <1>11, Zenon
  <2> QED
    BY <1>1, <2>1
<1>12. CASE r = [Name |-> "categories", parts |-> <<"categories">>]
  <2>1. PICK a : /\ r.Name = "categories" /\ r.parts = <<a>>
                /\ a = "categories"
    BY <1>12, Zenon
  <2> QED
    BY <1>2, <2>1
<1>13. CASE r = [Name |-> "meta-heuristics", parts |-> <<"meta", "heuristics">>]
  <2>1. PICK a, b : /\ r.Name = "meta-heuristics" /\ r.parts = <<a, b>>
                /\ a = "meta" /\ b = "heuristics"
    BY <1>13, Zenon
  <2> QED
    BY <1>3, <2>1
<1>14. CASE r = [Name |-> "analytics-releases-by-year",
                 parts |-> <<"analytics", "releases-by-year">>]
  <2>1. PICK a, b : /\ r.Name = "analytics-releases-by-year" /\ r.parts = <<a, b>>
                /\ a = "analytics" /\ b = "releases-by-year"
    BY <1>14, Zenon
  <2> QED
    BY <1>4, <2>1
<1>15. CASE r = [Name |-> "category-sets", parts |-> <<"{categoryId}", "sets">>]
  <2>1. PICK a, b : /\ r.Name = "category-sets" /\ r.parts = <<a, b>>
                /\ a = "{categoryId}" /\ b = "sets"
    BY <1>15, Zenon
  <2> QED
    BY <1>5, <2>1
<1>16. CASE r = [Name |-> "set-products", parts |-> <<"{categoryId}", "sets", "{setId}">>]
  <2>1. PICK a, b, c : /\ r.Name = "set-products" /\ r.parts = <<a, b, c>>
                /\ a = "{categoryId}" /\ b = "sets" /\ c = "{setId}"
    BY <1>16, Zenon
  <2> QED
    BY <1>6, <2>1
<1>17. CASE r = [Name |-> "set-pricing",
                 parts |-> <<"{categoryId}", "sets", "{setId}", "pricing">>]
  <2>1. PICK a, b, c, d : /\ r.Name = "set-pricing" /\ r.parts = <<a, b, c, d>>
                /\ a = "{categoryId}" /\ b = "sets" /\ c = "{setId}" /\ d = "pricing"
    BY <1>17, Zenon
  <2> QED
    BY <1>7, <2>1
<1>18. CASE r = [Name |-> "set-skus",
                 parts |-> <<"{categoryId}", "sets", "{setId}", "skus">>]
  <2>1. PICK a, b, c, d : /\ r.Name = "set-skus" /\ r.parts = <<a, b, c, d>>
                /\ a = "{categoryId}" /\ b = "sets" /\ c = "{setId}" /\ d = "skus"
    BY <1>18, Zenon
  <2> QED
    BY <1>8, <2>1
<1>19. CASE r = [Name |-> "set-insights",
                 parts |-> <<"{categoryId}", "sets", "{setId}", "insights">>]
  <2>1. PICK a, b, c, d : /\ r.Name = "set-insights" /\ r.parts = <<a, b, c, d>>
                /\ a = "{categoryId}" /\ b = "sets" /\ c = "{setId}" /\ d = "insights"
    BY <1>19, Zenon
  <2> QED
    BY <1>9, <2>1
<1>20. CASE r = [Name |-> "category-analytics-releases-by-year",
                 parts |-> <<"{categoryId}", "analytics", "releases-by-year">>]
  <2>1. PICK a, b, c : /\ r.Name = "category-analytics-releases-by-year"
                       /\ r.parts = <<a, b, c>>
                /\ a = "{categoryId}" /\ b = "analytics" /\ c = "releases-by-year"
    BY <1>20, Zenon
  <2> QED
    BY <1>10, <2>1
<1> QED
  BY <1>11, <1>12, <1>13, <1>14, <1>15, <1>16, <1>17, <1>18, <1>19, <1>20, Zenon
    DEF resources, resourceTemplates

\* Every path that is served was announced.
LEMMA ServedIsAnnounced ==
  ASSUME NEW path \in Seq(STRING), readResourceValue(path) # Error
  PROVE  \E r \in resources \cup resourceTemplates : Fits(path, r)
<1>1. ASSUME Len(path) = 1, path[1] = "meta"
      PROVE  \E r \in resources \cup resourceTemplates : Fits(path, r)
  <2>1. PICK r \in resources : r = [Name |-> "meta", parts |-> <<"meta">>]
    BY Zenon DEF resources
  <2>2. PICK a : r.parts = <<a>> /\ a = "meta"
    BY <2>1, Zenon
  <2>3. Matches(path[1], a)
    BY <1>1, <2>2 DEF Matches
  <2>4. Fits(path, r)
    BY <1>1, <2>2, <2>3, FitsOne
  <2> QED
    BY <2>1, <2>4
<1>2. ASSUME Len(path) = 1, path[1] = "categories"
      PROVE  \E r \in resources \cup resourceTemplates : Fits(path, r)
  <2>1. PICK r \in resources : r = [Name |-> "categories", parts |-> <<"categories">>]
    BY Zenon DEF resources
  <2>2. PICK a : r.parts = <<a>> /\ a = "categories"
    BY <2>1, Zenon
  <2>3. Matches(path[1], a)
    BY <1>2, <2>2 DEF Matches
  <2>4. Fits(path, r)
    BY <1>2, <2>2, <2>3, FitsOne
  <2> QED
    BY <2>1, <2>4
<1>3. ASSUME Len(path) = 2, path[1] = "meta", path[2] = "heuristics"
      PROVE  \E r \in resources \cup resourceTemplates : Fits(path, r)
  <2>1. PICK r \in resources : r = [Name |-> "meta-heuristics",
                                    parts |-> <<"meta", "heuristics">>]
    BY Zenon DEF resources
  <2>2. PICK a, b : r.parts = <<a, b>> /\ a = "meta" /\ b = "heuristics"
    BY <2>1, Zenon
  <2>3. Matches(path[1], a) /\ Matches(path[2], b)
    BY <1>3, <2>2 DEF Matches
  <2>4. Fits(path, r)
    BY <1>3, <2>2, <2>3, FitsTwo
  <2> QED
    BY <2>1, <2>4
<1>4. ASSUME Len(path) = 2, path[1] = "analytics", path[2] = "releases-by-year"
      PROVE  \E r \in resources \cup resourceTemplates : Fits(path, r)
  <2>1. PICK r \in resources : r = [Name |-> "analytics-releases-by-year",
                                    parts |-> <<"analytics", "releases-by-year">>]
    BY Zenon DEF resources
  <2>2. PICK a, b : r.parts = <<a, b>> /\ a = "analytics" /\ b = "releases-by-year"
    BY <2>1, Zenon
  <2>3. Matches(path[1], a) /\ Matches(path[2], b)
    BY <1>4, <2>2 DEF Matches
  <2>4. Fits(path, r)
    BY <1>4, <2>2, <2>3, FitsTwo
  <2> QED
    BY <2>1, <2>4
<1>5. ASSUME Len(path) = 2, Atoi(path[1]) # Error, path[2] = "sets"
      PROVE  \E r \in resources \cup resourceTemplates : Fits(path, r)
  <2>1. PICK r \in resourceTemplates : r = [Name |-> "category-sets",
                                            parts |-> <<"{categoryId}", "sets">>]
    BY Zenon DEF resourceTemplates
  <2>2. PICK a, b : r.parts = <<a, b>> /\ a = "{categoryId}" /\ b = "sets"
    BY <2>1, Zenon
  <2>3. Matches(path[1], a) /\ Matches(path[2], b)
    BY <1>5, <2>2 DEF Matches
  <2>4. Fits(path, r)
    BY <1>5, <2>2, <2>3, FitsTwo
  <2> QED
    BY <2>1, <2>4
<1>6. ASSUME Len(path) = 3, Atoi(path[1]) # Error, path[2] = "sets", Atoi(path[3]) # Error
      PROVE  \E r \in resources \cup resourceTemplates : Fits(path, r)
  <2>1. PICK r \in resourceTemplates : r = [Name |-> "set-products",
                                            parts |-> <<"{categoryId}", "sets", "{setId}">>]
    BY Zenon DEF resourceTemplates
  <2>2. PICK a, b, c : /\ r.parts = <<a, b, c>> /\ a = "{categoryId}" /\ b = "sets"
                       /\ c = "{setId}"
    BY <2>1, Zenon
  <2>3. Matches(path[1], a) /\ Matches(path[2], b) /\ Matches(path[3], c)
    BY <1>6, <2>2 DEF Matches
  <2>4. Fits(path, r)
    BY <1>6, <2>2, <2>3, FitsThree
  <2> QED
    BY <2>1, <2>4
<1>7. ASSUME Len(path) = 4, Atoi(path[1]) # Error, path[2] = "sets", Atoi(path[3]) # Error,
             path[4] = "pricing"
      PROVE  \E r \in resources \cup resourceTemplates : Fits(path, r)
  <2>1. PICK r \in resourceTemplates : r = [Name |-> "set-pricing",
                              parts |-> <<"{categoryId}", "sets", "{setId}", "pricing">>]
    BY Zenon DEF resourceTemplates
  <2>2. PICK a, b, c, d : /\ r.parts = <<a, b, c, d>> /\ a = "{categoryId}"
                          /\ b = "sets" /\ c = "{setId}" /\ d = "pricing"
    BY <2>1, Zenon
  <2>3. /\ Matches(path[1], a) /\ Matches(path[2], b) /\ Matches(path[3], c)
        /\ Matches(path[4], d)
    BY <1>7, <2>2 DEF Matches
  <2>4. Fits(path, r)
    BY <1>7, <2>2, <2>3, FitsFour
  <2> QED
    BY <2>1, <2>4
<1>8. ASSUME Len(path) = 4, Atoi(path[1]) # Error, path[2] = "sets", Atoi(path[3]) # Error,
             path[4] = "skus"
      PROVE  \E r \in resources \cup resourceTemplates : Fits(path, r)
  <2>1. PICK r \in resourceTemplates : r = [Name |-> "set-skus",
                              parts |-> <<"{categoryId}", "sets", "{setId}", "skus">>]
    BY Zenon DEF resourceTemplates
  <2>2. PICK a, b, c, d : /\ r.parts = <<a, b, c, d>> /\ a = "{categoryId}"
                          /\ b = "sets" /\ c = "{setId}" /\ d = "skus"
    BY <2>1, Zenon
  <2>3. /\ Matches(path[1], a) /\ Matches(path[2], b) /\ Matches(path[3], c)
        /\ Matches(path[4], d)
    BY <1>8, <2>2 DEF Matches
  <2>4. Fits(path, r)
    BY <1>8, <2>2, <2>3, FitsFour
  <2> QED
    BY <2>1, <2>4
<1>9. ASSUME Len(path) = 4, Atoi(path[1]) # Error, path[2] = "sets", Atoi(path[3]) # Error,
             path[4] = "insights"
      PROVE  \E r \in resources \cup resourceTemplates : Fits(path, r)
  <2>1. PICK r \in resourceTemplates : r = [Name |-> "set-insights",
                              parts |-> <<"{categoryId}", "sets", "{setId}", "insights">>]
    BY Zenon DEF resourceTemplates
  <2>2. PICK a, b, c, d : /\ r.parts = <<a, b, c, d>> /\ a = "{categoryId}"
                          /\ b = "sets" /\ c = "{setId}" /\ d = "insights"
    BY <2>1, Zenon
  <2>3. /\ Matches(path[1], a) /\ Matches(path[2], b) /\ Matches(path[3], c)
        /\ Matches(path[4], d)
    BY <1>9, <2>2 DEF Matches
  <2>4. Fits(path, r)
    BY <1>9, <2>2, <2>3, FitsFour
  <2> QED
    BY <2>1, <2>4
<1>10. ASSUME Len(path) = 3, Atoi(path[1]) # Error, path[2] = "analytics",
              path[3] = "releases-by-year"
      PROVE  \E r \in resources \cup resourceTemplates : Fits(path, r)
  <2>1. PICK r \in resourceTemplates : r = [Name |-> "category-analytics-releases-by-year",
                              parts |-> <<"{categoryId}", "analytics", "releases-by-year">>]
    BY Zenon DEF resourceTemplates
  <2>2. PICK a, b, c : /\ r.parts = <<a, b, c>> /\ a = "{categoryId}"
                       /\ b = "analytics" /\ c = "releases-by-year"
    BY <2>1, Zenon
  <2>3. Matches(path[1], a) /\ Matches(path[2], b) /\ Matches(path[3], c)
    BY <1>10, <2>2 DEF Matches
  <2>4. Fits(path, r)
    BY <1>10, <2>2, <2>3, FitsThree
  <2> QED
    BY <2>1, <2>4
<1>11. CASE Len(path) = 1 /\ path[1] \in {"meta", "categories"}
  BY <1>1, <1>2, <1>11
<1>12. CASE \/ IsPath2(path, "meta", "heuristics")
            \/ IsPath2(path, "analytics", "releases-by-year")
  BY <1>3, <1>4, <1>12 DEF IsPath2
<1>13. CASE /\ IsSets(path, 2)
            /\ readResourceValue(path) = OfCategory("category-sets", path[1])
  BY <1>5, <1>13 DEF IsSets, OfCategory
<1>14. CASE /\ IsReleases(path)
            /\ readResourceValue(path) = OfCategory("category-analytics-releases-by-year", path[1])
  BY <1>10, <1>14 DEF IsReleases, OfCategory
<1>15. CASE /\ IsSets(path, 3)
            /\ readResourceValue(path) = OfSet("set-products", path[1], path[3])
  BY <1>6, <1>15 DEF IsSets, OfSet
<1>16. CASE /\ IsView(path)
            /\ readResourceValue(path) = OfSet(Views[path[4]], path[1], path[3])
  BY <1>7, <1>8, <1>9, <1>16 DEF IsView, OfSet
<1> QED
  BY <1>11, <1>12, <1>13, <1>14, <1>15, <1>16, SwitchBySegments

\* Of all paths, the ones a resource was announced for are served, as announced, and
\* no other.
THEOREM RoutesAgreeAlways == Spec => []RoutesAgree
<1>1. Computed => RoutesAgree
  <2> SUFFICES ASSUME Computed, request.op = "route", answer # NoAnswer
               PROVE  RoutesAgree
    BY DEF RoutesAgree
  <2> DEFINE path == request.path
             fitting == {r \in resources \cup resourceTemplates : Fits(path, r)}
  <2>1. path \in Seq(STRING) /\ answer = readResourceValue(path)
    BY RequestsAssumption DEF Computed
  <2> HIDE DEF path
  <2>2. \A r \in fitting : Serves(answer, path, r)
    BY <2>1, AnnouncedIsServed
  <2>3. answer # Error => fitting # {}
    BY <2>1, ServedIsAnnounced
  <2>4. (answer = Error) = (fitting = {})
    BY <2>2, <2>3 DEF Serves
  <2> QED
    BY <2>2, <2>4 DEF RoutesAgree, Serves, ServesAt, path
<1> QED
  BY <1>1, AnswerIsComputed, PTL

-----------------------------------------------------------------------------
(* Rows. *)

AreKeys(keys) ==
  /\ IsFiniteSet(keys)
  /\ \A k \in keys : k.rank \in Int
  /\ \A j, k \in keys : j.rank = k.rank => j = k

Below(keys, k) == {l \in keys : l.rank <= k.rank}

Place(keys, k) == Cardinality(Below(keys, k))

\* The place of a key tells its rank.
LEMMA PlaceOrder ==
  ASSUME NEW keys, AreKeys(keys)
  PROVE  /\ Cardinality(keys) \in Nat
         /\ \A k \in keys : Place(keys, k) \in 1..Cardinality(keys)
         /\ \A j, k \in keys : Place(keys, j) <= Place(keys, k) <=> j.rank <= k.rank
<1>1. Cardinality(keys) \in Nat
  BY FS_CardinalityType DEF AreKeys
<1>2. ASSUME NEW k \in keys
      PROVE  /\ IsFiniteSet(Below(keys, k)) /\ Place(keys, k) \in Nat
             /\ Place(keys, k) \in 1..Cardinality(keys)
  <2>1. Below(keys, k) \in SUBSET keys /\ k \in Below(keys, k)
    BY DEF Below, AreKeys
  <2>2. /\ IsFiniteSet(Below(keys, k))
        /\ Cardinality(Below(keys, k)) <= Cardinality(keys)
    BY <2>1, FS_Subset DEF AreKeys
  <2>3. Cardinality(Below(keys, k)) \in Nat /\ Cardinality(Below(keys, k)) # 0
    BY <2>1, <2>2, FS_CardinalityType, FS_EmptySet
  <2> QED
    BY <1>1, <2>2, <2>3 DEF Place
<1>3. ASSUME NEW j \in keys, NEW k \in keys, j.rank < k.rank
      PROVE  Place(keys, j) < Place(keys, k)
  <2>1. Below(keys, j) \in SUBSET Below(keys, k)
    BY <1>3 DEF Below, AreKeys
  <2>2. k \in Below(keys, k) \ Below(keys, j)
    BY <1>3 DEF Below, AreKeys
  <2>3. /\ Cardinality(Below(keys, j)) <= Cardinality(Below(keys, k))
        /\ Cardinality(Below(keys, k)) = Cardinality(Below(keys, j)) => Below(keys, k) = Below(keys, j)
    BY <1>2, <2>1, FS_Subset
  <2> QED
    BY <1>2, <2>2, <2>3 DEF Place
<1>4. ASSUME NEW j \in keys, NEW k \in keys
      PROVE  Place(keys, j) <= Place(keys, k) <=> j.rank <= k.rank
  <2>1. j.rank \in Int /\ k.rank \in Int /\ (j.rank = k.rank => j = k)
    BY DEF AreKeys
  <2>2. Place(keys, j) \in Nat /\ Place(keys, k) \in Nat
    BY <1>2
  <2> QED
    BY <1>3, <2>1, <2>2
<1> QED
  BY <1>1, <1>2, <1>4

\* Sorted keys stand at their places, all of them.
LEMMA SortedPlaces ==
  ASSUME NEW keys, AreKeys(keys)
  PROVE  /\ Cardinality(keys) \in Nat
         /\ DOMAIN Sorted(keys) = 1..Cardinality(keys)
         /\ Sorted(keys) \in Seq(keys) /\ Len(Sorted(keys)) = Cardinality(keys)
         /\ \A i \in 1..Cardinality(keys) :
              Sorted(keys)[i] \in keys /\ Place(keys, Sorted(keys)[i]) = i
         /\ \A k \in keys : Sorted(keys)[Place(keys, k)] = k
<1> DEFINE n == Cardinality(keys)
           f == [k \in keys |-> Place(keys, k)]
<1>1. n \in Nat /\ IsFiniteSet(1..n) /\ Cardinality(1..n) = n
  BY PlaceOrder, FS_Interval
<1>2. \A k \in keys : Place(keys, k) \in 1..n
  BY PlaceOrder
<1>3. ASSUME NEW j \in keys, NEW k \in keys, Place(keys, j) = Place(keys, k)
      PROVE  j = k
  <2>1. j.rank <= k.rank /\ k.rank <= j.rank
    BY <1>1, <1>2, <1>3, PlaceOrder
  <2> QED
    BY <2>1 DEF AreKeys
<1>4. f \in Injection(keys, 1..n)
  BY <1>2, <1>3 DEF Injection, IsInjective
<1>5. f \in Surjection(keys, 1..n)
  BY <1>1, <1>4, FS_Injection DEF AreKeys
<1>6. \A i \in 1..n : \E k \in keys : Place(keys, k) = i
  BY <1>5 DEF Surjection
<1>7. \A i \in 1..n : Sorted(keys)[i] = CHOOSE k \in keys : Place(keys, k) = i
  BY DEF Sorted, Place, Below
<1>8. \A i \in 1..n : Sorted(keys)[i] \in keys /\ Place(keys, Sorted(keys)[i]) = i
  BY <1>6, <1>7, Zenon
<1>9. \A k \in keys : Sorted(keys)[Place(keys, k)] = k
  BY <1>2, <1>3, <1>8
<1>10. DOMAIN Sorted(keys) = 1..n /\ Sorted(keys) = [i \in 1..n |-> Sorted(keys)[i]]
  <2> DEFINE Key(i) == CHOOSE k \in keys : Cardinality({l \in keys : l.rank <= k.rank}) = i
             g == [i \in 1..n |-> Key(i)]
  <2>1. Sorted(keys) = g
    BY DEF Sorted
  <2> HIDE DEF Key
  <2>2. DOMAIN g = 1..n /\ g = [i \in 1..n |-> g[i]]
    OBVIOUS
  <2> QED
    BY <2>1, <2>2
<1>11. Sorted(keys) \in Seq(keys) /\ Len(Sorted(keys)) = n
  <2> DEFINE s == Sorted(keys)
             m == Cardinality(keys)
  <2>1. /\ m \in Nat /\ s = [i \in 1..m |-> s[i]]
        /\ \A i \in 1..m : s[i] \in keys
    BY <1>1, <1>8, <1>10
  <2> HIDE DEF s, m
  <2>2. s \in [1..m -> keys]
    BY <2>1
  <2>3. s \in Seq(keys)
    BY <2>1, <2>2
  <2>4. Len(s) = m
    BY <2>1, <2>2, <2>3
  <2> QED
    BY <2>3, <2>4 DEF s, m
<1> QED
  BY <1>1, <1>8, <1>9, <1>10, <1>11

\* As many places hold keys of a part as there are in it.
LEMMA PlacesOfPart ==
  ASSUME NEW keys, AreKeys(keys), NEW P \in SUBSET keys
  PROVE  Cardinality({i \in 1..Cardinality(keys) : Sorted(keys)[i] \in P}) = Cardinality(P)
<1> DEFINE places == {i \in 1..Cardinality(keys) : Sorted(keys)[i] \in P}
           f == [k \in P |-> Place(keys, k)]
<1>1. \A k \in P : Place(keys, k) \in places
  BY PlaceOrder, SortedPlaces
<1>2. \A j, k \in P : Place(keys, j) = Place(keys, k) => j = k
  BY SortedPlaces
<1>3. \A i \in places : Sorted(keys)[i] \in P /\ Place(keys, Sorted(keys)[i]) = i
  BY SortedPlaces
<1>4. IsFiniteSet(places)
  <2>1. Cardinality(keys) \in Int /\ 1 \in Int
    BY SortedPlaces
  <2>2. IsFiniteSet(1..Cardinality(keys))
    BY <2>1, FS_Interval
  <2> QED
    BY <2>2, FS_Subset
<1> HIDE DEF places
<1>5. f \in Injection(P, places)
  BY <1>1, <1>2 DEF Injection, IsInjective
<1>6. f \in Surjection(P, places)
  BY <1>1, <1>3 DEF Surjection
<1>7. Cardinality(P) = Cardinality(places)
  BY <1>4, <1>5, <1>6, FS_Injection
<1> QED
  BY <1>7 DEF places

\* The keys a pricing or SKU snapshot has rows of.
Chosen(object, productID) == {k \in DOMAIN object : k.id # Nil /\ productID \in {Nil, k.id}}

LEMMA ChosenAreKeys ==
  ASSUME NEW object, IsObject(object), NEW productID
  PROVE  /\ AreKeys(Chosen(object, productID))
         /\ KeysOf(object, productID) = Sorted(Chosen(object, productID))
<1>1. Chosen(object, productID) \in SUBSET DOMAIN object
  BY DEF Chosen
<1>2. IsFiniteSet(Chosen(object, productID))
  BY <1>1, FS_Subset DEF IsObject
<1>3. AreKeys(Chosen(object, productID))
  BY <1>1, <1>2 DEF AreKeys, IsObject
<1> QED
  BY <1>3 DEF KeysOf, Chosen

\* Row by row, the answer is about the keys in their order.
RowsAreOf(rows, object, productID, products) ==
  LET keys == Chosen(object, productID)
  IN  /\ DOMAIN rows = 1..Cardinality(keys)
      /\ \A i \in DOMAIN rows :
           /\ rows[i].row.ProductID = Sorted(keys)[i].id
           /\ rows[i].Product = productSummaryIndex(products, Sorted(keys)[i].id)

LEMMA PricingRows ==
  ASSUME NEW prices, NEW products, NEW productID, IsObject(prices.prices)
  PROVE  LET rows == pricingOutput(prices, products, productID).rows
         IN  /\ RowsAreOf(rows, prices.prices, productID, SetProducts(products))
             /\ Len(rows) = Cardinality(Chosen(prices.prices, productID))
             /\ \A i \in DOMAIN rows :
                  LET key == Sorted(Chosen(prices.prices, productID))[i]
                  IN  rows[i] = [row |-> [ProductID |-> key.id, Subtypes |-> prices.prices[key]],
                                 Product |-> productSummaryIndex(SetProducts(products), key.id)]
<1> DEFINE keys == Sorted(Chosen(prices.prices, productID))
           results == [i \in DOMAIN keys |->
                         [ProductID |-> keys[i].id, Subtypes |-> prices.prices[keys[i]]]]
           rows == [i \in DOMAIN results |->
                      [row |-> results[i],
                       Product |-> productSummaryIndex(SetProducts(products), results[i].ProductID)]]
<1>1. KeysOf(prices.prices, productID) = keys
  BY ChosenAreKeys
<1>2. pricingOutput(prices, products, productID).rows = rows
  BY <1>1 DEF pricingOutput, SetPricing, join
<1>3. /\ DOMAIN keys = 1..Cardinality(Chosen(prices.prices, productID))
      /\ Cardinality(Chosen(prices.prices, productID)) \in Nat
  BY ChosenAreKeys, SortedPlaces
<1> HIDE DEF keys
<1>4. DOMAIN rows = DOMAIN keys
  OBVIOUS
<1>5. \A i \in DOMAIN rows :
        rows[i] = [row |-> [ProductID |-> keys[i].id, Subtypes |-> prices.prices[keys[i]]],
                   Product |-> productSummaryIndex(SetProducts(products), keys[i].id)]
  OBVIOUS
<1> HIDE DEF rows
<1>6. Len(rows) = Cardinality(Chosen(prices.prices, productID))
  BY <1>3, <1>4
<1> QED
  BY <1>2, <1>3, <1>4, <1>5, <1>6 DEF RowsAreOf, keys

LEMMA SKURows ==
  ASSUME NEW skus, NEW products, NEW productID, IsObject(skus.products)
  PROVE  RowsAreOf(skuOutput(skus, products, productID).rows, skus.products, productID,
                   SetProducts(products))
<1> DEFINE keys == Sorted(Chosen(skus.products, productID))
           result == SetSKUs(skus, productID)
           rows == skuOutput(skus, products, productID).rows
<1>1. KeysOf(skus.products, productID) = keys
  BY ChosenAreKeys
<1>2. /\ DOMAIN result.Products = DOMAIN keys
      /\ \A i \in DOMAIN keys : result.Products[i].ProductID = keys[i].id
  BY <1>1 DEF SetSKUs
<1>3. rows = join(result.Products, SetProducts(products))
  BY DEF skuOutput
<1> HIDE DEF keys, result, rows
<1>4. /\ DOMAIN rows = DOMAIN keys
      /\ \A i \in DOMAIN rows :
           /\ rows[i].row.ProductID = keys[i].id
           /\ rows[i].Product = productSummaryIndex(SetProducts(products), keys[i].id)
  BY <1>2, <1>3 DEF join
<1>5. DOMAIN keys = 1..Cardinality(Chosen(skus.products, productID))
  BY ChosenAreKeys, SortedPlaces DEF keys
<1> QED
  BY <1>4, <1>5 DEF RowsAreOf, keys, rows

\* A product's summary is its own, and there is one as long as the list has it.
LEMMA SummaryOf ==
  ASSUME NEW doc, doc.products \in Seq(ProductType), NEW id
  PROVE  LET summary == productSummaryIndex(SetProducts(doc), id)
             listed  == {doc.products[i].id : i \in DOMAIN doc.products}
         IN  /\ (summary = Nil) = (id \notin listed)
             /\ id \in listed => summary.ID = id
<1> DEFINE products == SetProducts(doc)
           places == {i \in DOMAIN products : products[i].ID = id}
           last == products[Max(places)]
           summary == [ID |-> last.ID, Name |-> last.Name, Number |-> last.Number,
                       Rarity |-> last.Rarity]
<1>1. /\ DOMAIN products = 1..Len(doc.products) /\ Len(doc.products) \in Nat
      /\ \A i \in DOMAIN products :
           /\ products[i].ID = doc.products[i].id
           /\ products[i].ID \in Int /\ products[i].Name \in Int
           /\ products[i].Number \in Strings /\ products[i].Rarity \in Strings
  <2>1. DOMAIN products = DOMAIN doc.products
    BY DEF SetProducts
  <2>2. ASSUME NEW i \in DOMAIN doc.products
        PROVE  /\ products[i].ID = doc.products[i].id
               /\ products[i].ID \in Int /\ products[i].Name \in Int
               /\ products[i].Number \in Strings /\ products[i].Rarity \in Strings
    <3>1. doc.products[i] \in ProductType
      OBVIOUS
    <3>2. \A v \in Strings \cup {Nil} : stringValue(v) \in Strings
      BY DEF stringValue, Strings
    <3>3. /\ doc.products[i].id \in Int /\ doc.products[i].name \in Int
          /\ doc.products[i].number \in Strings \cup {Nil}
          /\ doc.products[i].rarity \in Strings \cup {Nil}
      BY <3>1 DEF ProductType
    <3>4. /\ products[i].ID = doc.products[i].id /\ products[i].Name = doc.products[i].name
          /\ products[i].Number = stringValue(doc.products[i].number)
          /\ products[i].Rarity = stringValue(doc.products[i].rarity)
      BY DEF SetProducts
    <3> QED
      BY <3>2, <3>3, <3>4
  <2> QED
    BY <2>1, <2>2
<1>2. productSummaryIndex(products, id) = IF places = {} THEN Nil ELSE summary
  BY Zenon DEF productSummaryIndex
<1>3. (places = {}) = (id \notin {doc.products[i].id : i \in DOMAIN doc.products})
  BY <1>1
<1>4. ASSUME places # {}
      PROVE  summary # Nil /\ summary.ID = id
  <2>1. Max(places) \in places
    <3> HIDE DEF products
    <3> QED
      BY <1>1, <1>4, LastPlace
  <2>2. /\ last.ID = id /\ last.ID \in Int /\ last.Name \in Int
        /\ last.Number \in Strings /\ last.Rarity \in Strings
    BY <1>1, <2>1
  <2> HIDE DEF last
  <2>3. summary \in SummaryType /\ summary.ID = id
    BY <2>2 DEF SummaryType
  <2> QED
    BY <2>3, RequestsAssumption
<1> QED
  BY <1>2, <1>3, <1>4, Zenon

KeepsRows(rows, object, productID, doc) ==
  LET listed == {doc.products[i].id : i \in DOMAIN doc.products}
      Rows(id) == {i \in DOMAIN rows : rows[i].row.ProductID = id}
  IN  /\ \A id \in {k.id : k \in DOMAIN object} \ {Nil} :
           Cardinality(Rows(id)) =
             IF productID \in {Nil, id} THEN Cardinality(Spellings(object, id)) ELSE 0
      /\ \A i \in DOMAIN rows :
           LET id == rows[i].row.ProductID
           IN  /\ Spellings(object, id) # {}
               /\ (rows[i].Product = Nil) = (id \notin listed)
               /\ id \in listed => rows[i].Product.ID = id

LEMMA RowsOfKeys ==
  ASSUME NEW rows, NEW object, IsObject(object), NEW productID, NEW doc,
         doc.products \in Seq(ProductType),
         RowsAreOf(rows, object, productID, SetProducts(doc))
  PROVE  KeepsRows(rows, object, productID, doc)
<1> DEFINE keys == Chosen(object, productID)
           sorted == Sorted(keys)
           Rows(id) == {i \in DOMAIN rows : rows[i].row.ProductID = id}
<1>1. AreKeys(keys)
  BY ChosenAreKeys
<1>2. \A i \in 1..Cardinality(keys) : sorted[i] \in keys
  BY <1>1, SortedPlaces
<1>3. ASSUME NEW id \in {k.id : k \in DOMAIN object} \ {Nil}
      PROVE  Cardinality(Rows(id)) =
               IF productID \in {Nil, id} THEN Cardinality(Spellings(object, id)) ELSE 0
  <2> DEFINE part == {k \in keys : k.id = id}
  <2>1. Rows(id) = {i \in 1..Cardinality(keys) : sorted[i] \in part}
    BY <1>2 DEF RowsAreOf
  <2>2. Cardinality(Rows(id)) = Cardinality(part)
    <3>1. part \in SUBSET keys
      OBVIOUS
    <3> HIDE DEF part, keys
    <3> QED
      BY <1>1, <2>1, <3>1, PlacesOfPart
  <2>3. part = IF productID \in {Nil, id} THEN Spellings(object, id) ELSE {}
    BY DEF Chosen, Spellings
  <2> QED
    BY <2>2, <2>3, FS_EmptySet
<1>4. ASSUME NEW i \in DOMAIN rows
      PROVE  /\ rows[i].row.ProductID = sorted[i].id
             /\ rows[i].Product = productSummaryIndex(SetProducts(doc), sorted[i].id)
             /\ sorted[i] \in Spellings(object, sorted[i].id)
  BY <1>2 DEF RowsAreOf, Spellings, Chosen
<1> DEFINE listed == {doc.products[i].id : i \in DOMAIN doc.products}
<1>5. ASSUME NEW i \in DOMAIN rows
      PROVE  LET id == rows[i].row.ProductID
             IN  /\ Spellings(object, id) # {}
                 /\ (rows[i].Product = Nil) = (id \notin listed)
                 /\ id \in listed => rows[i].Product.ID = id
  <2> DEFINE id == rows[i].row.ProductID
  <2>1. /\ rows[i].Product = productSummaryIndex(SetProducts(doc), id)
        /\ Spellings(object, id) # {}
    BY <1>4
  <2> HIDE DEF id
  <2>2. LET summary == productSummaryIndex(SetProducts(doc), id)
        IN  /\ (summary = Nil) = (id \notin listed)
            /\ id \in listed => summary.ID = id
    BY SummaryOf
  <2> QED
    BY <2>1, <2>2, Zenon DEF id
<1> QED
  BY <1>3, <1>5, Zenon DEF KeepsRows

\* Of the rows of a pricing or SKU snapshot none is lost, repeated or given to another
\* product, whatever keys the upstream object has and however the products are listed.
THEOREM RowsAreKept == Spec => []JoinKeepsRows
<1>1. Computed => JoinKeepsRows
  <2> SUFFICES ASSUME Computed PROVE JoinKeepsRows
    OBVIOUS
  <2>1. ASSUME Answered("pricing")
        PROVE  JoinKeepsRows
    <3>1. /\ request.op = "pricing" /\ request.op # "skus"
          /\ answer = pricingOutput(request.prices, request.products, request.productID)
      BY <2>1 DEF Answered, Computed
    <3>2. IsObject(request.prices.prices) /\ request.products.products \in Seq(ProductType)
      BY <3>1, RequestsAssumption DEF Computed
    <3>3. RowsAreOf(answer.rows, request.prices.prices, request.productID,
                    SetProducts(request.products))
      BY <3>1, <3>2, PricingRows
    <3>4. KeepsRows(answer.rows, request.prices.prices, request.productID, request.products)
      BY <3>2, <3>3, RowsOfKeys
    <3>5. (IF request.op = "pricing" THEN request.prices.prices ELSE request.skus.products)
            = request.prices.prices
      BY <3>1
    <3> QED
      BY <3>4, <3>5, Zenon DEF JoinKeepsRows, KeepsRows
  <2>2. ASSUME Answered("skus")
        PROVE  JoinKeepsRows
    <3>1. /\ request.op = "skus" /\ request.op # "pricing"
          /\ answer = skuOutput(request.skus, request.products, request.productID)
      BY <2>2 DEF Answered, Computed
    <3>2. IsObject(request.skus.products) /\ request.products.products \in Seq(ProductType)
      BY <3>1, RequestsAssumption DEF Computed
    <3>3. RowsAreOf(answer.rows, request.skus.products, request.productID,
                    SetProducts(request.products))
      BY <3>1, <3>2, SKURows
    <3>4. KeepsRows(answer.rows, request.skus.products, request.productID, request.products)
      BY <3>2, <3>3, RowsOfKeys
    <3>5. (IF request.op = "pricing" THEN request.prices.prices ELSE request.skus.products)
            = request.skus.products
      BY <3>1
    <3> QED
      BY <3>4, <3>5, Zenon DEF JoinKeepsRows, KeepsRows
  <2> QED
    BY <2>1, <2>2 DEF JoinKeepsRows
<1> QED
  BY <1>1, AnswerIsComputed, PTL

\* The answer narrowed to one product is that product's part of the whole one, row by
\* row and in the same order.
THEOREM NarrowedIsPart == Spec => []NarrowingAgrees
<1>1. Computed => NarrowingAgrees
  <2> SUFFICES ASSUME Computed, Answered("pricing") PROVE NarrowingAgrees
    BY DEF NarrowingAgrees
  <2> DEFINE object == request.prices.prices
             all == Chosen(object, Nil)
             part == Chosen(object, request.productID)
             whole == pricingOutput(request.prices, request.products, Nil).rows
             about == {i \in DOMAIN whole : request.productID \in {Nil, whole[i].row.ProductID}}
             summary(k) == productSummaryIndex(SetProducts(request.products), k.id)
             Row(k) == [row |-> [ProductID |-> k.id, Subtypes |-> object[k]],
                        Product |-> summary(k)]
  <2>1. /\ request.op = "pricing"
        /\ answer = pricingOutput(request.prices, request.products, request.productID)
    BY DEF Answered, Computed
  <2>2. IsObject(object)
    BY <2>1, RequestsAssumption DEF Computed
  <2>3. /\ DOMAIN answer.rows = 1..Cardinality(part)
        /\ Len(answer.rows) = Cardinality(part)
        /\ \A i \in DOMAIN answer.rows : answer.rows[i] = Row(Sorted(part)[i])
    BY <2>1, <2>2, PricingRows DEF RowsAreOf
  <2>4. /\ DOMAIN whole = 1..Cardinality(all)
        /\ \A i \in DOMAIN whole :
             /\ whole[i].row.ProductID = Sorted(all)[i].id
             /\ whole[i] = Row(Sorted(all)[i])
    <3>1. RowsAreOf(whole, object, Nil, SetProducts(request.products))
      BY <2>2, PricingRows
    <3>2. \A i \in DOMAIN whole : whole[i] = Row(Sorted(all)[i])
      BY <2>2, PricingRows
    <3> HIDE DEF whole, Row
    <3> QED
      BY <3>1, <3>2 DEF RowsAreOf
  <2>5. AreKeys(all) /\ AreKeys(part)
    BY <2>2, ChosenAreKeys
  <2>6. /\ part \in SUBSET all
        /\ \A k \in all : k \in part <=> request.productID \in {Nil, k.id}
    BY DEF Chosen
  <2> HIDE DEF all, part, whole, Row
  <2>7. \A i \in 1..Cardinality(all) : Sorted(all)[i] \in all /\ Place(all, Sorted(all)[i]) = i
    BY <2>5, SortedPlaces
  <2>8. about = {i \in 1..Cardinality(all) : Sorted(all)[i] \in part}
    BY <2>4, <2>6, <2>7
  <2>9. Len(answer.rows) = Cardinality(about)
    BY <2>3, <2>5, <2>6, <2>8, PlacesOfPart
  <2>10. ASSUME NEW i \in about
         PROVE  answer.rows[Cardinality({j \in about : j <= i})] = whole[i]
    <3> DEFINE k == Sorted(all)[i]
               below == Below(part, k)
               places == {j \in 1..Cardinality(all) : Sorted(all)[j] \in below}
    <3>1. k \in part /\ i \in 1..Cardinality(all) /\ k \in all /\ Place(all, k) = i
      BY <2>7, <2>8
    <3>2. \A j \in 1..Cardinality(all) : j <= i <=> Sorted(all)[j].rank <= k.rank
      <4>1. ASSUME NEW j \in 1..Cardinality(all)
            PROVE  j <= i <=> Sorted(all)[j].rank <= k.rank
        <5>1. Sorted(all)[j] \in all /\ Place(all, Sorted(all)[j]) = j
          BY <2>7
        <5> HIDE DEF k
        <5> QED
          BY <2>5, <3>1, <5>1, PlaceOrder
      <4> QED
        BY <4>1
    <3> HIDE DEF k
    <3>3. {j \in about : j <= i} = places
      BY <2>8, <3>2 DEF Below
    <3>4. below \in SUBSET all
      BY <2>6 DEF Below
    <3>5. Cardinality(places) = Place(part, k)
      <4> HIDE DEF below
      <4>1. Cardinality(places) = Cardinality(below)
        BY <2>5, <3>4, PlacesOfPart
      <4> QED
        BY <4>1 DEF below, Place
    <3>6. /\ Place(part, k) \in 1..Cardinality(part)
          /\ Sorted(part)[Place(part, k)] = k
      BY <2>5, <3>1, PlaceOrder, SortedPlaces
    <3>7. answer.rows[Place(part, k)] = Row(k)
      BY <2>3, <3>6
    <3>8. whole[i] = Row(k)
      BY <2>4, <3>1 DEF k
    <3> QED
      BY <3>3, <3>5, <3>7, <3>8
  <2> QED
    BY <2>9, <2>10 DEF NarrowingAgrees, whole
<1> QED
  BY <1>1, AnswerIsComputed, PTL

-----------------------------------------------------------------------------
(* Years. *)

YearsOf(sets) == {sets[i].PublishedYear : i \in DOMAIN sets}

\* Before the loop, and one turn of it.
NoSets(sets, options) ==
  [counts |-> [y \in YearsOf(sets) |-> 0], total |-> 0, maxYear |-> YearFrom(options)]

Turn(tally, set, options) == IF Counted(set, options) THEN Tally(tally, set) ELSE tally

\* f is what the loop has counted after each of its first n turns.
CountsUpTo(f, n, sets, options) ==
  f = [m \in 0..n |-> IF m = 0 THEN NoSets(sets, options)
                      ELSE Turn(f[m - 1], sets[m], options)]

\* The loop ends, after as many turns as there are sets.
LEMMA LoopRuns ==
  ASSUME NEW sets, NEW options, NEW n \in Nat
  PROVE  \E f : CountsUpTo(f, n, sets, options)
<1> DEFINE Fails == {m \in Nat : ~\E f : CountsUpTo(f, m, sets, options)}
           base == NoSets(sets, options)
           Step(tally, m) == Turn(tally, sets[m], options)
<1> SUFFICES ASSUME Fails # {} PROVE FALSE
  OBVIOUS
<1>1. PICK m \in Fails : \A k \in Fails : m <= k
  BY Least
<1>2. \A f, k : CountsUpTo(f, k, sets, options) <=>
        f = [i \in 0..k |-> IF i = 0 THEN base ELSE Step(f[i - 1], i)]
  BY Zenon DEF CountsUpTo
<1> HIDE DEF base, Step
<1>3. CASE m = 0
  <2> DEFINE f == [i \in 0..0 |-> base]
  <2>1. f = [i \in 0..0 |-> IF i = 0 THEN base ELSE Step(f[i - 1], i)]
    OBVIOUS
  <2>2. CountsUpTo(f, 0, sets, options)
    BY <1>2, <2>1, Zenon
  <2> QED
    BY <1>3, <2>2
<1>4. CASE m # 0
  <2>1. m - 1 \in Nat /\ m - 1 \notin Fails
    BY <1>1, <1>4
  <2>2. PICK g : CountsUpTo(g, m - 1, sets, options)
    BY <2>1
  <2>3. g = [i \in 0..(m - 1) |-> IF i = 0 THEN base ELSE Step(g[i - 1], i)]
    BY <1>2, <2>2
  <2> DEFINE f == [i \in 0..m |-> IF i = m THEN Step(g[m - 1], m) ELSE g[i]]
  <2>4. \A i \in 0..m : f[i] = IF i = 0 THEN base ELSE Step(f[i - 1], i)
    BY <1>4, <2>1, <2>3
  <2>5. DOMAIN f = 0..m
    OBVIOUS
  <2>6. f = [i \in 0..m |-> f[i]]
    OBVIOUS
  <2> HIDE DEF f
  <2>7. f = [i \in 0..m |-> IF i = 0 THEN base ELSE Step(f[i - 1], i)]
    BY <2>4, <2>6
  <2>8. CountsUpTo(f, m, sets, options)
    BY <1>2, <2>7
  <2> QED
    BY <2>8
<1> QED
  BY <1>3, <1>4

LEMMA LoopTurns ==
  ASSUME NEW sets, Len(sets) \in Nat, NEW options
  PROVE  LET f == Tallies(sets, options)
         IN  /\ f[0] = NoSets(sets, options)
             /\ \A m \in 1..Len(sets) : f[m] = Turn(f[m - 1], sets[m], options)
<1> DEFINE f == Tallies(sets, options)
           base == NoSets(sets, options)
           Step(tally, m) == Turn(tally, sets[m], options)
<1>1. f = CHOOSE g : CountsUpTo(g, Len(sets), sets, options)
  BY Zenon DEF Tallies, CountsUpTo, NoSets, Turn, YearsOf
<1> HIDE DEF f
<1>2. CountsUpTo(f, Len(sets), sets, options)
  BY <1>1, LoopRuns, Zenon
<1>3. f = [m \in 0..Len(sets) |-> IF m = 0 THEN base ELSE Step(f[m - 1], m)]
  BY <1>2, Zenon DEF CountsUpTo
<1> HIDE DEF base, Step
<1>4. f[0] = base /\ \A m \in 1..Len(sets) : f[m] = Step(f[m - 1], m)
  BY <1>3
<1> QED
  BY <1>4 DEF f, base, Step

\* The sets that count, of the first n.
CountedSets(sets, options, n) == {i \in 1..n : Counted(sets[i], options)}

OfYear(places, sets, year) == {i \in places : sets[i].PublishedYear = year}

\* What the loop has counted after n turns: of each year the sets that count, their
\* total, and a year no earlier than any of theirs.
HasCounted(tally, n, sets, options) ==
  LET places == CountedSets(sets, options, n)
  IN  /\ tally.counts \in [YearsOf(sets) -> Nat]
      /\ \A y \in YearsOf(sets) : tally.counts[y] = Cardinality(OfYear(places, sets, y))
      /\ tally.total = Cardinality(places)
      /\ tally.maxYear \in Int /\ tally.maxYear >= YearFrom(options)
      /\ \A i \in places : sets[i].PublishedYear <= tally.maxYear

LEMMA TurnCounts ==
  ASSUME NEW sets, Len(sets) \in Nat, DOMAIN sets = 1..Len(sets),
         \A i \in DOMAIN sets : sets[i].PublishedYear \in Int,
         NEW options, YearFrom(options) \in Int,
         NEW n \in 1..Len(sets), NEW tally, HasCounted(tally, n - 1, sets, options)
  PROVE  HasCounted(Turn(tally, sets[n], options), n, sets, options)
<1> DEFINE before == CountedSets(sets, options, n - 1)
           after == CountedSets(sets, options, n)
           year == sets[n].PublishedYear
<1>1. IsFiniteSet(before) /\ n \notin before
  <2>1. IsFiniteSet(1..(n - 1))
    BY FS_Interval
  <2>2. before \in SUBSET (1..(n - 1))
    BY DEF CountedSets
  <2> QED
    BY <2>1, <2>2, FS_Subset
<1>2. after = IF Counted(sets[n], options) THEN before \cup {n} ELSE before
  BY DEF CountedSets
<1>3. CASE ~Counted(sets[n], options)
  BY <1>2, <1>3 DEF HasCounted, Turn
<1>4. CASE Counted(sets[n], options)
  <2> DEFINE next == Tally(tally, sets[n])
  <2>1. Turn(tally, sets[n], options) = next /\ after = before \cup {n}
    BY <1>2, <1>4 DEF Turn
  <2>2. year \in YearsOf(sets) /\ year \in Int
    BY DEF YearsOf
  <2>3. /\ next.counts = [tally.counts EXCEPT ![year] = @ + 1]
        /\ next.total = tally.total + 1
        /\ next.maxYear = IF year > tally.maxYear THEN year ELSE tally.maxYear
    BY DEF Tally
  <2>4. Cardinality(after) = Cardinality(before) + 1
    BY <1>1, <2>1, FS_AddElement
  <2>5. ASSUME NEW y \in YearsOf(sets)
        PROVE  Cardinality(OfYear(after, sets, y)) =
                 Cardinality(OfYear(before, sets, y)) + IF y = year THEN 1 ELSE 0
    <3>1. IsFiniteSet(OfYear(before, sets, y)) /\ n \notin OfYear(before, sets, y)
      BY <1>1, FS_Subset DEF OfYear
    <3>2. OfYear(after, sets, y) =
            IF y = year THEN OfYear(before, sets, y) \cup {n} ELSE OfYear(before, sets, y)
      BY <2>1 DEF OfYear
    <3>3. Cardinality(OfYear(before, sets, y)) \in Nat
      BY <3>1, FS_CardinalityType
    <3>4. Cardinality(OfYear(before, sets, y) \cup {n})
            = Cardinality(OfYear(before, sets, y)) + 1
      BY <3>1, FS_AddElement
    <3>5. CASE y = year
      BY <3>2, <3>4, <3>5
    <3>6. CASE y # year
      BY <3>2, <3>3, <3>6
    <3> QED
      BY <3>5, <3>6
  <2> HIDE DEF next, before, after, year
  <2>6. /\ next.counts \in [YearsOf(sets) -> Nat]
        /\ \A y \in YearsOf(sets) : next.counts[y] = Cardinality(OfYear(after, sets, y))
    <3>1. /\ tally.counts \in [YearsOf(sets) -> Nat]
          /\ \A y \in YearsOf(sets) : tally.counts[y] = Cardinality(OfYear(before, sets, y))
      BY DEF HasCounted, before
    <3> QED
      BY <2>2, <2>3, <2>5, <3>1
  <2>7. next.total = Cardinality(after)
    BY <2>3, <2>4 DEF HasCounted, before
  <2>8. /\ next.maxYear \in Int /\ next.maxYear >= YearFrom(options)
        /\ \A i \in after : sets[i].PublishedYear <= next.maxYear
    <3>1. /\ tally.maxYear \in Int /\ tally.maxYear >= YearFrom(options)
          /\ \A i \in before : sets[i].PublishedYear <= tally.maxYear
      BY DEF HasCounted, before
    <3>2. \A i \in before : sets[i].PublishedYear \in Int
      BY DEF before, CountedSets
    <3>3. ASSUME NEW i \in after PROVE sets[i].PublishedYear <= next.maxYear
      <4>1. CASE i = n
        BY <2>2, <2>3, <3>1, <4>1 DEF year
      <4>2. CASE i \in before
        BY <2>2, <2>3, <3>1, <3>2, <4>2
      <4> QED
        BY <2>1, <4>1, <4>2
    <3> QED
      BY <2>2, <2>3, <3>1, <3>3
  <2> QED
    BY <2>1, <2>6, <2>7, <2>8 DEF HasCounted, after
<1> QED
  BY <1>3, <1>4

\* The loop's invariant.
LEMMA LoopCounts ==
  ASSUME NEW sets, Len(sets) \in Nat, DOMAIN sets = 1..Len(sets),
         \A i \in DOMAIN sets : sets[i].PublishedYear \in Int,
         NEW options, YearFrom(options) \in Int
  PROVE  \A n \in 0..Len(sets) : HasCounted(Tallies(sets, options)[n], n, sets, options)
<1> DEFINE f == Tallies(sets, options)
           Fails == {n \in Nat : n <= Len(sets) /\ ~HasCounted(f[n], n, sets, options)}
<1> SUFFICES ASSUME Fails # {} PROVE FALSE
  OBVIOUS
<1>1. PICK m \in Fails : \A k \in Fails : m <= k
  BY Least
<1>2. m \in Nat /\ m <= Len(sets) /\ ~HasCounted(f[m], m, sets, options)
  BY <1>1
<1>3. CASE m = 0
  <2>1. f[0] = NoSets(sets, options)
    BY LoopTurns
  <2>2. CountedSets(sets, options, 0) = {}
    BY DEF CountedSets
  <2>3. \A y : OfYear({}, sets, y) = {}
    BY DEF OfYear
  <2>4. HasCounted(NoSets(sets, options), 0, sets, options)
    <3> DEFINE none == NoSets(sets, options)
    <3>1. /\ none.counts = [y \in YearsOf(sets) |-> 0]
          /\ none.total = 0 /\ none.maxYear = YearFrom(options)
      BY DEF NoSets
    <3>2. Cardinality({}) = 0
      BY FS_EmptySet
    <3> HIDE DEF none
    <3>3. none.counts \in [YearsOf(sets) -> Nat] /\ \A y \in YearsOf(sets) : none.counts[y] = 0
      BY <3>1
    <3> DEFINE places == CountedSets(sets, options, 0)
    <3>4. \A y \in YearsOf(sets) : none.counts[y] = Cardinality(OfYear(places, sets, y))
      BY <2>2, <2>3, <3>2, <3>3
    <3>5. none.total = Cardinality(places)
      BY <2>2, <3>1, <3>2
    <3>6. /\ none.maxYear \in Int /\ none.maxYear >= YearFrom(options)
          /\ \A i \in places : sets[i].PublishedYear <= none.maxYear
      BY <2>2, <3>1
    <3> HIDE DEF places
    <3>7. HasCounted(none, 0, sets, options)
      BY <3>3, <3>4, <3>5, <3>6 DEF HasCounted, places
    <3> QED
      BY <3>7 DEF none
  <2> QED
    BY <1>2, <1>3, <2>1, <2>4
<1>4. CASE m # 0
  <2>1. m \in 1..Len(sets) /\ m - 1 \in Nat /\ m - 1 <= Len(sets) /\ m - 1 \notin Fails
    BY <1>1, <1>2, <1>4
  <2>2. HasCounted(f[m - 1], m - 1, sets, options)
    BY <2>1
  <2>3. f[m] = Turn(f[m - 1], sets[m], options)
    BY <2>1, LoopTurns
  <2> HIDE DEF f
  <2> QED
    BY <1>2, <2>1, <2>2, <2>3, TurnCounts
<1> QED
  BY <1>3, <1>4

\* What a release summary says of the sets: each of its years has as many as were
\* published in it, and they are all that count.
LEMMA SummaryCounts ==
  ASSUME NEW sets, Len(sets) \in Nat, DOMAIN sets = 1..Len(sets),
         \A i \in DOMAIN sets : sets[i].PublishedYear \in Int,
         NEW options \in ReleaseOptions,
         SummarizeReleaseCounts(sets, options) # Error
  PROVE  LET summary == SummarizeReleaseCounts(sets, options)
             places  == CountedSets(sets, options, Len(sets))
         IN  /\ summary.From = YearFrom(options) /\ summary.From \in Int /\ summary.To \in Int
             /\ options.yearTo # Nil => summary.To = options.yearTo
             /\ \A y \in summary.From..summary.To :
                  summary.CountsByYear[y] = Cardinality(OfYear(places, sets, y))
             /\ summary.From <= summary.To
             /\ summary.TotalSets = Cardinality(places)
             /\ \A i \in places : sets[i].PublishedYear \in summary.From..summary.To
<1> DEFINE from == YearFrom(options)
           tally == Tallies(sets, options)[Len(sets)]
           to == IF options.yearTo # Nil THEN options.yearTo ELSE tally.maxYear
           places == CountedSets(sets, options, Len(sets))
           Count(y) == IF y \in DOMAIN tally.counts THEN tally.counts[y] ELSE 0
           summary == [From |-> from, To |-> to, TotalSets |-> tally.total,
                       CountsByYear |-> [y \in from..to |-> Count(y)]]
<1>1. SummarizeReleaseCounts(sets, options) = summary
  BY Zenon DEF SummarizeReleaseCounts
<1>2. from \in Int /\ options.yearTo \in Int \cup {Nil}
  BY DEF YearFrom, ReleaseOptions
<1>3. HasCounted(tally, Len(sets), sets, options)
  BY <1>2, LoopCounts
<1> HIDE DEF tally
<1>4. /\ tally.counts \in [YearsOf(sets) -> Nat]
      /\ \A y \in YearsOf(sets) : tally.counts[y] = Cardinality(OfYear(places, sets, y))
      /\ tally.total = Cardinality(places)
      /\ tally.maxYear \in Int /\ tally.maxYear >= from
      /\ \A i \in places : sets[i].PublishedYear <= tally.maxYear
  BY <1>3 DEF HasCounted
<1>5. ASSUME NEW y
      PROVE  Count(y) = Cardinality(OfYear(places, sets, y))
  <2>1. CASE y \in YearsOf(sets)
    BY <1>4, <2>1
  <2>2. CASE y \notin YearsOf(sets)
    <3>1. OfYear(places, sets, y) = {}
      BY <2>2 DEF OfYear, CountedSets, YearsOf
    <3> QED
      BY <1>4, <2>2, <3>1, FS_EmptySet
  <2> QED
    BY <2>1, <2>2
<1>6. \A i \in places : sets[i].PublishedYear \in from..to
  <2>1. ASSUME NEW i \in places PROVE sets[i].PublishedYear \in from..to
    <3>1. Counted(sets[i], options) /\ sets[i].PublishedYear \in Int
      BY DEF CountedSets
    <3> QED
      BY <1>2, <1>4, <3>1 DEF Counted
  <2> QED
    BY <2>1
<1>7. to \in Int /\ from <= to
  <2>1. options.yearTo # Nil => ~(options.yearTo < from)
    BY Zenon DEF SummarizeReleaseCounts
  <2> QED
    BY <1>2, <1>4, <2>1
<1> HIDE DEF from, to, places, Count
<1>8. /\ summary.From = from /\ summary.To = to /\ summary.TotalSets = tally.total
      /\ \A y \in from..to : summary.CountsByYear[y] = Count(y)
  OBVIOUS
<1> HIDE DEF summary
<1> QED
  BY <1>1, <1>2, <1>4, <1>5, <1>6, <1>7, <1>8 DEF from, to, places

\* The counts of a release summary are those of the sets it is about, whatever the sets
\* and the years asked for.
THEOREM CountsAreRight == Spec => []CountsAddUp
<1>1. Computed => CountsAddUp
  <2> SUFFICES ASSUME Computed, Answered("releases") PROVE CountsAddUp
    BY DEF CountsAddUp
  <2> DEFINE docs == request.sets.sets
             sets == mapSets(request.sets)
             asked == request.options
             places == CountedSets(sets, asked, Len(sets))
             Published(y) == {i \in DOMAIN docs :
                                /\ docs[i].published_on = y
                                     \/ (docs[i].published_on = Nil /\ y = 1)
                                /\ docs[i].is_supplemental => asked.includeSupplemental}
             years == answer.From..answer.To
  <2>1. /\ request.op = "releases" /\ answer # Error
        /\ answer = SummarizeReleaseCounts(sets, asked)
    BY DEF Answered, Computed
  <2>2. docs \in Seq(SetType) /\ asked \in ReleaseOptions
    BY <2>1, RequestsAssumption DEF Computed
  <2>3. /\ Len(sets) \in Nat /\ DOMAIN sets = 1..Len(sets) /\ DOMAIN docs = DOMAIN sets
        /\ \A i \in DOMAIN sets :
             /\ sets[i].PublishedYear = formatDate(docs[i].published_on)
             /\ sets[i].IsSupplemental <=> docs[i].is_supplemental
    <3>1. sets = [i \in 1..Len(docs) |->
                    [ID |-> docs[i].id, CategoryID |-> request.sets.category_id,
                     IsSupplemental |-> docs[i].is_supplemental,
                     PublishedYear |-> formatDate(docs[i].published_on)]]
      BY <2>2 DEF mapSets
    <3>2. Len(docs) \in Nat /\ DOMAIN docs = 1..Len(docs)
      BY <2>2
    <3> HIDE DEF sets, docs
    <3>3. Len(sets) = Len(docs)
      BY <3>1, <3>2
    <3>4. DOMAIN sets = 1..Len(docs)
      BY <3>1, Zenon
    <3>5. ASSUME NEW i \in DOMAIN sets
          PROVE  /\ sets[i].PublishedYear = formatDate(docs[i].published_on)
                 /\ sets[i].IsSupplemental <=> docs[i].is_supplemental
      <4>1. sets[i] = [ID |-> docs[i].id, CategoryID |-> request.sets.category_id,
                       IsSupplemental |-> docs[i].is_supplemental,
                       PublishedYear |-> formatDate(docs[i].published_on)]
        BY <3>1, <3>4, Zenon
      <4>2. sets[i].PublishedYear = formatDate(docs[i].published_on)
        BY <4>1
      <4>3. sets[i].IsSupplemental <=> docs[i].is_supplemental
        BY <4>1
      <4> QED
        BY <4>2, <4>3
    <3>6. Len(sets) \in Nat /\ DOMAIN sets = 1..Len(sets) /\ DOMAIN docs = DOMAIN sets
      BY <3>2, <3>3, <3>4
    <3> QED
      BY <3>5, <3>6
  <2>4. \A i \in DOMAIN docs : docs[i].published_on \in Int \cup {Nil}
    <3> HIDE DEF docs
    <3>1. \A i \in DOMAIN docs : docs[i] \in SetType
      BY <2>2
    <3> QED
      BY <3>1 DEF SetType
  <2>5. \A i \in DOMAIN sets : sets[i].PublishedYear \in Int
    BY <2>3, <2>4 DEF formatDate
  <2>6. \A y \in Int, i \in DOMAIN docs :
          sets[i].PublishedYear = y <=>
            docs[i].published_on = y \/ (docs[i].published_on = Nil /\ y = 1)
    BY <2>3, <2>4, RequestsAssumption DEF formatDate
  <2> HIDE DEF docs, sets, asked
  <2>7. /\ answer.From = YearFrom(asked) /\ answer.From \in Int /\ answer.To \in Int
        /\ asked.yearTo # Nil => answer.To = asked.yearTo
        /\ \A y \in years : answer.CountsByYear[y] = Cardinality(OfYear(places, sets, y))
        /\ answer.From <= answer.To
        /\ answer.TotalSets = Cardinality(places)
        /\ \A i \in places : sets[i].PublishedYear \in years
    BY <2>1, <2>2, <2>3, <2>5, SummaryCounts
  <2>8. ASSUME NEW y \in years
        PROVE  OfYear(places, sets, y) = Published(y)
    <3>1. y \in Int /\ y >= YearFrom(asked) /\ (asked.yearTo # Nil => y <= asked.yearTo)
      BY <2>7
    <3>2. \A i \in DOMAIN docs :
            i \in OfYear(places, sets, y) <=>
              sets[i].PublishedYear = y /\ (asked.includeSupplemental \/ ~sets[i].IsSupplemental)
      BY <2>3, <3>1 DEF OfYear, CountedSets, Counted
    <3>3. OfYear(places, sets, y) \in SUBSET DOMAIN docs
      BY <2>3 DEF OfYear, CountedSets
    <3> QED
      BY <2>3, <2>6, <3>1, <3>2, <3>3
  <2>9. places = UNION {Published(y) : y \in years}
    <3>1. places = UNION {OfYear(places, sets, y) : y \in years}
      BY <2>7 DEF OfYear
    <3> QED
      BY <2>8, <3>1
  <2>10. ASSUME asked.yearTo = Nil, NEW i \in DOMAIN docs, docs[i].published_on # Nil,
                docs[i].published_on > answer.To
         PROVE  docs[i].is_supplemental /\ ~asked.includeSupplemental
    <3>1. sets[i].PublishedYear = docs[i].published_on /\ sets[i].PublishedYear \in Int
      BY <2>3, <2>5, <2>10 DEF formatDate
    <3>2. i \notin places
      BY <2>7, <2>10, <3>1
    <3>3. CASE sets[i].PublishedYear >= YearFrom(asked)
      BY <2>3, <2>10, <3>2, <3>3 DEF CountedSets, Counted
    <3> QED
      BY <2>7, <2>10, <3>1, <3>3
  <2> QED
    BY <2>7, <2>8, <2>9, <2>10 DEF CountsAddUp, docs, asked
<1> QED
  BY <1>1, AnswerIsComputed, PTL

-----------------------------------------------------------------------------
(* Sums. *)

\* The member that a fold takes next.
Taken(s) == CHOOSE x \in s : TRUE

\* iter is the sum of fun over each set of sets.
Sums(iter, fun, sets) ==
  iter = [s \in sets |-> IF s = {} THEN 0 ELSE fun[Taken(s)] + iter[s \ {Taken(s)}]]

SmallSets(S, n) == {s \in SUBSET S : Cardinality(s) <= n}

\* SumFunction is such a sum (Functions and Folds of the community modules).
LEMMA UnfoldSum ==
  ASSUME NEW fun
  PROVE  SumFunction(fun) = (CHOOSE iter : Sums(iter, fun, SUBSET DOMAIN fun))[DOMAIN fun]
BY Zenon DEF SumFunction, SumFunctionOnSet, FoldFunctionOnSet, MapThenFoldSet, Sums, Taken

\* The fold ends, after as many turns as there are members.
LEMMA SumsRun ==
  ASSUME NEW fun, NEW S, IsFiniteSet(S), NEW n \in Nat
  PROVE  \E iter : Sums(iter, fun, SmallSets(S, n))
<1> DEFINE Fails == {m \in Nat : ~\E f : Sums(f, fun, SmallSets(S, m))}
           Plus(x, y) == fun[x] + y
<1> SUFFICES ASSUME Fails # {} PROVE FALSE
  OBVIOUS
<1>1. PICK m \in Fails : \A k \in Fails : m <= k
  BY Least
<1>2. \A f, T : Sums(f, fun, T) <=>
        f = [s \in T |-> IF s = {} THEN 0 ELSE Plus(Taken(s), f[s \ {Taken(s)}])]
  BY Zenon DEF Sums
<1>0. \A s \in SUBSET S : /\ IsFiniteSet(s) /\ Cardinality(s) \in Nat
                          /\ (Cardinality(s) = 0 <=> s = {})
  BY FS_Subset, FS_CardinalityType, FS_EmptySet
<1>b. \A s \in SUBSET S : s # {} => /\ Taken(s) \in s /\ s \ {Taken(s)} \in SUBSET S
                                    /\ Cardinality(s \ {Taken(s)}) = Cardinality(s) - 1
  <2> SUFFICES ASSUME NEW s \in SUBSET S, s # {}
               PROVE  /\ Taken(s) \in s /\ s \ {Taken(s)} \in SUBSET S
                      /\ Cardinality(s \ {Taken(s)}) = Cardinality(s) - 1
    OBVIOUS
  <2>1. Taken(s) \in s
    BY DEF Taken
  <2> QED
    BY <1>0, <2>1, FS_RemoveElement
<1> HIDE DEF Plus
<1>3. CASE m = 0
  <2> DEFINE f == [s \in SmallSets(S, 0) |-> 0]
  <2>1. \A s \in SmallSets(S, 0) : s = {}
    BY <1>0 DEF SmallSets
  <2>2. f = [s \in SmallSets(S, 0) |-> IF s = {} THEN 0 ELSE Plus(Taken(s), f[s \ {Taken(s)}])]
    BY <2>1
  <2>3. Sums(f, fun, SmallSets(S, 0))
    BY <1>2, <2>2, Zenon
  <2> QED
    BY <1>3, <2>3
<1>4. CASE m # 0
  <2>1. m - 1 \in Nat /\ m - 1 \notin Fails
    BY <1>1, <1>4
  <2>2. PICK g : Sums(g, fun, SmallSets(S, m - 1))
    BY <2>1
  <2> DEFINE T == SmallSets(S, m - 1)
             U == SmallSets(S, m)
  <2>3. g = [s \in T |-> IF s = {} THEN 0 ELSE Plus(Taken(s), g[s \ {Taken(s)}])]
    BY <1>2, <2>2
  <2>4. T \in SUBSET U
    BY <1>0, <2>1 DEF SmallSets
  <2>5. \A s \in U : s # {} => s \ {Taken(s)} \in T
    BY <1>0, <1>b, <2>1 DEF SmallSets
  <2>6. \A s \in T : s # {} => s \ {Taken(s)} \in T
    BY <2>4, <2>5
  <2> DEFINE f == [s \in U |-> IF s \in T THEN g[s] ELSE Plus(Taken(s), g[s \ {Taken(s)}])]
  <2>b. {} \in T
    BY <1>0, <2>1, FS_EmptySet DEF SmallSets
  <2> HIDE DEF T, U
  <2>7. \A s \in U : f[s] = IF s = {} THEN 0 ELSE Plus(Taken(s), f[s \ {Taken(s)}])
    <3> SUFFICES ASSUME NEW s \in U
                 PROVE  f[s] = IF s = {} THEN 0 ELSE Plus(Taken(s), f[s \ {Taken(s)}])
      OBVIOUS
    <3>1. \A t \in T : f[t] = g[t]
      BY <2>4
    <3>2. CASE s = {}
      BY <2>3, <2>b, <3>1, <3>2
    <3>3. CASE s # {} /\ s \in T
      <4> DEFINE rest == s \ {Taken(s)}
      <4>1. rest \in T
        BY <2>6, <3>3
      <4>2. g[s] = Plus(Taken(s), g[rest])
        <5> HIDE DEF rest, f
        <5>1. g[s] = Plus(Taken(s), g[s \ {Taken(s)}])
          BY <2>3, <3>3
        <5> QED
          BY <5>1 DEF rest
      <4>3. f[s] = g[s] /\ f[rest] = g[rest]
        BY <3>1, <3>3, <4>1
      <4> QED
        BY <3>3, <4>2, <4>3
    <3>4. CASE s # {} /\ s \notin T
      BY <2>5, <3>1, <3>4
    <3> QED
      BY <3>2, <3>3, <3>4
  <2>8. f = [s \in U |-> f[s]]
    OBVIOUS
  <2> HIDE DEF f
  <2>9. f = [s \in U |-> IF s = {} THEN 0 ELSE Plus(Taken(s), f[s \ {Taken(s)}])]
    BY <2>7, <2>8
  <2>10. Sums(f, fun, U)
    BY <1>2, <2>9, Zenon
  <2> QED
    BY <2>10, Zenon DEF U
<1> QED
  BY <1>3, <1>4

\* iter takes the sum of fun apart, member by member.
TakesApart(iter, fun, D) ==
  /\ SumFunction(fun) = iter[D]
  /\ iter[{}] = 0
  /\ \A s \in SUBSET D : s # {} => iter[s] = fun[Taken(s)] + iter[s \ {Taken(s)}]

LEMMA SumUnfolds ==
  ASSUME NEW D, IsFiniteSet(D), NEW fun, DOMAIN fun = D
  PROVE  \E iter : TakesApart(iter, fun, D)
<1> DEFINE iter == CHOOSE f : Sums(f, fun, SUBSET D)
<1>1. SmallSets(D, Cardinality(D)) = SUBSET D
  BY FS_Subset DEF SmallSets
<1>2. \E f : Sums(f, fun, SUBSET D)
  <2>1. Cardinality(D) \in Nat
    BY FS_CardinalityType
  <2>2. \E f : Sums(f, fun, SmallSets(D, Cardinality(D)))
    BY <2>1, SumsRun, Zenon
  <2> QED
    BY <1>1, <2>2, Zenon
<1>3. Sums(iter, fun, SUBSET D)
  BY <1>2, Zenon
<1>4. SumFunction(fun) = iter[D]
  BY UnfoldSum, Zenon
<1> HIDE DEF iter
<1> DEFINE Plus(x, y) == fun[x] + y
<1>5. iter = [s \in SUBSET D |-> IF s = {} THEN 0 ELSE Plus(Taken(s), iter[s \ {Taken(s)}])]
  BY <1>3, Zenon DEF Sums
<1> HIDE DEF Plus
<1>6. /\ iter[{}] = 0
      /\ \A s \in SUBSET D : s # {} => iter[s] = Plus(Taken(s), iter[s \ {Taken(s)}])
  BY <1>5
<1> QED
  BY <1>4, <1>6, Zenon DEF Plus, TakesApart

\* Of finite sets there is a smallest.
LEMMA Smallest ==
  ASSUME NEW D, IsFiniteSet(D), NEW T \in SUBSET SUBSET D, T # {}
  PROVE  \E s \in T : \A t \in T : Cardinality(s) <= Cardinality(t)
<1> DEFINE C == {Cardinality(s) : s \in T}
<1>1. \A s \in T : Cardinality(s) \in Nat
  BY FS_Subset, FS_CardinalityType
<1>2. C \in SUBSET Nat /\ C # {}
  BY <1>1
<1>3. PICK n \in C : \A m \in C : n <= m
  BY <1>2, Least
<1> QED
  BY <1>3

\* Without the member that is taken next a set is smaller.
LEMMA TakenFrom ==
  ASSUME NEW D, IsFiniteSet(D), NEW s \in SUBSET D, s # {}
  PROVE  /\ Taken(s) \in s /\ s \ {Taken(s)} \in SUBSET D
         /\ ~(Cardinality(s) <= Cardinality(s \ {Taken(s)}))
<1>1. Taken(s) \in s
  BY DEF Taken
<1>2. IsFiniteSet(s) /\ Cardinality(s) \in Nat
  BY FS_Subset, FS_CardinalityType
<1>3. Cardinality(s \ {Taken(s)}) = Cardinality(s) - 1
  BY <1>1, <1>2, FS_RemoveElement
<1> QED
  BY <1>1, <1>2, <1>3

\* A sum of integers is one, and grows by what one of them grows by.
LEMMA SumGrows ==
  ASSUME NEW D, IsFiniteSet(D), NEW f \in [D -> Int], NEW r \in D, NEW d \in Int
  PROVE  /\ SumFunction(f) \in Int
         /\ SumFunction([f EXCEPT ![r] = f[r] + d]) = SumFunction(f) + d
<1> DEFINE g == [f EXCEPT ![r] = f[r] + d]
<1>1. g \in [D -> Int] /\ DOMAIN g = D /\ DOMAIN f = D
  OBVIOUS
<1>2. g[r] = f[r] + d /\ \A x \in D \ {r} : g[x] = f[x]
  OBVIOUS
<1> HIDE DEF g
<1>3. PICK a : TakesApart(a, f, D)
  BY <1>1, SumUnfolds, Zenon
<1>4. PICK b : TakesApart(b, g, D)
  BY <1>1, SumUnfolds, Zenon
<1> DEFINE Bad == {s \in SUBSET D : ~(a[s] \in Int /\ b[s] = a[s] + IF r \in s THEN d ELSE 0)}
<1>5. Bad = {}
  <2> SUFFICES ASSUME Bad # {} PROVE FALSE
    OBVIOUS
  <2>1. PICK s \in Bad : \A t \in Bad : Cardinality(s) <= Cardinality(t)
    BY Smallest
  <2>2. s # {}
    <3>1. a[{}] = 0 /\ b[{}] = 0 /\ ~(r \in {})
      BY <1>3, <1>4 DEF TakesApart
    <3>2. {} \notin Bad
      BY <3>1
    <3> QED
      BY <2>1, <3>2
  <2> DEFINE x == Taken(s)
             rest == s \ {x}
  <2>3. x \in s /\ rest \in SUBSET D /\ rest \notin Bad
    BY <2>1, <2>2, TakenFrom
  <2>4. a[s] = f[x] + a[rest] /\ b[s] = g[x] + b[rest]
    BY <1>3, <1>4, <2>2 DEF TakesApart
  <2>5. a[rest] \in Int /\ b[rest] = a[rest] + IF r \in rest THEN d ELSE 0
    BY <2>3
  <2>6. f[x] \in Int /\ g[x] \in Int /\ (r \in rest <=> r \in s /\ r # x)
    BY <1>1, <2>3
  <2> HIDE DEF x, rest
  <2>7. a[s] \in Int /\ b[s] = a[s] + IF r \in s THEN d ELSE 0
    <3>1. CASE x = r
      <4>1. r \in s /\ r \notin rest /\ g[x] = f[x] + d
        BY <1>2, <2>3, <2>6, <3>1
      <4> QED
        BY <2>4, <2>5, <2>6, <4>1
    <3>2. CASE x # r
      <4>1. g[x] = f[x] /\ (r \in rest <=> r \in s)
        BY <1>2, <2>3, <2>6, <3>2
      <4> QED
        BY <2>4, <2>5, <2>6, <4>1
    <3> QED
      BY <3>1, <3>2
  <2> QED
    BY <2>1, <2>7
<1>6. D \notin Bad
  BY <1>5
<1>7. a[D] \in Int /\ b[D] = a[D] + d
  BY <1>6
<1> QED
  BY <1>3, <1>4, <1>7 DEF g, TakesApart

LEMMA SumOfZeros ==
  ASSUME NEW D, IsFiniteSet(D)
  PROVE  SumFunction([x \in D |-> 0]) = 0
<1> DEFINE f == [x \in D |-> 0]
<1>1. DOMAIN f = D /\ \A x \in D : f[x] = 0
  OBVIOUS
<1> HIDE DEF f
<1>2. PICK a : TakesApart(a, f, D)
  BY <1>1, SumUnfolds, Zenon
<1> DEFINE Bad == {s \in SUBSET D : a[s] # 0}
<1>3. Bad = {}
  <2> SUFFICES ASSUME Bad # {} PROVE FALSE
    OBVIOUS
  <2>1. PICK s \in Bad : \A t \in Bad : Cardinality(s) <= Cardinality(t)
    BY Smallest
  <2>2. s # {}
    BY <1>2, <2>1 DEF TakesApart
  <2>3. Taken(s) \in s /\ s \ {Taken(s)} \in SUBSET D /\ s \ {Taken(s)} \notin Bad
    BY <2>1, <2>2, TakenFrom
  <2>4. a[s] = f[Taken(s)] + a[s \ {Taken(s)}] /\ a[s \ {Taken(s)}] = 0 /\ f[Taken(s)] = 0
    BY <1>1, <1>2, <2>2, <2>3 DEF TakesApart
  <2> QED
    BY <2>1, <2>4
<1> QED
  BY <1>2, <1>3 DEF f, TakesApart

-----------------------------------------------------------------------------
(* Orders. *)

\* before is a strict order of the members of a finite set.
Orders(before, S) ==
  /\ IsFiniteSet(S)
  /\ \A x \in S : <<x, x>> \notin before
  /\ \A x, y \in S : x # y => <<x, y>> \in before \/ <<y, x>> \in before
  /\ \A x, y, z \in S : <<x, y>> \in before /\ <<y, z>> \in before => <<x, z>> \in before

Ahead(x, S, before) == {y \in S : <<y, x>> \in before}

Rank(x, S, before) == Cardinality(Ahead(x, S, before))

LEMMA RankOrder ==
  ASSUME NEW S, NEW before, Orders(before, S)
  PROVE  /\ Cardinality(S) \in Nat
         /\ \A x \in S : Rank(x, S, before) + 1 \in 1..Cardinality(S)
         /\ \A x, y \in S : <<x, y>> \in before => Rank(x, S, before) < Rank(y, S, before)
<1>1. Cardinality(S) \in Nat
  BY FS_CardinalityType DEF Orders
<1>2. ASSUME NEW x \in S
      PROVE  /\ IsFiniteSet(Ahead(x, S, before)) /\ Rank(x, S, before) \in Nat
             /\ Rank(x, S, before) + 1 \in 1..Cardinality(S)
  <2>1. Ahead(x, S, before) \in SUBSET S /\ x \notin Ahead(x, S, before)
    BY DEF Ahead, Orders
  <2>2. /\ IsFiniteSet(Ahead(x, S, before))
        /\ Cardinality(Ahead(x, S, before)) <= Cardinality(S)
        /\ Cardinality(Ahead(x, S, before)) = Cardinality(S) => Ahead(x, S, before) = S
    BY <2>1, FS_Subset DEF Orders
  <2>3. Cardinality(Ahead(x, S, before)) \in Nat
    BY <2>2, FS_CardinalityType
  <2> QED
    BY <1>1, <2>1, <2>2, <2>3 DEF Rank
<1>3. ASSUME NEW x \in S, NEW y \in S, <<x, y>> \in before
      PROVE  Rank(x, S, before) < Rank(y, S, before)
  <2>1. Ahead(x, S, before) \in SUBSET Ahead(y, S, before)
    BY <1>3 DEF Ahead, Orders
  <2>2. x \in Ahead(y, S, before) \ Ahead(x, S, before)
    BY <1>3 DEF Ahead, Orders
  <2>3. /\ Cardinality(Ahead(x, S, before)) <= Cardinality(Ahead(y, S, before))
        /\ Cardinality(Ahead(y, S, before)) = Cardinality(Ahead(x, S, before))
             => Ahead(y, S, before) = Ahead(x, S, before)
    BY <1>2, <2>1, FS_Subset
  <2> QED
    BY <1>2, <2>2, <2>3 DEF Rank
<1> QED
  BY <1>1, <1>2, <1>3

\* All members of S are in the sequence, once each, and in order.
Sorts(sorted, S, before) ==
  /\ Cardinality(S) \in Nat /\ DOMAIN sorted = 1..Cardinality(S)
  /\ \A n \in 1..Cardinality(S) : sorted[n] \in S
  /\ \A x \in S : \E n \in 1..Cardinality(S) : sorted[n] = x
  /\ \A m, n \in 1..Cardinality(S) : m < n => <<sorted[m], sorted[n]>> \in before

LEMMA PlacesInOrder ==
  ASSUME NEW S, NEW before, Orders(before, S)
  PROVE  Sorts(InOrder(S, before), S, before)
<1> DEFINE c == Cardinality(S)
           sorted == InOrder(S, before)
           rank == [x \in S |-> Rank(x, S, before) + 1]
<1>1. c \in Nat /\ IsFiniteSet(1..c) /\ Cardinality(1..c) = c
  BY RankOrder, FS_Interval
<1>2. \A x \in S : Rank(x, S, before) + 1 \in 1..c
  BY RankOrder
<1>a. \A x \in S : Rank(x, S, before) \in Nat
  BY FS_Subset, FS_CardinalityType DEF Rank, Ahead, Orders
<1>3. ASSUME NEW x \in S, NEW y \in S, Rank(x, S, before) = Rank(y, S, before)
      PROVE  x = y
  <2>1. <<x, y>> \notin before /\ <<y, x>> \notin before
    BY <1>3, <1>a, RankOrder
  <2> QED
    BY <2>1 DEF Orders
<1>4. rank \in Injection(S, 1..c)
  BY <1>2, <1>3, <1>a DEF Injection, IsInjective
<1>5. rank \in Surjection(S, 1..c)
  BY <1>1, <1>4, FS_Injection DEF Orders
<1>6. \A n \in 1..c : \E x \in S : Rank(x, S, before) = n - 1
  <2>1. \A n \in 1..c : \E x \in S : rank[x] = n
    BY <1>5 DEF Surjection
  <2>2. \A x \in S : rank[x] = Rank(x, S, before) + 1
    OBVIOUS
  <2> HIDE DEF rank, c
  <2> QED
    BY <1>a, <2>1, <2>2
<1>7. DOMAIN sorted = 1..c
      /\ \A n \in 1..c : sorted[n] = CHOOSE x \in S : Rank(x, S, before) = n - 1
  BY Zenon DEF InOrder, Rank, Ahead
<1>8. \A n \in 1..c : sorted[n] \in S /\ Rank(sorted[n], S, before) = n - 1
  BY <1>6, <1>7, Zenon
<1> HIDE DEF sorted, c
<1>9. ASSUME NEW x \in S PROVE \E n \in 1..c : sorted[n] = x
  <2>1. Rank(sorted[Rank(x, S, before) + 1], S, before) = Rank(x, S, before)
        /\ sorted[Rank(x, S, before) + 1] \in S
    BY <1>2, <1>8, <1>a
  <2> QED
    BY <1>2, <1>3, <2>1
<1>10. ASSUME NEW m \in 1..c, NEW n \in 1..c, m < n
       PROVE  <<sorted[m], sorted[n]>> \in before
  <2> DEFINE x == sorted[m]
             y == sorted[n]
  <2>1. x \in S /\ y \in S /\ Rank(x, S, before) = m - 1 /\ Rank(y, S, before) = n - 1
    BY <1>8
  <2> HIDE DEF x, y
  <2>2. x # y /\ <<y, x>> \notin before
    <3>1. m - 1 < n - 1 /\ ~(n - 1 < m - 1) /\ m - 1 # n - 1
      BY <1>1, <1>10
    <3>2. <<y, x>> \in before => Rank(y, S, before) < Rank(x, S, before)
      BY <2>1, RankOrder
    <3> QED
      BY <2>1, <3>1, <3>2
  <2> QED
    BY <2>1, <2>2 DEF Orders, x, y
<1> QED
  BY <1>1, <1>7, <1>8, <1>9, <1>10 DEF sorted, c, Sorts

\* One of the members comes before all others.
LEMMA FirstOfAll ==
  ASSUME NEW S, NEW before, Orders(before, S), S # {}
  PROVE  \E x \in S : \A y \in S : y = x \/ <<x, y>> \in before
<1> DEFINE c == Cardinality(S)
           sorted == InOrder(S, before)
<1>0. Sorts(sorted, S, before)
  BY PlacesInOrder
<1> HIDE DEF sorted
<1>1. /\ c \in Nat /\ \A n \in 1..c : sorted[n] \in S
      /\ \A x \in S : \E n \in 1..c : sorted[n] = x
      /\ \A m, n \in 1..c : m < n => <<sorted[m], sorted[n]>> \in before
  BY <1>0 DEF Sorts
<1> HIDE DEF c
<1>2. 1 \in 1..c
  BY <1>1
<1>3. \A y \in S : y = sorted[1] \/ <<sorted[1], y>> \in before
  <2> SUFFICES ASSUME NEW y \in S, y # sorted[1] PROVE <<sorted[1], y>> \in before
    OBVIOUS
  <2>1. PICK n \in 1..c : sorted[n] = y
    BY <1>1
  <2>2. 1 < n
    BY <2>1, <1>1
  <2> QED
    BY <1>1, <1>2, <2>1, <2>2
<1> QED
  BY <1>1, <1>2, <1>3

-----------------------------------------------------------------------------
(* Set insights: the list of products and the value of each. *)

\* A list of products as the analysis gets it.
AreProducts(products) ==
  /\ Len(products) \in Nat /\ DOMAIN products = 1..Len(products)
  /\ \A i \in DOMAIN products : products[i].ID \in Int /\ products[i].Name \in Int

LEMMA ListedProducts ==
  ASSUME NEW doc, doc.products \in Seq(ProductType)
  PROVE  /\ AreProducts(SetProducts(doc)) /\ DOMAIN SetProducts(doc) = DOMAIN doc.products
         /\ \A i \in DOMAIN doc.products : SetProducts(doc)[i].ID = doc.products[i].id
<1> DEFINE products == SetProducts(doc)
<1>1. DOMAIN products = DOMAIN doc.products
  BY DEF SetProducts
<1>2. ASSUME NEW i \in DOMAIN doc.products
      PROVE  /\ products[i].ID = doc.products[i].id
             /\ products[i].ID \in Int /\ products[i].Name \in Int
  <2>1. doc.products[i] \in ProductType
    OBVIOUS
  <2>2. doc.products[i].id \in Int /\ doc.products[i].name \in Int
    BY <2>1 DEF ProductType
  <2>3. products[i].ID = doc.products[i].id /\ products[i].Name = doc.products[i].name
    BY DEF SetProducts
  <2> QED
    BY <2>2, <2>3
<1>3. Len(doc.products) \in Nat /\ DOMAIN doc.products = 1..Len(doc.products)
  OBVIOUS
<1>4. Len(products) = Len(doc.products)
  <2> HIDE DEF products
  <2> QED
    BY <1>1, <1>3
<1> QED
  BY <1>1, <1>2, <1>3, <1>4 DEF AreProducts

\* The best subtype of a row is one of its subtypes, with its price.
LEMMA BestSubtype ==
  ASSUME NEW result, IsFiniteSet(DOMAIN result.Subtypes), DOMAIN result.Subtypes \subseteq Int,
         \A s \in DOMAIN result.Subtypes : result.Subtypes[s] \in Int \cup {Nil},
         highestMarketSubtype(result) # Nil
  PROVE  LET best == highestMarketSubtype(result)
         IN  /\ best.Subtype \in DOMAIN result.Subtypes
             /\ best.Market = result.Subtypes[best.Subtype] /\ best.Market \in Int
<1> DEFINE price == result.Subtypes
           valued == {s \in DOMAIN price : price[s] # Nil}
           First(s) == \A t \in valued : price[t] < price[s] \/ (price[t] = price[s] /\ s <= t)
           best == CHOOSE s \in valued : First(s)
           before == {pair \in valued \X valued :
                        \/ price[pair[2]] < price[pair[1]]
                        \/ price[pair[1]] = price[pair[2]] /\ pair[1] < pair[2]}
<1>1. /\ valued # {}
      /\ highestMarketSubtype(result) = [Subtype |-> best, Market |-> price[best]]
  BY Zenon DEF highestMarketSubtype
<1>2. /\ IsFiniteSet(valued)
      /\ \A s \in valued : s \in Int /\ price[s] \in Int
  <2>1. valued \subseteq DOMAIN price
    OBVIOUS
  <2>2. IsFiniteSet(valued)
    BY <2>1, FS_Subset
  <2> QED
    BY <2>1, <2>2
<1>3. \A s, t \in valued : <<s, t>> \in before <=>
        price[t] < price[s] \/ (price[s] = price[t] /\ s < t)
  OBVIOUS
<1>4. Orders(before, valued)
  <2> HIDE DEF before, valued, price
  <2> QED
    BY <1>2, <1>3 DEF Orders
<1> HIDE DEF before
<1>5. \E s \in valued : First(s)
  <2>1. PICK s \in valued : \A t \in valued : t = s \/ <<s, t>> \in before
    BY <1>1, <1>4, FirstOfAll
  <2>2. ASSUME NEW t \in valued PROVE price[t] < price[s] \/ (price[t] = price[s] /\ s <= t)
    <3>1. s \in Int /\ t \in Int /\ price[s] \in Int /\ price[t] \in Int
      BY <1>2
    <3>2. t = s \/ price[t] < price[s] \/ (price[s] = price[t] /\ s < t)
      BY <1>3, <2>1
    <3> HIDE DEF price
    <3> QED
      BY <3>1, <3>2
  <2> QED
    BY <2>1, <2>2
<1>6. best \in valued
  <2> HIDE DEF First
  <2> QED
    BY <1>5, Zenon
<1>7. best \in DOMAIN price /\ price[best] \in Int
  BY <1>2, <1>6
<1> HIDE DEF best, price
<1> QED
  BY <1>1, <1>7 DEF price

\* A product's value is the price of one of its subtypes, under one of its keys.
PricedFrom(prices, id, value) ==
  \E key \in DOMAIN prices :
    /\ key.id = id /\ id # Nil
    /\ value.Subtype \in DOMAIN prices[key]
    /\ value.Market = prices[key][value.Subtype] /\ value.Market \in Int

LEMMA ValuesArePriced ==
  ASSUME NEW doc, ArePrices(doc.prices)
  PROVE  LET values == buildProductValueMap(SetPricing(doc, Nil).Prices)
         IN  \A id \in DOMAIN values : PricedFrom(doc.prices, id, values[id])
<1> DEFINE keys == Sorted(Chosen(doc.prices, Nil))
           c == Cardinality(Chosen(doc.prices, Nil))
           prices == SetPricing(doc, Nil).Prices
           valued == {i \in DOMAIN prices : highestMarketSubtype(prices[i]) # Nil}
           Places(id) == {i \in valued : prices[i].ProductID = id}
           values == [id \in {prices[i].ProductID : i \in valued} |->
                        highestMarketSubtype(prices[Max(Places(id))])]
<1>1. buildProductValueMap(prices) = values
  BY Zenon DEF buildProductValueMap
<1>2. IsObject(doc.prices) /\ KeysOf(doc.prices, Nil) = keys
  BY ChosenAreKeys DEF ArePrices
<1>3. /\ DOMAIN keys = 1..c /\ c \in Nat
      /\ \A i \in 1..c : keys[i] \in DOMAIN doc.prices /\ keys[i].id # Nil
  <2>1. AreKeys(Chosen(doc.prices, Nil))
    BY <1>2, ChosenAreKeys
  <2>2. DOMAIN keys = 1..c /\ c \in Nat /\ \A i \in 1..c : keys[i] \in Chosen(doc.prices, Nil)
    BY <2>1, SortedPlaces
  <2>3. \A k \in Chosen(doc.prices, Nil) : k \in DOMAIN doc.prices /\ k.id # Nil
    BY DEF Chosen
  <2> QED
    BY <2>2, <2>3
<1>4. prices = [i \in DOMAIN keys |->
                  [ProductID |-> keys[i].id, Subtypes |-> doc.prices[keys[i]]]]
  BY <1>2 DEF SetPricing
<1> HIDE DEF keys, c, prices
<1>5. /\ DOMAIN prices = 1..c
      /\ \A i \in 1..c : /\ prices[i].ProductID = keys[i].id
                         /\ prices[i].Subtypes = doc.prices[keys[i]]
  BY <1>3, <1>4
<1>6. ASSUME NEW i \in valued
      PROVE  PricedFrom(doc.prices, prices[i].ProductID, highestMarketSubtype(prices[i]))
  <2> DEFINE key == keys[i]
             best == highestMarketSubtype(prices[i])
  <2>1. /\ i \in 1..c /\ key \in DOMAIN doc.prices /\ key.id # Nil /\ best # Nil
        /\ prices[i].ProductID = key.id /\ prices[i].Subtypes = doc.prices[key]
    BY <1>3, <1>5
  <2>2. /\ IsFiniteSet(DOMAIN doc.prices[key]) /\ DOMAIN doc.prices[key] \subseteq Int
        /\ \A s \in DOMAIN doc.prices[key] : doc.prices[key][s] \in Int \cup {Nil}
    BY <2>1, Zenon DEF ArePrices
  <2>3. /\ IsFiniteSet(DOMAIN prices[i].Subtypes) /\ DOMAIN prices[i].Subtypes \subseteq Int
        /\ \A s \in DOMAIN prices[i].Subtypes : prices[i].Subtypes[s] \in Int \cup {Nil}
    BY <2>1, <2>2, Zenon
  <2>4. /\ best.Subtype \in DOMAIN prices[i].Subtypes
        /\ best.Market = prices[i].Subtypes[best.Subtype] /\ best.Market \in Int
    BY <2>1, <2>3, BestSubtype, Zenon
  <2> HIDE DEF key, best
  <2> QED
    BY <2>1, <2>4 DEF PricedFrom, best
<1>7. ASSUME NEW id \in DOMAIN values PROVE PricedFrom(doc.prices, id, values[id])
  <2>1. Places(id) # {} /\ Places(id) \in SUBSET (1..c)
    BY <1>5
  <2> DEFINE last == Max(Places(id))
  <2>2. last \in Places(id)
    <3> DEFINE places == Places(id)
    <3> HIDE DEF places
    <3>1. Max(places) \in places
      BY <1>3, <2>1, LastPlace DEF places
    <3> QED
      BY <3>1 DEF places
  <2> HIDE DEF last
  <2>3. values[id] = highestMarketSubtype(prices[last])
    BY DEF last
  <2>4. last \in valued /\ prices[last].ProductID = id
    BY <2>2
  <2> QED
    BY <1>6, <2>3, <2>4, Zenon
<1> QED
  BY <1>1, <1>7, Zenon DEF prices

-----------------------------------------------------------------------------
(* Set insights: the loops over the products. *)

RarityOf(products, i) == normalizedRarity(products[i].Rarity)
Rarities(products, kept) == {RarityOf(products, i) : i \in kept}
MarketOf(products, values, i) == values[products[i].ID].Market

\* One turn of each loop.
AddProduct(buckets, n, products, kept, values) ==
  IF n \in kept
  THEN [buckets EXCEPT ![RarityOf(products, n)] =
          AddTo(buckets[RarityOf(products, n)], products[n], values)]
  ELSE buckets

AddMarket(sum, n, products, places, values) ==
  IF n \in places THEN sum + MarketOf(products, values, n) ELSE sum

\* f is what a loop has after each of its first n turns.
BucketsUpTo(f, n, products, kept, values) ==
  f = [m \in 0..n |-> IF m = 0 THEN [rarity \in Rarities(products, kept) |-> NoProducts]
                      ELSE AddProduct(f[m - 1], m, products, kept, values)]

SumsUpTo(f, n, products, places, values) ==
  f = [m \in 0..n |-> IF m = 0 THEN 0 ELSE AddMarket(f[m - 1], m, products, places, values)]

LEMMA BucketsRun ==
  ASSUME NEW products, NEW kept, NEW values, NEW n \in Nat
  PROVE  \E f : BucketsUpTo(f, n, products, kept, values)
<1> DEFINE Fails == {m \in Nat : ~\E f : BucketsUpTo(f, m, products, kept, values)}
           base == [rarity \in Rarities(products, kept) |-> NoProducts]
           Step(buckets, m) == AddProduct(buckets, m, products, kept, values)
<1> SUFFICES ASSUME Fails # {} PROVE FALSE
  OBVIOUS
<1>1. PICK m \in Fails : \A k \in Fails : m <= k
  BY Least
<1>2. \A f, k : BucketsUpTo(f, k, products, kept, values) <=>
        f = [i \in 0..k |-> IF i = 0 THEN base ELSE Step(f[i - 1], i)]
  BY Zenon DEF BucketsUpTo
<1> HIDE DEF base, Step
<1>3. CASE m = 0
  <2> DEFINE f == [i \in 0..0 |-> base]
  <2>1. f = [i \in 0..0 |-> IF i = 0 THEN base ELSE Step(f[i - 1], i)]
    OBVIOUS
  <2>2. BucketsUpTo(f, 0, products, kept, values)
    BY <1>2, <2>1, Zenon
  <2> QED
    BY <1>3, <2>2
<1>4. CASE m # 0
  <2>1. m - 1 \in Nat /\ m - 1 \notin Fails
    BY <1>1, <1>4
  <2>2. PICK g : BucketsUpTo(g, m - 1, products, kept, values)
    BY <2>1
  <2>3. g = [i \in 0..(m - 1) |-> IF i = 0 THEN base ELSE Step(g[i - 1], i)]
    BY <1>2, <2>2
  <2> DEFINE f == [i \in 0..m |-> IF i = m THEN Step(g[m - 1], m) ELSE g[i]]
  <2>4. \A i \in 0..m : f[i] = IF i = 0 THEN base ELSE Step(f[i - 1], i)
    BY <1>4, <2>1, <2>3
  <2>5. f = [i \in 0..m |-> f[i]]
    OBVIOUS
  <2> HIDE DEF f
  <2>6. f = [i \in 0..m |-> IF i = 0 THEN base ELSE Step(f[i - 1], i)]
    BY <2>4, <2>5
  <2>7. BucketsUpTo(f, m, products, kept, values)
    BY <1>2, <2>6
  <2> QED
    BY <2>7
<1> QED
  BY <1>3, <1>4

LEMMA SumsOfRun ==
  ASSUME NEW products, NEW places, NEW values, NEW n \in Nat
  PROVE  \E f : SumsUpTo(f, n, products, places, values)
<1> DEFINE Fails == {m \in Nat : ~\E f : SumsUpTo(f, m, products, places, values)}
           Step(sum, m) == AddMarket(sum, m, products, places, values)
<1> SUFFICES ASSUME Fails # {} PROVE FALSE
  OBVIOUS
<1>1. PICK m \in Fails : \A k \in Fails : m <= k
  BY Least
<1>2. \A f, k : SumsUpTo(f, k, products, places, values) <=>
        f = [i \in 0..k |-> IF i = 0 THEN 0 ELSE Step(f[i - 1], i)]
  BY Zenon DEF SumsUpTo
<1> HIDE DEF Step
<1>3. CASE m = 0
  <2> DEFINE f == [i \in 0..0 |-> 0]
  <2>1. f = [i \in 0..0 |-> IF i = 0 THEN 0 ELSE Step(f[i - 1], i)]
    OBVIOUS
  <2>2. SumsUpTo(f, 0, products, places, values)
    BY <1>2, <2>1, Zenon
  <2> QED
    BY <1>3, <2>2
<1>4. CASE m # 0
  <2>1. m - 1 \in Nat /\ m - 1 \notin Fails
    BY <1>1, <1>4
  <2>2. PICK g : SumsUpTo(g, m - 1, products, places, values)
    BY <2>1
  <2>3. g = [i \in 0..(m - 1) |-> IF i = 0 THEN 0 ELSE Step(g[i - 1], i)]
    BY <1>2, <2>2
  <2> DEFINE f == [i \in 0..m |-> IF i = m THEN Step(g[m - 1], m) ELSE g[i]]
  <2>4. \A i \in 0..m : f[i] = IF i = 0 THEN 0 ELSE Step(f[i - 1], i)
    BY <1>4, <2>1, <2>3
  <2>5. f = [i \in 0..m |-> f[i]]
    OBVIOUS
  <2> HIDE DEF f
  <2>6. f = [i \in 0..m |-> IF i = 0 THEN 0 ELSE Step(f[i - 1], i)]
    BY <2>4, <2>5
  <2>7. SumsUpTo(f, m, products, places, values)
    BY <1>2, <2>6
  <2> QED
    BY <2>7
<1> QED
  BY <1>3, <1>4

LEMMA BucketTurns ==
  ASSUME NEW products, Len(products) \in Nat, NEW kept, NEW values
  PROVE  LET f == Buckets(products, kept, values)
         IN  /\ f[0] = [rarity \in Rarities(products, kept) |-> NoProducts]
             /\ \A m \in 1..Len(products) :
                  f[m] = AddProduct(f[m - 1], m, products, kept, values)
<1> DEFINE f == Buckets(products, kept, values)
           base == [rarity \in Rarities(products, kept) |-> NoProducts]
           Step(buckets, m) == AddProduct(buckets, m, products, kept, values)
<1>1. f = CHOOSE g : BucketsUpTo(g, Len(products), products, kept, values)
  BY Zenon DEF Buckets, BucketsUpTo, AddProduct, Rarities, RarityOf
<1> HIDE DEF f
<1>2. BucketsUpTo(f, Len(products), products, kept, values)
  BY <1>1, BucketsRun, Zenon
<1>3. f = [m \in 0..Len(products) |-> IF m = 0 THEN base ELSE Step(f[m - 1], m)]
  BY <1>2, Zenon DEF BucketsUpTo
<1> HIDE DEF base, Step
<1>4. f[0] = base /\ \A m \in 1..Len(products) : f[m] = Step(f[m - 1], m)
  BY <1>3
<1> QED
  BY <1>4 DEF f, base, Step

LEMMA SumTurns ==
  ASSUME NEW products, Len(products) \in Nat, NEW places, NEW values
  PROVE  LET f == MarketSums(products, places, values)
         IN  /\ f[0] = 0
             /\ \A m \in 1..Len(products) :
                  f[m] = AddMarket(f[m - 1], m, products, places, values)
<1> DEFINE f == MarketSums(products, places, values)
           Step(sum, m) == AddMarket(sum, m, products, places, values)
<1>1. f = CHOOSE g : SumsUpTo(g, Len(products), products, places, values)
  BY Zenon DEF MarketSums, SumsUpTo, AddMarket, MarketOf
<1> HIDE DEF f
<1>2. SumsUpTo(f, Len(products), products, places, values)
  BY <1>1, SumsOfRun, Zenon
<1>3. f = [m \in 0..Len(products) |-> IF m = 0 THEN 0 ELSE Step(f[m - 1], m)]
  BY <1>2, Zenon DEF SumsUpTo
<1> HIDE DEF Step
<1>4. f[0] = 0 /\ \A m \in 1..Len(products) : f[m] = Step(f[m - 1], m)
  BY <1>3
<1> QED
  BY <1>4 DEF f, Step

-----------------------------------------------------------------------------
(* Set insights: what the loops have added up. *)

Bucket == [ProductCount : Nat, MarketCardCount : Nat, TotalMarketValue : Int,
           HighestMarketValue : Int \cup {Nil}]

\* One column of the table of buckets.
Products(buckets) == [r \in DOMAIN buckets |-> buckets[r].ProductCount]
Cards(buckets)    == [r \in DOMAIN buckets |-> buckets[r].MarketCardCount]
Totals(buckets)   == [r \in DOMAIN buckets |-> buckets[r].TotalMarketValue]

\* The places whose prices are those of a bucket.
OfRarity(products, places, r) == {i \in places : RarityOf(products, i) = r}

\* Prices of a bucket: as many as are counted, and the highest of them.
HasHighest(bucket, r, products, priced, values) ==
  /\ bucket.MarketCardCount > 0 <=> bucket.HighestMarketValue # Nil
  /\ bucket.HighestMarketValue # Nil =>
       \E i \in OfRarity(products, priced, r) :
         bucket.HighestMarketValue = MarketOf(products, values, i)
  /\ \A i \in OfRarity(products, priced, r) :
       /\ bucket.HighestMarketValue # Nil
       /\ MarketOf(products, values, i) <= bucket.HighestMarketValue

\* The buckets after the products that were taken: together they have each of them
\* once, and all the prices.
HasAdded(buckets, total, taken, products, kept, values) ==
  LET priced == ValuedPlaces(products, taken, values)
  IN  /\ buckets \in [Rarities(products, kept) -> Bucket]
      /\ SumFunction(Products(buckets)) = Cardinality(taken)
      /\ SumFunction(Cards(buckets)) = Cardinality(priced)
      /\ total \in Int /\ SumFunction(Totals(buckets)) = total
      /\ \A r \in Rarities(products, kept) :
           HasHighest(buckets[r], r, products, priced, values)

\* The products that were kept, and prices for those that have a value.
AreKept(products, kept, values) ==
  /\ AreProducts(products) /\ kept \in SUBSET DOMAIN products
  /\ \A i \in ValuedPlaces(products, kept, values) : MarketOf(products, values, i) \in Int

LEMMA KeptAreFinite ==
  ASSUME NEW products, NEW kept, NEW values, AreKept(products, kept, values)
  PROVE  /\ IsFiniteSet(kept) /\ IsFiniteSet(ValuedPlaces(products, kept, values))
         /\ IsFiniteSet(Rarities(products, kept))
<1>1. IsFiniteSet(kept)
  <2>1. IsFiniteSet(1..Len(products))
    BY FS_Interval DEF AreKept, AreProducts
  <2> QED
    BY <2>1, FS_Subset DEF AreKept, AreProducts
<1>2. IsFiniteSet(ValuedPlaces(products, kept, values))
  BY <1>1, FS_Subset DEF ValuedPlaces
<1>3. IsFiniteSet(Rarities(products, kept))
  <2> DEFINE f == [i \in kept |-> RarityOf(products, i)]
  <2>1. f \in Surjection(kept, Rarities(products, kept))
    BY DEF Surjection, Rarities
  <2> QED
    BY <1>1, <2>1, FS_Surjection
<1> QED
  BY <1>1, <1>2, <1>3

LEMMA NoneAdded ==
  ASSUME NEW products, NEW kept, NEW values, AreKept(products, kept, values)
  PROVE  HasAdded([r \in Rarities(products, kept) |-> NoProducts], 0, {}, products, kept, values)
<1> DEFINE rarities == Rarities(products, kept)
           buckets == [r \in rarities |-> NoProducts]
           zeros == [r \in rarities |-> 0]
<1>1. NoProducts \in Bucket
  BY DEF NoProducts, Bucket
<1>2. DOMAIN buckets = rarities /\ \A r \in rarities : buckets[r] = NoProducts
  OBVIOUS
<1>3. ValuedPlaces(products, {}, values) = {} /\ \A r : OfRarity(products, {}, r) = {}
  BY DEF ValuedPlaces, OfRarity
<1>4. Products(buckets) = zeros /\ Cards(buckets) = zeros /\ Totals(buckets) = zeros
  <2>1. /\ NoProducts.ProductCount = 0 /\ NoProducts.MarketCardCount = 0
        /\ NoProducts.TotalMarketValue = 0
    BY DEF NoProducts
  <2> HIDE DEF buckets
  <2> QED
    BY <1>2, <2>1 DEF Products, Cards, Totals
<1>5. SumFunction(zeros) = 0 /\ Cardinality({}) = 0
  BY KeptAreFinite, SumOfZeros, FS_EmptySet
<1>6. \A r : HasHighest(NoProducts, r, products, {}, values)
  BY <1>3 DEF HasHighest, NoProducts
<1> HIDE DEF buckets, zeros
<1>7. buckets \in [rarities -> Bucket]
  BY <1>1 DEF buckets
<1> QED
  BY <1>2, <1>3, <1>4, <1>5, <1>6, <1>7 DEF HasAdded, buckets

\* Two functions that differ in one place have sums that differ by as much.
LEMMA SumChanges ==
  ASSUME NEW D, IsFiniteSet(D), NEW f \in [D -> Int], NEW g \in [D -> Int], NEW q \in D,
         \A r \in D : r # q => g[r] = f[r]
  PROVE  SumFunction(g) = SumFunction(f) + (g[q] - f[q])
<1> DEFINE d == g[q] - f[q]
           h == [f EXCEPT ![q] = f[q] + d]
<1>1. d \in Int /\ f[q] + d = g[q]
  OBVIOUS
<1>2. g = h
  <2>1. \A r \in D : h[r] = g[r]
    BY <1>1
  <2>2. h \in [D -> Int]
    BY <1>1
  <2> HIDE DEF h
  <2> QED
    BY <2>1, <2>2
<1>3. SumFunction(h) = SumFunction(f) + d
  <2> HIDE DEF d
  <2> QED
    BY <1>1, SumGrows
<1> QED
  BY <1>2, <1>3

\* A bucket that is replaced changes each sum by what it changed itself.
LEMMA SumsOfColumns ==
  ASSUME NEW D, IsFiniteSet(D), NEW b \in [D -> Bucket], NEW q \in D, NEW x \in Bucket
  PROVE  LET c == [b EXCEPT ![q] = x]
         IN  /\ SumFunction(Products(c))
                  = SumFunction(Products(b)) + (x.ProductCount - b[q].ProductCount)
             /\ SumFunction(Cards(c))
                  = SumFunction(Cards(b)) + (x.MarketCardCount - b[q].MarketCardCount)
             /\ SumFunction(Totals(c))
                  = SumFunction(Totals(b)) + (x.TotalMarketValue - b[q].TotalMarketValue)
<1> DEFINE c == [b EXCEPT ![q] = x]
<1>1. /\ DOMAIN b = D /\ DOMAIN c = D /\ c[q] = x
      /\ \A r \in D : r # q => c[r] = b[r]
  OBVIOUS
<1>2. \A y \in Bucket : /\ y.ProductCount \in Int /\ y.MarketCardCount \in Int
                        /\ y.TotalMarketValue \in Int
  BY DEF Bucket
<1>3. \A r \in D : b[r] \in Bucket
  OBVIOUS
<1> HIDE DEF c
<1>4. SumFunction(Products(c))
        = SumFunction(Products(b)) + (x.ProductCount - b[q].ProductCount)
  <2>1. \A y \in {b, c} : /\ DOMAIN Products(y) = D
                          /\ \A r \in D : Products(y)[r] = y[r].ProductCount
    BY <1>1 DEF Products
  <2>2. Products(b) \in [D -> Int] /\ Products(c) \in [D -> Int]
    BY <1>1, <1>2, <1>3 DEF Products
  <2> QED
    BY <1>1, <2>1, <2>2, SumChanges
<1>5. SumFunction(Cards(c))
        = SumFunction(Cards(b)) + (x.MarketCardCount - b[q].MarketCardCount)
  <2>1. \A y \in {b, c} : /\ DOMAIN Cards(y) = D
                          /\ \A r \in D : Cards(y)[r] = y[r].MarketCardCount
    BY <1>1 DEF Cards
  <2>2. Cards(b) \in [D -> Int] /\ Cards(c) \in [D -> Int]
    BY <1>1, <1>2, <1>3 DEF Cards
  <2> QED
    BY <1>1, <2>1, <2>2, SumChanges
<1>6. SumFunction(Totals(c))
        = SumFunction(Totals(b)) + (x.TotalMarketValue - b[q].TotalMarketValue)
  <2>1. \A y \in {b, c} : /\ DOMAIN Totals(y) = D
                          /\ \A r \in D : Totals(y)[r] = y[r].TotalMarketValue
    BY <1>1 DEF Totals
  <2>2. Totals(b) \in [D -> Int] /\ Totals(c) \in [D -> Int]
    BY <1>1, <1>2, <1>3 DEF Totals
  <2> QED
    BY <1>1, <2>1, <2>2, SumChanges
<1> QED
  BY <1>4, <1>5, <1>6 DEF c

\* What one product does to its bucket.
LEMMA AddsToBucket ==
  ASSUME NEW bucket \in Bucket, NEW product, NEW values,
         product.ID \in DOMAIN values => values[product.ID].Market \in Int
  PROVE  LET next == AddTo(bucket, product, values)
             market == values[product.ID].Market
         IN  /\ next \in Bucket
             /\ next.ProductCount = bucket.ProductCount + 1
             /\ product.ID \notin DOMAIN values =>
                  /\ next.MarketCardCount = bucket.MarketCardCount
                  /\ next.TotalMarketValue = bucket.TotalMarketValue
                  /\ next.HighestMarketValue = bucket.HighestMarketValue
             /\ product.ID \in DOMAIN values =>
                  /\ next.MarketCardCount = bucket.MarketCardCount + 1
                  /\ next.TotalMarketValue = bucket.TotalMarketValue + market
                  /\ next.HighestMarketValue =
                       IF bucket.HighestMarketValue = Nil \/ market > bucket.HighestMarketValue
                       THEN market ELSE bucket.HighestMarketValue
<1> DEFINE market == values[product.ID].Market
           counted == [bucket EXCEPT !.ProductCount = bucket.ProductCount + 1]
           highest == IF bucket.HighestMarketValue = Nil \/ market > bucket.HighestMarketValue
                      THEN market ELSE bucket.HighestMarketValue
           paid == [counted EXCEPT !.MarketCardCount = bucket.MarketCardCount + 1,
                                   !.TotalMarketValue = bucket.TotalMarketValue + market,
                                   !.HighestMarketValue = highest]
           next == AddTo(bucket, product, values)
<1>1. /\ bucket.ProductCount \in Nat /\ bucket.MarketCardCount \in Nat
      /\ bucket.TotalMarketValue \in Int /\ bucket.HighestMarketValue \in Int \cup {Nil}
  BY DEF Bucket
<1>2. /\ counted \in Bucket
      /\ counted.ProductCount = bucket.ProductCount + 1
      /\ counted.MarketCardCount = bucket.MarketCardCount
      /\ counted.TotalMarketValue = bucket.TotalMarketValue
      /\ counted.HighestMarketValue = bucket.HighestMarketValue
  BY <1>1 DEF Bucket
<1>3. next = IF product.ID \notin DOMAIN values THEN counted ELSE paid
  BY <1>2 DEF AddTo
<1>4. CASE product.ID \notin DOMAIN values
  BY <1>2, <1>3, <1>4
<1>5. CASE product.ID \in DOMAIN values
  <2>1. market \in Int /\ highest \in Int
    BY <1>1, <1>5
  <2> HIDE DEF market, highest, counted
  <2>a. /\ bucket.MarketCardCount + 1 \in Nat /\ bucket.TotalMarketValue + market \in Int
        /\ highest \in Int \cup {Nil}
    BY <1>1, <2>1
  <2>2. /\ paid \in Bucket
        /\ paid.ProductCount = counted.ProductCount
        /\ paid.MarketCardCount = bucket.MarketCardCount + 1
        /\ paid.TotalMarketValue = bucket.TotalMarketValue + market
        /\ paid.HighestMarketValue = highest
    BY <1>2, <2>a DEF Bucket
  <2> QED
    BY <1>2, <1>3, <1>5, <2>2 DEF market, highest
<1> QED
  BY <1>4, <1>5

\* The highest price of a bucket stays that when a price is added.
LEMMA HighestKept ==
  ASSUME NEW products, NEW priced, NEW values, NEW n, NEW r, NEW bucket \in Bucket,
         NEW next \in Bucket, NEW market \in Int,
         \A i \in priced : MarketOf(products, values, i) \in Int,
         HasHighest(bucket, r, products, priced, values),
         RarityOf(products, n) = r, market = MarketOf(products, values, n),
         next.MarketCardCount = bucket.MarketCardCount + 1,
         next.HighestMarketValue =
           IF bucket.HighestMarketValue = Nil \/ market > bucket.HighestMarketValue
           THEN market ELSE bucket.HighestMarketValue
  PROVE  HasHighest(next, r, products, priced \cup {n}, values)
<1> DEFINE old == bucket.HighestMarketValue
           new == next.HighestMarketValue
<1>1. old \in Int \cup {Nil} /\ bucket.MarketCardCount \in Nat /\ market # Nil
  BY RequestsAssumption DEF Bucket
<1>2. OfRarity(products, priced \cup {n}, r) = OfRarity(products, priced, r) \cup {n}
  BY DEF OfRarity
<1>3. \A i \in OfRarity(products, priced, r) :
        /\ MarketOf(products, values, i) \in Int
        /\ old # Nil /\ MarketOf(products, values, i) <= old
  BY DEF OfRarity, HasHighest
<1>4. CASE old = Nil
  <2>1. new = market /\ OfRarity(products, priced, r) = {}
    BY <1>3, <1>4
  <2>2. OfRarity(products, priced \cup {n}, r) = {n}
    BY <1>2, <2>1
  <2>3. next.MarketCardCount > 0 /\ market <= new /\ new # Nil
    BY <1>1, <2>1
  <2> HIDE DEF new
  <2>4. next.HighestMarketValue = new /\ new = MarketOf(products, values, n)
    BY <2>1 DEF new
  <2> QED
    BY <2>1, <2>2, <2>3, <2>4 DEF HasHighest
<1>5. CASE old # Nil
  <2>1. PICK i \in OfRarity(products, priced, r) : old = MarketOf(products, values, i)
    BY <1>5 DEF HasHighest
  <2>2. old \in Int /\ new = IF market > old THEN market ELSE old
    BY <1>1, <1>5
  <2> HIDE DEF old, new
  <2>3. /\ new \in Int /\ new # Nil /\ market <= new /\ old <= new
        /\ new = MarketOf(products, values, n) \/ new = MarketOf(products, values, i)
    BY <1>1, <2>1, <2>2, RequestsAssumption
  <2>4. \A j \in OfRarity(products, priced, r) : MarketOf(products, values, j) <= new
    BY <1>3, <2>2, <2>3
  <2> QED
    BY <1>1, <1>2, <2>1, <2>3, <2>4 DEF HasHighest, new
<1> QED
  BY <1>4, <1>5

\* The products that were kept among the first n.
KeptUpTo(kept, n) == {i \in kept : i <= n}

LEMMA TurnAdds ==
  ASSUME NEW products, NEW kept, NEW values, AreKept(products, kept, values),
         NEW n \in 1..Len(products), NEW buckets, NEW total,
         HasAdded(buckets, total, KeptUpTo(kept, n - 1), products, kept, values)
  PROVE  HasAdded(AddProduct(buckets, n, products, kept, values),
                  AddMarket(total, n, products, ValuedPlaces(products, kept, values), values),
                  KeptUpTo(kept, n), products, kept, values)
<1> DEFINE rarities == Rarities(products, kept)
           before == KeptUpTo(kept, n - 1)
           taken == KeptUpTo(kept, n)
           old == ValuedPlaces(products, before, values)
           priced == ValuedPlaces(products, taken, values)
           next == AddProduct(buckets, n, products, kept, values)
           sum == AddMarket(total, n, products, ValuedPlaces(products, kept, values), values)
<1>0. Len(products) \in Nat /\ kept \in SUBSET (1..Len(products))
  BY DEF AreKept, AreProducts
<1>1. /\ IsFiniteSet(before) /\ n \notin before /\ IsFiniteSet(old) /\ n \notin old
      /\ IsFiniteSet(rarities)
  <2>1. IsFiniteSet(kept) /\ before \in SUBSET kept /\ old \in SUBSET before
    BY KeptAreFinite DEF KeptUpTo, ValuedPlaces
  <2>2. n \notin before
    BY DEF KeptUpTo
  <2> HIDE DEF before, old
  <2> QED
    BY <2>1, <2>2, KeptAreFinite, FS_Subset
<1>2. taken = IF n \in kept THEN before \cup {n} ELSE before
  <2>1. \A i \in kept : i <= n <=> i <= n - 1 \/ i = n
    BY <1>0
  <2> QED
    BY <2>1 DEF KeptUpTo
<1>3. priced = IF n \in ValuedPlaces(products, kept, values) THEN old \cup {n} ELSE old
  BY <1>2 DEF ValuedPlaces
<1>4. /\ buckets \in [rarities -> Bucket] /\ DOMAIN buckets = rarities
      /\ SumFunction(Products(buckets)) = Cardinality(before)
      /\ SumFunction(Cards(buckets)) = Cardinality(old)
      /\ total \in Int /\ SumFunction(Totals(buckets)) = total
      /\ \A r \in rarities : HasHighest(buckets[r], r, products, old, values)
  BY DEF HasAdded
<1>5. Cardinality(before) \in Nat /\ Cardinality(old) \in Nat
  BY <1>1, FS_CardinalityType
<1>6. \A i \in old : MarketOf(products, values, i) \in Int
  BY DEF AreKept, ValuedPlaces, KeptUpTo
<1>7. CASE n \notin kept
  <2>1. n \notin ValuedPlaces(products, kept, values)
    BY <1>7 DEF ValuedPlaces
  <2>2. next = buckets /\ sum = total /\ taken = before
    BY <1>2, <1>7, <2>1 DEF AddProduct, AddMarket
  <2> QED
    BY <2>2
<1>8. CASE n \in kept
  <2> DEFINE q == RarityOf(products, n)
             x == AddTo(buckets[q], products[n], values)
             market == MarketOf(products, values, n)
  <2>1. q \in rarities /\ buckets[q] \in Bucket
    BY <1>4, <1>8 DEF Rarities
  <2>2. next = [buckets EXCEPT ![q] = x] /\ taken = before \cup {n}
    BY <1>2, <1>8 DEF AddProduct
  <2>3. products[n].ID \in DOMAIN values <=> n \in ValuedPlaces(products, kept, values)
    BY <1>8 DEF ValuedPlaces
  <2>4. market = values[products[n].ID].Market
    BY DEF MarketOf
  <2>5. products[n].ID \in DOMAIN values => market \in Int
    BY <2>3 DEF AreKept
  <2> HIDE DEF next, q, sum
  <2>6. /\ x \in Bucket /\ x.ProductCount = buckets[q].ProductCount + 1
        /\ products[n].ID \notin DOMAIN values =>
             /\ x.MarketCardCount = buckets[q].MarketCardCount
             /\ x.TotalMarketValue = buckets[q].TotalMarketValue
             /\ x.HighestMarketValue = buckets[q].HighestMarketValue
        /\ products[n].ID \in DOMAIN values =>
             /\ x.MarketCardCount = buckets[q].MarketCardCount + 1
             /\ x.TotalMarketValue = buckets[q].TotalMarketValue + market
             /\ x.HighestMarketValue =
                  IF \/ buckets[q].HighestMarketValue = Nil
                     \/ market > buckets[q].HighestMarketValue
                  THEN market ELSE buckets[q].HighestMarketValue
    BY <2>1, <2>4, <2>5, AddsToBucket
  <2> HIDE DEF x, market
  <2>7. /\ next \in [rarities -> Bucket] /\ next[q] = x
        /\ \A r \in rarities : r # q => next[r] = buckets[r]
    BY <1>4, <2>1, <2>2, <2>6
  <2> HIDE DEF rarities, before, old
  <2>8. /\ SumFunction(Products(next))
             = Cardinality(before) + (x.ProductCount - buckets[q].ProductCount)
        /\ SumFunction(Cards(next))
             = Cardinality(old) + (x.MarketCardCount - buckets[q].MarketCardCount)
        /\ SumFunction(Totals(next))
             = total + (x.TotalMarketValue - buckets[q].TotalMarketValue)
    <3> DEFINE c == [buckets EXCEPT ![q] = x]
    <3>1. /\ SumFunction(Products(c))
               = SumFunction(Products(buckets)) + (x.ProductCount - buckets[q].ProductCount)
          /\ SumFunction(Cards(c))
               = SumFunction(Cards(buckets)) + (x.MarketCardCount - buckets[q].MarketCardCount)
          /\ SumFunction(Totals(c))
               = SumFunction(Totals(buckets)) + (x.TotalMarketValue - buckets[q].TotalMarketValue)
      BY <1>1, <1>4, <2>1, <2>6, SumsOfColumns, Zenon
    <3> HIDE DEF c
    <3>2. next = c
      BY <2>2 DEF c
    <3> QED
      BY <1>4, <3>1, <3>2
  <2>9. /\ buckets[q].ProductCount \in Int /\ buckets[q].MarketCardCount \in Int
        /\ buckets[q].TotalMarketValue \in Int
    BY <2>1 DEF Bucket
  <2>10. Cardinality(taken) = Cardinality(before) + 1
    BY <1>1, <2>2, FS_AddElement
  <2>11. SumFunction(Products(next)) = Cardinality(taken)
    BY <1>5, <2>6, <2>8, <2>9, <2>10
  <2>12. CASE products[n].ID \notin DOMAIN values
    <3>1. priced = old /\ sum = total
      BY <1>3, <2>3, <2>12 DEF AddMarket, sum
    <3>2. SumFunction(Cards(next)) = Cardinality(priced) /\ SumFunction(Totals(next)) = sum
      BY <1>4, <1>5, <2>6, <2>8, <2>9, <2>12, <3>1
    <3>3. HasHighest(x, q, products, old, values)
      <4>1. HasHighest(buckets[q], q, products, old, values)
        BY <1>4, <2>1
      <4> QED
        BY <2>6, <2>12, <4>1, Zenon DEF HasHighest
    <3>4. \A r \in rarities : HasHighest(next[r], r, products, priced, values)
      BY <1>4, <2>7, <3>1, <3>3, Zenon
    <3> QED
      BY <1>4, <2>7, <2>11, <3>1, <3>2, <3>4 DEF HasAdded, next, sum, rarities
  <2>13. CASE products[n].ID \in DOMAIN values
    <3>1. priced = old \cup {n} /\ sum = total + market /\ market \in Int
      BY <1>3, <2>3, <2>5, <2>13 DEF AddMarket, sum, market
    <3>2. Cardinality(priced) = Cardinality(old) + 1
      BY <1>1, <3>1, FS_AddElement
    <3>3. SumFunction(Cards(next)) = Cardinality(priced) /\ SumFunction(Totals(next)) = sum
      BY <1>4, <1>5, <2>6, <2>8, <2>9, <2>13, <3>1, <3>2
    <3> HIDE DEF priced
    <3>4. HasHighest(x, q, products, priced, values)
      <4>1. HasHighest(buckets[q], q, products, old, values) /\ RarityOf(products, n) = q
        BY <1>4, <2>1 DEF q
      <4> QED
        <5>1. market = MarketOf(products, values, n)
          BY DEF market
        <5>2. HasHighest(x, q, products, old \cup {n}, values)
          BY <1>6, <2>1, <2>6, <2>13, <3>1, <4>1, <5>1, HighestKept
        <5> QED
          BY <3>1, <5>2
    <3>5. ASSUME NEW r \in rarities, r # q
          PROVE  HasHighest(next[r], r, products, priced, values)
      <4>1. OfRarity(products, priced, r) = OfRarity(products, old, r)
        BY <3>1, <3>5 DEF OfRarity, q
      <4>2. HasHighest(buckets[r], r, products, old, values) /\ next[r] = buckets[r]
        BY <1>4, <2>7, <3>5
      <4> QED
        BY <4>1, <4>2, Zenon DEF HasHighest
    <3>6. \A r \in rarities : HasHighest(next[r], r, products, priced, values)
      BY <2>7, <3>4, <3>5
    <3>7. sum \in Int
      BY <1>4, <3>1
    <3> QED
      BY <2>7, <2>11, <3>3, <3>6, <3>7 DEF HasAdded, next, sum, rarities, priced
  <2> QED
    BY <2>12, <2>13
<1> QED
  BY <1>7, <1>8

\* The invariant of the two loops, which run side by side.
LEMMA LoopsAdd ==
  ASSUME NEW products, NEW kept, NEW values, AreKept(products, kept, values)
  PROVE  HasAdded(summarizeRarities(products, kept, values),
                  MarketSums(products, ValuedPlaces(products, kept, values), values)[Len(products)],
                  kept, products, kept, values)
<1> DEFINE f == Buckets(products, kept, values)
           places == ValuedPlaces(products, kept, values)
           g == MarketSums(products, places, values)
           Holds(m) == HasAdded(f[m], g[m], KeptUpTo(kept, m), products, kept, values)
           Fails == {m \in Nat : m <= Len(products) /\ ~Holds(m)}
<1>0. Len(products) \in Nat /\ kept \in SUBSET (1..Len(products))
  BY DEF AreKept, AreProducts
<1>a. \A i \in kept : i \in Int /\ 1 <= i /\ ~(i <= 0) /\ i <= Len(products)
  BY <1>0
<1>1. /\ f[0] = [r \in Rarities(products, kept) |-> NoProducts] /\ g[0] = 0
      /\ \A m \in 1..Len(products) : /\ f[m] = AddProduct(f[m - 1], m, products, kept, values)
                                     /\ g[m] = AddMarket(g[m - 1], m, products, places, values)
  BY <1>0, BucketTurns, SumTurns
<1> HIDE DEF f, g
<1>2. Holds(0)
  <2>1. KeptUpTo(kept, 0) = {}
    BY <1>a DEF KeptUpTo
  <2>2. HasAdded(f[0], g[0], {}, products, kept, values)
    <3>1. HasAdded([r \in Rarities(products, kept) |-> NoProducts], 0, {},
                   products, kept, values)
      BY NoneAdded
    <3> QED
      BY <1>1, <3>1, Zenon
  <2> QED
    BY <2>1, <2>2, Zenon
<1>3. ASSUME NEW m \in 1..Len(products), Holds(m - 1) PROVE Holds(m)
  BY <1>1, <1>3, TurnAdds
<1> HIDE DEF Holds
<1>4. Fails = {}
  <2> SUFFICES ASSUME Fails # {} PROVE FALSE
    OBVIOUS
  <2>1. PICK m \in Fails : \A k \in Fails : m <= k
    BY Least
  <2>2. m # 0
    BY <1>2, <2>1
  <2>3. m \in 1..Len(products) /\ m - 1 \in Nat /\ m - 1 <= Len(products) /\ m - 1 \notin Fails
    BY <1>0, <2>1, <2>2
  <2> QED
    BY <1>3, <2>1, <2>3
<1>5. Holds(Len(products))
  BY <1>0, <1>4
<1>6. KeptUpTo(kept, Len(products)) = kept
  BY <1>a DEF KeptUpTo
<1> QED
  BY <1>5, <1>6 DEF Holds, f, g, summarizeRarities

-----------------------------------------------------------------------------
(* Set insights: what an answer is made of. *)

ProductsOf(docs) == SetProducts(docs.products)
ValuesOf(docs)   == buildProductValueMap(SetPricing(docs.pricing, Nil).Prices)
KindsOf(docs)    == classifyProducts(ProductsOf(docs))
TopNOf(asked)    == IF asked.TopN <= 0 THEN DefaultTopN ELSE asked.TopN
FilterOf(asked)  == IF asked.ProductKindFilter = "" THEN "all" ELSE asked.ProductKindFilter

KeptOf(docs, asked) ==
  {i \in DOMAIN ProductsOf(docs) :
     /\ FilterOf(asked) = "single_like" =>
          KindsOf(docs)[ProductsOf(docs)[i].ID] = "single_like"
     /\ asked.MinMarketPrice # Nil =>
          /\ ProductsOf(docs)[i].ID \in DOMAIN ValuesOf(docs)
          /\ ValuesOf(docs)[ProductsOf(docs)[i].ID].Market >= asked.MinMarketPrice}

TopOf(docs, asked) ==
  buildTopCards(ProductsOf(docs), KeptOf(docs, asked), ValuesOf(docs), KindsOf(docs),
                TopNOf(asked))

\* The options an answer is made with are those that were asked for, the absent ones
\* filled in.
LEMMA OptionsOf ==
  ASSUME NEW asked \in InsightsOptions, normalizeSetInsightsOptions(asked) # Error
  PROVE  LET options == normalizeSetInsightsOptions(asked)
         IN  /\ options.TopN = TopNOf(asked) /\ TopNOf(asked) \in Nat \ {0}
             /\ options.ProductKindFilter = FilterOf(asked)
             /\ options.MinMarketPrice = asked.MinMarketPrice
<1>1. asked.TopN \in Int /\ asked.TopN = asked.TopN
  BY DEF InsightsOptions
<1>2. TopNOf(asked) \in Nat \ {0}
  BY <1>1, InsightsAssumption DEF TopNOf
<1>3. normalizeSetInsightsOptions(asked)
        = [asked EXCEPT !.ProductKindFilter = FilterOf(asked), !.TopN = TopNOf(asked)]
  BY DEF normalizeSetInsightsOptions, FilterOf, TopNOf, InsightsOptions
<1> QED
  BY <1>2, <1>3 DEF InsightsOptions

\* What the whole answer says of the set.
IsAnalysis(value, docs, asked) ==
  /\ value.rarity_breakdown =
       summarizeRarities(ProductsOf(docs), KeptOf(docs, asked), ValuesOf(docs))
  /\ value.top_market_cards = TopOf(docs, asked).cards
  /\ value.market_sum_estimate = TopOf(docs, asked).sum
  /\ value.highest_value_rarity = highestValueRarity(TopOf(docs, asked).cards)
  /\ value.numbering_summary = summarizeNumbering(ProductsOf(docs))
  /\ value.NumberedCardLikeCount = countNumberedCardLike(ProductsOf(docs))
  /\ value.ProductCountTotal = Len(ProductsOf(docs))

LEMMA AnalysisOf ==
  ASSUME NEW docs, NEW setID, NEW asked \in InsightsOptions,
         AnalyzeSetInsights(docs, setID, asked) # Error
  PROVE  /\ TopNOf(asked) \in Nat \ {0}
         /\ IsAnalysis(newAnalyzeSetInsightsOutput(AnalyzeSetInsights(docs, setID, asked),
                                                   parseAnalyzeSetInsightsFields(Nil)),
                       docs, asked)
<1> DEFINE options == normalizeSetInsightsOptions(asked)
           sets == mapSets(docs.sets)
           found == {i \in DOMAIN sets : sets[i].ID = setID}
           kept == filterInsightProducts(ProductsOf(docs), ValuesOf(docs), KindsOf(docs), options)
           top == buildTopCards(ProductsOf(docs), kept, ValuesOf(docs), KindsOf(docs), options.TopN)
           rarities == summarizeRarities(ProductsOf(docs), kept, ValuesOf(docs))
           rec == [Set                   |-> sets[Min(found)],
                   ProductCountTotal     |-> Len(ProductsOf(docs)),
                   NumberedCardLikeCount |-> countNumberedCardLike(ProductsOf(docs)),
                   numbering_summary     |-> summarizeNumbering(ProductsOf(docs)),
                   rarity_breakdown      |-> rarities,
                   PricingUpdatedAt      |-> SetPricing(docs.pricing, Nil).UpdatedAt,
                   SKUUpdatedAt          |-> SetSKUs(docs.skus, Nil).UpdatedAt,
                   top_market_cards      |-> top.cards,
                   highest_value_rarity  |-> highestValueRarity(top.cards),
                   market_sum_estimate   |-> top.sum,
                   heuristic_notes       |-> "notes",
                   ProductKindFilterApplied |-> options.ProductKindFilter,
                   MinMarketPriceApplied    |-> options.MinMarketPrice]
           shown == (DOMAIN rec \ supportedFields) \cup (supportedFields \ {"heuristic_notes"})
<1>1. AnalyzeSetInsights(docs, setID, asked) =
        IF options = Error \/ found = {} THEN Error ELSE rec
  BY Zenon DEF AnalyzeSetInsights, ProductsOf, ValuesOf, KindsOf
<1>2. options # Error /\ AnalyzeSetInsights(docs, setID, asked) = rec
  BY <1>1, Zenon
<1>3. /\ options.TopN = TopNOf(asked) /\ TopNOf(asked) \in Nat \ {0}
      /\ options.ProductKindFilter = FilterOf(asked)
      /\ options.MinMarketPrice = asked.MinMarketPrice
  BY <1>2, OptionsOf, Zenon
<1>4. kept = KeptOf(docs, asked)
  BY <1>3, Zenon DEF filterInsightProducts, matchesProductKindFilter, KeptOf
<1>5. top = TopOf(docs, asked)
  BY <1>3, <1>4, Zenon DEF TopOf
<1>6. parseAnalyzeSetInsightsFields(Nil) = supportedFields \ {"heuristic_notes"}
  BY Zenon DEF parseAnalyzeSetInsightsFields
<1>7. newAnalyzeSetInsightsOutput(rec, parseAnalyzeSetInsightsFields(Nil))
        = [name \in shown |-> rec[name]]
  BY <1>6, Zenon DEF newAnalyzeSetInsightsOutput
<1> DEFINE fields == {"rarity_breakdown", "top_market_cards", "market_sum_estimate",
                      "highest_value_rarity", "numbering_summary", "NumberedCardLikeCount",
                      "ProductCountTotal"}
<1>8. fields \subseteq shown
  <2>1. {"NumberedCardLikeCount", "ProductCountTotal"} \subseteq DOMAIN rec \ supportedFields
    BY DEF supportedFields
  <2> QED
    BY <2>1 DEF supportedFields
<1> HIDE DEF options, sets, found, kept, top, rarities
<1>9. /\ rec.rarity_breakdown = rarities /\ rec.top_market_cards = top.cards
      /\ rec.market_sum_estimate = top.sum
      /\ rec.highest_value_rarity = highestValueRarity(top.cards)
      /\ rec.numbering_summary = summarizeNumbering(ProductsOf(docs))
      /\ rec.NumberedCardLikeCount = countNumberedCardLike(ProductsOf(docs))
      /\ rec.ProductCountTotal = Len(ProductsOf(docs))
  OBVIOUS
<1> HIDE DEF rec, shown
<1> DEFINE output == [name \in shown |-> rec[name]]
<1>10. \A name \in fields : output[name] = rec[name]
  BY <1>8
<1> HIDE DEF output
<1>11. /\ output.rarity_breakdown = rec.rarity_breakdown
       /\ output.top_market_cards = rec.top_market_cards
       /\ output.market_sum_estimate = rec.market_sum_estimate
       /\ output.highest_value_rarity = rec.highest_value_rarity
       /\ output.numbering_summary = rec.numbering_summary
       /\ output.NumberedCardLikeCount = rec.NumberedCardLikeCount
       /\ output.ProductCountTotal = rec.ProductCountTotal
  BY <1>10
<1>12. IsAnalysis(output, docs, asked)
  BY <1>4, <1>5, <1>9, <1>11 DEF IsAnalysis, rarities
<1> QED
  BY <1>2, <1>3, <1>7, <1>12, Zenon DEF output

-----------------------------------------------------------------------------
(* Set insights: the top cards. *)

LEMMA OrderOfValues ==
  ASSUME NEW products, NEW kept, NEW values, AreKept(products, kept, values)
  PROVE  LET places == ValuedPlaces(products, kept, values)
         IN  Orders(ValueOrder(products, places, values), places)
<1> DEFINE places == ValuedPlaces(products, kept, values)
           before == ValueOrder(products, places, values)
           market == [i \in places |-> MarketOf(products, values, i)]
           name == [i \in places |-> products[i].Name]
           id == [i \in places |-> products[i].ID]
           Earlier(i, j) == \/ market[i] > market[j]
                            \/ /\ market[i] = market[j]
                               /\ \/ name[i] < name[j]
                                  \/ /\ name[i] = name[j]
                                     /\ id[i] < id[j] \/ (id[i] = id[j] /\ i < j)
<1>1. /\ places \in SUBSET DOMAIN products /\ IsFiniteSet(places)
      /\ \A i \in places : /\ i \in Int /\ market[i] \in Int /\ name[i] \in Int /\ id[i] \in Int
  <2>1. places \in SUBSET kept /\ kept \in SUBSET DOMAIN products /\ IsFiniteSet(places)
    BY KeptAreFinite DEF ValuedPlaces, AreKept
  <2>2. \A i \in places : /\ MarketOf(products, values, i) \in Int
                          /\ i \in Int /\ products[i].Name \in Int /\ products[i].ID \in Int
    BY <2>1 DEF AreKept, AreProducts
  <2> QED
    BY <2>1, <2>2
<1>2. \A i, j \in places : <<i, j>> \in before <=> Precedes(i, j, products, values)
  BY DEF ValueOrder
<1>3. \A i, j \in places : Precedes(i, j, products, values) <=> Earlier(i, j)
  BY DEF Precedes, MarketOf
<1> HIDE DEF places, before, market, name, id
<1>4. \A i, j \in places : <<i, j>> \in before <=> Earlier(i, j)
  BY <1>2, <1>3
<1>5. \A i \in places : <<i, i>> \notin before
  BY <1>1, <1>4
<1>6. \A i, j \in places : i # j => <<i, j>> \in before \/ <<j, i>> \in before
  <2>1. \A i, j \in places : i # j => Earlier(i, j) \/ Earlier(j, i)
    BY <1>1
  <2> QED
    BY <1>4, <2>1
<1>7. \A i, j, k \in places : <<i, j>> \in before /\ <<j, k>> \in before => <<i, k>> \in before
  <2>1. \A i, j, k \in places : Earlier(i, j) /\ Earlier(j, k) => Earlier(i, k)
    BY <1>1
  <2> QED
    BY <1>4, <2>1
<1> QED
  BY <1>1, <1>5, <1>6, <1>7 DEF Orders, places, before

\* The smaller of two numbers.
LEMMA MinOfTwo ==
  ASSUME NEW m \in Int, NEW n \in Int
  PROVE  Min({m, n}) = IF m <= n THEN m ELSE n
<1>1. \E x \in {m, n} : \A y \in {m, n} : x <= y
  OBVIOUS
<1>2. Min({m, n}) \in {m, n} /\ \A y \in {m, n} : Min({m, n}) <= y
  BY <1>1, Zenon DEF Min
<1> QED
  BY <1>2

\* The cards are made of as many places as were asked for or as there are, of different
\* ones, and no place that is left out is worth more.
AreTop(cards, places, products, values, kinds, topN) ==
  \E order :
    LET c == Cardinality(places)
        k == IF topN <= c THEN topN ELSE c
    IN  /\ c \in Nat /\ Len(cards) = k /\ DOMAIN cards = 1..k
        /\ \A n \in 1..c : order[n] \in places
        /\ \A x \in places : \E n \in 1..c : order[n] = x
        /\ \A m, n \in 1..c : m < n =>
             /\ order[m] # order[n]
             /\ MarketOf(products, values, order[n]) <= MarketOf(products, values, order[m])
        /\ \A n \in 1..k : cards[n] = TopMarketCard(products[order[n]], values, kinds)

LEMMA CardsAreTop ==
  ASSUME NEW products, NEW kept, NEW values, AreKept(products, kept, values),
         NEW kinds, NEW topN \in Nat
  PROVE  AreTop(buildTopCards(products, kept, values, kinds, topN).cards,
                ValuedPlaces(products, kept, values), products, values, kinds, topN)
<1> DEFINE places == ValuedPlaces(products, kept, values)
           before == ValueOrder(products, places, values)
           order == InOrder(places, before)
           c == Cardinality(places)
           k == IF topN <= c THEN topN ELSE c
           cards == [n \in 1..k |-> TopMarketCard(products[order[n]], values, kinds)]
<1>1. Orders(before, places) /\ Sorts(order, places, before)
  BY OrderOfValues, PlacesInOrder
<1>2. c \in Nat /\ k \in Nat /\ Min({topN, c}) = k
  <2>1. c \in Nat
    BY <1>1 DEF Sorts
  <2> QED
    BY <2>1, MinOfTwo
<1>3. buildTopCards(products, kept, values, kinds, topN).cards = cards
  BY <1>2 DEF buildTopCards
<1>4. \A i \in places : MarketOf(products, values, i) \in Int
  BY DEF AreKept
<1>5. \A i, j \in places : <<i, j>> \in before =>
        i # j /\ MarketOf(products, values, j) <= MarketOf(products, values, i)
  <2>1. ASSUME NEW i \in places, NEW j \in places, <<i, j>> \in before
        PROVE  i # j /\ MarketOf(products, values, j) <= MarketOf(products, values, i)
    <3>1. i # j
      BY <1>1, <2>1 DEF Orders
    <3>2. Precedes(i, j, products, values)
      BY <2>1 DEF ValueOrder
    <3>3. MarketOf(products, values, i) > MarketOf(products, values, j)
            \/ MarketOf(products, values, i) = MarketOf(products, values, j)
      BY <3>2 DEF Precedes, MarketOf
    <3> QED
      BY <1>4, <3>1, <3>3
  <2> QED
    BY <2>1
<1> HIDE DEF places, before, order
<1>6. /\ \A n \in 1..c : order[n] \in places
      /\ \A x \in places : \E n \in 1..c : order[n] = x
      /\ \A m, n \in 1..c : m < n => <<order[m], order[n]>> \in before
  BY <1>1 DEF Sorts
<1>7. \A m, n \in 1..c : m < n =>
        /\ order[m] # order[n]
        /\ MarketOf(products, values, order[n]) <= MarketOf(products, values, order[m])
  BY <1>5, <1>6
<1> HIDE DEF c, k
<1>8. DOMAIN cards = 1..k
      /\ \A n \in 1..k : cards[n] = TopMarketCard(products[order[n]], values, kinds)
  OBVIOUS
<1> HIDE DEF cards
<1>9. Len(cards) = k
  BY <1>2, <1>8
<1>10. AreTop(cards, places, products, values, kinds, topN)
  BY <1>2, <1>6, <1>7, <1>8, <1>9 DEF AreTop, c, k
<1> QED
  BY <1>3, <1>10 DEF places

-----------------------------------------------------------------------------
(* Set insights: the sections of an answer. *)

\* The documents of a request for insights.
AreInsightDocs(docs) ==
  ArePrices(docs.pricing.prices) /\ docs.products.products \in Seq(ProductType)

LEMMA KeptAreKept ==
  ASSUME NEW docs, AreInsightDocs(docs), NEW asked
  PROVE  AreKept(ProductsOf(docs), KeptOf(docs, asked), ValuesOf(docs))
<1>1. AreProducts(ProductsOf(docs))
  BY ListedProducts DEF AreInsightDocs, ProductsOf
<1>2. \A id \in DOMAIN ValuesOf(docs) :
        PricedFrom(docs.pricing.prices, id, ValuesOf(docs)[id])
  BY ValuesArePriced, Zenon DEF AreInsightDocs, ValuesOf
<1>3. \A id \in DOMAIN ValuesOf(docs) : ValuesOf(docs)[id].Market \in Int
  BY <1>2, Zenon DEF PricedFrom
<1>4. KeptOf(docs, asked) \in SUBSET DOMAIN ProductsOf(docs)
  BY DEF KeptOf
<1> QED
  BY <1>1, <1>3, <1>4 DEF AreKept, ValuedPlaces, MarketOf

\* What an answer of the tool is.
LEMMA InsightsAreComputed ==
  ASSUME Computed, Insights
  PROVE  /\ AreInsightDocs(request.docs)
         /\ TopNOf(request.options) \in Nat \ {0}
         /\ IsAnalysis(answer, request.docs, request.options)
         /\ AreKept(ProductsOf(request.docs), KeptOf(request.docs, request.options),
                    ValuesOf(request.docs))
<1> DEFINE insights == AnalyzeSetInsights(request.docs, request.setID, request.options)
           selection == parseAnalyzeSetInsightsFields(request.fields)
<1>1. /\ request \in Requests /\ request.op = "insights" /\ request.fields = Nil
      /\ answer # NoAnswer /\ answer # Error
  BY DEF Computed, Insights, Answered
<1>2. AreInsightDocs(request.docs) /\ request.options \in InsightsOptions
  BY <1>1, RequestsAssumption DEF AreInsightDocs
<1>3. answer = IF Error \in {selection, insights} THEN Error
               ELSE newAnalyzeSetInsightsOutput(insights, selection)
  BY <1>1, Zenon DEF Computed
<1>4. insights # Error /\ answer = newAnalyzeSetInsightsOutput(insights, selection)
  <2> HIDE DEF insights, selection
  <2> QED
    BY <1>1, <1>3
<1>5. /\ TopNOf(request.options) \in Nat \ {0}
      /\ IsAnalysis(answer, request.docs, request.options)
  BY <1>1, <1>2, <1>4, AnalysisOf, Zenon
<1> QED
  BY <1>2, <1>5, KeptAreKept, Zenon

\* The largest of some numbers.
LEMMA MaxIs ==
  ASSUME NEW S \in SUBSET Int, NEW x \in S, \A y \in S : y <= x
  PROVE  Max(S) = x
<1>1. Max(S) \in S /\ \A y \in S : Max(S) >= y
  <2>1. \A y \in S : x >= y
    OBVIOUS
  <2> QED
    BY <2>1, Zenon DEF Max
<1> DEFINE m == Max(S)
<1>2. m \in Int /\ x \in Int /\ m <= x /\ m >= x
  BY <1>1
<1> HIDE DEF m
<1>3. m = x
  BY <1>2
<1> QED
  BY <1>3 DEF m

LEMMA UpTo ==
  ASSUME NEW n \in Nat
  PROVE  IsFiniteSet(1..n) /\ Cardinality(1..n) = n
BY FS_Interval

\* The sections of one answer, which are computed in loops of their own.
Agrees(rarities, cards, sum, products, numbering, cardLike) ==
  LET valued == {r \in DOMAIN rarities : Valued(rarities[r])}
  IN  /\ sum = SumFunction(Totals(rarities))
      /\ (cards = <<>>) = (valued = {})
      /\ cards # <<>> =>
           /\ cards[1].MarketPrice = Max({rarities[r].HighestMarketValue : r \in valued})
           /\ cards[1].MarketPrice = rarities[cards[1].Rarity].HighestMarketValue
      /\ Len(cards) <= SumFunction(Cards(rarities))
      /\ SumFunction(Products(rarities)) <= Len(products)
      /\ numbering.NumberedProducts <= cardLike

LEMMA LoopsAgree ==
  ASSUME NEW products, NEW kept, NEW values, AreKept(products, kept, values),
         NEW kinds, NEW topN \in Nat \ {0}
  PROVE  Agrees(summarizeRarities(products, kept, values),
                buildTopCards(products, kept, values, kinds, topN).cards,
                buildTopCards(products, kept, values, kinds, topN).sum,
                products, summarizeNumbering(products), countNumberedCardLike(products))
<1> DEFINE rarities == summarizeRarities(products, kept, values)
           cards == buildTopCards(products, kept, values, kinds, topN).cards
           sum == buildTopCards(products, kept, values, kinds, topN).sum
           places == ValuedPlaces(products, kept, values)
           valued == {r \in DOMAIN rarities : Valued(rarities[r])}
           c == Cardinality(places)
           k == IF topN <= c THEN topN ELSE c
<1>0. /\ Len(products) \in Nat /\ DOMAIN products = 1..Len(products)
      /\ kept \in SUBSET (1..Len(products))
  BY DEF AreKept, AreProducts
<1>1. sum = MarketSums(products, places, values)[Len(products)]
  BY DEF buildTopCards
<1>2. HasAdded(rarities, sum, kept, products, kept, values)
  BY <1>1, LoopsAdd
<1>3. AreTop(cards, places, products, values, kinds, topN)
  BY CardsAreTop
<1> HIDE DEF rarities, cards, sum
<1>4. /\ rarities \in [Rarities(products, kept) -> Bucket]
      /\ DOMAIN rarities = Rarities(products, kept)
      /\ SumFunction(Products(rarities)) = Cardinality(kept)
      /\ SumFunction(Cards(rarities)) = c
      /\ SumFunction(Totals(rarities)) = sum
      /\ \A r \in Rarities(products, kept) :
           HasHighest(rarities[r], r, products, places, values)
  BY <1>2 DEF HasAdded
<1>5. PICK order :
        /\ c \in Nat /\ Len(cards) = k /\ DOMAIN cards = 1..k
        /\ \A n \in 1..c : order[n] \in places
        /\ \A x \in places : \E n \in 1..c : order[n] = x
        /\ \A m, n \in 1..c : m < n =>
             /\ order[m] # order[n]
             /\ MarketOf(products, values, order[n]) <= MarketOf(products, values, order[m])
        /\ \A n \in 1..k : cards[n] = TopMarketCard(products[order[n]], values, kinds)
  BY <1>3 DEF AreTop
<1>6. \A i \in places : MarketOf(products, values, i) \in Int /\ i \in kept
  BY DEF AreKept, ValuedPlaces
<1>7. \A i \in places : /\ RarityOf(products, i) \in Rarities(products, kept)
                        /\ i \in OfRarity(products, places, RarityOf(products, i))
  BY <1>6 DEF Rarities, OfRarity
<1> HIDE DEF places
<1>8. Len(cards) <= SumFunction(Cards(rarities))
  BY <1>4, <1>5
<1>9. SumFunction(Products(rarities)) <= Len(products)
  <2>1. IsFiniteSet(1..Len(products)) /\ Cardinality(1..Len(products)) = Len(products)
    BY <1>0, UpTo, Zenon
  <2>2. Cardinality(kept) <= Cardinality(1..Len(products))
    BY <1>0, <2>1, FS_Subset, Zenon
  <2> QED
    BY <1>4, <2>1, <2>2, Zenon
<1>10. summarizeNumbering(products).NumberedProducts <= countNumberedCardLike(products)
  <2> DEFINE numbered == {i \in DOMAIN products : products[i].Number # ""}
             cardLike == {i \in DOMAIN products :
                            products[i].Number # "" \/ products[i].Rarity # ""}
  <2>1. IsFiniteSet(cardLike) /\ numbered \in SUBSET cardLike
    <3>1. IsFiniteSet(1..Len(products))
      BY <1>0, FS_Interval
    <3> QED
      BY <1>0, <3>1, FS_Subset
  <2>2. Cardinality(numbered) <= Cardinality(cardLike)
    BY <2>1, FS_Subset
  <2> QED
    BY <2>2 DEF summarizeNumbering, countNumberedCardLike
<1>11. \A r \in valued : \E i \in places :
         RarityOf(products, i) = r
           /\ rarities[r].HighestMarketValue = MarketOf(products, values, i)
  BY <1>4 DEF HasHighest, Valued, OfRarity
<1>12. \A i \in places :
         /\ RarityOf(products, i) \in valued
         /\ MarketOf(products, values, i)
              <= rarities[RarityOf(products, i)].HighestMarketValue
  BY <1>4, <1>7 DEF HasHighest, Valued
<1>13. (cards = <<>>) = (valued = {})
  <2>1. cards = <<>> <=> c = 0
    <3>1. cards = <<>> <=> k = 0
      <4>1. cards = <<>> => k = 0
        BY <1>5
      <4>2. k = 0 => cards = <<>>
        <5>1. buildTopCards(products, kept, values, kinds, topN).cards
                = [n \in 1..k |-> TopMarketCard(products[
                     InOrder(places, ValueOrder(products, places, values))[n]], values, kinds)]
          <6>1. Min({topN, c}) = k
            BY <1>5, MinOfTwo
          <6> QED
            BY <6>1 DEF buildTopCards, places
        <5> QED
          BY <5>1 DEF cards
      <4> QED
        BY <4>1, <4>2
    <3> QED
      BY <1>5, <3>1
  <2>2. places = {} <=> c = 0
    BY KeptAreFinite, FS_EmptySet DEF places
  <2>3. places = {} <=> valued = {}
    BY <1>11, <1>12
  <2> QED
    BY <2>1, <2>2, <2>3
<1>14. ASSUME cards # <<>>
       PROVE  /\ cards[1].MarketPrice = Max({rarities[r].HighestMarketValue : r \in valued})
              /\ cards[1].MarketPrice = rarities[cards[1].Rarity].HighestMarketValue
  <2> DEFINE first == order[1]
             price == MarketOf(products, values, first)
             highests == {rarities[r].HighestMarketValue : r \in valued}
  <2>1. c # 0 /\ 1 \in 1..c /\ 1 \in 1..k
    <3>1. places # {}
      BY <1>11, <1>13, <1>14
    <3>2. c # 0
      BY <3>1, KeptAreFinite, FS_EmptySet DEF places
    <3> QED
      BY <1>5, <3>2
  <2>2. first \in places /\ price \in Int
    BY <1>5, <1>6, <2>1
  <2>3. \A i \in places : MarketOf(products, values, i) <= price
    <3> SUFFICES ASSUME NEW i \in places PROVE MarketOf(products, values, i) <= price
      OBVIOUS
    <3>1. PICK n \in 1..c : order[n] = i
      BY <1>5
    <3>2. CASE n = 1
      BY <2>2, <3>1, <3>2
    <3>3. CASE n # 1
      <4>1. 1 < n
        BY <1>5, <3>3
      <4> QED
        BY <1>5, <2>1, <3>1, <4>1
    <3> QED
      BY <3>2, <3>3
  <2>4. cards[1].MarketPrice = price /\ cards[1].Rarity = RarityOf(products, first)
    <3>1. cards[1] = TopMarketCard(products[first], values, kinds)
      BY <1>5, <2>1
    <3> HIDE DEF first
    <3>2. /\ TopMarketCard(products[first], values, kinds).MarketPrice = price
          /\ TopMarketCard(products[first], values, kinds).Rarity = RarityOf(products, first)
      BY DEF TopMarketCard, MarketOf, RarityOf
    <3> QED
      BY <3>1, <3>2
  <2>5. highests \in SUBSET Int /\ \A y \in highests : y <= price
    <3>1. \A r \in valued : /\ rarities[r].HighestMarketValue \in Int
                            /\ rarities[r].HighestMarketValue <= price
      BY <1>6, <1>11, <2>3
    <3> QED
      BY <3>1
  <2>6. RarityOf(products, first) \in valued
        /\ rarities[RarityOf(products, first)].HighestMarketValue = price
    <3>1. /\ RarityOf(products, first) \in valued
          /\ price <= rarities[RarityOf(products, first)].HighestMarketValue
      BY <1>12, <2>2
    <3>2. rarities[RarityOf(products, first)].HighestMarketValue \in highests
      BY <3>1
    <3> DEFINE high == rarities[RarityOf(products, first)].HighestMarketValue
    <3> HIDE DEF highests, price, high
    <3>3. high \in Int /\ high <= price /\ price <= high
      BY <2>5, <3>1, <3>2 DEF high
    <3>4. high = price
      BY <2>2, <3>3
    <3> QED
      BY <3>1, <3>4 DEF high
  <2>7. price \in highests
    BY <2>6
  <2> HIDE DEF highests, price
  <2>8. Max(highests) = price
    BY <2>5, <2>7, MaxIs
  <2> QED
    BY <2>4, <2>6, <2>8 DEF highests
<1>15. sum = SumFunction(Totals(rarities))
  BY <1>4
<1>16. Agrees(rarities, cards, sum, products, summarizeNumbering(products),
              countNumberedCardLike(products))
  BY <1>8, <1>9, <1>10, <1>13, <1>14, <1>15 DEF Agrees
<1> QED
  BY <1>16 DEF rarities, cards, sum

\* The sections of a set summary never contradict each other, whatever the documents and
\* the options: each loop of the analysis adds up the same products.
THEOREM SectionsAgreeAlways == Spec => []SectionsAgree
<1>1. Computed => SectionsAgree
  <2> SUFFICES ASSUME Computed, Insights PROVE SectionsAgree
    BY DEF SectionsAgree
  <2> DEFINE docs == request.docs
             asked == request.options
             rarities == answer.rarity_breakdown
             cards == answer.top_market_cards
             valued == {r \in DOMAIN rarities : Valued(rarities[r])}
  <2>1. /\ TopNOf(asked) \in Nat \ {0} /\ IsAnalysis(answer, docs, asked)
        /\ AreKept(ProductsOf(docs), KeptOf(docs, asked), ValuesOf(docs))
    BY InsightsAreComputed
  <2>2. Agrees(rarities, cards, answer.market_sum_estimate, ProductsOf(docs),
               summarizeNumbering(ProductsOf(docs)), countNumberedCardLike(ProductsOf(docs)))
    BY <2>1, LoopsAgree DEF IsAnalysis, TopOf
  <2>3. /\ answer.highest_value_rarity = highestValueRarity(cards)
        /\ answer.numbering_summary = summarizeNumbering(ProductsOf(docs))
        /\ answer.NumberedCardLikeCount = countNumberedCardLike(ProductsOf(docs))
        /\ answer.ProductCountTotal = Len(ProductsOf(docs))
    BY <2>1 DEF IsAnalysis
  <2>4. cards # <<>> => answer.highest_value_rarity.ProductID = cards[1].ProductID
    BY <2>3 DEF highestValueRarity
  <2>5. /\ answer.market_sum_estimate
             = SumFunction([r \in DOMAIN rarities |-> rarities[r].TotalMarketValue])
        /\ Len(cards) <= SumFunction([r \in DOMAIN rarities |-> rarities[r].MarketCardCount])
        /\ SumFunction([r \in DOMAIN rarities |-> rarities[r].ProductCount])
             <= answer.ProductCountTotal
    BY <2>2, <2>3, Zenon DEF Agrees, Totals, Cards, Products
  <2>6. /\ (cards = <<>>) = (valued = {})
        /\ cards # <<>> =>
             /\ cards[1].MarketPrice = Max({rarities[r].HighestMarketValue : r \in valued})
             /\ cards[1].MarketPrice = rarities[cards[1].Rarity].HighestMarketValue
        /\ answer.numbering_summary.NumberedProducts <= answer.NumberedCardLikeCount
    BY <2>2, <2>3, Zenon DEF Agrees
  <2> QED
    BY <2>4, <2>5, <2>6, Zenon DEF SectionsAgree
<1> QED
  BY <1>1, AnswerIsComputed, PTL

-----------------------------------------------------------------------------
(* Set insights of lists that name each product once. *)

\* The list of products of a set names each product once.
EachOnce(products) ==
  \A i, j \in DOMAIN products : products[i].ID = products[j].ID => i = j

LEMMA ListedOnce ==
  ASSUME Computed, Insights, EachProductOnce
  PROVE  EachOnce(ProductsOf(request.docs))
<1> DEFINE doc == request.docs.products
<1>1. request \in Requests /\ request.op = "insights"
  BY DEF Computed, Insights, Answered
<1>2. \A i, j \in DOMAIN doc.products : doc.products[i].id = doc.products[j].id => i = j
  BY Zenon DEF EachProductOnce
<1>3. doc.products \in Seq(ProductType)
  BY <1>1, RequestsAssumption
<1> HIDE DEF doc
<1>4. /\ DOMAIN SetProducts(doc) = DOMAIN doc.products
      /\ \A i \in DOMAIN doc.products : SetProducts(doc)[i].ID = doc.products[i].id
  BY <1>3, ListedProducts
<1>5. EachOnce(SetProducts(doc))
  BY <1>2, <1>4 DEF EachOnce
<1> QED
  BY <1>5 DEF ProductsOf, doc

\* Then its id leads to that entry, and gives it its own kind.
LEMMA OnlyPlace ==
  ASSUME NEW products, AreProducts(products), EachOnce(products), NEW i \in DOMAIN products
  PROVE  /\ {j \in DOMAIN products : products[j].ID = products[i].ID} = {i}
         /\ Max({i}) = i
         /\ classifyProducts(products)[products[i].ID] = classifyProduct(products[i])
<1>1. {j \in DOMAIN products : products[j].ID = products[i].ID} = {i}
  BY DEF EachOnce
<1>2. Max({i}) = i
  <2>1. i \in Int
    BY DEF AreProducts
  <2> QED
    BY <2>1, MaxIs
<1>3. products[i].ID \in {products[j].ID : j \in DOMAIN products}
  OBVIOUS
<1>4. classifyProducts(products)[products[i].ID]
        = classifyProduct(products[Max({j \in DOMAIN products : products[j].ID = products[i].ID})])
  BY <1>3, Zenon DEF classifyProducts
<1> QED
  BY <1>1, <1>2, <1>4

\* With a list that has each product once, no more products are single cards than are
\* card-like: what the filter keeps has a number or a rarity.
THEOREM SinglesCardLike == Spec => []SinglesAreCardLike
<1>1. Computed => SinglesAreCardLike
  <2> SUFFICES ASSUME Computed, Insights, EachProductOnce,
                      request.options.ProductKindFilter = "single_like"
               PROVE  SinglesAreCardLike
    BY DEF SinglesAreCardLike
  <2> DEFINE docs == request.docs
             asked == request.options
             products == ProductsOf(docs)
             values == ValuesOf(docs)
             kept == KeptOf(docs, asked)
             rarities == answer.rarity_breakdown
             cardLike == {i \in DOMAIN products :
                            products[i].Number # "" \/ products[i].Rarity # ""}
  <2>1. IsAnalysis(answer, docs, asked) /\ AreKept(products, kept, values)
    BY InsightsAreComputed
  <2>2. AreProducts(products) /\ EachOnce(products)
    BY <2>1, ListedOnce DEF AreKept
  <2>3. SumFunction(Products(rarities)) = Cardinality(kept)
    <3>1. HasAdded(rarities,
                   MarketSums(products, ValuedPlaces(products, kept, values), values)[Len(products)],
                   kept, products, kept, values)
      BY <2>1, LoopsAdd DEF IsAnalysis
    <3> QED
      BY <3>1, Zenon DEF HasAdded
  <2>4. kept \in SUBSET cardLike
    <3> SUFFICES ASSUME NEW i \in kept PROVE i \in cardLike
      OBVIOUS
    <3>1. i \in DOMAIN products /\ KindsOf(docs)[products[i].ID] = "single_like"
      BY DEF KeptOf, FilterOf
    <3>2. classifyProduct(products[i]) = "single_like"
      BY <2>2, <3>1, OnlyPlace DEF KindsOf
    <3> HIDE DEF products
    <3>3. products[i].Number # "" \/ products[i].Rarity # ""
      BY <3>2 DEF classifyProduct
    <3> QED
      BY <3>1, <3>3
  <2>5. IsFiniteSet(cardLike)
    <3>1. IsFiniteSet(1..Len(products)) /\ DOMAIN products = 1..Len(products)
      BY <2>2, UpTo DEF AreProducts
    <3>2. cardLike \in SUBSET DOMAIN products
      OBVIOUS
    <3> QED
      BY <3>1, <3>2, FS_Subset
  <2>6. answer.NumberedCardLikeCount = Cardinality(cardLike)
    BY <2>1, Zenon DEF IsAnalysis, countNumberedCardLike
  <2>7. Cardinality(kept) <= Cardinality(cardLike)
    BY <2>4, <2>5, FS_Subset
  <2>8. SumFunction([r \in DOMAIN rarities |-> rarities[r].ProductCount]) = Cardinality(kept)
    BY <2>3, Zenon DEF Products
  <2> QED
    BY <2>6, <2>7, <2>8, Zenon DEF SinglesAreCardLike
<1> QED
  BY <1>1, AnswerIsComputed, PTL

\* The products that may be among the top cards.
EligibleOf(docs, asked) ==
  {p \in {ProductsOf(docs)[i] : i \in DOMAIN ProductsOf(docs)} :
     /\ p.ID \in DOMAIN ValuesOf(docs)
     /\ asked.MinMarketPrice # Nil => ValuesOf(docs)[p.ID].Market >= asked.MinMarketPrice
     /\ asked.ProductKindFilter = "single_like" => classifyProduct(p) = "single_like"}

\* They are the products that were kept and have a value.
LEMMA EligibleAreKept ==
  ASSUME NEW docs, NEW asked, AreInsightDocs(docs), EachOnce(ProductsOf(docs))
  PROVE  LET products == ProductsOf(docs)
             places == ValuedPlaces(products, KeptOf(docs, asked), ValuesOf(docs))
         IN  /\ EligibleOf(docs, asked) = {products[i] : i \in places}
             /\ IsFiniteSet(places)
             /\ Cardinality(EligibleOf(docs, asked)) = Cardinality(places)
<1> DEFINE products == ProductsOf(docs)
           values == ValuesOf(docs)
           places == ValuedPlaces(products, KeptOf(docs, asked), values)
           eligible == EligibleOf(docs, asked)
           f == [i \in places |-> products[i]]
<1>1. AreKept(products, KeptOf(docs, asked), values) /\ AreProducts(products)
  BY KeptAreKept DEF AreKept
<1>2. FilterOf(asked) = "single_like" <=> asked.ProductKindFilter = "single_like"
  BY DEF FilterOf
<1>3. \A i \in DOMAIN products :
        KindsOf(docs)[products[i].ID] = classifyProduct(products[i])
  BY <1>1, OnlyPlace, Zenon DEF KindsOf
<1>4. \A i \in DOMAIN products : i \in places <=> products[i] \in eligible
  BY <1>2, <1>3 DEF ValuedPlaces, KeptOf, EligibleOf
<1>5. eligible = {products[i] : i \in places} /\ places \in SUBSET DOMAIN products
  <2>1. places \in SUBSET DOMAIN products
    BY DEF ValuedPlaces, KeptOf
  <2>2. \A p \in eligible : \E i \in DOMAIN products : p = products[i]
    BY DEF EligibleOf
  <2> HIDE DEF places, eligible
  <2> QED
    BY <1>4, <2>1, <2>2
<1>6. IsFiniteSet(places)
  BY <1>1, KeptAreFinite
<1>7. f \in Bijection(places, eligible)
  <2>1. f \in Surjection(places, eligible)
    BY <1>5 DEF Surjection
  <2>2. f \in Injection(places, eligible)
    <3>1. \A i, j \in places : f[i] = f[j] => i = j
      BY <1>5 DEF EachOnce
    <3>2. f \in [places -> eligible]
      BY <1>5
    <3> HIDE DEF f
    <3> QED
      BY <3>1, <3>2 DEF Injection, IsInjective
  <2> QED
    BY <2>1, <2>2 DEF Bijection
<1>8. Cardinality(eligible) = Cardinality(places)
  <2> HIDE DEF places, eligible, f
  <2> QED
    BY <1>6, <1>7, FS_Bijection DEF ExistsBijection
<1> QED
  BY <1>5, <1>6, <1>8

\* With a list that has each product once, the top cards are the first of all that pass the
\* filters: as many different ones as were asked for or as there are, and none that was
\* left out is worth more (buildTopCards).
THEOREM CardsAreTheTop == Spec => []TopCardsAreTop
<1>1. Computed => TopCardsAreTop
  <2> SUFFICES ASSUME Computed, Insights, EachProductOnce PROVE TopCardsAreTop
    BY DEF TopCardsAreTop
  <2> DEFINE docs == request.docs
             asked == request.options
             products == ProductsOf(docs)
             values == ValuesOf(docs)
             places == ValuedPlaces(products, KeptOf(docs, asked), values)
             eligible == EligibleOf(docs, asked)
             cards == answer.top_market_cards
             shown == {cards[i].ProductID : i \in DOMAIN cards}
             topN == TopNOf(asked)
             c == Cardinality(places)
             k == IF topN <= c THEN topN ELSE c
  <2>1. /\ AreInsightDocs(docs) /\ topN \in Nat /\ IsAnalysis(answer, docs, asked)
        /\ AreKept(products, KeptOf(docs, asked), values) /\ EachOnce(products)
    BY InsightsAreComputed, ListedOnce
  <2>2. AreTop(cards, places, products, values, KindsOf(docs), topN)
    BY <2>1, CardsAreTop DEF IsAnalysis, TopOf
  <2>3. /\ eligible = {products[i] : i \in places} /\ Cardinality(eligible) = c
        /\ places \in SUBSET DOMAIN products
    <3>1. places \in SUBSET DOMAIN products
      BY DEF ValuedPlaces, KeptOf
    <3> QED
      BY <2>1, <3>1, EligibleAreKept
  <2>4. \A i \in places : MarketOf(products, values, i) = values[products[i].ID].Market
    BY DEF MarketOf
  <2>5. \A i, j \in places : products[i].ID = products[j].ID => i = j
    BY <2>1, <2>3 DEF EachOnce
  <2> HIDE DEF products, values, places, eligible, cards, topN
  <2>6. PICK order :
          /\ c \in Nat /\ Len(cards) = k /\ DOMAIN cards = 1..k
          /\ \A n \in 1..c : order[n] \in places
          /\ \A x \in places : \E n \in 1..c : order[n] = x
          /\ \A m, n \in 1..c : m < n =>
               /\ order[m] # order[n]
               /\ MarketOf(products, values, order[n]) <= MarketOf(products, values, order[m])
          /\ \A n \in 1..k : cards[n] = TopMarketCard(products[order[n]], values, KindsOf(docs))
    BY <2>2 DEF AreTop
  <2>7. k \in Nat /\ k <= c /\ Min({topN, c}) = k
    BY <2>1, <2>6, MinOfTwo
  <2>8. \A n \in 1..k : /\ n \in 1..c
                        /\ cards[n].ProductID = products[order[n]].ID
                        /\ cards[n].MarketPrice = MarketOf(products, values, order[n])
    <3> SUFFICES ASSUME NEW n \in 1..k
                 PROVE  /\ n \in 1..c
                        /\ cards[n].ProductID = products[order[n]].ID
                        /\ cards[n].MarketPrice = MarketOf(products, values, order[n])
      OBVIOUS
    <3> DEFINE x == order[n]
    <3>1. cards[n] = TopMarketCard(products[x], values, KindsOf(docs))
      BY <2>6
    <3>2. n \in 1..c
      BY <2>6, <2>7
    <3> HIDE DEF c, k, x
    <3>3. /\ TopMarketCard(products[x], values, KindsOf(docs)).ProductID = products[x].ID
          /\ TopMarketCard(products[x], values, KindsOf(docs)).MarketPrice
               = MarketOf(products, values, x)
      BY DEF TopMarketCard, MarketOf
    <3> QED
      BY <3>1, <3>2, <3>3 DEF x
  <2> HIDE DEF c, k
  <2>9. shown \subseteq {p.ID : p \in eligible}
    BY <2>3, <2>6, <2>8
  <2>10. Cardinality(shown) = k
    <3> DEFINE f == [n \in 1..k |-> cards[n].ProductID]
    <3>1. \A m, n \in 1..k : cards[m].ProductID = cards[n].ProductID => m = n
      <4> SUFFICES ASSUME NEW m \in 1..k, NEW n \in 1..k,
                          cards[m].ProductID = cards[n].ProductID
                   PROVE  m = n
        OBVIOUS
      <4>1. order[m] = order[n]
        BY <2>5, <2>6, <2>8
      <4>2. ~(m < n) /\ ~(n < m)
        BY <2>6, <2>8, <4>1
      <4> QED
        BY <2>7, <4>2
    <3>2. f \in Bijection(1..k, shown)
      <4>1. DOMAIN f = 1..k /\ \A n \in 1..k : f[n] = cards[n].ProductID
        OBVIOUS
      <4>2. f \in [1..k -> shown]
        BY <2>6
      <4> HIDE DEF f
      <4>3. \A y \in shown : \E n \in 1..k : f[n] = y
        BY <2>6, <4>1
      <4>4. IsInjective(f)
        BY <3>1, <4>1 DEF IsInjective
      <4> HIDE DEF shown
      <4> QED
        BY <4>2, <4>3, <4>4 DEF Bijection, Injection, Surjection
    <3>3. IsFiniteSet(1..k) /\ Cardinality(1..k) = k
      BY <2>7, UpTo
    <3> QED
      <4> HIDE DEF f, shown
      <4> QED
        BY <3>2, <3>3, FS_Bijection DEF ExistsBijection
  <2>11. ASSUME NEW p \in eligible, NEW i \in DOMAIN cards, p.ID \notin shown
         PROVE  values[p.ID].Market <= cards[i].MarketPrice
    <3>1. PICK x \in places : p = products[x]
      BY <2>3
    <3>2. PICK n \in 1..c : order[n] = x
      BY <2>6
    <3>3. n \notin 1..k
      <4> SUFFICES ASSUME n \in 1..k PROVE FALSE
        OBVIOUS
      <4>1. cards[n].ProductID = p.ID
        BY <2>8, <3>1, <3>2
      <4> QED
        BY <2>6, <2>11, <4>1
    <3>4. i \in 1..k /\ i \in 1..c /\ i < n
      BY <2>6, <2>7, <2>8, <3>3
    <3>5. MarketOf(products, values, order[n]) <= MarketOf(products, values, order[i])
      BY <2>6, <3>4
    <3> QED
      BY <2>4, <2>8, <3>1, <3>2, <3>4, <3>5
  <2>12. /\ Cardinality(shown) = Len(cards) /\ Len(cards) = Min({topN, Cardinality(eligible)})
         /\ shown \subseteq {p.ID : p \in eligible}
         /\ \A p \in eligible, i \in DOMAIN cards :
              p.ID \notin shown => values[p.ID].Market <= cards[i].MarketPrice
    BY <2>3, <2>6, <2>7, <2>9, <2>10, <2>11
  <2> QED
    BY <2>12, Zenon DEF TopCardsAreTop, products, values, eligible, cards, topN, ProductsOf,
                        ValuesOf, EligibleOf, TopNOf
<1> QED
  BY <1>1, AnswerIsComputed, PTL

\* With a list that has each product once, the price of a top card is one that
\* get_set_pricing lists for that product, and under the same number.
THEOREM TopPriceListed == Spec => []TopPriceIsListed
<1>1. Computed => TopPriceIsListed
  <2> SUFFICES ASSUME Computed, Insights, EachProductOnce,
                      NEW i \in DOMAIN answer.top_market_cards
               PROVE  LET card == answer.top_market_cards[i]
                          rows == pricingOutput(request.docs.pricing, request.docs.products,
                                                card.ProductID).rows
                      IN  \E j \in DOMAIN rows :
                            /\ card.Subtype \in DOMAIN rows[j].row.Subtypes
                            /\ rows[j].row.Subtypes[card.Subtype] = card.MarketPrice
                            /\ rows[j].Product.Number = card.Number
    BY Zenon DEF TopPriceIsListed
  <2> DEFINE docs == request.docs
             asked == request.options
             products == ProductsOf(docs)
             values == ValuesOf(docs)
             prices == docs.pricing.prices
             places == ValuedPlaces(products, KeptOf(docs, asked), values)
             cards == answer.top_market_cards
             card == cards[i]
             rows == pricingOutput(docs.pricing, docs.products, card.ProductID).rows
             topN == TopNOf(asked)
  <2>1. /\ AreInsightDocs(docs) /\ topN \in Nat /\ IsAnalysis(answer, docs, asked)
        /\ AreKept(products, KeptOf(docs, asked), values) /\ EachOnce(products)
    BY InsightsAreComputed, ListedOnce
  <2>2. AreTop(cards, places, products, values, KindsOf(docs), topN)
    BY <2>1, CardsAreTop DEF IsAnalysis, TopOf
  <2>3. places \in SUBSET DOMAIN products /\ \A x \in places : products[x].ID \in DOMAIN values
    BY DEF ValuedPlaces, KeptOf
  <2> HIDE DEF products, values, places, cards, topN
  <2>4. \E x \in places : card = TopMarketCard(products[x], values, KindsOf(docs))
    <3> DEFINE c == Cardinality(places)
               k == IF topN <= c THEN topN ELSE c
    <3>1. PICK order : /\ c \in Nat /\ DOMAIN cards = 1..k
                       /\ \A n \in 1..c : order[n] \in places
                       /\ \A n \in 1..k : cards[n] = TopMarketCard(products[order[n]], values,
                                                                   KindsOf(docs))
      BY <2>2 DEF AreTop
    <3>2. i \in 1..k /\ i \in 1..c
      BY <2>1, <3>1 DEF cards
    <3> QED
      BY <3>1, <3>2
  <2>5. PICK x \in places : card = TopMarketCard(products[x], values, KindsOf(docs))
    BY <2>4
  <2> DEFINE id == products[x].ID
  <2>6. /\ card.ProductID = id /\ card.Number = products[x].Number
        /\ card.Subtype = values[id].Subtype /\ card.MarketPrice = values[id].Market
    BY <2>5 DEF TopMarketCard
  <2>7. PricedFrom(prices, id, values[id])
    <3>1. \A y \in DOMAIN ValuesOf(docs) : PricedFrom(prices, y, ValuesOf(docs)[y])
      BY <2>1, ValuesArePriced, Zenon DEF AreInsightDocs, ValuesOf
    <3> QED
      BY <2>3, <3>1 DEF values
  <2> HIDE DEF card, id, docs
  <2>8. PICK key \in DOMAIN prices :
          /\ key.id = id /\ id # Nil
          /\ card.Subtype \in DOMAIN prices[key] /\ card.MarketPrice = prices[key][card.Subtype]
    BY <2>6, <2>7 DEF PricedFrom
  <2> DEFINE chosen == Chosen(prices, id)
             n == Cardinality(chosen)
             j == Place(chosen, key)
  <2>9. IsObject(prices)
    BY <2>1 DEF AreInsightDocs, ArePrices
  <2>10. AreKeys(chosen) /\ key \in chosen
    <3>1. AreKeys(chosen)
      BY <2>9, ChosenAreKeys, Zenon
    <3>2. key \in chosen
      BY <2>8 DEF Chosen
    <3> QED
      BY <3>1, <3>2
  <2>11. j \in 1..n /\ Sorted(chosen)[j] = key
    BY <2>10, SortedPlaces, PlaceOrder
  <2>12. /\ DOMAIN rows = 1..n
         /\ rows[j] = [row |-> [ProductID |-> key.id, Subtypes |-> prices[key]],
                       Product |-> productSummaryIndex(products, key.id)]
    <3> DEFINE listed == pricingOutput(docs.pricing, docs.products, id).rows
               RowOf(k) == [row |-> [ProductID |-> k.id, Subtypes |-> prices[k]],
                            Product |-> productSummaryIndex(SetProducts(docs.products), k.id)]
    <3>0. RowsAreOf(listed, prices, id, SetProducts(docs.products))
          /\ \A m \in DOMAIN listed : listed[m] = RowOf(Sorted(chosen)[m])
      BY <2>9, PricingRows
    <3>1. /\ RowsAreOf(rows, prices, id, SetProducts(docs.products))
          /\ \A m \in DOMAIN rows : rows[m] = RowOf(Sorted(chosen)[m])
      <4>1. rows = listed
        BY <2>6
      <4> HIDE DEF rows, listed, RowOf
      <4> QED
        BY <3>0, <4>1
    <3>2. DOMAIN rows = 1..n
      BY <3>1 DEF RowsAreOf
    <3> QED
      BY <2>11, <3>1, <3>2, Zenon DEF products, ProductsOf
  <2>13. productSummaryIndex(products, id).Number = products[x].Number
    <3>1. AreProducts(products) /\ x \in DOMAIN products
      BY <2>1, <2>3, <2>5 DEF AreKept
    <3>2. {m \in DOMAIN products : products[m].ID = id} = {x} /\ Max({x}) = x
      BY <2>1, <3>1, OnlyPlace DEF id
    <3>3. productSummaryIndex(products, id)
            = [ID |-> products[x].ID, Name |-> products[x].Name,
               Number |-> products[x].Number, Rarity |-> products[x].Rarity]
      BY <3>2 DEF productSummaryIndex
    <3> QED
      BY <3>3
  <2> HIDE DEF chosen, n, j, rows
  <2>14. /\ j \in DOMAIN rows /\ rows[j].row.Subtypes = prices[key]
         /\ rows[j].Product = productSummaryIndex(products, id)
    BY <2>8, <2>11, <2>12
  <2> QED
    BY <2>6, <2>8, <2>13, <2>14 DEF rows, card, cards, docs
<1> QED
  BY <1>1, AnswerIsComputed, PTL

=============================================================================
