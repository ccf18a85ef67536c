------------------------------ MODULE Operations -----------------------------
(***************************************************************************)
(* The operations of the server that compute an answer from their inputs   *)
(* alone, each as one step from a request, which carries the documents and *)
(* the parameters, to its answer.  ToolCalls has what comes before: how a  *)
(* tool call gets its documents.                                           *)
(***************************************************************************)
EXTENDS JoinedOutput, ReleaseCounts, SetInsights, Resources, Config

CONSTANTS
  Requests,  \* the requests to answer
  NoAnswer   \* before the answer

CategoryType == [ID : Int, Name : STRING, DisplayName : STRING]

Targets == [op : {r.Name : r \in resources \cup resourceTemplates},
            category : Int \cup {Nil}, set : Int \cup {Nil}, query : {""}]

\* An env holds what lookupInt and lookupDuration make of its texts.
IsEnv(env) ==
  /\ env.TCG_API_TIMEOUT \in Int \cup {Nil, Error}
  /\ {env.TCG_CACHE_MAX_MB, env.TCG_PAGE_SIZE} \subseteq Ints \cup {Nil, Error}

\* The keys of an object are different strings.
IsObject(object) ==
  /\ IsFiniteSet(DOMAIN object)
  /\ \A k \in DOMAIN object : k.rank \in Int
  /\ \A j, k \in DOMAIN object : j.rank = k.rank => j = k

Strings == STRING \cup {""}

ProductType == [id : Int, name : Int, words : SUBSET STRING,
                number : Strings \cup {Nil}, rarity : Strings \cup {Nil}]

SummaryType == [ID : Int, Name : Int, Number : Strings, Rarity : Strings]

SetType == [id : Int, is_supplemental : BOOLEAN, published_on : Int \cup {Nil}]

ReleaseOptions == [yearFrom : Int, yearTo : Int \cup {Nil}, includeSupplemental : BOOLEAN]

\* The market prices of a pricing document, by key and subtype.
ArePrices(prices) ==
  /\ IsObject(prices)
  /\ \A k \in DOMAIN prices :
       /\ IsFiniteSet(DOMAIN prices[k]) /\ DOMAIN prices[k] \subseteq Int
       /\ \A s \in DOMAIN prices[k] : prices[k][s] \in Int \cup {Nil}

InsightsOptions == [TopN : Int, ProductKindFilter : Strings, MinMarketPrice : Int \cup {Nil}]

ProductValue == [Subtype : Int, Market : Int]

ASSUME RequestsAssumption ==
  /\ \A r \in Requests :
       /\ r.op = "load" => IsEnv(r.env)
       /\ r.op = "resolve" => r.categories \in Seq(CategoryType) /\ r.text \in STRING
       /\ r.op = "route" => r.path \in Seq(STRING)
       /\ r.op = "pricing" => IsObject(r.prices.prices) /\ r.products.products \in Seq(ProductType)
       /\ r.op = "skus" => IsObject(r.skus.products) /\ r.products.products \in Seq(ProductType)
       /\ r.op = "releases" => r.sets.sets \in Seq(SetType) /\ r.options \in ReleaseOptions
       /\ r.op = "insights" => /\ ArePrices(r.docs.pricing.prices)
                              /\ r.docs.products.products \in Seq(ProductType)
                              /\ r.options \in InsightsOptions
  /\ Error \notin CategoryType \cup Targets
  /\ Nil \notin Int \cup SummaryType \cup ProductValue

VARIABLES request, answer

vars == <<request, answer>>

Init == request \in Requests /\ answer = NoAnswer

Answer(op, value) ==
  /\ answer = NoAnswer
  /\ request.op = op
  /\ answer' = value
  /\ UNCHANGED request

Load == Answer("load", LoadFromLookup(request.env))

Resolve == Answer("resolve", ResolveCategory(request.categories, request.text))

Route == Answer("route", readResourceValue(request.path))

GetSetPricing ==
  Answer("pricing", pricingOutput(request.prices, request.products, request.productID))

GetSetSKUs ==
  Answer("skus", skuOutput(request.skus, request.products, request.productID))

GetReleaseCounts ==
  Answer("releases", SummarizeReleaseCounts(mapSets(request.sets), request.options))

GetSetInsights ==
  LET selection == parseAnalyzeSetInsightsFields(request.fields)
      insights  == AnalyzeSetInsights(request.docs, request.setID, request.options)
  IN  Answer("insights", IF Error \in {selection, insights} THEN Error
                         ELSE newAnalyzeSetInsightsOutput(insights, selection))

Next ==
  \/ Load
  \/ Resolve
  \/ Route
  \/ GetSetPricing
  \/ GetSetSKUs
  \/ GetReleaseCounts
  \/ GetSetInsights

Spec == Init /\ [][Next]_vars

Answered(op) == request.op = op /\ answer \notin {NoAnswer, Error}

-----------------------------------------------------------------------------
\* A configuration that is accepted satisfies what the other components take for
\* granted, and its cache is limited to what it says, unless the product wraps
\* around (run.go:54).
ConfigIsUsable ==
  Answered("load") =>
    /\ answer.APITimeout > 0
    /\ answer.PageSize \in 1..MaxInt
    /\ \/ CacheBytes(answer) = answer.CacheMaxMB * MiB /\ CacheBytes(answer) > 0
       \/ answer.CacheMaxMB > MaxInt \div MiB

\* Whether a name stands for one category only: no other one carries it, and it
\* is neither a number nor an alias.
Unambiguous(categories, text) ==
  LET key == normalize(text)
  IN  /\ Atoi(key) = Error
      /\ \A a \in DefaultAliases : key \notin a.names
      /\ \A i, j \in NameIndex(categories, key) : categories[i].ID = categories[j].ID

\* README.md:216 "category inputs accept numeric IDs, category names, and
\* aliases": a name that stands for one category only leads to it in any
\* spelling, a number and an alias to the category with that id, and nothing
\* leads to a category that was not loaded (ResolveCategory).
NamesReachTheirCategory ==
  request.op = "resolve" /\ answer # NoAnswer =>
    LET categories == request.categories
        loaded     == {categories[i] : i \in DOMAIN categories}
    IN  /\ answer \in loaded \cup {Error}
        /\ \A c \in loaded :
             \/ /\ Unambiguous(categories, request.text)
                /\ normalize(request.text) \in {normalize(c.Name), normalize(c.DisplayName)} \ {""}
             \/ Atoi(normalize(request.text)) = c.ID
             \/ \E a \in DefaultAliases : a.ID = c.ID /\ normalize(request.text) \in a.names
             => answer # Error /\ answer.ID = c.ID

\* A path is a template's where it is the same but for the ids.
Fits(path, template) ==
  /\ Len(path) = Len(template.parts)
  /\ \A i \in DOMAIN path :
       IF template.parts[i] \in {"{categoryId}", "{setId}"} THEN Atoi(path[i]) # Error
       ELSE path[i] = template.parts[i]

\* The two tables of resources.go agree: the switch of readResourceValue finds what
\* registerResources announces, under the name and with the ids of its URI, and
\* nothing else, whatever the ids are.
RoutesAgree ==
  request.op = "route" /\ answer # NoAnswer =>
    LET fitting == {r \in resources \cup resourceTemplates : Fits(request.path, r)}
    IN  /\ (answer = Error) = (fitting = {})
        /\ \A r \in fitting :
             /\ answer.op = r.Name
             /\ \A i \in DOMAIN r.parts :
                  /\ r.parts[i] = "{categoryId}" => answer.category = Atoi(request.path[i])
                  /\ r.parts[i] = "{setId}" => answer.set = Atoi(request.path[i])

\* The keys of an object that stand for a product id.
Spellings(object, id) == {k \in DOMAIN object : k.id = id}

\* Of the rows of a pricing or SKU document none is lost, invented, repeated or
\* given to another product: each product id has a row per spelling of it, with
\* the summary of that very product as long as the list has it (joined_output.go
\* and the methods of the adapter, which sort and parse the keys).
JoinKeepsRows ==
  Answered("pricing") \/ Answered("skus") =>
    LET object == IF request.op = "pricing" THEN request.prices.prices ELSE request.skus.products
        listed == {request.products.products[i].id : i \in DOMAIN request.products.products}
        Rows(id) == {i \in DOMAIN answer.rows : answer.rows[i].row.ProductID = id}
    IN  /\ \A id \in {k.id : k \in DOMAIN object} \ {Nil} :
             Cardinality(Rows(id)) =
               IF request.productID \in {Nil, id} THEN Cardinality(Spellings(object, id)) ELSE 0
        /\ \A i \in DOMAIN answer.rows :
             LET id == answer.rows[i].row.ProductID
             IN  /\ Spellings(object, id) # {}
                 /\ (answer.rows[i].Product = Nil) = (id \notin listed)
                 /\ id \in listed => answer.rows[i].Product.ID = id

\* tools.go:55 "optional product ID to narrow the response to a single product":
\* the narrowed answer is exactly that product's part of the whole one.
NarrowingAgrees ==
  Answered("pricing") =>
    LET whole == pricingOutput(request.prices, request.products, Nil).rows
        about == {i \in DOMAIN whole : request.productID \in {Nil, whole[i].row.ProductID}}
    IN  /\ Len(answer.rows) = Cardinality(about)
        /\ \A i \in about : answer.rows[Cardinality({j \in about : j <= i})] = whole[i]

\* The years of a release summary are without gaps, each has as many sets as were
\* published in it, and together they are the total; without year_to they reach
\* to the last set (service.go:73-114).  A set without a date is one of the year 1
\* (mapping.go:42), which only a year_from of 1 asks for.
CountsAddUp ==
  Answered("releases") =>
    LET sets == request.sets.sets
        asked == request.options
        Published(y) == {i \in DOMAIN sets :
                           /\ sets[i].published_on = y \/ (sets[i].published_on = Nil /\ y = 1)
                           /\ sets[i].is_supplemental => asked.includeSupplemental}
        years == answer.From..answer.To
    IN  /\ \A y \in years : answer.CountsByYear[y] = Cardinality(Published(y))
        /\ answer.TotalSets = Cardinality(UNION {Published(y) : y \in years})
        /\ asked.yearTo = Nil =>
             \A i \in DOMAIN sets :
               sets[i].published_on # Nil /\ sets[i].published_on > answer.To =>
                 sets[i].is_supplemental /\ ~asked.includeSupplemental

\* Answers of analyze_set_insights without fields.
Insights == Answered("insights") /\ request.fields = Nil

\* Whether the product list of the set names each product once, as the API's do.  The
\* code takes any list, but keys what it computes by the product's id.
EachProductOnce ==
  LET products == request.docs.products.products
  IN  \A i, j \in DOMAIN products : products[i].id = products[j].id => i = j

Valued(bucket) == bucket.MarketCardCount > 0

\* The sections of one set summary, each computed by a loop of its own, tell the
\* same: the rarities add up to the market sum, the best of them is the first of
\* the top cards, and every product is numbered or not (service.go:158-164).
SectionsAgree ==
  Insights =>
    LET rarities == answer.rarity_breakdown
        valued   == {r \in DOMAIN rarities : Valued(rarities[r])}
        cards    == answer.top_market_cards
        Total(field(_)) == SumFunction([r \in DOMAIN rarities |-> field(rarities[r])])
    IN  /\ answer.market_sum_estimate = Total(LAMBDA b : b.TotalMarketValue)
        /\ (cards = <<>>) = (valued = {})
        /\ cards # <<>> =>
             /\ cards[1].MarketPrice = Max({rarities[r].HighestMarketValue : r \in valued})
             /\ cards[1].MarketPrice = rarities[cards[1].Rarity].HighestMarketValue
             /\ answer.highest_value_rarity.ProductID = cards[1].ProductID
        /\ Len(cards) <= Total(LAMBDA b : b.MarketCardCount)
        /\ Total(LAMBDA b : b.ProductCount) <= answer.ProductCountTotal
        /\ answer.numbering_summary.NumberedProducts <= answer.NumberedCardLikeCount

\* No product that the filters let through is worth more than the last of the top
\* cards without being one of them, none comes twice, and as many come as were
\* asked for or as there are, if each is listed once (buildTopCards).
TopCardsAreTop ==
  Insights /\ EachProductOnce =>
    LET cards    == answer.top_market_cards
        products == SetProducts(request.docs.products)
        values   == buildProductValueMap(SetPricing(request.docs.pricing, Nil).Prices)
        least    == request.options.MinMarketPrice
        eligible == {p \in {products[i] : i \in DOMAIN products} :
                       /\ p.ID \in DOMAIN values
                       /\ least # Nil => values[p.ID].Market >= least
                       /\ request.options.ProductKindFilter = "single_like" =>
                            classifyProduct(p) = "single_like"}
        shown    == {cards[i].ProductID : i \in DOMAIN cards}
        topN     == IF request.options.TopN <= 0 THEN DefaultTopN ELSE request.options.TopN
    IN  /\ Cardinality(shown) = Len(cards)
        /\ Len(cards) = Min({topN, Cardinality(eligible)})
        /\ shown \subseteq {p.ID : p \in eligible}
        /\ \A p \in eligible, i \in DOMAIN cards :
             p.ID \notin shown => values[p.ID].Market <= cards[i].MarketPrice

\* Two tools on the same documents do not contradict each other: the price of a
\* top card is one that get_set_pricing lists for that product and subtype, and
\* the product is shown there under the same number, if each is listed once.
TopPriceIsListed ==
  Insights /\ EachProductOnce =>
    \A i \in DOMAIN answer.top_market_cards :
      LET card == answer.top_market_cards[i]
          rows == pricingOutput(request.docs.pricing, request.docs.products, card.ProductID).rows
      IN  \E j \in DOMAIN rows :
            /\ card.Subtype \in DOMAIN rows[j].row.Subtypes
            /\ rows[j].row.Subtypes[card.Subtype] = card.MarketPrice
            /\ rows[j].Product.Number = card.Number

\* heuristics.go:4 "treats products with a collector number and/or rarity as
\* card-like products": the two heuristics of one answer agree, in that no more
\* products are single cards than are card-like.
SinglesAreCardLike ==
  Insights /\ EachProductOnce /\ request.options.ProductKindFilter = "single_like" =>
    SumFunction([r \in DOMAIN answer.rarity_breakdown |->
                   answer.rarity_breakdown[r].ProductCount]) <= answer.NumberedCardLikeCount
=============================================================================
