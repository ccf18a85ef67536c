----------------------------- MODULE SetInsights -----------------------------
(***************************************************************************)
(* Analyzer.AnalyzeSetInsights of internal/analysis/service.go, and the    *)
(* fields of its answer that the tool returns (set_insights_output.go in   *)
(* internal/server).  Prices are whole numbers; the subtypes of a price    *)
(* are numbered in the order of their names.                               *)
(***************************************************************************)
EXTENDS Adapter, FiniteSetsExt

CONSTANTS
  DefaultTopN,   \* 10
  SlashNumbers,  \* the collector numbers that contain a slash
  LetterNumbers  \* and those that contain a letter

ASSUME InsightsAssumption == DefaultTopN \in Nat \ {0}

\* An absent filter is all, and a top_n that is no positive number the default.
normalizeSetInsightsOptions(options) ==
  LET filter == IF options.ProductKindFilter = "" THEN "all" ELSE options.ProductKindFilter
  IN  IF \/ filter \notin {"all", "single_like"}
         \/ options.MinMarketPrice # Nil /\ options.MinMarketPrice < 0
      THEN Error
      ELSE [options EXCEPT !.ProductKindFilter = filter,
                           !.TopN = IF @ <= 0 THEN DefaultTopN ELSE @]

-----------------------------------------------------------------------------
\* The best paid subtype of a row, the first of equals; Nil without a market
\* price.
highestMarketSubtype(result) ==
  LET price  == result.Subtypes
      valued == {s \in DOMAIN price : price[s] # Nil}
      best   == CHOOSE s \in valued :
                  \A t \in valued : price[t] < price[s] \/ (price[t] = price[s] /\ s <= t)
  IN  IF valued = {} THEN Nil ELSE [Subtype |-> best, Market |-> price[best]]

\* Mutant of buildProductValueMap: a row without a market price counts as zero.
buildProductValueMapZero(prices) ==
  LET Places(id) == {i \in DOMAIN prices : prices[i].ProductID = id}
      Value(i)   == highestMarketSubtype(prices[i])
  IN  [id \in {prices[i].ProductID : i \in DOMAIN prices} |->
         IF Value(Max(Places(id))) = Nil THEN [Subtype |-> 1, Market |-> 0]
         ELSE Value(Max(Places(id)))]

\* The value of each product that has one: that of its last row with a market
\* price.
buildProductValueMap(prices) ==
  LET valued     == {i \in DOMAIN prices : highestMarketSubtype(prices[i]) # Nil}
      Places(id) == {i \in valued : prices[i].ProductID = id}
  IN  [id \in {prices[i].ProductID : i \in valued} |->
         highestMarketSubtype(prices[Max(Places(id))])]

\* "booster box" stands for each of the phrases of sealed products.
classifyProduct(product) ==
  IF product.Rarity = "Code Card" \/ "code card" \in product.Words THEN "code_card"
  ELSE IF product.Number = "" /\ "booster box" \in product.Words THEN "sealed_like"
  ELSE IF product.Number # "" \/ product.Rarity # "" THEN "single_like"
  ELSE "unknown"

\* Of products with one id, the last one gives the kind.
classifyProducts(products) ==
  [id \in {products[i].ID : i \in DOMAIN products} |->
     classifyProduct(products[Max({i \in DOMAIN products : products[i].ID = id})])]

matchesProductKindFilter(kind, filter) == filter = "single_like" => kind = "single_like"

\* The products that pass the filters, by their places in the list.
filterInsightProducts(products, values, kinds, options) ==
  {i \in DOMAIN products :
     /\ matchesProductKindFilter(kinds[products[i].ID], options.ProductKindFilter)
     /\ options.MinMarketPrice # Nil =>
          /\ products[i].ID \in DOMAIN values
          /\ values[products[i].ID].Market >= options.MinMarketPrice}

-----------------------------------------------------------------------------
normalizedRarity(rarity) == IF rarity = "" THEN "Unknown" ELSE rarity

NoProducts ==
  [ProductCount |-> 0, MarketCardCount |-> 0, TotalMarketValue |-> 0, HighestMarketValue |-> Nil]

\* What one product adds to its rarity's bucket.
AddTo(bucket, product, values) ==
  LET counted == [bucket EXCEPT !.ProductCount = @ + 1]
      market  == values[product.ID].Market
  IN  IF product.ID \notin DOMAIN values THEN counted
      ELSE [counted EXCEPT !.MarketCardCount = @ + 1,
                           !.TotalMarketValue = @ + market,
                           !.HighestMarketValue = IF @ = Nil \/ market > @ THEN market ELSE @]

\* The loop over the products that were kept: the buckets after the first n.
Buckets(products, kept, values) ==
  LET rarities == {normalizedRarity(products[i].Rarity) : i \in kept}
      buckets[n \in 0..Len(products)] ==
        IF n = 0 THEN [rarity \in rarities |-> NoProducts]
        ELSE IF n \in kept
        THEN [buckets[n - 1] EXCEPT
                ![normalizedRarity(products[n].Rarity)] = AddTo(@, products[n], values)]
        ELSE buckets[n - 1]
  IN  buckets

summarizeRarities(products, kept, values) == Buckets(products, kept, values)[Len(products)]

\* (The sample of numbers is left out.)
summarizeNumbering(products) ==
  LET numbered == {i \in DOMAIN products : products[i].Number # ""}
      numbers  == {products[i].Number : i \in numbered}
  IN  [NumberedProducts   |-> Cardinality(numbered),
       UnnumberedProducts |-> Len(products) - Cardinality(numbered),
       HasSlashNumbers    |-> numbers \cap SlashNumbers # {},
       HasLetterSuffixes  |-> numbers \cap LetterNumbers # {}]

\* Mutant of countNumberedCardLike: && in place of ||, so that a number alone is not
\* enough.
countNumberedCardLikeBoth(products) ==
  Cardinality({i \in DOMAIN products : products[i].Number # "" /\ products[i].Rarity # ""})

countNumberedCardLike(products) ==
  Cardinality({i \in DOMAIN products : products[i].Number # "" \/ products[i].Rarity # ""})

-----------------------------------------------------------------------------
\* sort.Slice: the members of S, each after as many as come before it.
InOrder(S, before) ==
  [n \in 1..Cardinality(S) |->
     CHOOSE x \in S : Cardinality({y \in S : <<y, x>> \in before}) = n - 1]

\* Highest price first, then by name, then by id.  Two entries of one product, which
\* sort.Slice leaves in any order, are taken as they are listed.
Precedes(i, j, products, values) ==
  LET market(k) == values[products[k].ID].Market
  IN  \/ market(i) > market(j)
      \/ /\ market(i) = market(j)
         /\ \/ products[i].Name < products[j].Name
            \/ /\ products[i].Name = products[j].Name
               /\ \/ products[i].ID < products[j].ID
                  \/ products[i].ID = products[j].ID /\ i < j

ValueOrder(products, places, values) ==
  {pair \in places \X places : Precedes(pair[1], pair[2], products, values)}

\* The sum of the prices at some places, as the loop over the list adds them up.
MarketSums(products, places, values) ==
  LET sum[n \in 0..Len(products)] ==
        IF n = 0 THEN 0
        ELSE IF n \in places THEN sum[n - 1] + values[products[n].ID].Market
        ELSE sum[n - 1]
  IN  sum

TopMarketCard(product, values, kinds) ==
  [ProductID |-> product.ID, Name |-> product.Name, Number |-> product.Number,
   Rarity |-> normalizedRarity(product.Rarity), ProductKind |-> kinds[product.ID],
   Subtype |-> values[product.ID].Subtype, MarketPrice |-> values[product.ID].Market]

ValuedPlaces(products, kept, values) == {i \in kept : products[i].ID \in DOMAIN values}

\* Mutant of buildTopCards: the sum is taken of the cards returned only.
buildTopCardsSumTop(products, kept, values, kinds, topN) ==
  LET valued == ValuedPlaces(products, kept, values)
      order  == InOrder(valued, ValueOrder(products, valued, values))
      top    == 1..Min({topN, Cardinality(valued)})
  IN  [cards |-> [n \in top |-> TopMarketCard(products[order[n]], values, kinds)],
       sum   |-> MarketSums(products, {order[n] : n \in top}, values)[Len(products)]]

\* Mutant of buildTopCards: the cards are cut off before they are sorted.
buildTopCardsCutFirst(products, kept, values, kinds, topN) ==
  LET valued == ValuedPlaces(products, kept, values)
      first  == {i \in valued : Cardinality({j \in valued : j <= i}) <= topN}
      order  == InOrder(first, ValueOrder(products, first, values))
  IN  [cards |-> [n \in DOMAIN order |-> TopMarketCard(products[order[n]], values, kinds)],
       sum   |-> MarketSums(products, valued, values)[Len(products)]]

\* The first topN cards of those that have a value, and the sum of all prices.
buildTopCards(products, kept, values, kinds, topN) ==
  LET valued == ValuedPlaces(products, kept, values)
      order  == InOrder(valued, ValueOrder(products, valued, values))
  IN  [cards |-> [n \in 1..Min({topN, Cardinality(valued)}) |->
                    TopMarketCard(products[order[n]], values, kinds)],
       sum   |-> MarketSums(products, valued, values)[Len(products)]]

highestValueRarity(cards) == IF cards = <<>> THEN Nil ELSE cards[1]

\* The options are looked at first, and the set has to be in the category's list.
AnalyzeSetInsights(docs, setID, asked) ==
  LET options  == normalizeSetInsightsOptions(asked)
      sets     == mapSets(docs.sets)
      found    == {i \in DOMAIN sets : sets[i].ID = setID}
      products == SetProducts(docs.products)
      pricing  == SetPricing(docs.pricing, Nil)
      values   == buildProductValueMap(pricing.Prices)
      kinds    == classifyProducts(products)
      kept     == filterInsightProducts(products, values, kinds, options)
      top      == buildTopCards(products, kept, values, kinds, options.TopN)
  IN  IF options = Error \/ found = {} THEN Error
      ELSE [Set                   |-> sets[Min(found)],
            ProductCountTotal     |-> Len(products),
            NumberedCardLikeCount |-> countNumberedCardLike(products),
            numbering_summary     |-> summarizeNumbering(products),
            rarity_breakdown      |-> summarizeRarities(products, kept, values),
            PricingUpdatedAt      |-> pricing.UpdatedAt,
            SKUUpdatedAt          |-> SetSKUs(docs.skus, Nil).UpdatedAt,
            top_market_cards      |-> top.cards,
            highest_value_rarity  |-> highestValueRarity(top.cards),
            market_sum_estimate   |-> top.sum,
            heuristic_notes       |-> "notes",
            ProductKindFilterApplied |-> options.ProductKindFilter,
            MinMarketPriceApplied    |-> options.MinMarketPrice]

-----------------------------------------------------------------------------
supportedFields ==
  {"numbering_summary", "rarity_breakdown", "top_market_cards", "highest_value_rarity",
   "market_sum_estimate", "heuristic_notes"}

\* The sections an answer has: without fields all but the notes; a field nobody
\* knows is an error, and no section at all may be asked for.
parseAnalyzeSetInsightsFields(fields) ==
  IF fields = Nil THEN supportedFields \ {"heuristic_notes"}
  ELSE IF fields \subseteq supportedFields THEN fields
  ELSE Error

newAnalyzeSetInsightsOutput(insights, selection) ==
  [name \in (DOMAIN insights \ supportedFields) \cup selection |-> insights[name]]
=============================================================================
