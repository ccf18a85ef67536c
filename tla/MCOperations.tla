----------------------------- MODULE MCOperations ----------------------------
(***************************************************************************)
(* Requests for Operations: small documents of every shape the code tells  *)
(* apart.                                                                  *)
(***************************************************************************)
EXTENDS Operations

SeqsUpTo(S, n) == UNION {[1..m -> S] : m \in 0..n}
Distinct(S, n) == {s \in SeqsUpTo(S, n) : \A i, j \in DOMAIN s : i # j => s[i] # s[j]}

\* "007", "12", "7" and "x".
Key(rank, id) == [rank |-> rank, id |-> id]
Padded == Key(1, 7)
Other  == Key(2, 12)
Plain  == Key(3, 7)
Text   == Key(4, Nil)

Product(id, name, words, number, rarity) ==
  [id |-> id, name |-> name, words |-> words, number |-> number, rarity |-> rarity]
Card     == Product(7, 2, {}, "4/102", "Rare")
Unrated  == Product(12, 1, {}, "SV4", Nil)
BoxSet   == Product(12, 2, {"booster box"}, Nil, Nil)
CodeCard == Product(3, 3, {"code card"}, Nil, "Code Card")
Plainest == Product(5, 4, {}, Nil, Nil)
Products == Distinct({Card, Unrated, BoxSet, CodeCard}, 3)
              \cup {<<Plainest, Card>>, <<Card, Plainest, Unrated>>}
ProductDocs == {[set_id |-> 1, products |-> p] : p \in Products}

Subtypes == {<<Nil>>, <<1>>, <<2>>, <<1, 2>>, <<Nil, 2>>}
PriceDocs ==
  {[updated |-> "today", prices |-> f] :
     f \in UNION {[S -> Subtypes] : S \in SUBSET {Padded, Other, Plain}}
           \cup [{Text, Plain, Key(5, 3)} -> Subtypes]}
SomeSKUs == [{Padded, Text} -> {1, Nil}]
SKUDocs == {[updated |-> "today", products |-> f] :
              f \in UNION {[S -> SomeSKUs] : S \in SUBSET {Padded, Other, Plain, Text}}}

SetDoc(id, supplemental, year) ==
  [id |-> id, is_supplemental |-> supplemental, published_on |-> year]
SetDocs == {[category_id |-> 3, sets |-> s] :
              s \in SeqsUpTo({SetDoc(1, b, y) : b \in BOOLEAN, y \in {Nil, 2000, 2001, 2003}}, 3)}

Category(id, name, display) == [ID |-> id, Name |-> name, DisplayName |-> display]
Games ==
  {Category(3, "Pokemon", "Pokemon TCG"), Category(71, "Lorcana", ""),
   Category(85, "Pokemon Japan", "Pokemon TCG"), Category(9, "Chess", "chess"),
   Category(8, "Go", "12"), Category(10, "Chess", "PTCG")}

LowerCase == ("Pokemon" :> "pokemon" @@ "POKEMON" :> "pokemon" @@ "Pokemon TCG" :> "pokemon tcg"
   @@ "Lorcana" :> "lorcana" @@ "Pokemon Japan" :> "pokemon japan" @@ "Chess" :> "chess"
   @@ " chess" :> "chess" @@ "Go" :> "go" @@ "PTCG" :> "ptcg" @@ " " :> "")
Numerals == ("3" :> 3 @@ "12" :> 12 @@ "9" :> 9)
Texts == {"POKEMON", "pokemon tcg", "mtg", "ptcg", "lorcana", " chess", "Go", "3", "9", "12", " ", "x"}

Segments == {"meta", "heuristics", "categories", "analytics", "releases-by-year", "sets",
             "insights", "pricing", "skus", "3", "9", "x"}

Environments ==
  [TCG_API_URL : {Nil, "https://api", "api"}, TCG_LOG_LEVEL : {Nil, "debug", "all"},
   TCG_API_TIMEOUT : {Nil, Error, 0, 5}, TCG_CACHE_MAX_MB : {Nil, Error, -1, 0, 1, 3, 511},
   TCG_PAGE_SIZE : {Nil, Error, 0, 1, 1023}]

Options == [TopN : {-1, 1, 2}, ProductKindFilter : {"", "single_like", "boxes"},
            MinMarketPrice : {Nil, 2}]
InsightDocs == {[sets |-> [category_id |-> 3, sets |-> <<SetDoc(1, FALSE, 2001)>>],
                 products |-> p, pricing |-> f,
                 skus |-> [updated |-> "today", products |-> [k \in {Other} |-> <<>>]]] :
                  p \in ProductDocs, f \in PriceDocs}

AllRequests ==
  [op : {"load"}, env : Environments]
  \cup [op : {"resolve"}, categories : Distinct(Games, 3), text : Texts]
  \cup [op : {"route"}, path : SeqsUpTo(Segments, 4)]
  \cup [op : {"pricing"}, prices : PriceDocs, products : ProductDocs, productID : {Nil, 7, 12}]
  \cup [op : {"skus"}, skus : SKUDocs, products : ProductDocs, productID : {Nil, 7}]
  \cup [op : {"releases"}, sets : SetDocs,
        options : [yearFrom : {0, 2000, 2002}, yearTo : {Nil, 1999, 2002},
                   includeSupplemental : BOOLEAN]
                  \cup [yearFrom : {1}, yearTo : {2}, includeSupplemental : BOOLEAN]]
  \cup [op : {"insights"}, docs : InsightDocs, setID : {1}, fields : {Nil}, options : Options]
  \cup [op : {"insights"}, docs : {CHOOSE d \in InsightDocs : TRUE}, setID : {1, 2},
        fields : {Nil, {}, {"top_market_cards"}, {"heuristic_notes"}, {"prices"}},
        options : Options]
=============================================================================
