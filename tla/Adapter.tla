------------------------------- MODULE Adapter -------------------------------
(***************************************************************************)
(* internal/tcgapi: from an HTTP response to domain values.  An object of  *)
(* the JSON documents is a function of its keys; a key is [rank, id], its  *)
(* place among the strings and what strconv.Atoi makes of it (Nil if it    *)
(* is no number), so that "007" and "7" are two keys with one id.          *)
(***************************************************************************)
EXTENDS Domain, Integers, Sequences, SequencesExt

\* ParseGet...Response, and the JSON200 == nil test of every method: a document
\* is decoded only from a 200 that says it is JSON, and Nil stands for a body
\* that does not decode.
Decode(response) ==
  IF response.status = 200 /\ response.json /\ response.body # Nil
  THEN response.body ELSE Error

Categories(doc) ==
  [i \in DOMAIN doc.categories |->
     [ID |-> doc.categories[i].id, Name |-> doc.categories[i].name,
      DisplayName |-> doc.categories[i].display_name]]

stringValue(v) == IF v = Nil THEN "" ELSE v

\* Every product gets the set id of the document it comes in.  A name is its
\* place among the strings; Words are the phrases product kinds are told by.
SetProducts(doc) ==
  [i \in DOMAIN doc.products |->
     [ID     |-> doc.products[i].id,
      SetID  |-> doc.set_id,
      Name   |-> doc.products[i].name,
      Words  |-> doc.products[i].words,
      Number |-> stringValue(doc.products[i].number),
      Rarity |-> stringValue(doc.products[i].rarity)]]

\* A date that is missing is the zero date, of the year 1.
formatDate(date) == IF date = Nil THEN 1 ELSE date

\* Every set gets the category id of the document it comes in.
mapSets(doc) ==
  [i \in DOMAIN doc.sets |->
     [ID |-> doc.sets[i].id, CategoryID |-> doc.category_id,
      IsSupplemental |-> doc.sets[i].is_supplemental,
      PublishedYear |-> formatDate(doc.sets[i].published_on)]]

\* sort.Strings.
Sorted(keys) ==
  [i \in 1..Cardinality(keys) |->
     CHOOSE k \in keys : Cardinality({l \in keys : l.rank <= k.rank}) = i]

\* The keys in order, without those that are no numbers.
NumericKeys(object) == Sorted({k \in DOMAIN object : k.id # Nil})

\* Mutant of KeysOf: only the first key of the product is taken.
KeysOfFirst(object, productID) ==
  LET keys == Sorted({k \in DOMAIN object : k.id # Nil /\ productID \in {Nil, k.id}})
  IN  IF productID = Nil \/ keys = <<>> THEN keys ELSE <<keys[1]>>

\* ... and of one product only, when the caller names one.
KeysOf(object, productID) ==
  Sorted({k \in DOMAIN object : k.id # Nil /\ productID \in {Nil, k.id}})

\* One row per key, with the market price of each subtype.
SetPricing(doc, productID) ==
  LET keys == KeysOf(doc.prices, productID)
  IN  [UpdatedAt |-> doc.updated,
       Prices    |-> [i \in DOMAIN keys |->
                        [ProductID |-> keys[i].id, Subtypes |-> doc.prices[keys[i]]]]]

\* One row per key, with its SKUs in the order of their keys.
SetSKUs(doc, productID) ==
  LET keys == KeysOf(doc.products, productID)
      SKUs(object) == LET ids == NumericKeys(object)
                      IN  [j \in DOMAIN ids |-> [ID |-> ids[j].id, Market |-> object[ids[j]]]]
  IN  [UpdatedAt |-> doc.updated,
       Products  |-> [i \in DOMAIN keys |->
                        [ProductID |-> keys[i].id, SKUs |-> SKUs(doc.products[keys[i]])]]]
=============================================================================
