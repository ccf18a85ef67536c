----------------------------- MODULE JoinedOutput ----------------------------
(***************************************************************************)
(* internal/server/joined_output.go: the rows of a pricing or SKU snapshot *)
(* with the product each is about, taken from the set's product list.      *)
(***************************************************************************)
EXTENDS Adapter, FiniteSetsExt

\* Mutant of productSummaryIndex: the row's place is taken for the product's.
productSummaryIndexByPlace(products, id) ==
  IF id \notin DOMAIN products THEN Nil
  ELSE [ID |-> products[id].ID, Name |-> products[id].Name,
        Number |-> products[id].Number, Rarity |-> products[id].Rarity]

\* The summary of the product with that id, the last of several; Nil without one.
productSummaryIndex(products, id) ==
  LET places == {i \in DOMAIN products : products[i].ID = id}
      last   == products[Max(places)]
  IN  IF places = {} THEN Nil
      ELSE [ID |-> last.ID, Name |-> last.Name, Number |-> last.Number, Rarity |-> last.Rarity]

\* joinPricingResults and joinSKUResults.
join(results, products) ==
  [i \in DOMAIN results |->
     [row |-> results[i], Product |-> productSummaryIndex(products, results[i].ProductID)]]

pricingOutput(pricingDoc, productsDoc, productID) ==
  LET pricing == SetPricing(pricingDoc, productID)
  IN  [UpdatedAt |-> pricing.UpdatedAt, rows |-> join(pricing.Prices, SetProducts(productsDoc))]

skuOutput(skuDoc, productsDoc, productID) ==
  LET skus == SetSKUs(skuDoc, productID)
  IN  [UpdatedAt |-> skus.UpdatedAt, rows |-> join(skus.Products, SetProducts(productsDoc))]
=============================================================================
