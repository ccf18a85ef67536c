----------------------------- MODULE MCToolCalls ----------------------------
(***************************************************************************)
(* Two categories, of which the second is added later, with one set each   *)
(* and another one to come; and the calls and reads of a host.             *)
(***************************************************************************)
EXTENDS ToolCalls

Root == <<>>

Pokemon == [id |-> 3, name |-> "pokemon tcg", display_name |-> ""]
Chess   == [id |-> 9, name |-> "chess", display_name |-> ""]
Numerals == ("1" :> 1 @@ "3" :> 3 @@ "9" :> 9)
NoSpellings == <<>>

Json(body) == [json |-> TRUE, body |-> body]
Text(body) == [json |-> FALSE, body |-> body]
Garbage    == Json(Nil)
Set(id)      == [id |-> id, is_supplemental |-> FALSE, published_on |-> 2001]
Sets(c, ids) == [category_id |-> c, sets |-> [i \in DOMAIN ids |-> Set(ids[i])]]

UpstreamURLs ==
  {GetMeta, GetCategories, SearchSets("3", "q"), SearchSets("9", "q"),
   GetCategorySets("3"), GetCategorySets("9"),
   GetSetProducts("3", "1"), GetSetPricing("3", "1"), GetSetSkus("3", "1")}

\* The categories grow from none, the list of sets is broken and then longer, and
\* the products are once sent as text.
Documents ==
  [u \in UpstreamURLs |->
     CASE u = GetCategories ->
              <<Json([categories |-> <<>>]), Json([categories |-> <<Pokemon>>]),
                Json([categories |-> <<Pokemon, Chess>>])>>
       [] u = GetCategorySets("3") -> <<Json(Sets(3, <<>>)), Garbage, Json(Sets(3, <<1>>))>>
       [] u = GetCategorySets("9") -> <<Json(Sets(9, <<>>))>>
       [] u = GetSetProducts("3", "1") -> <<Json("products"), Text("products")>>
       [] u = GetSetPricing("3", "1") -> <<Json("prices"), Json("new prices")>>
       [] OTHER -> <<Json("document")>>]

ByEndpoint == [u \in UpstreamURLs |-> ttlForPath(u.path)]

Call(tool, category, set) ==
  [tool |-> tool, category |-> category, set |-> set, query |-> "", valid |-> TRUE]
Search(category) == [Call("search_sets", category, Nil) EXCEPT !.query = "q"]
Calls ==
  {Call("list_categories", "", Nil), Search("chess"),
   Search("pokemon"), Call("get_set_products", "3", 1),
   Call("get_set_pricing", "3", 1), Call("get_set_skus", "pokemon tcg", 1),
   Call("summarize_release_counts", "", Nil), Call("summarize_release_counts", "chess", Nil),
   Call("analyze_set_insights", "3", 1),
   [Call("analyze_set_insights", "3", 1) EXCEPT !.valid = FALSE]}
Reads ==
  {[path |-> p] : p \in
     {<<"meta">>, <<"meta", "heuristics">>, <<"categories">>, <<"3", "sets">>,
      <<"3", "sets", "1", "insights">>, <<"9", "analytics", "releases-by-year">>, <<"x", "sets">>}}
HostInputs == Calls \cup Reads
=============================================================================
