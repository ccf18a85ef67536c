------------------------------ MODULE Resources ------------------------------
(***************************************************************************)
(* internal/server/resources.go: which resource a URI tcg:///a/b/... is.   *)
(* A path is the sequence of its segments (splitResourcePath).             *)
(***************************************************************************)
EXTENDS Resolver

\* registerResources: the URIs and URI templates the server announces.
resources ==
  {[Name |-> "meta",                       parts |-> <<"meta">>],
   [Name |-> "categories",                 parts |-> <<"categories">>],
   [Name |-> "meta-heuristics",            parts |-> <<"meta", "heuristics">>],
   [Name |-> "analytics-releases-by-year", parts |-> <<"analytics", "releases-by-year">>]}

resourceTemplates ==
  {[Name |-> "category-sets", parts |-> <<"{categoryId}", "sets">>],
   [Name |-> "set-products",  parts |-> <<"{categoryId}", "sets", "{setId}">>],
   [Name |-> "set-pricing",   parts |-> <<"{categoryId}", "sets", "{setId}", "pricing">>],
   [Name |-> "set-skus",      parts |-> <<"{categoryId}", "sets", "{setId}", "skus">>],
   [Name |-> "set-insights",  parts |-> <<"{categoryId}", "sets", "{setId}", "insights">>],
   [Name |-> "category-analytics-releases-by-year",
    parts |-> <<"{categoryId}", "analytics", "releases-by-year">>]}

\* What is to be read or computed: a tool or resource, its category and its set
\* (and the query of search_sets).
Target(op, category, set) == [op |-> op, category |-> category, set |-> set, query |-> ""]

\* parseCategorySetParts: ids that are no integers are not found.
OfCategory(op, category) ==
  IF Atoi(category) = Error THEN Error ELSE Target(op, Atoi(category), Nil)
OfSet(op, category, set) ==
  IF Error \in {Atoi(category), Atoi(set)} THEN Error
  ELSE Target(op, Atoi(category), Atoi(set))

\* The cases of a category, by the segments after it.
Views == [insights |-> "set-insights", pricing |-> "set-pricing", skus |-> "set-skus"]

\* Mutant of readResourceValue: the products of a set are told by their first
\* segments only.
readResourceValueByPrefix(parts) ==
  CASE Len(parts) = 1 /\ parts[1] \in {"meta", "categories"} -> Target(parts[1], Nil, Nil)
    [] parts = <<"meta", "heuristics">> -> Target("meta-heuristics", Nil, Nil)
    [] parts = <<"analytics", "releases-by-year">> -> Target("analytics-releases-by-year", Nil, Nil)
    [] Len(parts) = 2 /\ parts[2] = "sets" -> OfCategory("category-sets", parts[1])
    [] Len(parts) = 3 /\ Tail(parts) = <<"analytics", "releases-by-year">> ->
         OfCategory("category-analytics-releases-by-year", parts[1])
    [] Len(parts) >= 3 /\ parts[2] = "sets" -> OfSet("set-products", parts[1], parts[3])
    [] OTHER -> Error

\* The switch of readResourceValue; Error is ResourceNotFoundError.
readResourceValue(parts) ==
  CASE Len(parts) = 1 /\ parts[1] \in {"meta", "categories"} -> Target(parts[1], Nil, Nil)
    [] parts = <<"meta", "heuristics">> -> Target("meta-heuristics", Nil, Nil)
    [] parts = <<"analytics", "releases-by-year">> -> Target("analytics-releases-by-year", Nil, Nil)
    [] Len(parts) = 2 /\ parts[2] = "sets" -> OfCategory("category-sets", parts[1])
    [] Len(parts) = 3 /\ Tail(parts) = <<"analytics", "releases-by-year">> ->
         OfCategory("category-analytics-releases-by-year", parts[1])
    [] Len(parts) = 3 /\ parts[2] = "sets" -> OfSet("set-products", parts[1], parts[3])
    [] Len(parts) = 4 /\ parts[2] = "sets" /\ parts[4] \in DOMAIN Views ->
         OfSet(Views[parts[4]], parts[1], parts[3])
    [] OTHER -> Error
=============================================================================
