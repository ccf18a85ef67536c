------------------------------ MODULE ToolCalls ------------------------------
(***************************************************************************)
(* The tool and resource handlers of internal/server (tools.go and         *)
(* resources.go) over the promise of StaleReads: a call is resolved to a   *)
(* category, reads the documents it needs one after the other, fails with  *)
(* the first that fails, and is answered when it has them all.  What it    *)
(* computes from them is Operations.                                       *)
(***************************************************************************)
EXTENDS StaleReads, Endpoints, Resources, Adapter

CONSTANTS
  Content,     \* per URL and version, [json, body] as the upstream sends it
  Inputs,      \* what the host calls and reads
  MaxChanges   \* bound on the documents that the upstream replaces

ASSUME ToolsAssumption ==
  /\ PromisedTTL \in [URLs -> Nat]
  /\ Timeout \in Nat \ {0}
  /\ None \notin [url : URLs, start : Nat]
  /\ GetCategories \in URLs
  /\ \A url \in URLs : Len(Content[url]) \in Nat \ {0}

VARIABLES
  listed,  \* the categories the resolver was built from when the server started
  call     \* per worker, the call it handles: [target, reads, outcome]

toolVars == <<vars, listed, call>>

\* What a version decodes to: from the upstream, and from the cache, whose
\* responses always say that they are JSON.
Received(url, v, json) == Decode([status |-> 200, json |-> json, body |-> Content[url][v].body])
Fetched(url, v) == Received(url, v, Content[url][v].json)
Cached(url, v)  == Received(url, v, TRUE)
Decoded(read)   == {Fetched(read.url, read.ver), Cached(read.url, read.ver)}

\* What decodes as the categories is a list of them (generated.CategoriesResponse).
ASSUME CategoriesAssumption ==
  \A v \in 1..Len(Content[GetCategories]) :
    Cached(GetCategories, v) # Error =>
      Cached(GetCategories, v).categories \in
        Seq([id : Int, name : STRING, display_name : STRING])

\* buildRuntime: the categories are read once, and without them there is no start.
LoadedCategories ==
  {Categories(doc) : doc \in {Cached(GetCategories, v) : v \in Allowed(GetCategories)} \ {Error}}

ToolsInit ==
  /\ Init
  /\ listed \in LoadedCategories
  /\ call = [w \in Workers |-> None]

-----------------------------------------------------------------------------
ByID == {"search_sets", "get_set_products", "get_set_pricing", "get_set_skus"}
OfLoaded == {"summarize_release_counts", "analyze_set_insights", "set-insights",
             "category-analytics-releases-by-year"}

\* The tool handlers.  valid says whether the years, options and fields of the
\* input pass their checks, which come before the first request.
ToolTarget(input) ==
  LET id       == ResolveCategoryID(listed, input.category)
      category == ResolveCategory(listed, input.category)
  IN  CASE input.tool = "list_categories" -> Target(input.tool, Nil, Nil)
        [] input.tool \in ByID ->
             IF id = Error THEN Error
             ELSE [Target(input.tool, id, input.set) EXCEPT !.query = input.query]
        [] input.tool = "summarize_release_counts" /\ input.category = "" ->
             IF input.valid THEN Target(input.tool, Nil, Nil) ELSE Error
        [] OTHER ->
             IF category = Error \/ ~input.valid THEN Error
             ELSE Target(input.tool, category.ID, input.set)

\* readResource: the analytics of a category need it to be loaded.
ResourceTarget(path) ==
  LET target == readResourceValue(path)
      loaded == {listed[i].ID : i \in DOMAIN listed}
  IN  IF target # Error /\ target.op \in OfLoaded /\ target.category \notin loaded
      THEN Error ELSE target

\* The first of listed and of the documents read that tells the categories.
CategoriesOf(reads) ==
  IF listed # <<>> THEN listed ELSE IF reads # <<>> THEN Categories(reads[1].doc) ELSE <<>>

\* Mutant of AskCategories: the upstream is always asked.
AskCategoriesAlways == <<GetCategories>>

AskCategories == IF listed = <<>> THEN <<GetCategories>> ELSE <<>>

\* The URLs a call asks for, in this order; the categories decide on the rest.
Wanted(target, reads) ==
  LET c == ToString(target.category)
      s == ToString(target.set)
      categories == CategoriesOf(reads)
  IN  CASE target.op = "meta" -> <<GetMeta>>
        [] target.op = "meta-heuristics" -> <<>>
        [] target.op \in {"list_categories", "categories"} -> AskCategories
        [] target.op = "search_sets" -> <<SearchSets(c, target.query)>>
        [] target.op = "category-sets" -> <<GetCategorySets(c)>>
        [] target.op \in {"get_set_products", "set-products"} -> <<GetSetProducts(c, s)>>
        [] target.op \in {"get_set_pricing", "set-pricing"} ->
             <<GetSetPricing(c, s), GetSetProducts(c, s)>>
        [] target.op \in {"get_set_skus", "set-skus"} ->
             <<GetSetSkus(c, s), GetSetProducts(c, s)>>
        [] target.op \in {"analyze_set_insights", "set-insights"} ->
             <<GetCategorySets(c), GetSetProducts(c, s), GetSetPricing(c, s), GetSetSkus(c, s)>>
        [] OTHER ->
             IF target.category # Nil THEN <<GetCategorySets(c)>>
             ELSE AskCategories
                    \o [i \in DOMAIN categories |-> GetCategorySets(ToString(categories[i].ID))]

\* Mutant of SetMissing: it is looked for when everything else is there.
SetMissingLate(target, reads) ==
  /\ target.op \in {"analyze_set_insights", "set-insights"}
  /\ Len(reads) = 4
  /\ \A i \in DOMAIN mapSets(reads[1].doc) : mapSets(reads[1].doc)[i].ID # target.set

\* findSetSummary, which only the insights need: the set has to be in the list.
SetMissing(target, reads) ==
  /\ target.op \in {"analyze_set_insights", "set-insights"}
  /\ Len(reads) = 1
  /\ \A i \in DOMAIN mapSets(reads[1].doc) : mapSets(reads[1].doc)[i].ID # target.set

-----------------------------------------------------------------------------
Reading(w) == call[w] # None /\ call[w].outcome = "reading"
ReadAll(w) == Len(call[w].reads) = Len(Wanted(call[w].target, call[w].reads))

Begin(w, input) ==
  /\ call[w] = None
  /\ LET target == IF "path" \in DOMAIN input THEN ResourceTarget(input.path)
                   ELSE ToolTarget(input)
     IN  call' = [call EXCEPT ![w] =
                    [target |-> target, reads |-> <<>>,
                     outcome |-> IF target = Error THEN "refused" ELSE "reading"]]
  /\ UNCHANGED <<vars, listed>>

\* The next API call.  (URLs bounds what is asked for.)
Fetch(w) ==
  /\ Reading(w) /\ ~ReadAll(w)
  /\ LET url == Wanted(call[w].target, call[w].reads)[Len(call[w].reads) + 1]
     IN  url \in URLs /\ (Ask(w, url) \/ AskAndAnswer(w, url))
  /\ UNCHANGED <<listed, call>>

Respond(w) == Answer(w) /\ UNCHANGED <<listed, call>>

\* The call goes on with one more document, or fails.
Extend(w, doc) ==
  LET reads == Append(call[w].reads,
                      [url |-> request[w].url, ver |-> answer[w].ver, doc |-> doc])
  IN  call' = [call EXCEPT
        ![w].reads = reads,
        ![w].outcome = IF doc = Error THEN "undecodable"
                       ELSE IF SetMissing(call[w].target, reads) THEN "missing" ELSE @]

\* Mutant of Receive: a request that failed is made again.
ReceiveRetries(w) ==
  /\ Reading(w)
  /\ answer[w] # None
  /\ IF answer[w] = Failed THEN UNCHANGED call
     ELSE \E doc \in Decoded(answer[w]) : Extend(w, doc)
  /\ Return(w)
  /\ UNCHANGED listed

\* Mutant of Receive: a document that cannot be had counts as an empty one.
ReceiveSkips(w) ==
  /\ Reading(w)
  /\ answer[w] # None
  /\ IF answer[w] = Failed
     THEN Extend(w, [category_id |-> Nil, sets |-> <<>>])
     ELSE \E doc \in Decoded(answer[w]) : Extend(w, doc)
  /\ Return(w)
  /\ UNCHANGED listed

\* Its answer.
Receive(w) ==
  /\ Reading(w)
  /\ answer[w] # None
  /\ IF answer[w] = Failed THEN call' = [call EXCEPT ![w].outcome = "failed"]
     ELSE \E doc \in Decoded(answer[w]) : Extend(w, doc)
  /\ Return(w)
  /\ UNCHANGED listed

Finish(w) ==
  /\ Reading(w) /\ request[w] = None /\ ReadAll(w)
  /\ call' = [call EXCEPT ![w].outcome = "answered"]
  /\ UNCHANGED <<vars, listed>>

\* The host has the answer or the error.
Reply(w) ==
  /\ call[w] # None /\ call[w].outcome # "reading"
  /\ call' = [call EXCEPT ![w] = None]
  /\ UNCHANGED <<vars, listed>>

-----------------------------------------------------------------------------
\* Changes of the upstream so far.
Changes == SumFunction([u \in URLs |-> Len(published[u]) - 1])

Republish(url) ==
  /\ Changes < MaxChanges
  /\ Len(published[url]) < Len(Content[url])
  /\ Publish(url)
  /\ UNCHANGED <<listed, call>>

\* Time passes while calls wait for the upstream; the rest takes none.
Wait ==
  /\ \A w \in Workers : call[w] # None => request[w] # None
  /\ Tick
  /\ UNCHANGED <<listed, call>>

\* The server ends and is started again, over what the cache has kept.
Restart ==
  /\ Abandon
  /\ call' = [w \in Workers |-> None]
  /\ listed' \in LoadedCategories

Handle(w) == Fetch(w) \/ Receive(w) \/ Finish(w) \/ Reply(w)

ToolsNext ==
  \/ \E w \in Workers : Handle(w) \/ Respond(w) \/ \E input \in Inputs : Begin(w, input)
  \/ \E url \in URLs : Republish(url)
  \/ Wait
  \/ Restart

\* Handlers run on, and a request ends at the latest with its timeout.
ToolsFairness == \A w \in Workers : WF_toolVars(Handle(w)) /\ WF_toolVars(Respond(w))

ToolsSpec == ToolsInit /\ [][ToolsNext]_toolVars /\ ToolsFairness

-----------------------------------------------------------------------------
Ended(w, outcome) == call[w] # None /\ call[w].outcome = outcome

\* Whether version v of url was the upstream's less than a time ago.
CurrentWithin(url, v, time) ==
  v < Len(published[url]) => now < published[url][v + 1] + time

\* However many documents one answer joins, and however long it waits for each,
\* all of them are recent when it is given: the i-th of n was current less than
\* its TTL and the timeouts of the requests after it ago (joined_output.go:9-47,
\* service.go:136-156).  That is over the promise of StaleReads, which the
\* transport keeps as long as no three requests for one URL overlap.
ReadsAreRecent ==
  \A w \in Workers : Ended(w, "answered") =>
    \A i \in DOMAIN call[w].reads :
      LET read == call[w].reads[i]
      IN  CurrentWithin(read.url, read.ver,
            PromisedTTL[read.url] + (Len(call[w].reads) - i + 2) * Timeout)

\* A document that does not decode, or a list that lacks the set, is cached like
\* any other, but no call fails over it for longer than its TTL and two timeouts
\* once the upstream has replaced it (http.go:108, service.go:140).  The document
\* that ends a call is the last it read, is the one it wanted then, and does not
\* decode as the upstream sent it; or it is the list of the sets of its category.
FailuresHeal ==
  \A w \in Workers :
    LET target == call[w].target
        reads  == call[w].reads
        last   == reads[Len(reads)]
    IN  /\ Ended(w, "undecodable") =>
             /\ last.url = Wanted(target, SubSeq(reads, 1, Len(reads) - 1))[Len(reads)]
             /\ Fetched(last.url, last.ver) = Error
             /\ CurrentWithin(last.url, last.ver, PromisedTTL[last.url] + 2 * Timeout)
        /\ Ended(w, "missing") =>
             \E i \in DOMAIN reads :
               LET read == reads[i]
                   sets == Cached(read.url, read.ver).sets
               IN  /\ read.url = GetCategorySets(ToString(target.category))
                   /\ target.set \notin {sets[j].id : j \in DOMAIN sets}
                   /\ CurrentWithin(read.url, read.ver, PromisedTTL[read.url] + 2 * Timeout)

\* An answer is never a partial one: its call has read every document it wants, in
\* that order, none of them failed or was skipped (joined_output.go:9-47, service.go:
\* 136-156), and a summary of all categories has the sets of each category that
\* list_categories shows at the same time, or fails (service.go:66-81).
AnswersAreWhole ==
  \A w \in Workers : Ended(w, "answered") =>
    LET target  == call[w].target
        reads   == call[w].reads
        summary == {"summarize_release_counts", "analytics-releases-by-year"}
    IN  /\ [i \in DOMAIN reads |-> reads[i].url] = Wanted(target, reads)
        /\ \A i \in DOMAIN reads : reads[i].ver # Failed.ver /\ reads[i].doc # Error
        /\ target.op \in summary /\ target.category = Nil =>
             \A i \in DOMAIN CategoriesOf(reads) :
               \E j \in DOMAIN reads :
                 reads[j].url = GetCategorySets(ToString(CategoriesOf(reads)[i].ID))

\* tools.go:100 "Use this first to resolve a game to category IDs and aliases": a
\* category that list_categories shows can be used in every other tool, even if the
\* upstream has changed its list, provided that the server was started with at
\* least one category.  One that was started with none shows categories that it
\* does not accept (run.go:97), and is left out here.
ListedResolve ==
  \A w \in Workers : Ended(w, "answered") /\ listed # <<>> =>
    LET shown == IF call[w].reads = <<>> THEN listed ELSE Categories(call[w].reads[1].doc)
    IN  call[w].target.op \in {"list_categories", "categories"} =>
          \A i \in DOMAIN shown : ResolveCategory(listed, ToString(shown[i].ID)) = shown[i]

\* Every call ends, whatever the upstream answers.
CallsEnd == \A w \in Workers : call[w] # None ~> call[w] = None
=============================================================================
