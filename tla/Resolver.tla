------------------------------- MODULE Resolver ------------------------------
(***************************************************************************)
(* internal/catalog/resolver.go: from what a host calls a game to the      *)
(* upstream's category.  The index is built once from the categories of    *)
(* the start; here it is searched for in their list.  A category is        *)
(* [ID, Name, DisplayName].                                                *)
(***************************************************************************)
EXTENDS Domain, Integers, Sequences, FiniteSetsExt

CONSTANTS
  Normal,  \* the lower-case trimmed form of the texts that are not in it
  Number   \* the value of the texts that strconv.Atoi accepts

normalize(text) == IF text \in DOMAIN Normal THEN Normal[text] ELSE text
Atoi(text) == IF text \in DOMAIN Number THEN Number[text] ELSE Error

\* (pok'emon stands for the spelling with an accent.)
DefaultAliases ==
  {[ID |-> 1,  names |-> {"magic", "mtg", "magic the gathering"}],
   [ID |-> 2,  names |-> {"yugioh", "yu-gi-oh", "yu-gi-oh!", "ygo"}],
   [ID |-> 3,  names |-> {"pokemon", "pok'emon", "ptcg"}],
   [ID |-> 62, names |-> {"fab", "flesh and blood", "flesh & blood"}],
   [ID |-> 68, names |-> {"one piece", "optcg", "one piece card game"}],
   [ID |-> 71, names |-> {"lorcana", "disney lorcana"}],
   [ID |-> 85, names |-> {"pokemon japan", "pokemon jp"}],
   [ID |-> 63, names |-> {"digimon", "digimon card game"}],
   [ID |-> 79, names |-> {"star wars unlimited", "swu"}],
   [ID |-> 20, names |-> {"weiss schwarz", "weiss"}]}

\* No alias reads as a number, and neither does the empty text.
ASSUME ResolverAssumption ==
  /\ Number \in [DOMAIN Number -> Int]
  /\ Error \notin Int
  /\ "" \notin DOMAIN Number
  /\ \A a \in DefaultAliases : a.names \cap DOMAIN Number = {}

\* The places of the categories that are entered in nameIndex under a key.
NameIndex(categories, key) ==
  {i \in DOMAIN categories :
     key \in {normalize(categories[i].Name), normalize(categories[i].DisplayName)} \ {""}}

\* Mutant of ResolveCategoryID: the first category of a name is kept, and names
\* go before aliases.
ResolveCategoryIDNamesFirst(categories, text) ==
  LET key     == normalize(text)
      named   == NameIndex(categories, key)
      aliased == {a \in DefaultAliases : key \in a.names}
  IN  IF key = "" THEN Error
      ELSE IF Atoi(key) # Error THEN Atoi(key)
      ELSE IF named # {} THEN categories[Min(named)].ID
      ELSE IF aliased # {} THEN (CHOOSE a \in aliased : TRUE).ID
      ELSE Error

\* A number is taken for an id, loaded or not; then aliases, then names, of which
\* the last category in the list has replaced the others.
ResolveCategoryID(categories, text) ==
  LET key     == normalize(text)
      named   == NameIndex(categories, key)
      aliased == {a \in DefaultAliases : key \in a.names}
  IN  IF key = "" THEN Error
      ELSE IF Atoi(key) # Error THEN Atoi(key)
      ELSE IF aliased # {} THEN (CHOOSE a \in aliased : TRUE).ID
      ELSE IF named # {} THEN categories[Max(named)].ID
      ELSE Error

\* The category itself, which has to be loaded.
ResolveCategory(categories, text) ==
  LET id     == ResolveCategoryID(categories, text)
      loaded == {i \in DOMAIN categories : categories[i].ID = id}
  IN  IF id = Error \/ loaded = {} THEN Error ELSE categories[Max(loaded)]
=============================================================================
