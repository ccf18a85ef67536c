-------------------------------- MODULE Paging -------------------------------
(***************************************************************************)
(* get_set_products read page by page: paginatedProductsOutput of          *)
(* internal/server/tools.go and PaginateProducts of                        *)
(* internal/catalog/normalizer.go, with a host that asks for the next      *)
(* offset while has_more is set.  Go's int goes from -MaxInt - 1 to        *)
(* MaxInt.                                                                 *)
(***************************************************************************)
EXTENDS Integers, Sequences

CONSTANTS
  Products,  \* product ids
  MaxTotal,  \* bound on the number of products of the set
  MaxInt,    \* the greatest int
  pageSize,  \* TCG_PAGE_SIZE
  Limits,    \* limits the host may ask for
  Offsets,   \* offsets it may start from
  Refreshes  \* bound on the changes of the product list while it is read

IntValue == (-MaxInt - 1)..MaxInt

ASSUME PagingAssumption ==
  /\ MaxTotal \in Nat
  /\ MaxInt \in Nat
  /\ MaxTotal < MaxInt
  /\ pageSize \in 1..MaxInt
  /\ Limits \subseteq IntValue
  /\ Offsets \subseteq IntValue
  /\ Refreshes \in Nat

VARIABLES
  products,  \* the set's products, as the API lists them
  state,     \* of the host: "asking", "reading", "done", or "panicked"
  first,     \* the offset it started from
  next,      \* the offset it asks for
  page,      \* the last page
  read,      \* all products it has read
  refreshes  \* changes of the list so far

vars == <<products, state, first, next, page, read, refreshes>>

-----------------------------------------------------------------------------
\* The sum of two ints, which wraps around at most once.
Sum(n) == IF n > MaxInt THEN n - 2 * (MaxInt + 1) ELSE n

\* Mutant of Clamp: an offset past the end is kept.
ClampBelow(x, total) == IF x < 0 THEN 0 ELSE x

Clamp(x, total) == IF x < 0 THEN 0 ELSE IF x > total THEN total ELSE x

\* paginatedProductsOutput: the server's page size when no limit is given.
EffectiveLimit(limit) == IF limit <= 0 THEN pageSize ELSE limit

\* end, limited to the list's length from above only.
PageEnd(total, limit, offset) ==
  LET end == Sum(offset + limit)
  IN  IF end > total THEN total ELSE end

\* Mutant of Page: has_more is off by one.
PageMoreEarly(list, offset, end) ==
  [offset |-> offset, items |-> SubSeq(list, offset + 1, end), hasMore |-> end + 1 < Len(list)]

Page(list, offset, end) ==
  [offset |-> offset, items |-> SubSeq(list, offset + 1, end), hasMore |-> end < Len(list)]

\* Mutants of PaginateProducts: has_more compares with the number returned; the
\* answer repeats the offset that was asked for.
PaginateProductsReturned(list, limit, asked) ==
  LET offset == Clamp(asked, Len(list))
      end    == PageEnd(Len(list), limit, offset)
  IN  [Page(list, offset, end) EXCEPT !.hasMore = end - offset < Len(list)]

PaginateProductsUnclamped(list, limit, asked) ==
  LET offset == Clamp(asked, Len(list))
      end    == PageEnd(Len(list), limit, offset)
  IN  [Page(list, offset, end) EXCEPT !.offset = asked]

PaginateProducts(list, limit, asked) ==
  LET offset == Clamp(asked, Len(list))
  IN  Page(list, offset, PageEnd(Len(list), limit, offset))

\* products[offset:end] panics when end is before offset.
Panics(list, limit, asked) ==
  LET offset == Clamp(asked, Len(list))
  IN  PageEnd(Len(list), limit, offset) < offset

-----------------------------------------------------------------------------
Lists == UNION {[1..n -> Products] : n \in 0..MaxTotal}  \* sequences
NoPage == [offset |-> 0, items |-> <<>>, hasMore |-> FALSE]

TypeOK ==
  /\ products \in Lists
  /\ state \in {"asking", "reading", "done", "panicked"}
  /\ first \in Offsets
  /\ next \in Offsets \cup 0..MaxTotal
  /\ page \in [offset : 0..MaxTotal, items : Lists, hasMore : BOOLEAN]
  /\ page.offset + Len(page.items) <= MaxTotal
  /\ read \in Seq(Products)
  /\ refreshes \in 0..Refreshes

Init ==
  /\ products \in Lists
  /\ state = "asking"
  /\ first \in Offsets
  /\ next = first
  /\ page = NoPage
  /\ read = <<>>
  /\ refreshes = 0

\* The handler of get_set_products.
GetSetProducts(limit) ==
  /\ state = "asking"
  /\ IF Panics(products, EffectiveLimit(limit), next)
     THEN state' = "panicked" /\ UNCHANGED page
     ELSE /\ state' = "reading"
          /\ page' = PaginateProducts(products, EffectiveLimit(limit), next)
  /\ UNCHANGED <<products, first, next, read, refreshes>>

\* The host takes the page, and asks for what comes after it if there is more.
Continue ==
  /\ state = "reading"
  /\ read' = read \o page.items
  /\ next' = page.offset + Len(page.items)
  /\ state' = IF page.hasMore THEN "asking" ELSE "done"
  /\ UNCHANGED <<products, first, page, refreshes>>

\* The cached list expires, or is cleared, and the API has another one.
Refresh ==
  /\ state \in {"asking", "reading"}
  /\ refreshes < Refreshes
  /\ refreshes' = refreshes + 1
  /\ products' \in Lists
  /\ UNCHANGED <<state, first, next, page, read>>

Stopped == state \in {"done", "panicked"} /\ UNCHANGED vars

Next ==
  \/ \E limit \in Limits : GetSetProducts(limit)
  \/ Continue
  \/ Refresh
  \/ Stopped

\* The host goes on while there is more, and the server answers.
Spec ==
  Init /\ [][Next]_vars /\ WF_vars(Continue \/ \E limit \in Limits : GetSetProducts(limit))

-----------------------------------------------------------------------------
\* The pages, read one after the other and with any limits, are the products
\* from the first offset on, as long as the list stays the same: none is skipped
\* and none comes twice (PaginateProducts, and what its answer tells the host).
PagesAreExact ==
  refreshes = 0 =>
    LET start == Clamp(first, Len(products))
    IN  /\ state \in {"asking", "reading"} /\ read # <<>> =>
             read = SubSeq(products, start + 1, next)
        /\ state = "done" => read = SubSeq(products, start + 1, Len(products))

\* Reading ends, even if the list changes meanwhile: while has_more is set every
\* page brings the host further.
PagingEnds == <>(state = "done")

\* internal/server/tools.go:34 "max products to return": every limit, with every
\* offset, is answered.
NoPanic == state # "panicked"
=============================================================================
