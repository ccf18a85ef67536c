----------------------------- MODULE Paging_proof ----------------------------
(***************************************************************************)
(* For all product lists, offsets and limits: the pages are exactly the    *)
(* products from the first offset on, and paging does not panic as long as *)
(* the sum of the limit and the number of products is an int.              *)
(***************************************************************************)
EXTENDS Paging, SequenceTheorems, TLAPS

\* Lists are the sequences of products of bounded length.
LEMMA ListsAreSequences ==
  \A list \in Lists : list \in Seq(Products) /\ Len(list) \in 0..MaxTotal
BY PagingAssumption DEF Lists

LEMMA SequencesAreLists ==
  ASSUME NEW list \in Seq(Products), Len(list) <= MaxTotal
  PROVE  list \in Lists
<1>1. list \in [1..Len(list) -> Products] /\ Len(list) \in 0..MaxTotal
  BY PagingAssumption
<1> QED
  BY <1>1 DEF Lists

\* The limits a page can be cut with, without the sum of offset and limit leaving
\* the int.
Fits(limit) == EffectiveLimit(limit) \in 1..(MaxInt - MaxTotal)

\* p is a page of the list from the offset asked for: it lies within the list, and
\* says that there is more exactly when it does not reach the end.
IsPage(p, list, asked) ==
  LET end == p.offset + Len(p.items)
  IN  /\ p.offset = Clamp(asked, Len(list))
      /\ end \in p.offset..Len(list)
      /\ p.items = SubSeq(list, p.offset + 1, end)
      /\ p.hasMore = (end < Len(list))

\* Clamping an offset puts it into the list.
LEMMA ClampType ==
  ASSUME NEW total \in Nat, NEW asked \in Int
  PROVE  Clamp(asked, total) \in 0..total
BY DEF Clamp

\* Without overflow the end of the page is not before its offset.
LEMMA FittingLimit ==
  ASSUME NEW list \in Lists, NEW limit \in Int, Fits(limit), NEW asked \in Int
  PROVE  ~Panics(list, EffectiveLimit(limit), asked)
<1> DEFINE offset == Clamp(asked, Len(list))
           end == PageEnd(Len(list), EffectiveLimit(limit), offset)
<1>1. list \in Seq(Products) /\ Len(list) \in 0..MaxTotal
  BY ListsAreSequences
<1>2. offset \in 0..Len(list)
  <2>1. Len(list) \in Nat
    BY <1>1, PagingAssumption
  <2> QED
    BY <2>1, ClampType
<1>3. EffectiveLimit(limit) \in Int /\ EffectiveLimit(limit) >= 1
      /\ EffectiveLimit(limit) + MaxTotal <= MaxInt
  BY PagingAssumption DEF Fits
<1>4. end \in offset..Len(list)
  BY <1>1, <1>2, <1>3, PagingAssumption DEF PageEnd, Sum
<1>5. ~(end < offset)
  <2> HIDE DEF offset, end
  <2> QED
    BY <1>1, <1>2, <1>4
<1> QED
  BY <1>5 DEF Panics

\* With overflow or without, an answer that is not a panic is a page
\* (PaginateProducts, normalizer.go:41-66).
LEMMA PageOK ==
  ASSUME NEW list \in Lists, NEW limit \in IntValue, NEW asked \in Int,
         ~Panics(list, EffectiveLimit(limit), asked),
         NEW p, p = PaginateProducts(list, EffectiveLimit(limit), asked)
  PROVE  /\ p \in [offset : 0..MaxTotal, items : Lists, hasMore : BOOLEAN]
         /\ IsPage(p, list, asked)
<1> DEFINE offset == Clamp(asked, Len(list))
           end == PageEnd(Len(list), EffectiveLimit(limit), offset)
           items == SubSeq(list, offset + 1, end)
<1>1. list \in Seq(Products) /\ Len(list) \in 0..MaxTotal
  BY ListsAreSequences
<1>2. offset \in 0..Len(list)
  BY <1>1, ClampType
<1>3. EffectiveLimit(limit) \in Int
  BY PagingAssumption DEF EffectiveLimit, IntValue
<1>4. end \in offset..Len(list)
  <2>1. end \in Int /\ end <= Len(list)
    BY <1>1, <1>2, <1>3, PagingAssumption DEF PageEnd, Sum
  <2>2. ~(end < offset)
    BY DEF Panics
  <2> HIDE DEF end, offset
  <2> QED
    BY <1>1, <1>2, <2>1, <2>2
<1>5. items \in Seq(Products) /\ Len(items) = end - offset
  BY <1>1, <1>2, <1>4, SubSeqProperties
<1>6. p = [offset |-> offset, items |-> items, hasMore |-> end < Len(list)]
  BY DEF PaginateProducts, Page
<1>7. /\ Len(items) <= MaxTotal
      /\ offset + Len(items) = end
      /\ offset \in 0..MaxTotal
  BY <1>1, <1>2, <1>4, <1>5, PagingAssumption
<1> DEFINE more == end < Len(list)
<1>8. /\ items = SubSeq(list, offset + 1, end)
      /\ offset = Clamp(asked, Len(list))
      /\ more \in BOOLEAN
  OBVIOUS
<1>9. p = [offset |-> offset, items |-> items, hasMore |-> more]
  BY <1>6
<1>10. more = (end < Len(list))
  OBVIOUS
<1> HIDE DEF offset, end, items, more
<1>11. items \in Lists
  BY <1>5, <1>7, SequencesAreLists
<1>12. p \in [offset : 0..MaxTotal, items : Lists, hasMore : BOOLEAN]
  BY <1>7, <1>8, <1>9, <1>11
<1>13. p.offset = offset /\ p.items = items /\ p.hasMore = more
  BY <1>9
<1>14. IsPage(p, list, asked)
  BY <1>4, <1>7, <1>8, <1>10, <1>13 DEF IsPage
<1> QED
  BY <1>12, <1>14

-----------------------------------------------------------------------------
\* No page was read yet, or what was read are the products from the first offset
\* up to the one asked for next.
Contiguous ==
  LET total == Len(products)
      start == Clamp(first, total)
  IN  /\ state \in {"asking", "reading"} =>
           /\ Clamp(next, total) \in start..total
           /\ read = SubSeq(products, start + 1, Clamp(next, total))
           /\ read # <<>> => next \in 0..total
      /\ state = "reading" => IsPage(page, products, next)
      /\ state = "done" => read = SubSeq(products, start + 1, total)

\* The inductive invariant of the reading of one unchanging list.
Exact == TypeOK /\ (refreshes = 0 => Contiguous)

\* The empty page the host starts with.
LEMMA NoPageOK ==
  /\ NoPage \in [offset : 0..MaxTotal, items : Lists, hasMore : BOOLEAN]
  /\ NoPage.offset + Len(NoPage.items) <= MaxTotal
<1>1. <<>> \in Lists
  <2>1. <<>> \in Seq(Products) /\ Len(<<>>) <= MaxTotal
    BY PagingAssumption
  <2> QED
    BY <2>1, SequencesAreLists
<1> QED
  BY <1>1, PagingAssumption DEF NoPage

LEMMA InitExact == Init => Exact
<1> SUFFICES ASSUME Init PROVE Exact
  OBVIOUS
<1>1. /\ Len(products) \in 0..MaxTotal /\ products \in Seq(Products)
      /\ Len(products) \in Nat
  BY ListsAreSequences, PagingAssumption DEF Init
<1>2. first \in Int
  BY PagingAssumption DEF Init, IntValue
<1>3. TypeOK
  BY NoPageOK, PagingAssumption DEF Init, TypeOK
<1> DEFINE start == Clamp(first, Len(products))
<1>4. start \in 0..Len(products)
  BY <1>1, <1>2, ClampType
<1>5. Clamp(next, Len(products)) = start /\ read = <<>>
  BY DEF Init
<1> HIDE DEF start
<1>6. SubSeq(products, start + 1, start) = <<>>
  BY <1>4, SubSeqEmpty
<1>7. Contiguous
  BY <1>1, <1>4, <1>5, <1>6 DEF Init, Contiguous, start
<1> QED
  BY <1>3, <1>7 DEF Exact

\* One answer of the handler, or its panic.
LEMMA GetSetProductsExact ==
  ASSUME Exact, NEW limit \in Limits, GetSetProducts(limit)
  PROVE  Exact'
<1> DEFINE p == PaginateProducts(products, EffectiveLimit(limit), next)
<1>1. limit \in IntValue /\ next \in Int /\ products \in Lists
  BY PagingAssumption DEF Exact, TypeOK, IntValue
<1>2. CASE Panics(products, EffectiveLimit(limit), next)
  <2>1. state' = "panicked" /\ UNCHANGED <<products, first, next, page, read, refreshes>>
    BY <1>2 DEF GetSetProducts
  <2> QED
    BY <2>1 DEF Exact, TypeOK, Contiguous
<1>3. CASE ~Panics(products, EffectiveLimit(limit), next)
  <2>1. /\ p \in [offset : 0..MaxTotal, items : Lists, hasMore : BOOLEAN]
        /\ IsPage(p, products, next)
    BY <1>1, <1>3, PageOK
  <2>2. /\ state = "asking" /\ state' = "reading" /\ page' = p
        /\ UNCHANGED <<products, first, next, read, refreshes>>
    BY <1>3 DEF GetSetProducts
  <2> HIDE DEF p
  <2>3. Len(products) \in 0..MaxTotal
    BY <1>1, ListsAreSequences
  <2>4. p.offset + Len(p.items) <= MaxTotal
    BY <2>1, <2>3, PagingAssumption DEF IsPage
  <2>5. TypeOK'
    BY <2>1, <2>2, <2>4 DEF Exact, TypeOK
  <2>6. ASSUME Contiguous PROVE Contiguous'
    BY <2>1, <2>2, <2>6 DEF Contiguous
  <2> QED
    BY <2>2, <2>5, <2>6 DEF Exact
<1> QED
  BY <1>2, <1>3

\* The host takes a page.
LEMMA ContinueExact ==
  ASSUME Exact, Continue
  PROVE  Exact'
<1> DEFINE total == Len(products)
           start == Clamp(first, total)
           end == page.offset + Len(page.items)
<1>1. /\ products \in Seq(Products) /\ total \in 0..MaxTotal
      /\ page.items \in Seq(Products) /\ page.offset \in 0..MaxTotal
      /\ Len(page.items) \in Nat /\ end \in 0..MaxTotal
  <2>1. page.items \in Lists /\ page.offset \in 0..MaxTotal /\ products \in Lists
        /\ end <= MaxTotal
    BY DEF Exact, TypeOK
  <2>2. page.items \in Seq(Products) /\ Len(page.items) \in 0..MaxTotal
    BY <2>1, ListsAreSequences
  <2> QED
    BY <2>1, <2>2, ListsAreSequences, PagingAssumption
<1>2. TypeOK'
  <2>1. read' \in Seq(Products)
    BY <1>1 DEF Exact, TypeOK, Continue
  <2>2. next' \in Offsets \cup 0..MaxTotal
    BY <1>1 DEF Continue
  <2> QED
    BY <2>1, <2>2 DEF Exact, TypeOK, Continue
<1>3. ASSUME Contiguous PROVE Contiguous'
  <2>1. state = "reading" /\ page.offset = Clamp(next, total)
        /\ page.offset \in start..total /\ end \in page.offset..total
        /\ page.items = SubSeq(products, page.offset + 1, end)
        /\ page.hasMore = (end < total)
        /\ read = SubSeq(products, start + 1, page.offset)
    BY <1>3 DEF Contiguous, IsPage, Continue
  <2>2. start \in 0..total
    <3>1. first \in Int
      BY PagingAssumption DEF Exact, TypeOK, IntValue
    <3>2. total \in Nat
      BY <1>1, PagingAssumption
    <3> HIDE DEF total
    <3> QED
      BY <3>1, <3>2, ClampType
  <2>3. /\ read' = read \o page.items /\ next' = end
        /\ state' = (IF page.hasMore THEN "asking" ELSE "done")
        /\ UNCHANGED <<products, first, page>>
    BY DEF Continue
  <2>4. start' = start /\ total' = total
    BY <2>3
  <2> HIDE DEF start, end, total
  <2>5. read' = SubSeq(products, start + 1, end)
    <3>1. /\ start + 1 \in 1..total + 1
          /\ page.offset \in (start + 1) - 1..total
          /\ end \in page.offset..total
      BY <1>1, <2>1, <2>2
    <3>2. SubSeq(products, start + 1, page.offset) \o SubSeq(products, page.offset + 1, end)
            = SubSeq(products, start + 1, end)
      BY <1>1, <3>1, ConcatAdjacentSubSeq DEF total
    <3> QED
      BY <2>1, <2>3, <3>2
  <2>6. Clamp(end, total) = end /\ end \in start..total /\ end \in 0..total
    BY <1>1, <2>1, <2>2 DEF Clamp
  <2>7. CASE page.hasMore
    <3>1. state' = "asking" /\ next' = end /\ products' = products /\ first' = first
      BY <2>3, <2>7
    <3> QED
      BY <2>5, <2>6, <3>1 DEF Contiguous, start, total
  <2>8. CASE ~page.hasMore
    <3>1. state' = "done" /\ products' = products /\ first' = first
      BY <2>3, <2>8
    <3>2. ~(end < total)
      BY <2>1, <2>8, Zenon
    <3>3. end = total
      BY <2>6, <3>2, <1>1, PagingAssumption
    <3> QED
      BY <2>5, <3>1, <3>3 DEF Contiguous, start, total
  <2> QED
    BY <2>7, <2>8
<1>4. refreshes' = refreshes
  BY DEF Continue
<1> QED
  BY <1>2, <1>3, <1>4 DEF Exact

\* Every step keeps the invariant.
LEMMA NextExact ==
  ASSUME Exact, [Next]_vars
  PROVE  Exact'
<1>1. ASSUME NEW limit \in Limits, GetSetProducts(limit) PROVE Exact'
  BY <1>1, GetSetProductsExact
<1>2. CASE Continue
  BY <1>2, ContinueExact
<1>3. CASE Refresh
  <2>1. refreshes \in 0..Refreshes /\ refreshes' = refreshes + 1 /\ refreshes < Refreshes
    BY <1>3 DEF Exact, TypeOK, Refresh
  <2>2. refreshes' \in 0..Refreshes /\ refreshes' # 0
    BY <2>1, PagingAssumption
  <2> QED
    BY <1>3, <2>2 DEF Exact, TypeOK, Refresh
<1>4. CASE UNCHANGED vars
  BY <1>4 DEF Exact, TypeOK, Contiguous, vars
<1> QED
  BY <1>1, <1>2, <1>3, <1>4 DEF Next, Stopped

LEMMA PagesStayExact == Spec => []Exact
<1>1. ASSUME Exact, [Next]_vars PROVE Exact'
  BY <1>1, NextExact
<1> QED
  BY <1>1, InitExact, PTL DEF Spec

\* Whatever limits and offsets the host asks for, an offset, a page and what is read
\* of it stay within the list (PaginateProducts, normalizer.go:41-66).
THEOREM PagingTypes == Spec => []TypeOK
<1>1. Exact => TypeOK
  BY DEF Exact
<1> QED
  BY <1>1, PagesStayExact, PTL

\* get_set_products never panics, for limits that leave room for the list
\* (paginatedProductsOutput, tools.go:243-265).
THEOREM PagingNeverPanics ==
  ASSUME \A limit \in Limits : Fits(limit)
  PROVE  Spec => []NoPanic
<1>1. Init => NoPanic
  BY DEF Init, NoPanic
<1>2. ASSUME Exact, NoPanic, [Next]_vars PROVE NoPanic'
  <2>1. ASSUME NEW limit \in Limits, GetSetProducts(limit) PROVE NoPanic'
    <3>1. limit \in Int /\ next \in Int /\ products \in Lists
      BY <1>2, PagingAssumption DEF Exact, TypeOK, IntValue
    <3>2. ~Panics(products, EffectiveLimit(limit), next)
      BY <3>1, FittingLimit
    <3> QED
      BY <2>1, <3>2 DEF GetSetProducts, NoPanic
  <2> QED
    BY <1>2, <2>1 DEF Next, Continue, Refresh, Stopped, NoPanic, vars
<1> QED
  BY <1>1, <1>2, PagesStayExact, PTL DEF Spec

\* The pages of an unchanging list are its products from the first offset on, none
\* skipped and none twice (PaginateProducts, normalizer.go:41-66).
THEOREM PagesExact == Spec => []PagesAreExact
<1>1. Exact => PagesAreExact
  <2> SUFFICES ASSUME Exact, refreshes = 0 PROVE PagesAreExact
    BY DEF PagesAreExact
  <2>1. Contiguous
    BY DEF Exact
  <2>2. next \in 0..Len(products) => Clamp(next, Len(products)) = next
    BY ListsAreSequences DEF Clamp, Exact, TypeOK
  <2> QED
    BY <2>1, <2>2 DEF Contiguous, PagesAreExact
<1> QED
  BY <1>1, PagesStayExact, PTL
=============================================================================
