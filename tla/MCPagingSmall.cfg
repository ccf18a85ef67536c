CONSTANTS
  Products = {1, 2, 3}
  MaxTotal = 3
  MaxInt = 7
  pageSize = 2
  Limits <- SmallLimits
  Offsets <- SomeOffsets
  Refreshes = 1
SPECIFICATION Spec
INVARIANTS
  TypeOK
  NoPanic
  PagesAreExact
PROPERTIES
  PagingEnds
