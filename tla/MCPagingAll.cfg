CONSTANTS
  Products = {1, 2}
  MaxTotal = 3
  MaxInt = 7
  pageSize = 2
  Limits <- AllLimits
  Offsets <- SomeOffsets
  Refreshes = 0
SPECIFICATION Spec
INVARIANTS
  NoPanic
