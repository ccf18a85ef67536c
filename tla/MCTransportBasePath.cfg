CONSTANTS
  NoEntry = NoEntry
  NoBody = NoBody
  NoRequest = NoRequest
  BasePath <- DefaultPath
  metaTTL = 2
  categoriesTTL = 2
  setsTTL = 2
  productsTTL = 2
  pricingTTL = 2
  skusTTL = 2
  searchTTL = 2
  Workers = {w1, w2}
  URLs <- Listings
  BodyLen <- UnitLengths
  maxBytes = 0
  Headers200 <- ETagOnly
  Headers304 <- ETagOnly
  PromisedTTL <- Two
  Timeout = 1
  MaxVersion = 1
  MaxTime = 1
SPECIFICATION Spec
SYMMETRY WorkerSymmetry
INVARIANTS
  AnswerIsKept
