CONSTANTS
  NoEntry = NoEntry
  NoBody = NoBody
  NoRequest = NoRequest
  BasePath <- DefaultPath
  metaTTL = 2
  categoriesTTL = 2
  setsTTL = 2
  productsTTL = 2
  pricingTTL = 2
  skusTTL = 2
  searchTTL = 2
  Workers = {w1}
  URLs <- SearchesAndMeta
  BodyLen <- GrowingLengths
  maxBytes = 2
  Headers200 <- ETagOnly
  Headers304 <- Neither
  PromisedTTL <- Two
  Timeout = 1
  MaxVersion = 2
  MaxTime = 4
  MaxLives = 2
SPECIFICATION LivesSpec
INVARIANTS
  OwnBody
PROPERTIES
  ImplementsStaleReadsOverLives
CHECK_DEADLOCK FALSE
