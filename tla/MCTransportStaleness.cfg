CONSTANTS
  NoEntry = NoEntry
  NoBody = NoBody
  NoRequest = NoRequest
  BasePath <- Root
  metaTTL = 2
  categoriesTTL = 3
  setsTTL = 2
  productsTTL = 3
  pricingTTL = 2
  skusTTL = 2
  searchTTL = 2
  Workers = {w1, w2}
  URLs <- PricingAndCategories
  BodyLen <- UnitLengths
  maxBytes = 0
  Headers200 <- Both
  Headers304 <- DateOnly
  PromisedTTL <- ByEndpoint
  Timeout = 1
  MaxVersion = 2
  MaxTime = 4
SPECIFICATION Spec
SYMMETRY WorkerSymmetry
INVARIANTS
  ValidatorsNotNewer
  NotModifiedHasBody
  AnswerIsKept
PROPERTIES
  ImplementsStaleReads
  ConfirmedIsCurrent
