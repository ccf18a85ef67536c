CONSTANTS
  Nil = Nil
  Error = Error
  None = None
  Normal <- NoSpellings
  Number <- Numerals
  BasePath <- Root
  metaTTL = 1
  categoriesTTL = 1
  setsTTL = 1
  productsTTL = 2
  pricingTTL = 1
  skusTTL = 1
  searchTTL = 1
  Workers = {w1}
  URLs <- UpstreamURLs
  PromisedTTL <- ByEndpoint
  Timeout = 1
  MaxVersion = 3
  MaxTime = 6
  Content <- Documents
  Inputs <- HostInputs
  MaxChanges = 2
SPECIFICATION ToolsSpec
INVARIANTS
  ReadsAreRecent
  FailuresHeal
  AnswersAreWhole
  ListedResolve
PROPERTIES
  CallsEnd
