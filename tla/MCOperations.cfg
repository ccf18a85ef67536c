CONSTANTS
  Nil = Nil
  Error = Error
  NoAnswer = NoAnswer
  Normal <- LowerCase
  Number <- Numerals
  MaxInt = 1023
  MiB = 4
  AbsoluteURLs = {"https://tcgtracking.com/tcgapi/v1", "https://api"}
  DefaultTopN = 2
  SlashNumbers = {"4/102"}
  LetterNumbers = {"SV4"}
  Requests <- AllRequests
SPECIFICATION Spec
INVARIANTS
  ConfigIsUsable
  NamesReachTheirCategory
  RoutesAgree
  JoinKeepsRows
  NarrowingAgrees
  CountsAddUp
  SectionsAgree
  TopCardsAreTop
  TopPriceIsListed
  SinglesAreCardLike
CHECK_DEADLOCK FALSE
