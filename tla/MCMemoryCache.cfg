CONSTANTS
  NoEntry = NoEntry
  Keys = {1, 2, 3}
  Lengths <- BodyLengths
  Limits <- SomeLimits
  MaxClock = 2
  MaxDrift = 2
SPECIFICATION Spec
INVARIANTS
  TypeOK
  AccountWithinLimit
  AccountNeverOverstates
PROPERTIES
  DriftsOnlyWhenOversized
  RestoreKeepsNewest
  NothingLostAcrossRestart
