CONSTANTS
  NoEntry = NoEntry
  Absent = Absent
  Procs = {p1, p2}
  Keys = {k1, k2}
  BodyLens = {1, 2}
  Limits = {2, 3}
  Faults <- AllFaults
  Kills = 1
  Undeleted = 1
  MaxTime = 3
  Foreign = TRUE
SPECIFICATION Spec
INVARIANTS
  TypeOK
  NeverPartial
  TempRemoved
PROPERTIES
  Settles
  PersistedKept
