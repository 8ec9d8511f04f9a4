CONSTANTS
  p1 = p1
  p2 = p2
  s1 = s1
  s2 = s2
  a1 = a1
  a2 = a2
  a3 = a3
  k1 = k1
  o1 = o1
  o2 = o2
  NoKey = NoKey
  FreeInput = FreeInput
  NoAthlete = NoAthlete
  Nobody = Nobody
  Athletes <- TwoAthletes
  Sessions <- TwoSessions
  Attempts <- ThreeAttempts
  Keys <- OneKey
  Openers <- TwoOpeners
  LegacyFiles <- SomeFiles
  NewData <- Empty
SPECIFICATION StoreSpec
SYMMETRY FileSymmetry
CHECK_DEADLOCK FALSE
INVARIANTS
  SessionMakesOneAttempt
  KeyNamesOneAttempt
  UpgradeIsSound
PROPERTIES
  ExpiredSessionStaysUnused
