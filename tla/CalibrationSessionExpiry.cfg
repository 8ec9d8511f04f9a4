CONSTANTS
  p1 = p1
  p2 = p2
  s1 = s1
  s2 = s2
  a1 = a1
  a2 = a2
  a3 = a3
  k1 = k1
  NoKey = NoKey
  FreeInput = FreeInput
  NoAthlete = NoAthlete
  Athletes <- TwoAthletes
  Sessions <- TwoSessions
  Attempts <- ThreeAttempts
  Keys <- OneKey
SPECIFICATION Spec
SYMMETRY Symmetry
CHECK_DEADLOCK FALSE
INVARIANT ExpiredAnswerIsRecorded
