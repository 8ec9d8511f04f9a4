CONSTANTS
  MaxStarts = 2
  Bodies <- MCBodies
  MaxUploadBytes = 1
  MaxMultipartBytes = 4
  Decodings <- MCDecodings
  Lead = 1
  Active = 2
  Step = 2
  MaxGap = 3
  CutScore = 4
  Required <- MCRequired
  FewestSamples = 2
  MostSamples = 4
  SampleEvery = 2
  MaxFaults = 1
SPECIFICATION FairProcessSpec
CHECK_DEADLOCK FALSE
INVARIANTS
  UploadIsAllOrNothing
  EveryFileHasAFact
  OwnerRunsAlone
  DatabaseOutlivesItsUsers
PROPERTIES
  AttachedBytesAreThere
  UploadEnds
  CloseEnds
