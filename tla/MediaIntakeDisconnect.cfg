CONSTANTS
  Bodies <- OneBody
  MaxUploadBytes = 2
  MaxMultipartBytes = 5
  Decodings <- OneDecoding
  Lead = 1
  Active = 2
  Step = 2
  MaxGap = 3
  CutScore = 4
  Required <- FreeOnly
  FewestSamples = 2
  MostSamples = 4
  SampleEvery = 2
  MaxFaults = 0
SPECIFICATION FairUploadSpec
CHECK_DEADLOCK FALSE
PROPERTIES
  CancelledUploadEnds
