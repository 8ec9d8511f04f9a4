CONSTANTS
  Trainings <- TwoTrainings
  Origins <- TwoOrigins
  Modes <- BothModes
  MaxFaults = 1
  MaxUploads = 2
  MaxVisits = 2
  MaxRequests = 3
  NoTraining = 0
  NoOrigin = 0
SPECIFICATION MCSpec
CHECK_DEADLOCK FALSE
INVARIANTS
  AwaitingUploadReturnsToCapture
