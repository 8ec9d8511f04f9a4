CONSTANTS
  f1 = f1
  v1 = v1
  wf = wf
  wv = wv
  free = free
  verified = verified
  d1 = d1
  d2 = d2
  NoMode = NoMode
  NoDrain = NoDrain
  NoAttempt = NoAttempt
  NoWorker = NoWorker
  Attempts <- TwoAttempts
  Workers <- TwoWorkers
  Modes <- BothModes
  AttemptMode <- ModeOfAttempt
  WorkerMode <- ModeOfWorker
  Drains <- TwoDrains
  MaxAttempts = 2
  MaxEnqueues = 2
  MaxExpiries = 1
SPECIFICATION FairSpec
CHECK_DEADLOCK FALSE
INVARIANTS
  NoLostWakeUp
  LiveLeaseIsWorkedOn
  StopDrainsEverything
PROPERTIES
  ImplementsAtLeastOnce
  EnqueuedIsAnalysed
  StopEnds
