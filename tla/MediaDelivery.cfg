CONSTANTS
  a1 = a1
  m1 = m1
  m2 = m2
  l1 = l1
  l2 = l2
  l3 = l3
  d1 = d1
  d2 = d2
  NoMedia = NoMedia
  NoLease = NoLease
  Attempts <- OneAttempt
  Media <- OneUpload
  Owner <- OwnerOfOne
  Deliveries <- TwoWorkers
  Leases <- ThreeLeases
  MaxFaults = 1
  WorkerMaxAttempts = 2
  MaxRecoveryAttempts = 3
  MaxCopies = 2
  DeadlinesPass = TRUE
SPECIFICATION FairDeliverySpec
CHECK_DEADLOCK FALSE
INVARIANTS
  ReferencedBytesSurvive
  EveryByteHasARetentionFact
  EnqueuedNotWithdrawn
PROPERTIES
  AttachedUploadsSettle
  BytesAreEventuallyDeleted
