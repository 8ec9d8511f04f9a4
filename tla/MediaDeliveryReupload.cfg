CONSTANTS
  a1 = a1
  m1 = m1
  m2 = m2
  l1 = l1
  l2 = l2
  l3 = l3
  d1 = d1
  d2 = d2
  NoMedia = NoMedia
  NoLease = NoLease
  Attempts <- OneAttempt
  Media <- TwoUploads
  Owner <- OwnerOfTwo
  Deliveries <- OneWorker
  Leases <- TwoLeases
  MaxFaults = 1
  WorkerMaxAttempts = 1
  MaxRecoveryAttempts = 3
  MaxCopies = 1
  DeadlinesPass = FALSE
SPECIFICATION DeliverySpec
CHECK_DEADLOCK FALSE
SYMMETRY UploadSymmetry
INVARIANTS
  ReferencedBytesSurvive
