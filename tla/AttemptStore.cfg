CONSTANTS
  a1 = a1
  m1 = m1
  m2 = m2
  l1 = l1
  l2 = l2
  NoMedia = NoMedia
  NoLease = NoLease
  Attempts <- MCAttempts
  Media <- MCMedia
  Leases <- MCLeases
  Owner <- MCOwner
  MaxRecoveryAttempts = 2
SPECIFICATION Spec
SYMMETRY Symmetry
CHECK_DEADLOCK FALSE
INVARIANTS
  LeaseHeldIffProcessing
  NoResurrection
  TerminalTablesAgree
  DeliveriesIdentifyUploads
PROPERTIES
  OutcomeIsFinal
  ImplementsLifecycle
