CONSTANTS
  bundle = bundle
  other = other
  Demo = Demo
  NoBall = NoBall
  NoFoot = NoFoot
  NoGeometry = NoGeometry
  Anchors <- MCAnchors
  NoAthlete = NoAthlete
  Attempts <- MCAttempts
  Alone <- MCAlone
  Stepwise <- MCStepwise
  Withdrawn <- MCWithdrawn
  Mode <- MCMode
  Bundle <- MCBundle
  Footage <- MCFootage
  Receipts <- MCReceipts
  ReceiptOf <- MCReceiptOf
  Policies <- MCPolicies
  Rule <- MCRule
  Required <- MCRequired
  RetryDelays <- MCDelays
  MovementRate = 2
  MaxAttempts = 2
  LastInstant = 2
  PageLimit = 1
  Frames = 3
  MaxInFlight = 2
  RequestTimeout = 2
  BatchDeadline = 5
  Horizon = 6
  Manifests = 2
  Validity = 1
  FrameLimit = 0
  BatchLimit = 3
  Percentile = 60
SPECIFICATION FairSpec
CHECK_DEADLOCK FALSE
INVARIANTS
  ReceiptIsEarned
  NoOverlappingRequests
  PagesShowOneSnapshot
  NoImpactCountsTwice
PROPERTIES
  RankedUnderCurrentPolicy
  AnalysisEnds
