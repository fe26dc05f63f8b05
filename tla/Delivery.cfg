SPECIFICATION FairSpec
CONSTANTS
  Deliveries = {1, 2}
  Workers = {w1, w2}
  Batch = 2
  Lease = 5
  RunLimit = 1
  MaxFailures = 4
  FailureCap = 4
INVARIANTS
  TypeOK
  ExclusiveClaim
  VerdictHasEvidence
PROPERTIES
  VerdictIsFinal
  EveryMessageSettles
