\* Three tasks over one client: a threshold of two, a cap of two ceilings, one
\* corrective retry.
CONSTANTS
  Calls = {c1, c2, c3}
  Threshold = 2
  Cooldown = 1
  Charges = {0, 1, 2}
  MaxCost = 1
  JobCap = 2
  MaxRetries = 1
SPECIFICATION LiveSpec
INVARIANTS
  TypeOK
  TrippedOnlyByOutage
  OvershootIsBounded
PROPERTIES
  CallReturns
  BreakerRecovers
