\* Two replicas on hosts that booted at once or far apart, two requests.
CONSTANTS
  r1 = r1
  r2 = r2
  Replicas = {r1, r2}
  Requests = {q1, q2}
  Rate = 2
  Boots <- Hosts
  MaxFaults = 1
SYMMETRY Sym
SPECIFICATION Spec
INVARIANTS
  LimitHolds
PROPERTIES
  RefusedOnlyIfBusy
  PauseHeals
