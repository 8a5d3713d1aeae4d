\* One agent, with a port or of the batch kind, the loop and one operator.
CONSTANTS
  a1 = a1
  operator = operator
  snapshot = snapshot
  Agents = {a1}
  Viewers = {operator, snapshot}
  MaxGather = 1
  CacheTTL = 2
  TokenTTL = 3
  Margin = 2
SPECIFICATION Spec
INVARIANTS
  BoardIsRecent
  SnapshotIsCurrent
  TokenOutlivesCall
