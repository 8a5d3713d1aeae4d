\* One job whose runs may overlap, the sweep and GET /agents.
CONSTANTS
  j1 = j1
  b1 = b1
  b2 = b2
  agents = agents
  sweep = sweep
  None = None
  Jobs = {j1}
  Beats = {b1, b2}
  Readers = {sweep, agents}
  Allowed = 1
  MaxBeat = 1
SPECIFICATION LiveSpec
INVARIANTS
  OverdueOnlyIfSilent
  PoolsAreFew
PROPERTIES
  SilenceIsSignalled
