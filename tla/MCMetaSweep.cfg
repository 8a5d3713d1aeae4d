\* Two meta sweeps over one container: every interleaving of readings,
\* snapshots and upserts, with one fault.
CONSTANTS
  c1 = c1
  s1 = s1
  s2 = s2
  Agents = {}
  Containers = {c1}
  Queues = {}
  Sweeps = {s1, s2}
  NoTarget = NoTarget
  MaxReading = 3
  MaxStreak = 3
  FailStreakToAlert = 2
  RestartLoopThreshold = 2
  QueueDepthThreshold = 0
  MaxFaults = 1
SYMMETRY Sym
SPECIFICATION Spec
INVARIANTS
  TypeOK
  CrashLoopIsCarried
  CrashLoopOnlyIfRestarted
