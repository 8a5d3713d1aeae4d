\* The scheduled sweep and a manual one over an agent and a queue.
CONSTANTS
  a1 = a1
  q1 = q1
  manual = manual
  scheduled = scheduled
  Agents = {a1}
  Containers = {}
  Queues = {q1}
  Sweeps = {scheduled, manual}
  NoTarget = NoTarget
  MaxReading = 2
  MaxStreak = 2
  FailStreakToAlert = 2
  RestartLoopThreshold = 2
  QueueDepthThreshold = 0
  MaxFaults = 1
SPECIFICATION LiveSpec
PROPERTIES
  OutageIsSignalled
  BacklogIsSignalled
