\* The sweep and a webhook over one problem, one fault, a window of one tick.
CONSTANTS
  Keys = {k1}
  Runs = {sweep, hook}
  Sweep = sweep
  NoKey = NoKey
  ValidSeverity = {"warning", "critical"}
  Window = 1
  Retention = 0
  Horizon = 2
  NotifyMaxAttempts = 2
  MaxFaults = 1
SPECIFICATION LiveSpec
PROPERTIES
  FailedPageIsRetried
  FirstPageArrives
