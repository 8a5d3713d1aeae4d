\* The scheduled sweep alone, one fault: the page that the fault loses.
CONSTANTS
  Keys = {k1}
  Runs = {sweep}
  Sweep = sweep
  NoKey = NoKey
  ValidSeverity = {"warning", "critical"}
  Window = 2
  Retention = 0
  Horizon = 3
  NotifyMaxAttempts = 2
  MaxFaults = 1
SPECIFICATION LiveSpec
PROPERTIES
  EveryIncidentIsPaged
