\* Two agents, four days with a retention of three, one fault.
CONSTANTS
  FleetSize = 2
  Spenders = {2}
  Models <- BlankKey
  Reportable = {1}
  Retention = 3
  MaxCost = 1
  MaxDay = 3
  MaxFaults = 1
SPECIFICATION LiveSpec
INVARIANTS
  NothingPrunedUncounted
PROPERTIES
  FiledUnderItsDay
  CostIsSeen
  RepairConverges
CHECK_DEADLOCK FALSE
