\* Two operators, two prefixes, three requests, one fault.
CONSTANTS
  Operators = {o1, o2}
  Decisions = {"resolved"}
  Prefixes = {p1, p2}
  Attempts = 2
  MaxRequests = 3
  MaxFaults = 1
SPECIFICATION LiveSpec
INVARIANTS
  AuditIsTrue
  AuditIsComplete
  RevokeAuditedOnce
  RevealedIsStored
PROPERTIES
  RequestEnds
CHECK_DEADLOCK FALSE
