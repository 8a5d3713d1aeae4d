\* Two callers over one problem: every interleaving of their statements,
\* with one fault, a window of two ticks and two publish attempts.
CONSTANTS
  Keys = {k1}
  Runs = {r1, r2}
  NoKey = NoKey
  ValidSeverity = {"warning", "critical"}
  Window = 2
  Retention = 3
  Horizon = 4
  NotifyMaxAttempts = 2
  MaxFaults = 1
SYMMETRY Sym
SPECIFICATION Spec
INVARIANTS
  TypeOK
  SuppressedOnlyIfRecent
  PagesOnlyWithCause
  FailedPageStaysFlagged
  UnpagedIncidentHasCarrier
PROPERTIES
  LifecycleKept
