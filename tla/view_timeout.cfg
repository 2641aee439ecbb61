SPECIFICATION Spec
CONSTANTS
  NRuns = 1
  NCalls = 2
  MaxLost = 1
INVARIANT StopShowsTheEnd
CHECK_DEADLOCK FALSE
