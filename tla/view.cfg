SPECIFICATION Spec
CONSTANTS
  NRuns = 2
  NCalls = 2
  MaxLost = 1
INVARIANTS TypeOK VerdictIsTrue ViewSettles
PROPERTIES OverStaysOver
CHECK_DEADLOCK FALSE
