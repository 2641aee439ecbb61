SPECIFICATION Spec
CONSTANTS
  s1 = s1  s2 = s2  s3 = s3  a = a  b = b
  Sessions = {s1}
  Runs = {r1, r2}
  Inputs = {i1, i2}
  Workers = {w1}
  Roots = {a}
  RootOf <- OneRoot
  EditedRoots = {a}
  Overlap <- AllOverlap
  Keys = {k}
  Timeout = 2
  MaxTime = 2
  MaxRequests = 2
  MaxCrashes = 2
  MaxFaults = 1
  Nobody = Nobody
  User = User
  NoKey = NoKey
SYMMETRY Symmetry
INVARIANTS LiveRunsAreHeld
PROPERTIES DeadlineSurvivesRestart ResumesOnSameTree RowsFollowLifecycle
CHECK_DEADLOCK FALSE
CONSTRAINT TwoFailures
ACTION_CONSTRAINT PausedWorld
