SPECIFICATION Spec
CONSTANTS
  s1 = s1  s2 = s2  s3 = s3  a = a  b = b
  Sessions = {s1}
  Runs = {r1, r2}
  Inputs = {i1, i2}
  Workers = {w1, w2}
  Roots = {a}
  RootOf <- OneRoot
  EditedRoots = {}
  Overlap <- AllOverlap
  Keys = {}
  Timeout = 1
  MaxTime = 2
  MaxRequests = 3
  MaxCrashes = 0
  MaxFaults = 0
  Nobody = Nobody
  User = User
  NoKey = NoKey
SYMMETRY Symmetry
INVARIANTS TypeOK
PROPERTIES ApprovedInTime StopDecidesOutcome
CHECK_DEADLOCK FALSE
