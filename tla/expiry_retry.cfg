SPECIFICATION FairSpec
CONSTANTS
  s1 = s1  s2 = s2  s3 = s3  a = a  b = b
  Sessions = {s1}
  Runs = {r1}
  Inputs = {i1}
  Workers = {w1}
  Roots = {a}
  RootOf <- OneRoot
  EditedRoots = {}
  Overlap <- AllOverlap
  Keys = {}
  Timeout = 1
  MaxTime = 2
  MaxRequests = 1
  MaxCrashes = 0
  MaxFaults = 1
  Nobody = Nobody
  User = User
  NoKey = NoKey
PROPERTIES OverdueIsRejected
CHECK_DEADLOCK FALSE
