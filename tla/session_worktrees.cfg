SPECIFICATION Spec
CONSTANTS
  s1 = s1  s2 = s2  s3 = s3  a = a  b = b
  Sessions = {s1, s2, s3}
  Runs = {r1, r2}
  Inputs = {i1}
  Workers = {w1, w2}
  Roots = {a, b}
  RootOf <- TwoRoots
  EditedRoots = {}
  Overlap <- AllOverlap
  Keys = {k}
  Timeout = 1
  MaxTime = 0
  MaxRequests = 3
  MaxCrashes = 0
  MaxFaults = 0
  Nobody = Nobody
  User = User
  NoKey = NoKey
SYMMETRY SharedSymmetry
INVARIANTS CleanDiff WorktreeExclusive
CHECK_DEADLOCK FALSE
