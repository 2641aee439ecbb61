CONSTANTS
  Agents = {"a1", "a2"}
  Models = {"m1", "m2"}
  Providers = {"p1"}
  Flows = {"f1", "f2"}
  First <- First1
  EnvKeys = {}
  Testers = {"t1"}
  MaxEdits = 2
  None = None
  Sessions = {"s1"}
  MaxRuns = 3
  Workers = {"w1", "w2"}
  Sizes = {1, 2}
  Budget = 7
  Overhead = 1
  MaxMessages = 5
  MaxFiles = 2
  MaxLoads = 3
  MaxCrashes = 1
  MaxFaults = 1
  Names = {"n1", "n2"}
  MaxConnects = 3
  Groups <- Groups1
SPECIFICATION FairSpec
INVARIANTS TypeOK TestShownIsCurrent HistoryIsWhole InputIsRecent FilesMatchRows RunsAreReachable
PROPERTY ServerIsReclaimed
CHECK_DEADLOCK FALSE
