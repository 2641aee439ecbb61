SPECIFICATION Spec
CONSTANTS
  Scope = {"a"}
  Siblings = {}
  Runs = {1, 2}
  Starts <- OnlySingle
  MaxRevisions = 0
  MaxClock = 3
  MaxRetries = 0
  MaxFaults = 0
INVARIANTS StaysRevertible
