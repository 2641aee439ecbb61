SPECIFICATION Spec
CONSTANTS
  Scope = {"a"}
  Siblings = {"s"}
  Runs = {1, 2}
  Starts <- OneReviewed
  MaxRevisions = 1
  MaxClock = 3
  MaxRetries = 1
  MaxFaults = 1
INVARIANTS TypeOK AgentRunsAreDistinct
PROPERTIES ReviewBacksResult NothingForeignLost RollbackIsExact
