SPECIFICATION FairSpec
CONSTANTS
  coder = coder  lead = lead  reader = reader  writer = writer  scout = scout  scribe = scribe
  Agents = {coder, lead, reader, writer, scout, scribe}
  RootAgents = {coder, lead, scribe}
  Allowed <- Rights
  Planner <- Plans
  Policies = FALSE
  Interactive = {coder, scribe}
  MaxPlan = 3
  MaxTotal = 6
  MaxDepth = 2
  MaxRounds = 1
  NoItem = NoItem
INVARIANTS TypeOK CalledOnce ConsentReachesAsker WriterIsAlone DependenciesDecide NoDeadEnd RetryIsSound
PROPERTIES EndsOrAsks
CHECK_DEADLOCK FALSE
