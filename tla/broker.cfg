SPECIFICATION FairSpec
CONSTANTS
  Callers = {c1, c2}
  Requests = {q1}
  MaxExits = 1
  MaxGarbled = 1
  MaxRestarts = 1
  MaxSpawnFaults = 1
  MaxKillFaults = 1
  Announcing = 1
  Nobody = Nobody
INVARIANTS TypeOK OneProcess PendingIsServed
PROPERTIES RuntimeComesBack
CHECK_DEADLOCK FALSE
