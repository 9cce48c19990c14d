SPECIFICATION Spec
CONSTANTS
  Users = {alice, bob}
  NoOne = NoOne
  MaxHistory = 3
  TriggerAt = 2
  TokenBudget = 1
  KeepRecent = 1
  MaxSent = 3
  Ttl = 1
  Backends = {"memory", "redis", "sqlite", "postgres", "vector"}
INVARIANTS NothingElseIsLost
CHECK_DEADLOCK FALSE
