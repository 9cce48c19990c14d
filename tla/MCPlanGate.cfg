CONSTANTS
  Requests = {r1, r2}
  NoRequest = NoRequest
  Channels = {slack, discord}
  Users = {alice}
  Timeout = 2
SPECIFICATION FairSpec
INVARIANTS TypeOK SpendNeedsConsent AnswerHasSomewhereToLand InTimeAnswerCounts AuditMatchesGate
PROPERTIES GateSettles ImplementsConsent
CHECK_DEADLOCK FALSE
