SPECIFICATION Spec
CONSTANTS
  None = None
  TagOrder <- MCTagOrder
  Senders <- MCSenders
  Texts <- MCTexts
  Zones <- MCZones
  Names <- MCNames
  Default = "Atlantis"
  Policies <- MCPolicies
  Walk = 3
  Nows <- MCNows
INVARIANTS GrantIsBounded EveryChangeIsSaid ScopeIsOwn DeadlineReadsAsSaid
