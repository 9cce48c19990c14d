SPECIFICATION Spec
CONSTANTS
  Spawns = {s1, s2}
  Digests <- MCDigests
  Signed <- MCSigned
  ManifestOf <- MCManifestOf
  Sidecars <- MCSidecars
  Expected <- MCExpected
  Drafts <- MCDrafts
  Ports <- MCPorts
  Missing = Missing
  None = None
INVARIANTS CacheIsOwn RefusalHasCause PreflightIsHonest ManifestCheckIsExact
PROPERTY ImplementsAdmission
