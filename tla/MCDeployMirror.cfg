SPECIFICATION Spec
CONSTANTS
  Site = {"s1", "s2"}
  Schemas <- MCSchemas
  Name = {"x", "y"}
  Tenant = {"a", "b"}
  Design <- Apart
  Policies <- MCPolicies
  Posted <- MCPosted
  Boot <- MCBoot
  Mark = Mark
  None = None
INVARIANTS
  HistoryFree
  UndeployUndoes
PROPERTIES
  RelaysFit
  OthersKept
