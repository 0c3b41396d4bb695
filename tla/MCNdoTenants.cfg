SPECIFICATION Spec
CONSTANTS
  x = x
  y = y
  TenantId = {"t1", "t2"}
  Template <- MCTemplate
  Seeded = y
  SeededName = "p"
  SeededTenant = "t1"
  Schema = {"s"}
  Name = {"p", "q"}
  Posted <- MCPosted
  Batch <- MCBatch
  Handler = {h1}
  MaxTenants = 2
  MaxPolicies = 2
  File = {"f"}
  MaxLoads = 1
  NoFile = NoFile
  NoTenant = NoTenant
  NoUuid = NoUuid
  Idle = Idle
CONSTRAINT
  SmallWithFile
INVARIANTS
  SummariesExact
  LabelsResolve
  ReferencesHold
