SPECIFICATION Spec
CONSTANTS
  None = None
  c1 = c1  c2 = c2
  agent1 = agent1  agent2 = agent2
  a = a  b = b
  api = api  downstream = downstream
  acme = acme  globex = globex
  ClientIds = {c1, c2}
  Subjects = {agent1, agent2}
  ScopeNames = {a, b}
  Audiences = {api, downstream}
  Tenants = {acme, globex}
  DefaultAudience = api
  Requests = {r1, r2, r3, r4}
  Registrations <- FixedRegistrations
  Forms <- DelegationForms
  MaxDepth = 2  TTL = 1  TicksPerSecond = 1  MaxTime = 0
SYMMETRY RequestSymmetry
INVARIANTS TypeOK HoldersCameThemselves RecordedBeforeIssued AuthorityFromRoot OneRootPerTask AncestryRecorded
PROPERTIES LedgerSpec
