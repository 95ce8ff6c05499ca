SPECIFICATION FairSpec
CONSTANTS
  None = None
  c1 = c1  c2 = c2
  agent1 = agent1  agent2 = agent2
  a = a  b = b
  api = api  downstream = downstream
  acme = acme  globex = globex
  ClientIds = {c1}
  Subjects = {agent1, agent2}
  ScopeNames = {a, b}
  Audiences = {api, downstream}
  Tenants = {acme, globex}
  DefaultAudience = api
  Requests = {r1, r2}
  Registrations <- ChurningRegistrations
  Forms <- AnyForms
  MaxDepth = 1  TTL = 2  TicksPerSecond = 2  MaxTime = 4
INVARIANTS RecordedBeforeIssued RefusedMeansUnsigned AuthorityFromRoot
PROPERTIES AlwaysSignedAlive EveryRequestAnswered
