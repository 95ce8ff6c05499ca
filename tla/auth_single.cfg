SPECIFICATION Spec
CONSTANTS
  None = None
  c1 = c1
  c2 = c2
  k1 = k1
  k2 = k2
  kid1 = kid1
  j1 = j1
  s1 = s1
  ClientIds = {c1, c2}
  Keys = {k1, k2}
  Kids = {kid1}
  Jtis = {j1}
  Owner <- MCOwner
  MaximumLifetime = 2
  LastTimestamp = 4
  Ahead = 0
  Secrets = {s1}
  Requests = {r1, r2, r3}
  Forms <- ReplayForms
  MaxTime = 2
SYMMETRY RequestSymmetry
INVARIANTS Inv SingleUse ClaimsAreTheClients
PROPERTIES RegisterSpec
