SPECIFICATION Spec
CONSTANTS
  None = None
  t1 = t1  t2 = t2  t3 = t3
  k1 = k1  k2 = k2  p1 = p1
  Tokens = {t1, t2, t3}
  Keys = {k1, k2}
  Servers = {p1}
  Ttl = 2
  Interval = 1
  MaxDelay = 0
  MaxTime = 1
PROPERTIES ForcedFetchesAreSpaced
