SPECIFICATION FairSpec
CONSTANTS
  None = None
  Starters = {p1, p2, p3}
  MaxStarts = 3
INVARIANTS Inv ServesPublishedKey CleansUp
PROPERTIES PowerAgreementSpec EveryStartEnds
