CONSTANTS
  Visits = {v1, v2, v3}
  Keys = {k1, k2}
  N = 1
  NoVisit = NoVisit
  NoKey = NoKey
SPECIFICATION FairSpec
INVARIANT OneFirePerKey
PROPERTY PassingVisitSettlesKey
PROPERTY ImplementsContract
