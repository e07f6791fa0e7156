CONSTANTS
  Patchers = {p1, p2}
  Strangers = {s1}
  MaxHooks = 2
  None = None
SPECIFICATION FairSpec
INVARIANT ImportsServeTheHooked
PROPERTY EveryoneLeaves
