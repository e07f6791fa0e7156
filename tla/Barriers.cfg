CONSTANTS
  Waiters = {w1, w2}
  Resetters = {r1, r2}
  Names = {a}
  NoEvent = NoEvent
SPECIFICATION FairSpec
INVARIANT RefusalsAreExplained
PROPERTY PassFindsBarrierOpen
PROPERTY NoWaiterStranded
