CONSTANTS
  e1 = e1
  e2 = e2
  e3 = e3
  e4 = e4
  s1 = s1
  s2 = s2
  s3 = s3
  Entries = {e1, e2, e3, e4}
  Slots = {s1, s2, s3}
  SlotOf <- MCSlotOf
  MaxDepth = 2
  None = None
SPECIFICATION Spec
SYMMETRY Symmetry
INVARIANT NothingWrappedIsForgotten
INVARIANT WalkSettlesWhatItFound
