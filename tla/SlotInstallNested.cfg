CONSTANTS
  c1 = c1
  c2 = c2
  c3 = c3
  t1 = t1
  t2 = t2
  pa = pa
  pb = pb
  m1 = m1
  m2 = m2
  s1 = s1
  s2 = s2
  ra = ra
  rb = rb
  rc = rc
  rd = rd
  Patchers = {pa, pb}
  Modules = {m1, m2}
  Rules = {ra, rc, rd}
  Slots = {s1, s2}
  OwnerOf <- MCOwnerOf
  ModuleOf <- MCModuleOf
  SlotOf <- MCSlotOf
  Calls = {c1, c2, c3}
  Threads = {t1}
  Stable = {}
  Replaceable = {}
  WindowReenters = TRUE
  Original = Original
  Foreign = Foreign
  Absent = Absent
  Free = Free
  Nobody = Nobody
SPECIFICATION Spec
SYMMETRY Symmetry
INVARIANT WindowIsExclusive
INVARIANT DispatchersDoNotNest
