CONSTANTS
  c1 = c1
  c2 = c2
  c3 = c3
  t1 = t1
  t2 = t2
  pa = pa
  pb = pb
  m1 = m1
  m2 = m2
  s1 = s1
  s2 = s2
  ra = ra
  rb = rb
  rc = rc
  rd = rd
  Patchers = {pa}
  Modules = {m1, m2}
  Rules = {ra, rb, rc}
  Slots = {s1, s2}
  OwnerOf <- MCOwnerOf
  ModuleOf <- MCModuleOf
  SlotOf <- MCSlotOf
  Calls = {c1, c2}
  Threads = {t1, t2}
  Stable = {s1, s2}
  Replaceable = {s1}
  WindowReenters = FALSE
  Original = Original
  Foreign = Foreign
  Absent = Absent
  Free = Free
  Nobody = Nobody
SPECIFICATION Spec
SYMMETRY Symmetry
INVARIANT NothingLiveIsUnrecorded
INVARIANT RulesAreAccountedFor
INVARIANT FiringRulesAreNamed
INVARIANT NoInstallIsOrphaned
PROPERTY UninstallGivesBack
INVARIANT RollbackIsCurrent
