CONSTANTS
  Runs = {r1, r2}
  Cells = {c1, c2}
  Experiments = {e1}
  Legacy = Legacy
  Fingerprints = {f1}
  MismatchPolicies = {"error", "rerun"}
  LegacyPolicies = {"error", "rerun", "adopt"}
  MaxForeign = 0
  NoRun = NoRun
  NoRow = NoRow
  NoTx = NoTx
  NULL = NULL
CHECK_DEADLOCK FALSE
SPECIFICATION FairSpec
INVARIANT ArchiveIsOrdered
PROPERTY LockIsFreed
