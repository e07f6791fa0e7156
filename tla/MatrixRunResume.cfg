CONSTANTS
  Runs = {r1, r2, r3}
  Cells = {c1}
  Experiments = {e1, e2}
  Legacy = Legacy
  Fingerprints = {f1, f2}
  MismatchPolicies = {"error", "rerun"}
  LegacyPolicies = {"error", "rerun", "adopt"}
  MaxForeign = 1
  NoRun = NoRun
  NoRow = NoRow
  NoTx = NoTx
  NULL = NULL
CHECK_DEADLOCK FALSE
SPECIFICATION Spec
SYMMETRY Symmetry
INVARIANT OneRunAtATime
PROPERTY NothingDisplacedUnarchived
PROPERTY ArchiveIsExact
PROPERTY CompletedCellsAreNotRerun
PROPERTY OutcomesAreAttested
