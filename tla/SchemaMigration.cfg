CONSTANTS
  r1 = r1
  r2 = r2
  r3 = r3
  c1 = c1
  c2 = c2
  Rows = {r1, r2, r3}
  Cells = {c1, c2}
  Cell <- MCCell
  Times = {0, 1}
  MaxArchive = 2
  MaxStops = 2
  NULL = NULL
  Unreadable = Unreadable
  NoTx = NoTx
CHECK_DEADLOCK FALSE
SPECIFICATION FairSpec
INVARIANT StampMeansComplete
INVARIANT RefusalsTouchNothing
INVARIANT ReportTellsOriginsApart
INVARIANT ArchiveIsListedInOrder
PROPERTY ImplementsUpgrade
PROPERTY OpeningEnds
