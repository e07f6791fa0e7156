CONSTANTS
  t1 = t1
  t2 = t2
  t3 = t3
  i1 = i1
  i2 = i2
  Threads = {t1, t2, t3}
  Instances = {i1, i2}
  InstanceOf <- MCInstanceOf
  LineChunks = 2
  MaxSeq = 1
  Forkers = {i1}
  None = None
CHECK_DEADLOCK FALSE
SPECIFICATION LogFairSpec
INVARIANT ReturnedLinesAreWhole
INVARIANT IncompleteLinesAreExcused
INVARIANT LinesInSeqOrder
PROPERTY RecordReturns
