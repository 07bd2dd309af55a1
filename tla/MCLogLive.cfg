\* Three processes compete for room for two; calls write MAXOPBLOCKS - 1 blocks.
CONSTANTS
  p1 = p1  p2 = p2  p3 = p3  b1 = b1  b2 = b2  b3 = b3  d1 = d1  d2 = d2
  Proc = {p1, p2, p3}
  initproc = p1
  Block = {b1, b2, b3}
  Data = {d1}
  Torn = Torn
  Absent = Absent
  MAXOPBLOCKS = 2
  LOGSIZE = 4
  NLOG = 4
  OpBlocks = 1
SPECIFICATION FairSpec
INVARIANT NoLogPanic
PROPERTY SomeoneEnters
