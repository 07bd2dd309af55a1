\* One reader and one writer; counters that wrap after two rounds of data[].
CONSTANTS
  p1 = p1  p2 = p2  b1 = b1  b2 = b2
  Proc = {p1, p2}
  creator = p1
  Byte = {b1, b2}
  PIPESIZE = 2
  UintMod = 4
  MaxN = 3
  None = None
SPECIFICATION FairSpec
INVARIANTS FreedIsUnused SleepsForCause
PROPERTIES IsStream ReaderSeesEOF
CHECK_DEADLOCK FALSE
