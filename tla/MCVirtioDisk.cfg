\* The table has its real size: two requests fit, the third process waits.
CONSTANTS
  p1 = p1  p2 = p2  p3 = p3
  Proc = {p1, p2, p3}
  NUM = 8
  RING = 2
  IdxMod = 4
  None = None
SPECIFICATION FairSpec
INVARIANTS DescriptorsAccounted DoneMeansMoved AllocatorSleepsForCause
PROPERTY RequestCompletes
