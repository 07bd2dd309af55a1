\* Four processes at a sleep lock; two writers, a ring of two and a UART queue
\* of two; two sleepers.
CONSTANTS
  p1 = p1  p2 = p2  p3 = p3  p4 = p4
  Proc = {p1, p2, p3, p4}
  None = None
  Nobody = Nobody
  c1 = c1
SPECIFICATION SleepersSpec
INVARIANTS NoLostWakeup NothingDropped
PROPERTIES IsMutex Handover WriterWoken SleepsItsTime
