\* Two CPUs; a thread, its p->lock and one more lock.
CONSTANTS
  c1 = c1  c2 = c2  t1 = t1  data = data
  CPU = {c1, c2}
  Thread = {t1}
  Lock = {data}
  None = None
SPECIFICATION ProcessesSpec
SYMMETRY Symmetry
INVARIANTS RunsOnce LocksSound ExitsNoticed FamilyRooted
