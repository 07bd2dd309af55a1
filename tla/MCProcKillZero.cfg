\* kill is also called with pid 0.
CONSTANTS
  c1 = c1  c2 = c2
  CPU = {c1, c2}
  NPROC = 3
  MaxPid = 4
  KillPid = {0}
  None = None
SPECIFICATION Spec
SYMMETRY Symmetry
INVARIANT KilledIsLive
