\* One process, which also uses the name "..".
CONSTANTS
  p1 = p1  p2 = p2
  Proc = {p1}
  Nobody = Nobody
  NINODES = 4
  NFILE = 1
  NOFILE = 2
  MaxSlots = 4
  MaxCalls = 3
  Requests <- RequestsDotDot
  Trees <- MCTrees
SPECIFICATION Spec
SYMMETRY Symmetry
INVARIANT NoPanic
