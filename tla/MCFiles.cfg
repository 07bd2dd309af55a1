\* Two processes and four inodes, or two processes and two files of bytes.
CONSTANTS
  p1 = p1  p2 = p2
  Proc = {p1, p2}
  Nobody = Nobody
  NINODES = 4
  NFILE = 1
  NOFILE = 2
  MaxSlots = 4
  MaxCalls = 2
  Requests <- MCRequests
  Trees <- MCTrees
SPECIFICATION FilesSpec
SYMMETRY Symmetry
INVARIANTS NoPanic RefExact UnusedIsFreed TreeOnDisk NoDeadlock BlocksAccounted
PROPERTIES IsByteFiles
