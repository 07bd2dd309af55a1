\* Two processes in little memory; two readers of a console with a ring of
\* three; a heap of twelve units; a shell with six process slots.
CONSTANTS
  p1 = p1  p2 = p2
  Nobody = Nobody
  NPROC = 2
  Sizes = {5, 7, 15}
  PGSIZE = 2
  PTES = 3
  NTABLES = 6
  MAXARG = 2
  Execs <- MCExecs
  Change <- MCChange
  Value = {"x"}
  MaxCalls = 3
SPECIFICATION ProgramsSpec
INVARIANTS MemoryAccounted ReaderAwake HeapTiled Wired PromptIsFree 
PROPERTIES SpacesPrivate IsTerminal
