CONSTANTS
  NPROC = 2
  FRAMES = 20
  PTES = 2
  PGSIZE = 2
  UINT64 = 64
  USERSTACK = 1
  MAXARG = 2
  Programs <- MCPrograms
  MaxSz = 5
  Steps <- MCSteps
  Stores = {0, 1}
  MaxRoom = 13
SPECIFICATION Spec
INVARIANT PagesExact
PROPERTIES IsAddressSpaces
VIEW View
