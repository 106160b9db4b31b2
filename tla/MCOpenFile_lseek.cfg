\* Two processes that share one file and call lseek.
CONSTANTS
  Proc = {p1, p2}
  NFILE = 1
  NOFILE = 1
  NoFile = NoFile
  Free = Free
  UINT = 4
  MaxSize = 2
  Seek = {1}
SPECIFICATION Spec
INVARIANT OffsetAlwaysAtomic
