\* Inodes: two processes, two names, two inodes beside the root.
\* OpenFile: two files in the table, two descriptors per process, so files are
\* shared by dup and fork and both tables run out; lseek on the second file
\* only. Pipe: two writers and two readers on a buffer of two bytes; a count
\* of 3 makes a write fill it and sleep; one reader may be killed. Offsets and
\* counters are modulo 4.
CONSTANTS
  Proc = {p1, p2}
  Inum = {i1, i2, i3}
  Root = i1
  None = None
  Free = Free
  a = a
  b = b
  Name = {a, b}
  Requests <- Tree
  MaxLink = 2
  NFILE = 2
  NOFILE = 2
  NoFile = NoFile
  UINT = 4
  MaxSize = 2
  Seek = {2}
  Readers = {r1, r2}
  Byte = {0, 1}
  PIPESIZE = 2
  Counts = {1, 3}
  Victims = {r1}
SPECIFICATION MCSpec
SYMMETRY Symmetry
INVARIANTS NoPanic CountsExact NoLockCycle FileRefsExact OffsetAtomic NoneStranded
PROPERTY IsQueue
