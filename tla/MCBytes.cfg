\* Blocks: a disk of 14 blocks that two processes fill up, with two bitmap and
\* two inode blocks and files that need their indirect block. UserCopy: three
\* pages of two bytes and the trampoline; addresses may wrap. Umalloc: a heap
\* that grows four units at a time. TextTools: buffers of five bytes, four
\* lines of three characters.
CONSTANTS
  FSSIZE = 14
  LOGSIZE = 1
  NINODES = 4
  BSIZE = 2
  NDIRECT = 2
  IPB = 3
  BPB = 12
  Sources <- MCSources
  Proc = {p1, p2}
  Free = Free
  Byte <- MCByte
  Counts = {1, 5}
  Offsets = {0, 1}
  MaxCalls = 3
  PGSIZE = 2
  NPAGE = 4
  TOP = 10
  WORD = 2
  Addresses = {0, 1, 2, 3, 5, 9}
  Lengths = {0, 1, 2, 3, 5}
  PageTables <- MCPageTables
  Memories <- MCMemories
  HDR = 16
  CORE = 4
  LIMIT = 16
  Requests = {1, 20, 70}
  Gaps = {1}
  GBUF = 5
  MAXLINES = 4
  MAXLEN = 3
  Jobs <- MCJobs
SPECIFICATION MCSpec
SYMMETRY Symmetry
INVARIANTS BlocksExact HeapTiled OutputExact
PROPERTIES IsFileStore CopiesExact
