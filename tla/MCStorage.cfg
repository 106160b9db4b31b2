\* Log: two calls at a time, two blocks with two contents each, crashes
\* anywhere. Cache: two processes of two hands, and the log with one pin,
\* compete for two buffers of three blocks. Console: two readers, either
\* of whom may be killed, on a buffer of three characters with indices modulo 6.
CONSTANTS
  Proc = {p1, p2}
  Block = {l1, l2}
  Val = {v0, v1}
  Absent = Absent
  NoBlock = NoBlock
  MAXOPBLOCKS = 2
  LOGSIZE = 4
  NLOG = 4
  OpBlocks = 2
  b1 = b1
  b2 = b2
  b3 = b3
  CBlock = {b1, b2, b3}
  Bit = {o, i}
  NBUF = 2
  NoProc = NoProc
  MaxPins = 1
  INPUT_BUF_SIZE = 3
  UINT = 6
  MaxCount = 2
  Victims = {p1, p2}
SPECIFICATION MCSpec
SYMMETRY Symmetry
INVARIANTS QuiescentDurable PinsBalanced BuffersSound
PROPERTIES CrashAtomicity IsBlockStore IsLineDiscipline
