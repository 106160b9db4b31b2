\* Log: three calls compete for the log; contents do not matter. Uart: two
\* writers on a ring of two bytes and a FIFO of three, with two bytes received
\* or messages printed; the indices wrap after 4.
CONSTANTS
  Proc = {1, 2, 3}
  Block = {b1, b2, b3}
  Val = {v0}
  Absent = Absent
  NoBlock = NoBlock
  MAXOPBLOCKS = 2
  LOGSIZE = 4
  NLOG = 4
  OpBlocks = 1
  Writers = {p1, p2}
  Byte = {0, 1}
  Free = Free
  UART_TX_BUF_SIZE = 2
  UINT64 = 4
  FIFO = 3
  MaxCount = 1
  MaxEvents = 2
SPECIFICATION MCSpec
INVARIANT NoPanic
PROPERTIES SleepersWake OutputOrdered OutputDrains
