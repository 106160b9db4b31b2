\* VirtioDisk: seven descriptors: two requests in progress and one descriptor
\* left over, so that the third process finds the set exhausted half way;
\* indices wrap after 14. SleepLock: a holder and two waiters, on two CPUs.
CONSTANTS
  NoProc = NoProc
  NUM = 7
  UINT16 = 14
  NPROC = 3
  CPU = {c1, c2}
  NoCPU = NoCPU
SPECIFICATION MCSpec
INVARIANTS TransfersOwned OneStack
PROPERTIES IsMutex WaitersWake EveryRequestCompletes
