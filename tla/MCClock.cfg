CONSTANTS
  NPROC = 2
  NCPU = 2
  Free = Free
  UINT = 2
  Naps = {1}
  Callers = {1}
  Victims = {1}
SPECIFICATION FairSpec
INVARIANTS InterruptFlag SleptEnough
PROPERTIES SleepersWake
