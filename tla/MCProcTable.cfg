\* init and three more processes: a slot is used again, the middle one of a
\* chain dies before its child is waited for.
CONSTANTS
  NPROC = 4
  Free = Free
  MaxPid = 4
  KillPids = {2}
SPECIFICATION FairSpec
INVARIANT TableSound
PROPERTIES WaitAnswer InitReaps KilledExits
