CONSTANTS
  Threads = {t1, t2, t3}
  NoThread = NoThread
  kNumLocks = 4
  InitialHashpower = 1
  MaxHashpower = 3
  Programs <- MCPrograms
SPECIFICATION LazySpec
SYMMETRY ThreadSymmetry
INVARIANTS
  LazyTypeOK
  IndexAllocated
  UnlocksOwn
  
