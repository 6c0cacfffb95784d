CONSTANTS
  Threads = {t1, t2, t3}
  NoThread = NoThread
  kNumLocks = 3
  HashPowers = {1, 2}
SPECIFICATION LocksSpec
SYMMETRY ThreadSymmetry
INVARIANTS
  LocksTypeOK
  
  SnapshotValid
  NoDeadlock
  LocksInv
