CONSTANTS
  Ka = Ka
  Kb = Kb
  Kc = Kc
  Kd = Kd
  Ke = Ke
  Kf = Kf
  V1 = V1
  V2 = V2
  Threads = {t1, t2}
  NoThread = NoThread
  kNumLocks = 2
  HashPowers = {1, 2, 3, 4}
  SLOT_PER_BUCKET = 1
  Keys = {Ka, Kb, Kc, Kd, Ke, Kf}
  Vals = {V1, V2}
  NoVal = NoVal
  Vacant = Vacant
  Hash <- MCHash
  Fn <- MCFn
  IsSimple = FALSE
  NothrowMove = TRUE
  MAX_BFS_PATH_LEN = 3
  MAX_CUCKOO_COUNT = 8
  SizeMod = 8
  NO_MAXIMUM_HASHPOWER = 0
  InitialHashpower = 1
  InitialMap <- EmptyMap
  InitialMlf = 0
  InitialMhp = 0
  NoCall = NoCall
  OldHashpower = 2
  OldMap <- FullMap
  NewHp = 1
  Hollowed = Hollowed
  NoTask = NoTask
  Calls <- WorkerCalls
  MaxCalls = 4
SPECIFICATION FairRebuildSpec
INVARIANTS
  EachItemOnce
  RebuiltTable
PROPERTIES
  RebuildEnds
