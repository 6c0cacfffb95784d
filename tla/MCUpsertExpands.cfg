CONSTANTS
  Ka = Ka
  Kb = Kb
  Kc = Kc
  Kd = Kd
  Ke = Ke
  Kf = Kf
  V1 = V1
  V2 = V2
  Threads = {t1}
  NoThread = NoThread
  kNumLocks = 2
  HashPowers = {1, 2, 3}
  SLOT_PER_BUCKET = 1
  Keys = {Ka, Kb, Kc, Kd, Ke, Kf}
  Vals = {V1, V2}
  NoVal = NoVal
  Vacant = Vacant
  Hash <- MCHash
  Fn <- MCFn
  IsSimple = FALSE
  NothrowMove = TRUE
  MAX_BFS_PATH_LEN = 3
  MAX_CUCKOO_COUNT = 8
  SizeMod = 8
  NO_MAXIMUM_HASHPOWER = 0
  InitialHashpower = 1
  InitialMap <- DoubleMap
  InitialMlf = 90
  InitialMhp = 3
  NoCall = NoCall
  Calls <- UpsertCalls
  MaxCalls = 3
SPECIFICATION MapSpec
PROPERTIES
  LoadFactorRespected
