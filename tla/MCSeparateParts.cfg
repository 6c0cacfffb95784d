CONSTANTS
  SLOT_PER_BUCKET = 2
  HashValues <- MCHashValues
  MaxHashpower = 10
  MaxElements = 40
  Items = {x1, x2, x3}
  NoItem = NoItem
  MAX_CUCKOO_COUNT = 4
  PtrSize = 2
  ValueSize = 3
  Alignments = {1, 2, 4}
  HeapSize = 16
  MaxCount = 2
  Junk = Junk
  V1 = V1
  V2 = V2
  Tables = {b1, b2}
  Handles = {h1, h2}
  Iterators = {i1, i2}
  Flags = {1, 2, 3, 4, 5}
  Vals = {V1, V2}
  Vacant = Vacant
  BucketArrays <- MCArrays
  None = None
  MaxLocks = 2
SPECIFICATION PartsSpec
SYMMETRY MCSymmetry
INVARIANTS
  InOneOfItsBuckets
  ReserveCalcSmallest
  ArraysAligned
  BlocksComeBack
  LockedTypeOK
  OwnedOnce
  OwnerKnown
  ValidWhileLocked
  VisitsEachOnce
  EqualAtSameItem
PROPERTIES
  IsBoundedQueue
