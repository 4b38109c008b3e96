SPECIFICATION FairSpec
CONSTANTS
  None = None
  Empty = "empty"
  Thumbnails = {}
  Pages = {}
  Inputs = {}
  Edited = {t1}
  Jobs = {j1, j2}
  Workers = {w1, w2}
  Callers = {c1}
  MaxAttempts = 1
  RetryDelay = 1
  ChunkLimit = 2
  IdemKeys = {}
  Kinds <- MCKinds
  Requests <- MCRequests
  KindOf <- MCKindOf
  SourceOf <- MCSourceOf
  KeysOf <- MCKeysOf
  FileOf <- MCFileOf
  Keys <- MCKeys
  Generations <- MCGenerations
  Slots <- MCSlots
  Sums <- MCSums
  Progress <- MCProgress
  LeaseOf <- MCLeaseOf
PROPERTIES
  OverStaysOver
  ImplementsContract
  JobsEnd
CHECK_DEADLOCK FALSE
