SPECIFICATION FairSpec
CONSTANTS
  None = None
  Empty = "empty"
  Thumbnails = {}
  Pages = {}
  Inputs = {}
  Edited = {t1}
  Jobs = {j1}
  Workers = {w1}
  Callers = {c1}
  MaxAttempts = 1
  RetryDelay = 1
  ChunkLimit = 2
  IdemKeys = {}
  Kinds <- MCKinds
  Requests <- MCRequests
  KindOf <- MCKindOf
  SourceOf <- MCSourceOf
  KeysOf <- MCKeysOf
  FileOf <- MCFileOf
  Keys <- MCKeys
  Generations <- MCGenerations
  Slots <- MCSlots
  Sums <- MCSums
  Progress <- MCProgress
  LeaseOf <- MCLeaseOf
INVARIANTS
  OpenedWithItsJob
CHECK_DEADLOCK FALSE
