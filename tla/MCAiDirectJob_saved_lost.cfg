SPECIFICATION FairSpec
CONSTANTS
  None = None
  Empty = "empty"
  Thumbnails = {t1}
  Pages = {}
  Inputs = {}
  Edited = {}
  Jobs = {j1}
  Workers = {w1}
  Callers = {}
  MaxAttempts = 3
  RetryDelay = 1
  ChunkLimit = 2
  IdemKeys = {}
  Kinds <- MCKinds
  Requests <- MCRequests
  KindOf <- MCKindOf
  SourceOf <- MCSourceOf
  KeysOf <- MCKeysOf
  FileOf <- MCFileOf
  Keys <- MCKeys
  Generations <- MCGenerations
  Slots <- MCSlots
  Sums <- MCSums
  Progress <- MCProgress
  LeaseOf <- MCLeaseOf
PROPERTIES
  SavedResultIsReused
CHECK_DEADLOCK FALSE
