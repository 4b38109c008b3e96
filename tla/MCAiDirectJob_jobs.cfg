SPECIFICATION FairSpec
CONSTANTS
  None = None
  Empty = "empty"
  Thumbnails = {t1}
  Pages = {p1}
  Inputs = {i1}
  Edited = {}
  Jobs = {j1}
  Workers = {w1, w2}
  Callers = {c1}
  MaxAttempts = 3
  RetryDelay = 1
  ChunkLimit = 2
  IdemKeys = {}
  Kinds <- MCKinds
  Requests <- MCRequests
  KindOf <- MCKindOf
  SourceOf <- MCSourceOf
  KeysOf <- MCKeysOf
  FileOf <- MCFileOf
  Keys <- MCKeys
  Generations <- MCGenerations
  Slots <- MCSlots
  Sums <- MCSums
  Progress <- MCProgress
  LeaseOf <- MCLeaseOf
INVARIANTS
  TypeOK
  GenerationEndsWithItsJob
  SavedResultIsNotPaidTwice
PROPERTIES
  GenerationsEnd
CHECK_DEADLOCK FALSE
