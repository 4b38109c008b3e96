SPECIFICATION Spec
CONSTANTS
  o1 = o1  o2 = o2
  None = None
  Kinds = {"worker"}
  Requests = {"job"}
  KindOf <- MCKindOf
  KeysOf <- MCKeysOf
  FileOf <- MCFileOf
  LeaseOf <- MCLeaseOf
  IdemKeys = {"i"}
  Keys = {"k1"}
  Slots = {"s1"}
  Sums = {"a", "empty"}
  Empty = "empty"
  Progress = {}
  ChunkLimit = 1
  Ops = {o1, o2}
  ReconcilingKinds = {"worker"}
  WorkerKinds = {"worker"}
  Attempts = {2}
  Delays = {0, 1}
  MaxLag = 1
  ExpiryBatch = 1
SYMMETRY MCOps
INVARIANTS
  StagingIsOfThisTry
PROPERTIES
  FencedOut
  StagingKept
  LeaseProtectsHolder
