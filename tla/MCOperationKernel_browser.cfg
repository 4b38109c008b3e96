SPECIFICATION Spec
CONSTANTS
  o1 = o1  o2 = o2  o3 = o3
  None = None
  Kinds = {"browser"}
  Requests = {"import", "wide"}
  KindOf <- MCKindOf
  KeysOf <- MCKeysOf
  FileOf <- MCFileOf
  LeaseOf <- MCLeaseOf
  IdemKeys = {"i"}
  Keys = {"k1", "k2"}
  Slots = {}
  Sums = {"empty"}
  Empty = "empty"
  Progress = {}
  ChunkLimit = 1
  Ops = {o1, o2, o3}
  ReconcilingKinds = {"browser"}
  WorkerKinds = {}
  Attempts = {}
  Delays = {}
  MaxLag = 1
  ExpiryBatch = 1
SYMMETRY MCOps
INVARIANTS
  TypeOK
  LockExclusion
  OwnerToldOnce
  OneRunPerIdempotencyKey
  FileAppliedOnce
PROPERTIES
  TerminalIsFinal
