SPECIFICATION FairSpec
CONSTANTS
  o1 = o1  o2 = o2
  None = None
  Kinds = {"browser", "worker"}
  Requests = {"job", "job2", "wide"}
  KindOf <- MCKindOf
  KeysOf <- MCKeysOf
  FileOf <- MCFileOf
  LeaseOf <- MCLeaseOf
  IdemKeys = {}
  Keys = {"k1", "k2"}
  Slots = {}
  Sums = {"empty"}
  Empty = "empty"
  Progress = {}
  ChunkLimit = 1
  Ops = {o1, o2}
  ReconcilingKinds = {}
  WorkerKinds = {"worker"}
  Attempts = {2}
  Delays = {0}
  MaxLag = 0
  ExpiryBatch = 1
PROPERTIES
  ImplementsContract
  OrphansRecovered
