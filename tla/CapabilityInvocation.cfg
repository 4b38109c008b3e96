SPECIFICATION FairSpec
CONSTANTS
  Callers = {c1, c2}
  Keys = {k1, k2}
  Requests = {q1, q2}
  None = None
  Window = 1
  SweepLimit = 2
  MaxTime = 1
  MaxRestarts = 1
INVARIANTS
  TypeOK
  NothingUnapproved
  ReceiptTellsTruth
  NoCallAfterFailure
  OneOwnerCall
PROPERTIES
  ImplementsContract
  ApprovedIsCarriedOut
