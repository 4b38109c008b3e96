SPECIFICATION FairSpec
CONSTANTS
  Callers = {c1, c2}
  Keys = {k1, k2}
  None = None
  MaxStock = 2
INVARIANTS
  TypeOK
  NoSecondAsk
  OneSupplierOrder
  AcceptedIsKept
PROPERTIES
  ImplementsContract
  NothingIsStuck
