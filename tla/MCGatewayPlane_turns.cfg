SPECIFICATION FairSpec
CONSTANTS
  t1 = t1  t2 = t2  c1 = c1
  Turns = {t1, t2}
  Conversations = {c1}
  ConversationOf <- Mono
  Gateways = {g1, g2}
  None = None
  MaxStreams = 4
  MaxPending = 4
  MaxQueued = 3
  MaxInputs = 5
  MaxActive = 2
  MaxBuffered = 4
  MaxPosted = 2
INVARIANTS
  TypeOK
  Aligned
  StartedTurnIsAccountedFor
  ForgottenBeforeNew
  EventsInOrder
PROPERTIES
  DispatchedOnce
  ImplementsContract
  ForgottenTurnsEnd
CHECK_DEADLOCK FALSE
