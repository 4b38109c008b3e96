------------------------- MODULE OperationRowProofs -------------------------
(***************************************************************************)
(* What the writes of OperationRow do to a row that is a Row: the result   *)
(* is a Row again, and which fields it changed.                            *)
(***************************************************************************)
EXTENDS OperationRow, TLAPS

----------------------------------------------------------------------------
(* Setting one field keeps a row a row.  Writes that set several fields    *)
(* are taken field by field.                                               *)

\* Setting status.
LEMMA SetStatus ==
  ASSUME NEW row \in Row, NEW v \in Live \cup Terminal PROVE [row EXCEPT !.status = v] \in Row
BY DEF Row

\* Setting at.
LEMMA SetAt ==
  ASSUME NEW row \in Row, NEW v \in Int PROVE [row EXCEPT !.at = v] \in Row
BY DEF Row

\* Setting token.
LEMMA SetToken ==
  ASSUME NEW row \in Row, NEW v \in Nat PROVE [row EXCEPT !.token = v] \in Row
BY DEF Row

\* Setting attempts.
LEMMA SetAttempts ==
  ASSUME NEW row \in Row, NEW v \in Nat PROVE [row EXCEPT !.attempts = v] \in Row
BY DEF Row

\* Setting declared.
LEMMA SetDeclared ==
  ASSUME NEW row \in Row, NEW v \in Nat PROVE [row EXCEPT !.declared = v] \in Row
BY DEF Row

\* Setting applied.
LEMMA SetApplied ==
  ASSUME NEW row \in Row, NEW v \in Nat PROVE [row EXCEPT !.applied = v] \in Row
BY DEF Row

\* Setting told.
LEMMA SetTold ==
  ASSUME NEW row \in Row, NEW v \in Nat PROVE [row EXCEPT !.told = v] \in Row
BY DEF Row

\* Setting locks.
LEMMA SetLocks ==
  ASSUME NEW row \in Row, NEW v \in SUBSET Keys PROVE [row EXCEPT !.locks = v] \in Row
BY DEF Row

\* Setting chunks.
LEMMA SetChunks ==
  ASSUME NEW row \in Row, NEW v \in [Slots -> Chunk \cup {None}]
  PROVE  [row EXCEPT !.chunks = v] \in Row
BY DEF Row

\* Setting progress.
LEMMA SetProgress ==
  ASSUME NEW row \in Row, NEW v \in Progress \cup {None}
  PROVE  [row EXCEPT !.progress = v] \in Row
BY DEF Row

\* Setting request.
LEMMA SetRequest ==
  ASSUME NEW row \in Row, NEW v \in Requests PROVE [row EXCEPT !.request = v] \in Row
BY DEF Row

\* Setting idem.
LEMMA SetIdem ==
  ASSUME NEW row \in Row, NEW v \in IdemKeys \cup {None} PROVE [row EXCEPT !.idem = v] \in Row
BY DEF Row

\* Setting file.
LEMMA SetFile ==
  ASSUME NEW row \in Row, NEW v \in {FileOf[r] : r \in Requests} \cup {None}
  PROVE  [row EXCEPT !.file = v] \in Row
BY DEF Row

\* Setting max.
LEMMA SetMax ==
  ASSUME NEW row \in Row, NEW v \in Nat PROVE [row EXCEPT !.max = v] \in Row
BY DEF Row

\* Clearing the file hash.
LEMMA ClearFile ==
  ASSUME NEW row \in Row PROVE [row EXCEPT !.file = None] \in Row
BY DEF Row

\* The types of the fields of a row.
LEMMA FieldTypes ==
  ASSUME NEW row \in Row
  PROVE  /\ row.status \in Live \cup Terminal \cup {"absent"}
         /\ row.token \in Nat /\ row.at \in Int /\ row.attempts \in Nat /\ row.max \in Nat
         /\ row.locks \in SUBSET Keys /\ row.chunks \in [Slots -> Chunk \cup {None}]
         /\ row.progress \in Progress \cup {None}
         /\ row.applied \in Nat /\ row.told \in Nat /\ row.declared \in Nat
BY DEF Row

\* An empty staging area is a staging area.
LEMMA NoChunksTyped == NoChunks \in [Slots -> Chunk \cup {None}]
BY DEF NoChunks

----------------------------------------------------------------------------
(* The writes. *)

\* Closing yields a row
LEMMA CloseTyped ==
  ASSUME NEW row \in Row, NEW status \in Terminal
  PROVE  Close(row, status) \in Row
<1> DEFINE a == [row EXCEPT !.status = status]
           b == [a EXCEPT !.locks = {}]
           c == [b EXCEPT !.chunks = NoChunks]
           d == [c EXCEPT !.at = 0]
<1>1. a \in Row BY SetStatus
<1> HIDE DEF a
<1>2. b \in Row BY <1>1, SetLocks
<1> HIDE DEF b
<1>3. c \in Row BY <1>2, SetChunks, NoChunksTyped
<1> HIDE DEF c
<1>4. d \in Row BY <1>3, SetAt
<1> QED BY <1>4 DEF Close, a, b, c, d

\* and sets status, locks and chunks only (`at` aside).
LEMMA CloseFields ==
  ASSUME NEW row \in Row, NEW status
  PROVE  LET n == Close(row, status) IN
         /\ n.status = status /\ n.locks = {} /\ n.chunks = NoChunks
         /\ n.request = row.request /\ n.idem = row.idem /\ n.file = row.file
         /\ n.token = row.token /\ n.attempts = row.attempts /\ n.max = row.max
         /\ n.applied = row.applied /\ n.told = row.told /\ n.declared = row.declared
BY DEF Close, Row

\* A terminal failure yields a row
LEMMA CloseFailedTyped ==
  ASSUME NEW row \in Row
  PROVE  CloseFailed(row) \in Row
<1>1. Close(row, "failed") \in Row BY CloseTyped DEF Terminal
<1>2. Close(row, "failed").told + 1 \in Nat BY <1>1, FieldTypes
<1> QED BY <1>1, <1>2, SetTold DEF CloseFailed

\* and closes it, counting one call of onFailed.
LEMMA CloseFailedFields ==
  ASSUME NEW row \in Row
  PROVE  LET n == CloseFailed(row) IN
         /\ n.status = "failed" /\ n.locks = {} /\ n.chunks = NoChunks
         /\ n.request = row.request /\ n.idem = row.idem /\ n.file = row.file
         /\ n.token = row.token /\ n.attempts = row.attempts /\ n.max = row.max
         /\ n.applied = row.applied /\ n.told = row.told + 1 /\ n.declared = row.declared
<1>1. Close(row, "failed") \in Row BY CloseTyped DEF Terminal
<1> QED BY <1>1, CloseFields DEF CloseFailed, Row

\* A success yields a row
LEMMA FinalizeTyped ==
  ASSUME NEW row \in Row
  PROVE  FinalizeAndClose(row) \in Row
<1>1. Close(row, "succeeded") \in Row BY CloseTyped DEF Terminal
<1>2. Close(row, "succeeded").applied + 1 \in Nat BY <1>1, FieldTypes
<1> QED BY <1>1, <1>2, SetApplied DEF FinalizeAndClose

\* and closes it, counting one call of finalize.
LEMMA FinalizeFields ==
  ASSUME NEW row \in Row
  PROVE  LET n == FinalizeAndClose(row) IN
         /\ n.status = "succeeded" /\ n.locks = {} /\ n.chunks = NoChunks
         /\ n.request = row.request /\ n.idem = row.idem /\ n.file = row.file
         /\ n.token = row.token /\ n.attempts = row.attempts /\ n.max = row.max
         /\ n.applied = row.applied + 1 /\ n.told = row.told /\ n.declared = row.declared
<1>1. Close(row, "succeeded") \in Row BY CloseTyped DEF Terminal
<1> QED BY <1>1, CloseFields DEF FinalizeAndClose, Row

\* A retry yields a row
LEMMA RescheduleTyped ==
  ASSUME NEW row \in Row, NEW delay \in Int, NEW clear \in BOOLEAN
  PROVE  Reschedule(row, delay, clear) \in Row
<1> DEFINE chunks == IF clear THEN NoChunks ELSE row.chunks
           progress == IF clear THEN None ELSE row.progress
           declared == IF clear THEN row.attempts ELSE row.declared
           a == [row EXCEPT !.status = "prepared"]
           b == [a EXCEPT !.token = row.token + 1]
           c == [b EXCEPT !.at = delay]
           d == [c EXCEPT !.chunks = chunks]
           e == [d EXCEPT !.progress = progress]
           f == [e EXCEPT !.declared = declared]
<1>1. /\ row.token + 1 \in Nat
      /\ chunks \in [Slots -> Chunk \cup {None}]
      /\ progress \in Progress \cup {None}
      /\ declared \in Nat
  BY FieldTypes, NoChunksTyped
<1> HIDE DEF chunks, progress, declared
<1>2. a \in Row BY SetStatus DEF Live
<1> HIDE DEF a
<1>3. b \in Row BY <1>1, <1>2, SetToken
<1> HIDE DEF b
<1>4. c \in Row BY <1>3, SetAt
<1> HIDE DEF c
<1>5. d \in Row BY <1>1, <1>4, SetChunks
<1> HIDE DEF d
<1>6. e \in Row BY <1>1, <1>5, SetProgress
<1> HIDE DEF e
<1>7. f \in Row BY <1>1, <1>6, SetDeclared
<1> QED BY <1>7 DEF Reschedule, a, b, c, d, e, f, chunks, progress, declared

\* that is prepared under a new token, with the same locks and attempts.
LEMMA RescheduleFields ==
  ASSUME NEW row \in Row, NEW delay, NEW clear \in BOOLEAN
  PROVE  LET n == Reschedule(row, delay, clear) IN
         /\ n.status = "prepared" /\ n.locks = row.locks
         /\ n.chunks = IF clear THEN NoChunks ELSE row.chunks
         /\ n.request = row.request /\ n.idem = row.idem /\ n.file = row.file
         /\ n.token = row.token + 1 /\ n.attempts = row.attempts /\ n.max = row.max
         /\ n.applied = row.applied /\ n.told = row.told
         /\ n.declared = IF clear THEN row.attempts ELSE row.declared
BY DEF Reschedule, Row

\* A claim yields a row
LEMMA ClaimedTyped ==
  ASSUME NEW row \in Row, row.request \in Requests, NEW lag \in Int
  PROVE  Claimed(row, lag) \in Row
<1> DEFINE at == LeaseOf[KindOf[row.request]] - lag
           a == [row EXCEPT !.status = "executing"]
           b == [a EXCEPT !.token = row.token + 1]
           c == [b EXCEPT !.attempts = row.attempts + 1]
           d == [c EXCEPT !.at = at]
<1>1. at \in Int /\ row.token + 1 \in Nat /\ row.attempts + 1 \in Nat
  BY FieldTypes, RequestAssumption
<1> HIDE DEF at
<1>2. a \in Row BY SetStatus DEF Live
<1> HIDE DEF a
<1>3. b \in Row BY <1>1, <1>2, SetToken
<1> HIDE DEF b
<1>4. c \in Row BY <1>1, <1>3, SetAttempts
<1> HIDE DEF c
<1>5. d \in Row BY <1>1, <1>4, SetAt
<1> QED BY <1>5 DEF Claimed, a, b, c, d, at

\* that executes under a new token, one attempt later.
LEMMA ClaimedFields ==
  ASSUME NEW row \in Row, NEW lag
  PROVE  LET n == Claimed(row, lag) IN
         /\ n.status = "executing" /\ n.locks = row.locks /\ n.chunks = row.chunks
         /\ n.request = row.request /\ n.idem = row.idem /\ n.file = row.file
         /\ n.token = row.token + 1 /\ n.attempts = row.attempts + 1 /\ n.max = row.max
         /\ n.applied = row.applied /\ n.told = row.told /\ n.declared = row.declared
BY DEF Claimed, Row

\* A held row is a row
LEMMA HeldTyped ==
  ASSUME NEW row \in Row
  PROVE  Held(row) \in Row
<1> DEFINE a == [row EXCEPT !.status = "reconciling"]
           b == [a EXCEPT !.at = 0]
<1>1. a \in Row BY SetStatus DEF Live
<1> HIDE DEF a
<1>2. b \in Row BY <1>1, SetAt
<1> QED BY <1>2 DEF Held, a, b

\* that reconciles, with everything else kept.
LEMMA HeldFields ==
  ASSUME NEW row \in Row
  PROVE  LET n == Held(row) IN
         /\ n.status = "reconciling" /\ n.locks = row.locks /\ n.chunks = row.chunks
         /\ n.request = row.request /\ n.idem = row.idem /\ n.file = row.file
         /\ n.token = row.token /\ n.attempts = row.attempts /\ n.max = row.max
         /\ n.applied = row.applied /\ n.told = row.told /\ n.declared = row.declared
BY DEF Held, Row

\* An accepted chunk write yields a row.
LEMMA WithChunkTyped ==
  ASSUME NEW row \in Row, row.request \in Requests, NEW s \in Slots, NEW sum \in Sums,
         NEW attempt \in Nat, NEW progress \in Progress \cup {None}, NEW lag \in Int
  PROVE  WithChunk(row, s, sum, attempt, progress, lag) \in Row
<1> DEFINE chunks == IF ChunkVerdict(row, s, sum) = "store"
                     THEN [row.chunks EXCEPT ![s] = [sum |-> sum, attempt |-> attempt]]
                     ELSE row.chunks
           prog == IF progress # None THEN progress ELSE row.progress
           at == LeaseOf[KindOf[row.request]] - lag
           a == [row EXCEPT !.chunks = chunks]
           b == [a EXCEPT !.progress = prog]
           c == [b EXCEPT !.at = at]
<1>1. chunks \in [Slots -> Chunk \cup {None}]
  <2>1. [sum |-> sum, attempt |-> attempt] \in Chunk BY DEF Chunk
  <2> QED BY <2>1, FieldTypes
<1>2. prog \in Progress \cup {None} BY FieldTypes
<1>3. at \in Int BY RequestAssumption
<1> HIDE DEF chunks, prog, at
<1>4. a \in Row BY <1>1, SetChunks
<1> HIDE DEF a
<1>5. b \in Row BY <1>2, <1>4, SetProgress
<1> HIDE DEF b
<1>6. c \in Row BY <1>3, <1>5, SetAt
<1> QED BY <1>6 DEF WithChunk, a, b, c, chunks, prog, at

\* An unused id is a row.
LEMMA BlankTyped == Blank \in Row
BY NoChunksTyped DEF Blank, Row

\* The row begin inserts is a row
LEMMA BegunRowTyped ==
  ASSUME NEW r \in Requests, NEW k \in IdemKeys \cup {None}, NEW lag \in Int
  PROVE  BegunRow(r, k, lag) \in Row
<1> DEFINE a == [Blank EXCEPT !.status = "executing"]
           b == [a EXCEPT !.request = r]
           c == [b EXCEPT !.idem = k]
           d == [c EXCEPT !.file = FileOf[r]]
           e == [d EXCEPT !.token = 1]
           f == [e EXCEPT !.attempts = 1]
           g == [f EXCEPT !.max = 1]
           h == [g EXCEPT !.at = LeaseOf[KindOf[r]] - lag]
           i == [h EXCEPT !.locks = KeysOf[r]]
<1>1. a \in Row BY BlankTyped, SetStatus DEF Live
<1> HIDE DEF a
<1>2. b \in Row BY <1>1, SetRequest
<1> HIDE DEF b
<1>3. c \in Row BY <1>2, SetIdem
<1> HIDE DEF c
<1>4. d \in Row BY <1>3, SetFile
<1> HIDE DEF d
<1>5. e \in Row BY <1>4, SetToken
<1> HIDE DEF e
<1>6. f \in Row BY <1>5, SetAttempts
<1> HIDE DEF f
<1>7. g \in Row BY <1>6, SetMax
<1> HIDE DEF g
<1>8. h \in Row BY <1>7, SetAt, RequestAssumption
<1> HIDE DEF h
<1>9. i \in Row BY <1>8, SetLocks, RequestAssumption
<1> QED BY <1>9 DEF BegunRow, a, b, c, d, e, f, g, h, i

\* in its first and only attempt.
LEMMA BegunRowFields ==
  ASSUME NEW r, NEW k, NEW lag
  PROVE  LET n == BegunRow(r, k, lag) IN
         /\ n.status = "executing" /\ n.request = r /\ n.idem = k /\ n.file = FileOf[r]
         /\ n.token = 1 /\ n.attempts = 1 /\ n.max = 1 /\ n.declared = 0
         /\ n.locks = KeysOf[r] /\ n.chunks = NoChunks /\ n.applied = 0 /\ n.told = 0
BY DEF BegunRow, Blank

\* The row prepare inserts is a row
LEMMA PreparedRowTyped ==
  ASSUME NEW r \in Requests, NEW k \in IdemKeys \cup {None}, NEW max \in Nat, NEW at \in Int
  PROVE  PreparedRow(r, k, max, at) \in Row
<1> DEFINE a == [Blank EXCEPT !.status = "prepared"]
           b == [a EXCEPT !.request = r]
           c == [b EXCEPT !.idem = k]
           d == [c EXCEPT !.token = 1]
           e == [d EXCEPT !.max = max]
           f == [e EXCEPT !.at = at]
           g == [f EXCEPT !.locks = KeysOf[r]]
<1>1. a \in Row BY BlankTyped, SetStatus DEF Live
<1> HIDE DEF a
<1>2. b \in Row BY <1>1, SetRequest
<1> HIDE DEF b
<1>3. c \in Row BY <1>2, SetIdem
<1> HIDE DEF c
<1>4. d \in Row BY <1>3, SetToken
<1> HIDE DEF d
<1>5. e \in Row BY <1>4, SetMax
<1> HIDE DEF e
<1>6. f \in Row BY <1>5, SetAt
<1> HIDE DEF f
<1>7. g \in Row BY <1>6, SetLocks, RequestAssumption
<1> QED BY <1>7 DEF PreparedRow, a, b, c, d, e, f, g

\* with no attempt yet.
LEMMA PreparedRowFields ==
  ASSUME NEW r, NEW k, NEW max, NEW at
  PROVE  LET n == PreparedRow(r, k, max, at) IN
         /\ n.status = "prepared" /\ n.request = r /\ n.idem = k /\ n.file = None
         /\ n.token = 1 /\ n.attempts = 0 /\ n.max = max /\ n.declared = 0
         /\ n.locks = KeysOf[r] /\ n.chunks = NoChunks /\ n.applied = 0 /\ n.told = 0
BY DEF PreparedRow, Blank
=============================================================================
