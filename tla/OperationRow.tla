--------------------------- MODULE OperationRow ---------------------------
(***************************************************************************)
(* One row of `operations` with the rows it owns in `operation_locks` and  *)
(* `operation_chunks`, and the writes the operation contract applies to    *)
(* it.  Every operator maps the row a transaction has locked to the row it *)
(* commits, so a transaction of OperationService is a composition of them. *)
(*                                                                         *)
(* `at` is the one instant the clock is compared with, relative to the     *)
(* clock: expiresAt of an executing row, scheduledFor of a prepared one    *)
(* (whose expiresAt is set to the same instant and not read).  A           *)
(* transaction reads `new Date()` before it waits for the row lock, so its *)
(* `now` is the clock minus a lag.                                         *)
(***************************************************************************)
EXTENDS Integers, FiniteSets

CONSTANTS
  Kinds,          \* operation kinds (owner.work)
  Requests,       \* a kind with its scope: what `plan` decides from
  KindOf,         \* the kind of a request
  KeysOf,         \* the lock keys the owner's `plan` returns for a request
  FileOf,         \* the fileHash of a request, or None
  IdemKeys,       \* idempotency keys a caller may send
  Keys,           \* lock keys of one organization
  Slots,          \* (chunkKind, sequence) pairs
  Sums,           \* payload checksums
  Empty,          \* the checksum of the payload []
  Progress,       \* values of the progress column
  ChunkLimit,     \* OPERATION_CHUNKS_MAX
  LeaseOf,        \* lease length of a kind, in ticks
  None            \* SQL NULL

ASSUME RequestAssumption ==
  /\ KindOf \in [Requests -> Kinds]
  /\ KeysOf \in [Requests -> SUBSET Keys]
  /\ LeaseOf \in [Kinds -> Nat \ {0}]

ASSUME NoneAssumption == None \notin IdemKeys

Live     == {"prepared", "executing", "reconciling"}
Terminal == {"succeeded", "failed", "cancelled"}

\* A staged chunk remembers the attempt whose token stored it (a history field).
Chunk == [sum : Sums, attempt : Nat]

\* `token` counts the tokens randomUUID() drew for the row: two of them are
\* equal exactly when they are the same draw.  `applied` and `told` count the
\* owner's finalize and onFailed calls; `declared` is the last attempt its
\* holder itself declared failed (history fields).
Row ==
  [status : Live \cup Terminal \cup {"absent"}, request : Requests \cup {None},
   idem : IdemKeys \cup {None}, file : {FileOf[r] : r \in Requests} \cup {None},
   token : Nat, at : Int, attempts : Nat, max : Nat,
   locks : SUBSET Keys, chunks : [Slots -> Chunk \cup {None}],
   progress : Progress \cup {None}, applied : Nat, told : Nat, declared : Nat]

NoChunks == [s \in Slots |-> None]

\* An id no row has yet.
Blank ==
  [status |-> "absent", request |-> None, idem |-> None, file |-> None,
   token |-> 0, at |-> 0, attempts |-> 0, max |-> 0,
   locks |-> {}, chunks |-> NoChunks, progress |-> None,
   applied |-> 0, told |-> 0, declared |-> 0]

(* The row `begin` inserts: claimed by its caller, one attempt, no retry. *)
BegunRow(r, k, lag) ==
  [Blank EXCEPT !.status = "executing", !.request = r, !.idem = k,
                !.file = FileOf[r], !.token = 1, !.attempts = 1, !.max = 1,
                !.at = LeaseOf[KindOf[r]] - lag, !.locks = KeysOf[r]]

(* The row `prepare` inserts: no attempt yet, a placeholder token. *)
PreparedRow(r, k, max, at) ==
  [Blank EXCEPT !.status = "prepared", !.request = r, !.idem = k,
                !.token = 1, !.max = max, !.at = at,
                !.locks = KeysOf[r]]

TimeIsUp(row, lag) == row.at + lag <= 0

Retryable(row) == row.attempts < row.max

(* Closing deletes the chunks and the lock rows with the status change.    *)
(* `at` means nothing afterwards and is normalised.                         *)
\* Mutant: a second spelling of a status.
CloseMisspelled(row, status) ==
  [row EXCEPT !.status = IF status = "cancelled" THEN "canceled" ELSE status,
              !.locks = {}, !.chunks = NoChunks, !.at = 0]
Close(row, status) ==
  [row EXCEPT !.status = status, !.locks = {}, !.chunks = NoChunks, !.at = 0]

(* A terminal failure tells the owner in the same transaction. *)
CloseFailed(row) == [Close(row, "failed") EXCEPT !.told = @ + 1]

(* Success lets the owner write its ledger facts in the same transaction. *)
FinalizeAndClose(row) == [Close(row, "succeeded") EXCEPT !.applied = @ + 1]

(* Back to `prepared` under a new token; the locks stay. *)
\* Mutants: a declared failure keeps its chunks.
RescheduleKeepingStaging(row, delay, clearStaging) ==
  [row EXCEPT !.status = "prepared", !.token = @ + 1, !.at = delay,
              !.declared = IF clearStaging THEN row.attempts ELSE @]
Reschedule(row, delay, clearStaging) ==
  [row EXCEPT !.status = "prepared", !.token = @ + 1, !.at = delay,
              !.chunks = IF clearStaging THEN NoChunks ELSE @,
              !.progress = IF clearStaging THEN None ELSE @,
              !.declared = IF clearStaging THEN row.attempts ELSE @]

(* What every reader and writer does to a row whose lease ran out: back to *)
(* `prepared`, due at once, with everything staged kept, or closed failed  *)
(* when no attempt is left.                                                *)
\* Mutants: nobody tells the owner; a retry after expiry drops what was staged.
ExpireIfDueSilently(row, lag) ==
  IF row.status # "executing" \/ ~TimeIsUp(row, lag) THEN row
  ELSE IF Retryable(row) THEN Reschedule(row, -lag, FALSE) ELSE Close(row, "failed")
ExpireIfDueClearing(row, lag) ==
  IF row.status # "executing" \/ ~TimeIsUp(row, lag) THEN row
  ELSE IF Retryable(row)
       THEN [Reschedule(row, -lag, FALSE) EXCEPT !.chunks = NoChunks]
       ELSE CloseFailed(row)
ExpireIfDue(row, lag) ==
  IF row.status # "executing" \/ ~TimeIsUp(row, lag) THEN row
  ELSE IF Retryable(row) THEN Reschedule(row, -lag, FALSE) ELSE CloseFailed(row)

(* `markClaimed`: a new token, a new lease, one more attempt. *)
\* Mutant: the token of the previous attempt stays valid.
ClaimedKeepingToken(row, lag) ==
  [row EXCEPT !.status = "executing", !.attempts = @ + 1,
              !.at = LeaseOf[KindOf[row.request]] - lag]
Claimed(row, lag) ==
  [row EXCEPT !.status = "executing", !.token = @ + 1, !.attempts = @ + 1,
              !.at = LeaseOf[KindOf[row.request]] - lag]

(* `finish reconciling`: the lease ends, locks and chunks stay. *)
Held(row) == [row EXCEPT !.status = "reconciling", !.at = 0]

(* The fence of a token-carrying write admits it, expires the row and      *)
(* rejects it, or rejects it without a write (every other case).           *)
FenceAdmits(row, token, lag) ==
  /\ token = row.token
  /\ row.status = "executing"
  /\ ~TimeIsUp(row, lag)
FenceExpires(row, token, lag) ==
  /\ token = row.token
  /\ row.status = "executing"
  /\ TimeIsUp(row, lag)

(* `evaluateChunkWrite`.  A payload over the byte limit is refused like     *)
(* too_many_chunks and writes nothing, so no sum stands for it.            *)
StoredChunks(row) == Cardinality({s \in Slots : row.chunks[s] # None})

ChunkVerdict(row, s, sum) ==
  IF row.chunks[s] # None
  THEN IF row.chunks[s].sum = sum THEN "idempotent" ELSE "conflict"
  ELSE IF sum = Empty THEN "extend_only"
  ELSE IF StoredChunks(row) >= ChunkLimit THEN "too_many_chunks" ELSE "store"

(* An accepted chunk write: stored if it is new, and the lease extended. *)
WithChunk(row, s, sum, attempt, progress, lag) ==
  [row EXCEPT
     !.chunks = IF ChunkVerdict(row, s, sum) = "store"
                THEN [@ EXCEPT ![s] = [sum |-> sum, attempt |-> attempt]] ELSE @,
     !.progress = IF progress # None THEN progress ELSE @,
     !.at = LeaseOf[KindOf[row.request]] - lag]
===========================================================================
