---------------------------- MODULE AiDirectJob ----------------------------
(***************************************************************************)
(* The AI generation jobs of apps/server/src/content: the generation       *)
(* records (`thumbnail_generations`, generated `detail_pages`), the        *)
(* operation rows of their jobs, the worker processes that claim the jobs, *)
(* and the users who open, cancel, delete and re-edit generations.         *)
(*                                                                         *)
(* Every operation row moves by the operators of OperationRow.  A          *)
(* transaction of the kernel that closes a job calls the job's owner in    *)
(* the same transaction, so a step writes `op` and `gen` together.  What a *)
(* worker does between two transactions is a step of its own, and a worker *)
(* may die, lose its lease or miss an answer at any of them.  The clock of *)
(* OperationRow is read with lag 0 here: OperationKernel has the lags.     *)
(***************************************************************************)
EXTENDS OperationRow

CONSTANTS
  Generations,   \* ids of generation records
  SourceOf,      \* the source of a request: a generation, or an image-edit input
  Jobs,          \* operation ids of the AI jobs
  Workers,       \* worker processes
  Callers,       \* requests of users that take more than one transaction
  MaxAttempts,   \* AI_DIRECT_JOB_MAX_ATTEMPTS
  RetryDelay     \* retryDelaysMs, in ticks

Generate == {"content.thumbnail_generate", "content.detail_page_generate"}
Reedit   == "content.thumbnail_reedit"
Detail   == "content.detail_page_generate"
Edit     == "content.image_edit"

ASSUME JobAssumption ==
  /\ Kinds = Generate \cup {Reedit, Edit}
  /\ Slots = {"heartbeat", "result"} /\ Progress = {"result_saved"}
  /\ Sums = {Empty, "output"} /\ Empty # "output" /\ ChunkLimit \in Nat \ {0}
  /\ None \notin {"heartbeat", "result", "result_saved", "output"} \cup Jobs \cup Requests
  /\ None \notin ({"reedit"} \X Requests) \cup ({"cancel"} \X Jobs)
  /\ MaxAttempts \in Nat \ {0} /\ RetryDelay \in Nat
  /\ \A r \in Requests :
       /\ KeysOf[r] = {<<KindOf[r], SourceOf[r]>>}
       /\ FileOf[r] = None
       /\ SourceOf[r] \in Generations <=> KindOf[r] # Edit

VARIABLES
  op,      \* the operation rows of the jobs
  gen,     \* the generation records
  worker,  \* what each worker process holds in memory
  caller   \* how far a user's request got that takes two transactions

vars == <<op, gen, worker, caller>>

Active == {"pending", "running"}   \* `processing` of a detail page is `running` here,
Over   == {"succeeded", "failed", "cancelled"}                 \* and `ready` `succeeded`

\* `by` is the job whose output the record carries (a history field).
Generation == [status : Active \cup Over \cup {"absent"}, deleted : BOOLEAN, by : Jobs \cup {None}]

\* `abort` is the reason of the AbortController, first one wins.
Idle == [at |-> "idle", job |-> None, token |-> 0, attempt |-> 0, saved |-> FALSE,
         abort |-> "no", retry |-> FALSE]
\* The phases beside which the heartbeat interval runs.
Beating == {"executing", "editing", "produced", "saved", "recording", "failing"}
Worker ==
  [at : Beating \cup {"idle", "claimed", "closing", "rejecting"}, job : Jobs \cup {None},
   token : Nat, attempt : Nat, saved : BOOLEAN, abort : {"no", "lost", "timeout"}, retry : BOOLEAN]

Init ==
  /\ op = [j \in Jobs |-> Blank]
  /\ gen = [g \in Generations |-> [status |-> "absent", deleted |-> FALSE, by |-> None]]
  /\ worker = [w \in Workers |-> Idle]
  /\ caller = [c \in Callers |-> None]

JobKind(j) == KindOf[op[j].request]
Source(j)  == SourceOf[op[j].request]
Known      == {j \in Jobs : op[j].status # "absent"}
JobsOf(g, kinds) == {j \in Known : Source(j) = g /\ JobKind(j) \in kinds}
LiveJobs(g, kinds) == {j \in JobsOf(g, kinds) : op[j].status \in Live}

(* A transaction of the kernel commits the rows `new`.  The owner of a     *)
(* generate job writes the generation record with it: `finalize` the       *)
(* output, `onFailed` the failure, neither to a record that is deleted or  *)
(* already over.  The other two kinds project nothing.                     *)
\* Mutant: no failure is recorded.
ProjectedSuccessOnly(new) ==
  [g \in Generations |->
     IF gen[g].deleted \/ gen[g].status \notin Active THEN gen[g]
     ELSE IF \E j \in JobsOf(g, Generate) : new[j].applied > op[j].applied
     THEN [gen[g] EXCEPT !.status = "succeeded",
             !.by = CHOOSE j \in JobsOf(g, Generate) : new[j].applied > op[j].applied]
     ELSE gen[g]]
Projected(new) ==
  [g \in Generations |->
     IF gen[g].deleted \/ gen[g].status \notin Active THEN gen[g]
     ELSE IF \E j \in JobsOf(g, Generate) : new[j].applied > op[j].applied
     THEN [gen[g] EXCEPT !.status = "succeeded",
             !.by = CHOOSE j \in JobsOf(g, Generate) : new[j].applied > op[j].applied]
     ELSE IF \E j \in JobsOf(g, Generate) : new[j].told > op[j].told
     THEN [gen[g] EXCEPT !.status = "failed"] ELSE gen[g]]

Commit(new) == op' = new /\ gen' = Projected(new)

IsPage(g) == \E r \in Requests : SourceOf[r] = g /\ KindOf[r] = Detail

(* `prepare` inserts the row with its lock key, which no live row may hold. *)
MayPrepare(rows, j, r) ==
  rows[j].status = "absent" /\ \A i \in Jobs : rows[i].locks \cap KeysOf[r] = {}
WithJob(rows, j, r) == [rows EXCEPT ![j] = PreparedRow(r, None, MaxAttempts, 0)]

\* Mutant: what the expiry left is not looked at.
CancelledAnyway(row) == Close(ExpireIfDue(row, 0), "cancelled")
Cancelled(row) ==
  LET current == ExpireIfDue(row, 0)
  IN  IF current.status \in Terminal THEN current ELSE Close(current, "cancelled")

(***************************************************************************)
(* users                                                                   *)
(***************************************************************************)

(* A generation record and its job in one transaction. *)
Open(g, j, r) ==
  /\ gen[g].status = "absent"
  /\ SourceOf[r] = g /\ KindOf[r] \in Generate
  /\ MayPrepare(op, j, r)
  /\ op' = WithJob(op, j, r)
  /\ gen' = [gen EXCEPT ![g].status = "pending"]
  /\ UNCHANGED <<worker, caller>>

(* A re-edit opens its record, or puts it back to pending and drops its    *)
(* candidates, in a first transaction; the job comes with a second one.    *)
StartReedit(c, g, r) ==
  /\ caller[c] = None
  /\ SourceOf[r] = g /\ KindOf[r] = Reedit
  /\ ~gen[g].deleted
  /\ gen' = [gen EXCEPT ![g].status = "pending", ![g].by = None]
  /\ caller' = [caller EXCEPT ![c] = <<"reedit", r>>]
  /\ UNCHANGED <<op, worker>>

(* Live re-edit jobs of the record are cancelled and the new one prepared. *)
RestartReedit(c, j, r) ==
  LET live == LiveJobs(SourceOf[r], {Reedit})
      rows == [i \in Jobs |-> IF i \in live THEN Cancelled(op[i]) ELSE op[i]]
  IN  /\ caller[c] = <<"reedit", r>>
      /\ MayPrepare(rows, j, r)
      /\ Commit(WithJob(rows, j, r))
      /\ caller' = [caller EXCEPT ![c] = None]
      /\ UNCHANGED worker

(* Cancelling a generation locks its live jobs (expiring the lapsed ones), *)
(* then the record, and closes both unless the record is over by then.     *)
(* A page is looked at before that, too.                                   *)
CancelledRecord(g) == [gen EXCEPT ![g].status = IF IsPage(g) THEN "failed" ELSE "cancelled"]

\* Mutant: the jobs of a cancelled generation go on.
CancelRecordOnly(g) ==
  /\ gen[g].status \in Active /\ ~gen[g].deleted
  /\ gen' = CancelledRecord(g)
  /\ UNCHANGED <<op, worker, caller>>
CancelGeneration(g) ==
  LET live   == LiveJobs(g, Generate \cup {Reedit})
      lapsed == [j \in Jobs |-> IF j \in live THEN ExpireIfDue(op[j], 0) ELSE op[j]]
      seen   == Projected(lapsed)[g]
  IN  /\ gen[g].status # "absent"
      /\ IsPage(g) => gen[g].status \in Active /\ ~gen[g].deleted
      /\ \/ /\ seen.status \in Active /\ ~seen.deleted
            /\ op' = [j \in Jobs |-> IF j \in live THEN Cancelled(op[j]) ELSE op[j]]
            /\ gen' = CancelledRecord(g)
         \/ /\ seen.status \notin Active \/ seen.deleted
            /\ Commit(lapsed)
      /\ UNCHANGED <<worker, caller>>

DeleteGeneration(g) ==
  /\ gen[g].status # "absent" /\ ~gen[g].deleted
  /\ gen' = [gen EXCEPT ![g].deleted = TRUE]
  /\ UNCHANGED <<op, worker, caller>>

(* An image edit has no record: the job is the work, and the screen        *)
(* cancels it by its id after looking at it.                               *)
ScheduleImageEdit(j, r) ==
  /\ KindOf[r] = Edit
  /\ \A i \in Known : op[i].request # r        \* its input key is a fresh random id
  /\ MayPrepare(op, j, r)
  /\ op' = WithJob(op, j, r)
  /\ UNCHANGED <<gen, worker, caller>>

LookAtImageEdit(c, j) ==
  /\ caller[c] = None
  /\ op[j].status \in Live /\ JobKind(j) = Edit
  /\ LET seen == ExpireIfDue(op[j], 0)
     IN  /\ Commit([op EXCEPT ![j] = seen])
         /\ caller' = IF seen.status \in Terminal \/ seen.progress = "result_saved" THEN caller
                      ELSE [caller EXCEPT ![c] = <<"cancel", j>>]
  /\ UNCHANGED worker

CancelImageEdit(c, j) ==
  /\ caller[c] = <<"cancel", j>>
  /\ Commit([op EXCEPT ![j] = Cancelled(@)])
  /\ caller' = [caller EXCEPT ![c] = None]
  /\ UNCHANGED worker

(* The request fails or its process dies between the two transactions. *)
CallerStops(c) ==
  /\ caller[c] # None
  /\ caller' = [caller EXCEPT ![c] = None]
  /\ UNCHANGED <<op, gen, worker>>

(***************************************************************************)
(* a worker's tick                                                         *)
(***************************************************************************)

GoesTo(w, at) == worker' = [worker EXCEPT ![w].at = at]
Stops(w) == worker' = [worker EXCEPT ![w] = Idle]

\* Mutant: a job whose worker died on its last attempt is left to readers.
NothingExhausted == {}
Exhausted == {j \in Known : /\ op[j].status = "executing" /\ TimeIsUp(op[j], 0)
                            /\ ~Retryable(op[j])}
Claimable == {j \in Known : /\ op[j].status \in {"prepared", "executing"}
                            /\ TimeIsUp(op[j], 0) /\ Retryable(op[j])}

(* The claim sweeps exhausted jobs, then takes a due one, if there is any. *)
Claim(w) ==
  LET swept == [j \in Jobs |-> IF j \in Exhausted THEN ExpireIfDue(op[j], 0) ELSE op[j]]
  IN  /\ worker[w].at = "idle"
      /\ \/ \E j \in Claimable :
              /\ Commit([swept EXCEPT ![j] = Claimed(@, 0)])
              /\ worker' = [worker EXCEPT ![w] =
                    [Idle EXCEPT !.at = "claimed", !.job = j, !.token = op[j].token + 1,
                                 !.attempt = op[j].attempts + 1,
                                 !.saved = op[j].progress = "result_saved"]]
         \/ /\ Claimable = {} /\ Exhausted # {}
            /\ Commit(swept)
            /\ UNCHANGED worker
      /\ UNCHANGED caller

(* A deleted thumbnail record is missing to the preflight; a deleted page  *)
(* is not.  An image edit has no record to look at.                        *)
Verdict(j) ==
  IF JobKind(j) = Edit THEN "runnable"
  ELSE IF gen[Source(j)].deleted /\ JobKind(j) # Detail THEN "invalid"
  ELSE IF gen[Source(j)].status \in Over THEN "cancelled" ELSE "runnable"

\* Mutant: what an earlier attempt saved is not looked at.
PreflightForgetful(w) ==
  /\ worker[w].at = "claimed"
  /\ GoesTo(w, CASE Verdict(worker[w].job) = "runnable"  -> "executing"
                  [] Verdict(worker[w].job) = "cancelled" -> "closing"
                  [] Verdict(worker[w].job) = "invalid"   -> "rejecting")
  /\ UNCHANGED <<op, gen, caller>>
Preflight(w) ==
  /\ worker[w].at = "claimed"
  /\ GoesTo(w, CASE Verdict(worker[w].job) = "runnable"  ->
                       IF worker[w].saved THEN "saved" ELSE "executing"
                  [] Verdict(worker[w].job) = "cancelled" -> "closing"
                  [] Verdict(worker[w].job) = "invalid"   -> "rejecting")
  /\ UNCHANGED <<op, gen, caller>>

(* The record is over: the job is cancelled by its id, without the token. *)
CloseCancelled(w) ==
  /\ worker[w].at = "closing"
  /\ Commit([op EXCEPT ![worker[w].job] = Cancelled(@)])
  /\ Stops(w)
  /\ UNCHANGED caller

(* A write that carries the worker's token. *)
Holds(w) == FenceAdmits(op[worker[w].job], worker[w].token, 0)
Fenced(w, new) ==
  [op EXCEPT ![worker[w].job] =
     IF Holds(w) THEN new
     ELSE IF FenceExpires(@, worker[w].token, 0) THEN ExpireIfDue(@, 0) ELSE @]

Failed(row, retry) ==
  IF retry /\ Retryable(row) THEN Reschedule(row, RetryDelay, TRUE) ELSE CloseFailed(row)
WithResult(w) ==
  WithChunk(op[worker[w].job], "result", "output", worker[w].attempt, "result_saved", 0)
Extended(w, progress) ==
  WithChunk(op[worker[w].job], "heartbeat", Empty, worker[w].attempt, progress, 0)

Reject(w) ==
  /\ worker[w].at = "rejecting"
  /\ Commit(Fenced(w, Failed(op[worker[w].job], FALSE)))
  /\ Stops(w)
  /\ UNCHANGED caller

(* The heartbeat interval runs beside the work; a refused or failed beat   *)
(* aborts it, unless it is already past its catch block.                   *)
Abortable(w) == worker[w].at \in Beating \ {"recording", "failing"} /\ worker[w].abort = "no"

Heartbeat(w) ==
  /\ worker[w].at \in Beating
  /\ Commit(Fenced(w, Extended(w, None)))
  /\ worker' = [worker EXCEPT ![w].abort = IF ~Holds(w) /\ Abortable(w) THEN "lost" ELSE @]
  /\ UNCHANGED caller

Aborted(w, reason) ==
  /\ Abortable(w)
  /\ worker' = [worker EXCEPT ![w].abort = reason]
  /\ UNCHANGED <<op, gen, caller>>

(* The catch block: a lost lease leaves everything as it is; otherwise the *)
(* job fails, unless a saved result may still be projected later.          *)
Catch(w, saved, retryable, deterministic) ==
  LET again == (retryable \/ worker[w].abort = "timeout") /\ ~(saved /\ deterministic)
  IN  IF worker[w].abort = "lost" THEN Stops(w)
      ELSE worker' = [worker EXCEPT ![w].at = IF saved /\ again THEN "recording" ELSE "failing",
                                    ![w].retry = again]

(* The model and the image providers answer, or throw, when they like.     *)
Execute(w) ==
  /\ worker[w].at = "executing"
  /\ JobKind(worker[w].job) # Reedit
  /\ \/ GoesTo(w, "produced")
     \/ \E retryable \in BOOLEAN : Catch(w, FALSE, retryable, FALSE)
  /\ UNCHANGED <<op, gen, caller>>

(* A re-edit writes the record itself, in transactions of its own, while   *)
(* it executes, and answers `completed` whatever became of it.             *)
StartAttempt(w) ==
  LET g == Source(worker[w].job)
      open == gen[g].status \in Active /\ ~gen[g].deleted
  IN  /\ worker[w].at = "executing"
      /\ JobKind(worker[w].job) = Reedit
      /\ worker[w].abort = "no"
      /\ gen' = IF open THEN [gen EXCEPT ![g].status = "running"] ELSE gen
      /\ GoesTo(w, IF open THEN "editing" ELSE "produced")
      /\ UNCHANGED <<op, caller>>

\* Mutant: the edit is written whatever the record has become.
EndEditBlindly(w, status) ==
  LET g == Source(worker[w].job)
  IN  /\ worker[w].at = "editing"
      /\ status = "failed" => worker[w].abort = "no"
      /\ gen' = [gen EXCEPT ![g].status = status,
                            ![g].by = IF status = "succeeded" THEN worker[w].job ELSE @]
      /\ GoesTo(w, "produced")
      /\ UNCHANGED <<op, caller>>
EndEdit(w, status) ==
  LET g == Source(worker[w].job)
  IN  /\ worker[w].at = "editing"
      /\ status = "failed" => worker[w].abort = "no"
      /\ gen' = IF gen[g].status # "running" \/ gen[g].deleted THEN gen
                ELSE [gen EXCEPT ![g].status = status,
                                 ![g].by = IF status = "succeeded" THEN worker[w].job ELSE @]
      /\ GoesTo(w, "produced")
      /\ UNCHANGED <<op, caller>>

(* The edit is aborted, or a write of the record throws. *)
BreakEdit(w) ==
  /\ \/ worker[w].at = "editing"
     \/ worker[w].at = "executing" /\ JobKind(worker[w].job) = Reedit
  /\ Catch(w, FALSE, TRUE, FALSE)
  /\ UNCHANGED <<op, gen, caller>>

(* The chunk is stored, the lease is gone, the result is too large, or the *)
(* write throws, after it was committed or before.                         *)
SaveResult(w) ==
  /\ worker[w].at = "produced"
  /\ \/ /\ Commit(Fenced(w, WithResult(w)))
        /\ IF Holds(w) THEN GoesTo(w, "saved") ELSE Stops(w)
     \/ /\ Commit(Fenced(w, WithResult(w)))
        /\ Catch(w, FALSE, TRUE, FALSE)
     \/ \E tooLarge \in BOOLEAN :
           /\ Catch(w, FALSE, ~tooLarge, FALSE)
           /\ UNCHANGED <<op, gen>>
  /\ UNCHANGED caller

(* The finish projects and closes, or the lease is gone, or it throws:     *)
(* rolled back because the owner refused (for good or for now), or with    *)
(* only its answer lost.                                                   *)
Succeed(w) ==
  /\ worker[w].at = "saved"
  /\ \/ /\ Commit(Fenced(w, FinalizeAndClose(op[worker[w].job])))
        /\ Stops(w)
     \/ /\ Commit(Fenced(w, FinalizeAndClose(op[worker[w].job])))
        /\ Catch(w, TRUE, TRUE, FALSE)
     \/ \E retryable, deterministic \in BOOLEAN :
           /\ Catch(w, TRUE, retryable, deterministic)
           /\ UNCHANGED <<op, gen>>
  /\ UNCHANGED caller

RecordFinishError(w) ==
  /\ worker[w].at = "recording"
  /\ Commit(Fenced(w, Extended(w, "result_saved")))
  /\ Stops(w)
  /\ UNCHANGED caller

Fail(w) ==
  /\ worker[w].at = "failing"
  /\ Commit(Fenced(w, Failed(op[worker[w].job], worker[w].retry)))
  /\ Stops(w)
  /\ UNCHANGED caller

(* A statement outside the try block throws, or the process dies. *)
Crash(w) ==
  /\ worker[w].at # "idle"
  /\ Stops(w)
  /\ UNCHANGED <<op, gen, caller>>

Tick ==
  /\ op' = [j \in Jobs |->
              IF op[j].status \in {"prepared", "executing"} /\ op[j].at > 0
              THEN [op[j] EXCEPT !.at = @ - 1] ELSE op[j]]
  /\ UNCHANGED <<gen, worker, caller>>

Work(w) ==
  \/ Claim(w) \/ Preflight(w) \/ CloseCancelled(w) \/ Reject(w)
  \/ Execute(w) \/ StartAttempt(w) \/ BreakEdit(w)
  \/ \E status \in {"succeeded", "failed"} : EndEdit(w, status)
  \/ SaveResult(w) \/ Succeed(w) \/ RecordFinishError(w) \/ Fail(w)

User ==
  \/ \E g \in Generations, r \in Requests :
       \/ \E j \in Jobs : Open(g, j, r)
       \/ \E c \in Callers : StartReedit(c, g, r)
  \/ \E g \in Generations : CancelGeneration(g) \/ DeleteGeneration(g)
  \/ \E j \in Jobs, r \in Requests :
       \/ ScheduleImageEdit(j, r)
       \/ \E c \in Callers : RestartReedit(c, j, r)
  \/ \E c \in Callers, j \in Jobs : LookAtImageEdit(c, j) \/ CancelImageEdit(c, j)
  \/ \E c \in Callers : CallerStops(c)

Next ==
  \/ User
  \/ \E w \in Workers : Work(w) \/ Heartbeat(w) \/ Crash(w)
                          \/ \E reason \in {"lost", "timeout"} : Aborted(w, reason)
  \/ Tick

Spec == Init /\ [][Next]_vars

(* A worker's loop reschedules itself after every tick, whatever happened; *)
(* a provider that does not answer is aborted by the timeout.              *)
FairSpec == Spec /\ WF_vars(Tick) /\ \A w \in Workers : WF_vars(Work(w))

----------------------------------------------------------------------------
(* Type of the state. *)
TypeOK ==
  /\ op \in [Jobs -> Row]
  /\ gen \in [Generations -> Generation]
  /\ worker \in [Workers -> Worker]
  /\ caller \in [Callers -> {None} \cup ({"reedit"} \X Requests) \cup ({"cancel"} \X Jobs)]

NeverReedited(g) == \A r \in Requests : SourceOf[r] = g => KindOf[r] # Reedit

(* A generation that nobody re-edits is open exactly as long as a job for  *)
(* it lives - a cancel, a final failure, whoever notices it, and a finish  *)
(* close both at once - and a record that carries an output got it from    *)
(* the job that succeeded.                                                 *)
GenerationEndsWithItsJob ==
  \A g \in Generations : NeverReedited(g) =>
    /\ ~gen[g].deleted => (gen[g].status \in Active <=> LiveJobs(g, Generate) # {})
    /\ gen[g].status = "succeeded" => op[gen[g].by].status = "succeeded"

(* No worker that still holds a job calls the model for it while the job   *)
(* has a saved result.                                                     *)
SavedResultIsNotPaidTwice ==
  \A w \in Workers :
    worker[w].at \in {"executing", "editing"} =>
      LET row == op[worker[w].job]
      IN  row.token = worker[w].token /\ row.status = "executing" => row.progress # "result_saved"

(* A record that is deleted or over stays as it is - no late worker,       *)
(* failure, expiry or cancel writes it - until a re-edit reopens it.       *)
OverStaysOver ==
  [][\A g \in Generations : gen[g].deleted \/ gen[g].status \in Over =>
       \/ gen'[g].status = gen[g].status /\ gen'[g].by = gen[g].by
       \/ ~gen[g].deleted /\ \E c \in Callers : caller[c] = None /\ caller'[c] # None]_vars

PhaseOf(row) ==
  CASE row.status = "absent" -> "none"
    [] row.status \in Live -> "open"
    [] OTHER -> row.status

Contract ==
  INSTANCE OperationTransactions WITH
    Ops    <- Jobs,
    phase  <- [j \in Jobs |-> PhaseOf(op[j])],
    holds  <- [j \in Jobs |-> op[j].locks],
    ledger <- [j \in Jobs |-> [applied |-> op[j].applied, told |-> op[j].told]]

(* What claims, sweeps, cancels and replacements do to several jobs in one *)
(* transaction are ends of the operation contract and at most one opening: *)
(* no job ends twice, is reopened, has its owner told twice, or starts     *)
(* while another one holds its key.                                        *)
ImplementsContract == Contract!TransactSpec

(* Every generation comes to an end, whatever its workers suffer.          *)
InProgress(g) == gen[g].status \in Active /\ ~gen[g].deleted
GenerationsEnd == \A g \in Generations : InProgress(g) ~> ~InProgress(g)

(* Every job comes to an end: no dead worker, cancelled record, replaced   *)
(* re-edit or unprojectable result leaves one that nobody closes.          *)
JobsEnd == \A j \in Jobs : op[j].status \in Live ~> op[j].status \in Terminal

(* docs/ARCHITECTURE.md:808-811 says of all four kinds that the last       *)
(* failure is recorded on the domain ledger.                               *)
LastFailureIsRecorded ==
  [][\A j \in Known :
       /\ JobKind(j) # Edit /\ op'[j].told > op[j].told
       /\ \A c \in Callers : caller[c] = None       \* no new re-edit is on its way
       => gen'[Source(j)].deleted \/ gen'[Source(j)].status \in Over]_vars

(* docs/ARCHITECTURE.md:795 says of all four kinds that one transaction    *)
(* writes the domain ledger and the prepared operation.                    *)
OpenedWithItsJob ==
  \A g \in Generations :
    gen[g].status = "pending" /\ ~gen[g].deleted =>
      \/ LiveJobs(g, Generate \cup {Reedit}) # {}
      \/ \E c \in Callers : caller[c] # None

(* docs/ARCHITECTURE.md:812 says a saved result is reused without calling  *)
(* the model again.                                                        *)
SavedResultIsReused ==
  [][\A j \in Jobs : op[j].progress = "result_saved" /\ op'[j].status \in Live =>
       op'[j].progress = "result_saved"]_vars

============================================================================
