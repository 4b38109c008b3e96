------------------------- MODULE AiDirectJobProofs -------------------------
(***************************************************************************)
(* Theorems about AiDirectJob for every set of generations, jobs, requests *)
(* and workers.                                                            *)
(*                                                                         *)
(* The argument: Moved(old, new, put) says what any transaction may do to  *)
(* the row of a job that exists; `put` if it carries the row's token.      *)
(* Every transaction takes every row to one it has moved to (one lemma per *)
(* write), so the invariants of the rows, of the workers that hold them    *)
(* and of the generation records are preserved by one lemma each, whatever *)
(* the transaction is; the steps differ in what they do to the workers.    *)
(***************************************************************************)
EXTENDS AiDirectJob, OperationRowProofs

----------------------------------------------------------------------------
(* What a transaction may do to a row. *)

Keeps(old, new) ==
  /\ new.applied = old.applied /\ new.told = old.told /\ new.locks = old.locks
  /\ new.status \in Live <=> old.status \in Live
  /\ old.status \in Terminal => new.status = old.status
Succeeds(old, new) ==
  /\ old.status \in Live /\ new.status = "succeeded" /\ new.locks = {}
  /\ new.applied = old.applied + 1 /\ new.told = old.told
Fails(old, new) ==
  /\ old.status \in Live /\ new.status = "failed" /\ new.locks = {}
  /\ new.applied = old.applied /\ new.told = old.told + 1
Drops(old, new) ==
  /\ old.status \in Live /\ new.status = "cancelled" /\ new.locks = {}
  /\ new.applied = old.applied /\ new.told = old.told

\* The token guards the attempt: the row of an attempt under way changes its
\* progress only in a transaction that carries the token.
Guarded(old, new, put) ==
  /\ old.token <= new.token
  /\ new.token = old.token /\ new.status = "executing" =>
       /\ old.status = "executing"
       /\ new.progress = old.progress \/ put

Moved(old, new, put) ==
  /\ new \in Row
  /\ new.request = old.request
  /\ new.status = "absent" <=> old.status = "absent"
  /\ Guarded(old, new, put)
  /\ Keeps(old, new) \/ Succeeds(old, new) \/ Fails(old, new) \/ Drops(old, new)

\* No transaction but a cancel drops a row.
MovedOn(old, new, put) == Moved(old, new, put) /\ ~Drops(old, new)

\* A row that no transaction wrote.
LEMMA SameMoved ==
  ASSUME NEW row \in Row, NEW put \in BOOLEAN
  PROVE  MovedOn(row, row, put)
BY FieldTypes DEF MovedOn, Moved, Guarded, Keeps, Drops, Live, Terminal

\* A rescheduled row.
LEMMA RescheduleMoved ==
  ASSUME NEW row \in Row, row.status = "executing", NEW put \in BOOLEAN,
         NEW delay \in Int, NEW clear \in BOOLEAN
  PROVE  MovedOn(row, Reschedule(row, delay, clear), put)
BY FieldTypes, RescheduleTyped, RescheduleFields
DEF MovedOn, Moved, Guarded, Keeps, Drops, Live, Terminal

\* A row whose owner was told that it failed.
LEMMA CloseFailedMoved ==
  ASSUME NEW row \in Row, row.status = "executing", NEW put \in BOOLEAN
  PROVE  MovedOn(row, CloseFailed(row), put)
BY FieldTypes, CloseFailedTyped, CloseFailedFields
DEF MovedOn, Moved, Guarded, Fails, Drops, Live, Terminal

\* A row whose owner was given the result.
LEMMA FinalizeMoved ==
  ASSUME NEW row \in Row, row.status = "executing", NEW put \in BOOLEAN
  PROVE  MovedOn(row, FinalizeAndClose(row), put)
BY FieldTypes, FinalizeTyped, FinalizeFields
DEF MovedOn, Moved, Guarded, Succeeds, Drops, Live, Terminal

\* A row that a reader or a writer found lapsed, or not.
LEMMA ExpireMoved ==
  ASSUME NEW row \in Row, NEW put \in BOOLEAN
  PROVE  MovedOn(row, ExpireIfDue(row, 0), put)
<1>1. CASE row.status # "executing" \/ ~TimeIsUp(row, 0)
  BY <1>1, SameMoved DEF ExpireIfDue
<1>2. CASE row.status = "executing" /\ TimeIsUp(row, 0) /\ Retryable(row)
  <2>1. -0 \in Int OBVIOUS
  <2>2. MovedOn(row, Reschedule(row, -0, FALSE), put) BY <1>2, <2>1, RescheduleMoved
  <2> QED BY <1>2, <2>2 DEF ExpireIfDue
<1>3. CASE row.status = "executing" /\ TimeIsUp(row, 0) /\ ~Retryable(row)
  BY <1>3, CloseFailedMoved DEF ExpireIfDue
<1> QED BY <1>1, <1>2, <1>3

\* A row that a cancel closed, after it found it lapsed, or not.
LEMMA CancelledMoved ==
  ASSUME NEW row \in Row, row.status # "absent", NEW put \in BOOLEAN
  PROVE  Moved(row, Cancelled(row), put)
<1> DEFINE seen == ExpireIfDue(row, 0)
           new == Close(seen, "cancelled")
<1>1. MovedOn(row, seen, put) BY ExpireMoved
<1>2. seen \in Row BY <1>1 DEF MovedOn, Moved
<1>3. CASE seen.status \in Terminal
  BY <1>1, <1>3 DEF Cancelled, MovedOn
<1>4. CASE seen.status \notin Terminal
  <2>1. new \in Row BY <1>2, CloseTyped DEF Terminal
  <2>2. /\ new.status = "cancelled" /\ new.request = seen.request /\ new.token = seen.token
        /\ new.applied = seen.applied /\ new.told = seen.told /\ new.locks = {}
    BY <1>2, CloseFields
  <2>3. Cancelled(row) = new BY <1>4 DEF Cancelled
  <2>4. seen.status \in Live
    BY <1>1, <1>2, <1>4, FieldTypes DEF MovedOn, Moved
  <2>5. Keeps(row, seen)
    BY <1>1, <2>4 DEF MovedOn, Moved, Succeeds, Fails, Live
  <2> HIDE DEF seen, new
  <2>6. row.token \in Nat BY FieldTypes
  <2>7. Drops(row, new) BY <2>2, <2>4, <2>5 DEF Keeps, Drops
  <2>8. Guarded(row, new, put)
    BY <1>1, <2>2 DEF MovedOn, Moved, Guarded
  <2> QED BY <1>1, <2>1, <2>2, <2>3, <2>7, <2>8 DEF MovedOn, Moved
<1> QED BY <1>3, <1>4

\* A row that a worker claimed.
LEMMA ClaimedMoved ==
  ASSUME NEW row \in Row, row.status \in Live, row.request \in Requests, NEW put \in BOOLEAN
  PROVE  MovedOn(row, Claimed(row, 0), put)
BY FieldTypes, ClaimedTyped, ClaimedFields
DEF MovedOn, Moved, Guarded, Keeps, Drops, Live, Terminal

\* A row whose holder declared its attempt failed.
LEMMA FailedMoved ==
  ASSUME NEW row \in Row, row.status = "executing", NEW put \in BOOLEAN, NEW retry \in BOOLEAN
  PROVE  MovedOn(row, Failed(row, retry), put)
<1>1. RetryDelay \in Int BY JobAssumption
<1>2. MovedOn(row, Reschedule(row, RetryDelay, TRUE), put) BY <1>1, RescheduleMoved
<1>3. MovedOn(row, CloseFailed(row), put) BY CloseFailedMoved
<1> QED BY <1>2, <1>3 DEF Failed

\* A row whose holder stored a chunk or extended the lease.
LEMMA ChunkMoved ==
  ASSUME NEW row \in Row, row.status = "executing", row.request \in Requests,
         NEW s \in Slots, NEW sum \in Sums, NEW attempt \in Nat,
         NEW progress \in Progress \cup {None}, NEW put \in BOOLEAN,
         progress = None \/ put
  PROVE  MovedOn(row, WithChunk(row, s, sum, attempt, progress, 0), put)
<1> DEFINE new == WithChunk(row, s, sum, attempt, progress, 0)
<1>1. new \in Row
  <2>1. 0 \in Int OBVIOUS
  <2> QED BY <2>1, WithChunkTyped
<1>2. /\ new.status = row.status /\ new.request = row.request /\ new.token = row.token
      /\ new.applied = row.applied /\ new.told = row.told /\ new.locks = row.locks
      /\ progress = None => new.progress = row.progress
  BY DEF WithChunk, Row
<1> HIDE DEF new
<1>3. MovedOn(row, new, put)
  BY <1>1, <1>2, FieldTypes DEF MovedOn, Moved, Guarded, Keeps, Drops, Live, Terminal
<1> QED BY <1>3 DEF new

----------------------------------------------------------------------------
(* The invariant of the rows and of the workers that hold them. *)

RowsFit == \A j \in Known : op[j].request \in Requests

HoldersFit ==
  \A w \in Workers : worker[w].at # "idle" =>
    worker[w].job \in Known /\ worker[w].token <= op[worker[w].job].token

\* Two workers with one job have it in different attempts.
TicketsDiffer ==
  \A v, w \in Workers :
    v # w /\ worker[v].at # "idle" /\ worker[w].at # "idle" /\ worker[v].job = worker[w].job
      => worker[v].token # worker[w].token

Unpaid == {"claimed", "executing", "editing"}
Current(w) ==
  op[worker[w].job].token = worker[w].token /\ op[worker[w].job].status = "executing"

\* A worker whose attempt is under way knows whether its job has a result.
KnowsItsJob ==
  \A w \in Workers : worker[w].at \in Unpaid /\ Current(w) =>
    IF worker[w].at = "claimed"
    THEN worker[w].saved <=> op[worker[w].job].progress = "result_saved"
    ELSE op[worker[w].job].progress # "result_saved"

\* A request that is half done remembers what it was admitted for.
CallerFits(c) ==
  /\ \A r \in Requests : caller[c] = <<"reedit", r>> => KindOf[r] = Reedit
  /\ \A j \in Jobs : caller[c] = <<"cancel", j>> => j \in Known /\ JobKind(j) = Edit

HoldInv == RowsFit /\ HoldersFit /\ TicketsDiffer /\ KnowsItsJob
IInv == TypeOK /\ HoldInv /\ \A c \in Callers : CallerFits(c)

\* A row that a transaction inserts.
Created(old, new) ==
  old.status = "absent" /\ new.status = "prepared" /\ new.request \in Requests

\* The worker that holds row j by its token writes it, and is past its work.
PutBy(j) ==
  \E w \in Workers : /\ worker[w].at # "idle" /\ worker'[w].at \notin Unpaid
                     /\ worker[w].job = j /\ worker[w].token = op[j].token

\* What a worker does in any step but a claim, and in a claim.
Follows(w) ==
  worker'[w].at # "idle" =>
    /\ worker[w].at # "idle"
    /\ worker'[w].job = worker[w].job /\ worker'[w].token = worker[w].token
    /\ worker'[w].at = "claimed" =>
         worker[w].at = "claimed" /\ worker'[w].saved = worker[w].saved
    /\ worker'[w].at \in {"executing", "editing"} =>
         \/ worker[w].at \in {"executing", "editing"}
         \/ worker[w].at = "claimed" /\ ~worker[w].saved
Claims(w) ==
  /\ worker[w].at = "idle" /\ worker'[w].at = "claimed"
  /\ worker'[w].job \in Known
  /\ worker'[w].token = op[worker'[w].job].token + 1
  /\ worker'[w].token = op'[worker'[w].job].token
  /\ worker'[w].saved <=> op'[worker'[w].job].progress = "result_saved"

\* What a step does to all the rows, the workers and the callers.
RowsMove ==
  /\ op' \in [Jobs -> Row]
  /\ \A j \in Jobs : Created(op[j], op'[j]) \/ Moved(op[j], op'[j], PutBy(j))
WorkersMove(u) ==
  /\ worker' \in [Workers -> Worker]
  /\ \A w \in Workers : Follows(w) \/ (w = u /\ Claims(w))
CallersMove ==
  /\ caller' \in [Callers -> {None} \cup ({"reedit"} \X Requests) \cup ({"cancel"} \X Jobs)]
  /\ \A c \in Callers : caller'[c] \in {None, caller[c]} \/ CallerFits(c)'

\* Every step preserves the invariant when its rows and workers do as above.
LEMMA HoldInvKept ==
  ASSUME IInv, NEW u, RowsMove, WorkersMove(u)
  PROVE  HoldInv'
<1> USE DEF IInv, RowsMove, WorkersMove
<1>1. \A j \in Known : j \in Jobs /\ j \in Known' /\ Moved(op[j], op'[j], PutBy(j))
  BY DEF Known, Created, Moved
<1>2. \A j \in Jobs : op[j].token \in Nat /\ op'[j].token \in Nat
  BY FieldTypes DEF TypeOK
<1>3. \A w \in Workers : worker[w].token \in Nat /\ worker'[w].token \in Nat
  BY DEF TypeOK, Worker
<1>4. RowsFit'
  <2> SUFFICES ASSUME NEW j \in Known' PROVE op'[j].request \in Requests
    BY DEF RowsFit
  <2> QED BY <1>1 DEF Known, Created, Moved, HoldInv, RowsFit
<1>5. \A j \in Known : op[j].token <= op'[j].token
  BY <1>1 DEF Moved, Guarded
<1>6. HoldersFit'
  <2> SUFFICES ASSUME NEW w \in Workers, worker'[w].at # "idle"
               PROVE  /\ worker'[w].job \in Known'
                      /\ worker'[w].token <= op'[worker'[w].job].token
    BY DEF HoldersFit
  <2>1. CASE Follows(w)
    <3>1. /\ worker'[w].job = worker[w].job /\ worker'[w].token = worker[w].token
          /\ worker[w].job \in Known /\ worker[w].token <= op[worker[w].job].token
      BY <2>1 DEF Follows, HoldInv, HoldersFit
    <3> QED BY <1>1, <1>2, <1>3, <1>5, <3>1
  <2>2. CASE Claims(w)
    BY <1>1, <1>2, <2>2 DEF Claims
  <2> QED BY <2>1, <2>2
<1>7. TicketsDiffer'
  <2> SUFFICES ASSUME NEW v \in Workers, NEW w \in Workers, v # w,
                      worker'[v].at # "idle", worker'[w].at # "idle",
                      worker'[v].job = worker'[w].job
               PROVE  worker'[v].token # worker'[w].token
    BY DEF TicketsDiffer
  <2>1. ASSUME NEW a \in Workers, NEW b \in Workers, worker'[a].at # "idle",
               worker'[a].job = worker'[b].job, Follows(a), Claims(b)
        PROVE  worker'[a].token # worker'[b].token
    <3>1. /\ worker'[a].job = worker[a].job /\ worker'[a].token = worker[a].token
          /\ worker[a].job \in Known /\ worker[a].token <= op[worker[a].job].token
      BY <2>1 DEF Follows, HoldInv, HoldersFit
    <3>2. worker'[b].token = op[worker[a].job].token + 1
      BY <2>1, <3>1 DEF Claims
    <3> QED BY <1>1, <1>2, <1>3, <3>1, <3>2
  <2>2. CASE Follows(v) /\ Follows(w)
    BY <2>2 DEF Follows, HoldInv, TicketsDiffer
  <2>3. CASE Follows(v) /\ Claims(w)
    BY <2>1, <2>3
  <2>4. CASE Claims(v) /\ Follows(w)
    BY <2>1, <2>4
  <2> QED BY <2>2, <2>3, <2>4
<1>8. KnowsItsJob'
  <2> SUFFICES ASSUME NEW w \in Workers, worker'[w].at \in Unpaid, Current(w)'
               PROVE  IF worker'[w].at = "claimed"
                      THEN worker'[w].saved <=> op'[worker'[w].job].progress = "result_saved"
                      ELSE op'[worker'[w].job].progress # "result_saved"
    BY DEF KnowsItsJob
  <2>1. CASE Claims(w)
    BY <2>1 DEF Claims
  <2>2. CASE Follows(w)
    <3> DEFINE j == worker[w].job
    <3>1. /\ worker[w].at \in Unpaid /\ worker[w].at # "idle"
          /\ worker'[w].job = j /\ worker'[w].token = worker[w].token
          /\ j \in Known /\ worker[w].token <= op[j].token
      BY <2>2 DEF Follows, HoldInv, HoldersFit, Unpaid
    <3>2. op'[j].token = worker[w].token /\ op'[j].status = "executing"
      BY <3>1 DEF Current
    <3>3. op'[j].token = op[j].token /\ op[j].token = worker[w].token
      BY <1>1, <1>2, <1>3, <1>5, <3>1, <3>2
    <3>4. op[j].status = "executing" /\ (op'[j].progress = op[j].progress \/ PutBy(j))
      BY <1>1, <3>1, <3>2, <3>3 DEF Moved, Guarded
    <3>5. ~PutBy(j)
      <4> SUFFICES ASSUME NEW v \in Workers, worker[v].at # "idle", worker'[v].at \notin Unpaid,
                          worker[v].job = j, worker[v].token = op[j].token
                   PROVE  FALSE
        BY DEF PutBy
      <4> QED BY <3>1, <3>3 DEF HoldInv, TicketsDiffer
    <3>6. op'[j].progress = op[j].progress BY <3>4, <3>5
    <3>7. Current(w) BY <3>3, <3>4 DEF Current
    <3> QED BY <2>2, <3>1, <3>6, <3>7 DEF Follows, HoldInv, KnowsItsJob, Unpaid
  <2> QED BY <2>1, <2>2
<1> QED BY <1>4, <1>6, <1>7, <1>8 DEF HoldInv

\* And the whole invariant, when its callers do.
LEMMA InvKept ==
  ASSUME IInv, NEW u, RowsMove, WorkersMove(u), CallersMove,
         gen' \in [Generations -> Generation]
  PROVE  IInv'
<1>1. HoldInv' BY HoldInvKept
<1>2. TypeOK' BY DEF TypeOK, RowsMove, WorkersMove, CallersMove
<1>3. ASSUME NEW c \in Callers PROVE CallerFits(c)'
  <2>1. CASE CallerFits(c)' BY <2>1
  <2>2. CASE caller'[c] = None
    <3>1. \A r \in Requests : caller'[c] # <<"reedit", r>> BY <2>2, JobAssumption
    <3>2. \A j \in Jobs : caller'[c] # <<"cancel", j>> BY <2>2, JobAssumption
    <3> QED BY <3>1, <3>2 DEF CallerFits
  <2>3. CASE caller'[c] = caller[c]
    <3>1. CallerFits(c) BY DEF IInv
    <3>2. ASSUME NEW j \in Jobs, j \in Known, JobKind(j) = Edit
          PROVE  (j \in Known)' /\ (JobKind(j) = Edit)'
      BY <3>2 DEF RowsMove, Created, Moved, Known, JobKind
    <3> QED BY <2>3, <3>1, <3>2 DEF CallerFits
  <2> QED BY <2>1, <2>2, <2>3 DEF CallersMove
<1> QED BY <1>1, <1>2, <1>3 DEF IInv

----------------------------------------------------------------------------
(* Rows that move on and records that are projected. *)

RowsAdvance ==
  op' \in [Jobs -> Row] /\ \A j \in Jobs : MovedOn(op[j], op'[j], PutBy(j))

\* A step of the kernel that cancels nothing and inserts nothing.
Advance(u) ==
  RowsAdvance /\ WorkersMove(u) /\ CallersMove /\ gen' = Projected(op')

\* PutBy is a predicate.
LEMMA PutByBoolean == \A j : PutBy(j) \in BOOLEAN
BY DEF PutBy

\* A record whose status is set is a record.
LEMMA RecordTyped ==
  ASSUME TypeOK, NEW g, NEW status \in Active \cup Over
  PROVE  [gen EXCEPT ![g].status = status] \in [Generations -> Generation]
<1>1. gen \in [Generations -> Generation] BY DEF TypeOK
<1>2. CASE g \in Generations
  <2>1. gen[g] \in Generation BY <1>1, <1>2
  <2>2. [gen[g] EXCEPT !.status = status] \in Generation BY <2>1 DEF Generation
  <2> QED BY <1>1, <2>2
<1>3. CASE g \notin Generations BY <1>1, <1>3
<1> QED BY <1>2, <1>3

\* A projection writes records.
LEMMA ProjectedTyped ==
  ASSUME TypeOK, NEW new
  PROVE  Projected(new) \in [Generations -> Generation]
<1> SUFFICES ASSUME NEW g \in Generations PROVE Projected(new)[g] \in Generation
  BY DEF Projected
<1> DEFINE Done(j) == new[j].applied > op[j].applied
           done == CHOOSE j \in JobsOf(g, Generate) : Done(j)
<1>1. gen[g] \in Generation BY DEF TypeOK
<1>2. CASE \E j \in JobsOf(g, Generate) : Done(j)
  <2>1. done \in Jobs BY <1>2 DEF JobsOf, Known
  <2>2. [gen[g] EXCEPT !.status = "succeeded", !.by = done] \in Generation
    <3> HIDE DEF done
    <3> QED BY <1>1, <2>1 DEF Generation, Over
  <2> QED BY <1>1, <1>2, <2>2 DEF Projected
<1>3. CASE ~\E j \in JobsOf(g, Generate) : Done(j)
  <2>1. [gen[g] EXCEPT !.status = "failed"] \in Generation BY <1>1 DEF Generation, Over
  <2> QED BY <1>1, <1>3, <2>1 DEF Projected
<1> QED BY <1>2, <1>3

\* Rows whose owners were not called project nothing.
LEMMA ProjectedSame ==
  ASSUME TypeOK, NEW new,
         \A j \in Jobs : new[j].applied = op[j].applied /\ new[j].told = op[j].told
  PROVE  Projected(new) = gen
<1> SUFFICES ASSUME NEW g \in Generations PROVE Projected(new)[g] = gen[g]
  BY DEF Projected, TypeOK
<1>1. \A j \in Jobs : op[j].applied \in Nat /\ op[j].told \in Nat
  BY FieldTypes DEF TypeOK
<1>2. \A j \in JobsOf(g, Generate) : ~(new[j].applied > op[j].applied) /\ ~(new[j].told > op[j].told)
  BY <1>1 DEF JobsOf, Known
<1> QED BY <1>2 DEF Projected

\* An advancing step preserves the invariant.
LEMMA AdvanceKeeps ==
  ASSUME IInv, NEW u, Advance(u)
  PROVE  IInv'
<1>1. RowsMove BY DEF Advance, RowsAdvance, RowsMove, MovedOn
<1>2. gen' \in [Generations -> Generation] BY ProjectedTyped DEF IInv, Advance
<1> QED BY <1>1, <1>2, InvKept DEF Advance

\* Rows and records that nobody wrote.
LEMMA QuietAdvances ==
  ASSUME IInv, UNCHANGED op
  PROVE  RowsAdvance /\ Projected(op') = gen
<1>1. RowsAdvance BY SameMoved, PutByBoolean DEF IInv, TypeOK, RowsAdvance
<1>2. Projected(op') = gen BY ProjectedSame DEF IInv
<1> QED BY <1>1, <1>2

\* Callers that nobody answered.
LEMMA QuietCallers ==
  ASSUME IInv, UNCHANGED caller
  PROVE  CallersMove
BY DEF IInv, TypeOK, CallersMove

----------------------------------------------------------------------------
(* What a worker becomes. *)

\* Workers that did nothing.
LEMMA QuietWorkers ==
  ASSUME IInv, UNCHANGED worker, NEW u
  PROVE  WorkersMove(u)
BY DEF IInv, TypeOK, WorkersMove, Follows

\* A worker that lets its job go.
LEMMA StopsMove ==
  ASSUME IInv, NEW w \in Workers, Stops(w)
  PROVE  WorkersMove(w) /\ worker'[w].at = "idle"
<1>1. worker \in [Workers -> Worker] BY DEF IInv, TypeOK
<1>2. Idle \in Worker BY DEF Idle, Worker
<1>3. worker' = [worker EXCEPT ![w] = Idle] BY DEF Stops
<1>4. worker' \in [Workers -> Worker] /\ worker'[w].at = "idle"
  BY <1>1, <1>2, <1>3 DEF Idle
<1>5. \A v \in Workers : Follows(v)
  BY <1>1, <1>3, <1>4 DEF Follows
<1> QED BY <1>4, <1>5 DEF WorkersMove

Phases == Beating \cup {"claimed", "closing", "rejecting"}

\* A worker that goes on to another phase.
LEMMA GoesMove ==
  ASSUME IInv, NEW w \in Workers, worker[w].at # "idle", NEW h \in Worker,
         worker' = [worker EXCEPT ![w] = h],
         h.job = worker[w].job, h.token = worker[w].token,
         h.at = "claimed" => worker[w].at = "claimed" /\ h.saved = worker[w].saved,
         h.at \in {"executing", "editing"} =>
           \/ worker[w].at \in {"executing", "editing"}
           \/ worker[w].at = "claimed" /\ ~worker[w].saved
  PROVE  WorkersMove(w) /\ worker'[w].at = h.at
<1>1. worker \in [Workers -> Worker] BY DEF IInv, TypeOK
<1>2. worker' \in [Workers -> Worker] /\ worker'[w] = h BY <1>1
<1>3. \A v \in Workers : v # w => worker'[v] = worker[v] BY <1>1
<1>4. \A v \in Workers : Follows(v)
  BY <1>2, <1>3 DEF Follows
<1> QED BY <1>2, <1>4 DEF WorkersMove

\* A worker that goes on to a phase that calls no provider.
LEMMA GoesOn ==
  ASSUME IInv, NEW w \in Workers, worker[w].at # "idle",
         NEW at \in Phases \ Unpaid, GoesTo(w, at)
  PROVE  WorkersMove(w) /\ worker'[w].at = at
<1> DEFINE h == [worker[w] EXCEPT !.at = at]
<1>1. worker[w] \in Worker BY DEF IInv, TypeOK
<1>2. /\ h \in Worker /\ h.at = at
      /\ h.job = worker[w].job /\ h.token = worker[w].token /\ h.saved = worker[w].saved
  BY <1>1 DEF Worker, Phases
<1>3. worker' = [worker EXCEPT ![w] = h] BY DEF GoesTo
<1> HIDE DEF h
<1> QED BY <1>2, <1>3, GoesMove DEF Unpaid

\* A worker in the catch block.
LEMMA CatchMove ==
  ASSUME IInv, NEW w \in Workers, worker[w].at # "idle",
         NEW saved \in BOOLEAN, NEW retryable \in BOOLEAN, NEW deterministic \in BOOLEAN,
         Catch(w, saved, retryable, deterministic)
  PROVE  WorkersMove(w) /\ worker'[w].at \notin Unpaid
<1> DEFINE again == (retryable \/ worker[w].abort = "timeout") /\ ~(saved /\ deterministic)
           at == IF saved /\ again THEN "recording" ELSE "failing"
           h == [worker[w] EXCEPT !.at = at, !.retry = again]
<1>1. CASE Stops(w)
  BY <1>1, StopsMove DEF Unpaid
<1>2. CASE worker' = [worker EXCEPT ![w].at = at, ![w].retry = again]
  <2>1. worker[w] \in Worker BY DEF IInv, TypeOK
  <2>2. again \in BOOLEAN /\ at \in {"recording", "failing"} OBVIOUS
  <2> HIDE DEF again, at
  <2>3. /\ h \in Worker /\ h.at = at
        /\ h.job = worker[w].job /\ h.token = worker[w].token
    BY <2>1, <2>2 DEF Worker, Beating
  <2>4. worker' = [worker EXCEPT ![w] = h]
    BY <1>2 DEF IInv, TypeOK
  <2> HIDE DEF h
  <2>5. h.at \notin Unpaid BY <2>2, <2>3 DEF Unpaid
  <2> QED BY <2>3, <2>4, <2>5, GoesMove DEF Unpaid
<1> QED BY <1>1, <1>2 DEF Catch

----------------------------------------------------------------------------
(* The steps of a worker. *)

\* The job of a worker that is not idle.
LEMMA JobFits ==
  ASSUME IInv, NEW w \in Workers, worker[w].at # "idle"
  PROVE  /\ worker[w].job \in Jobs /\ worker[w].job \in Known
         /\ op[worker[w].job] \in Row /\ op[worker[w].job].status # "absent"
         /\ op[worker[w].job].request \in Requests
         /\ worker[w].attempt \in Nat
BY DEF IInv, HoldInv, HoldersFit, RowsFit, Known, TypeOK, Worker

\* A write behind the fence moves the rows on when the write itself does.
LEMMA FencedAdvances ==
  ASSUME IInv, NEW w \in Workers, worker[w].at # "idle", NEW new,
         Holds(w) => MovedOn(op[worker[w].job], new, PutBy(worker[w].job)),
         op' = Fenced(w, new)
  PROVE  RowsAdvance
<1> DEFINE k == worker[w].job
<1>1. k \in Jobs /\ op \in [Jobs -> Row] BY JobFits DEF IInv, TypeOK
<1>2. \A j \in Jobs : MovedOn(op[j], op[j], PutBy(j))
  BY <1>1, SameMoved, PutByBoolean
<1>3. MovedOn(op[k], op'[k], PutBy(k))
  <2>1. CASE Holds(w) BY <1>1, <2>1 DEF Fenced
  <2>2. CASE ~Holds(w) /\ FenceExpires(op[k], worker[w].token, 0)
    <3>1. op'[k] = ExpireIfDue(op[k], 0) BY <1>1, <2>2 DEF Fenced
    <3> QED BY <1>1, <3>1, ExpireMoved, PutByBoolean
  <2>3. CASE ~Holds(w) /\ ~FenceExpires(op[k], worker[w].token, 0)
    <3>1. op'[k] = op[k] BY <1>1, <2>3 DEF Fenced
    <3> QED BY <1>1, <1>2, <3>1
  <2> QED BY <2>1, <2>2, <2>3
<1>4. \A j \in Jobs : j # k => op'[j] = op[j]
  BY <1>1 DEF Fenced
<1>5. \A j \in Jobs : MovedOn(op[j], op'[j], PutBy(j))
  BY <1>2, <1>3, <1>4
<1>6. op' = [op EXCEPT ![k] = op'[k]]
  BY <1>1 DEF Fenced
<1>7. op' \in [Jobs -> Row] BY <1>1, <1>3, <1>6 DEF MovedOn, Moved
<1> QED BY <1>5, <1>7 DEF RowsAdvance

\* Whoever holds a row holds it executing, under the row's token.
LEMMA HoldsMeans ==
  ASSUME NEW w \in Workers, Holds(w)
  PROVE  /\ op[worker[w].job].status = "executing"
         /\ op[worker[w].job].token = worker[w].token
BY DEF Holds, FenceAdmits

\* A claim, and the sweep before it.
LEMMA ClaimAdvances ==
  ASSUME IInv, NEW w \in Workers, Claim(w)
  PROVE  Advance(w)
<1> DEFINE swept == [j \in Jobs |-> IF j \in Exhausted THEN ExpireIfDue(op[j], 0) ELSE op[j]]
<1>1. op \in [Jobs -> Row] /\ worker \in [Workers -> Worker] BY DEF IInv, TypeOK
<1>2. \A j \in Jobs : MovedOn(op[j], swept[j], PutBy(j))
  BY <1>1, SameMoved, ExpireMoved, PutByBoolean
<1>3. swept \in [Jobs -> Row] BY <1>2 DEF MovedOn, Moved
<1>4. CallersMove BY QuietCallers DEF Claim
<1>5. CASE Commit(swept) /\ UNCHANGED worker
  BY <1>2, <1>3, <1>4, <1>5, QuietWorkers DEF Commit, Advance, RowsAdvance
<1>6. ASSUME NEW j \in Claimable, worker[w].at = "idle",
             Commit([swept EXCEPT ![j] = Claimed(@, 0)]),
             worker' = [worker EXCEPT ![w] =
                          [Idle EXCEPT !.at = "claimed", !.job = j, !.token = op[j].token + 1,
                                       !.attempt = op[j].attempts + 1,
                                       !.saved = op[j].progress = "result_saved"]]
      PROVE  Advance(w)
  <2> DEFINE token == op[j].token + 1
             attempt == op[j].attempts + 1
             saved == op[j].progress = "result_saved"
             h == [Idle EXCEPT !.at = "claimed", !.job = j, !.token = token,
                               !.attempt = attempt, !.saved = saved]
  <2>1. /\ j \in Jobs /\ j \in Known /\ op[j].status \in Live /\ j \notin Exhausted
        /\ op[j].request \in Requests
    BY DEF Claimable, Exhausted, Known, Live, IInv, HoldInv, RowsFit
  <2>2. op' = [swept EXCEPT ![j] = Claimed(op[j], 0)]
    BY <1>6, <2>1 DEF Commit
  <2>3. MovedOn(op[j], Claimed(op[j], 0), PutBy(j))
    BY <1>1, <2>1, ClaimedMoved, PutByBoolean
  <2>4. Claimed(op[j], 0) \in Row BY <2>3 DEF MovedOn, Moved
  <2> HIDE DEF swept
  <2>5. RowsAdvance
    <3>1. op' \in [Jobs -> Row] BY <1>3, <2>2, <2>4
    <3>2. \A i \in Jobs : MovedOn(op[i], op'[i], PutBy(i))
      BY <1>2, <1>3, <2>2, <2>3
    <3> QED BY <3>1, <3>2 DEF RowsAdvance
  <2>6. op'[j].token = op[j].token + 1 /\ op'[j].progress = op[j].progress
    <3>1. op'[j] = Claimed(op[j], 0) BY <1>3, <2>1, <2>2
    <3>2. op[j] \in Row BY <1>1, <2>1
    <3> QED BY <3>1, <3>2 DEF Claimed, Row
  <2>7. /\ h.at = "claimed" /\ h.job = j /\ h.token = op[j].token + 1
        /\ h.saved <=> op[j].progress = "result_saved"
        /\ h \in Worker
    <3>1. token \in Nat /\ attempt \in Nat /\ saved \in BOOLEAN
      BY <1>1, <2>1, FieldTypes
    <3> HIDE DEF token, attempt, saved
    <3> DEFINE a == [Idle EXCEPT !.at = "claimed"]
               b == [a EXCEPT !.job = j]
               c == [b EXCEPT !.token = token]
               d == [c EXCEPT !.attempt = attempt]
    <3>2. Idle \in Worker BY DEF Idle, Worker
    <3>3. a \in Worker /\ a.at = "claimed" BY <3>2 DEF Worker
    <3> HIDE DEF a
    <3>4. b \in Worker /\ b.at = "claimed" /\ b.job = j BY <2>1, <3>3 DEF Worker
    <3> HIDE DEF b
    <3>5. c \in Worker /\ c.at = "claimed" /\ c.job = j /\ c.token = token
      BY <3>1, <3>4 DEF Worker
    <3> HIDE DEF c
    <3>6. d \in Worker /\ d.at = "claimed" /\ d.job = j /\ d.token = token
      BY <3>1, <3>5 DEF Worker
    <3> HIDE DEF d
    <3>7. LET n == [d EXCEPT !.saved = saved] IN
          n \in Worker /\ n.at = "claimed" /\ n.job = j /\ n.token = token /\ n.saved = saved
      BY <3>1, <3>6 DEF Worker
    <3>8. h = [d EXCEPT !.saved = saved] BY DEF a, b, c, d
    <3> HIDE DEF h
    <3> QED BY <3>7, <3>8 DEF token, saved
  <2> HIDE DEF h
  <2>8. worker' = [worker EXCEPT ![w] = h] BY <1>6 DEF h
  <2>9. worker' \in [Workers -> Worker] /\ worker'[w] = h
    BY <1>1, <2>7, <2>8
  <2>10. Claims(w) BY <1>6, <2>1, <2>6, <2>7, <2>9 DEF Claims
  <2>11. \A v \in Workers : v # w => Follows(v)
    BY <1>1, <2>8 DEF Follows
  <2>12. WorkersMove(w) BY <2>9, <2>10, <2>11 DEF WorkersMove
  <2> QED BY <1>4, <1>6, <2>5, <2>12 DEF Advance, Commit
<1> HIDE DEF swept
<1>7. worker[w].at = "idle" BY DEF Claim
<1> QED BY <1>5, <1>6, <1>7 DEF Claim, swept

\* A worker that looks at its record.
LEMMA PreflightAdvances ==
  ASSUME IInv, NEW w \in Workers, Preflight(w)
  PROVE  Advance(w)
<1> DEFINE at == CASE Verdict(worker[w].job) = "runnable"  ->
                        IF worker[w].saved THEN "saved" ELSE "executing"
                   [] Verdict(worker[w].job) = "cancelled" -> "closing"
                   [] Verdict(worker[w].job) = "invalid"   -> "rejecting"
           h == [worker[w] EXCEPT !.at = at]
<1>1. /\ at \in {"saved", "executing", "closing", "rejecting"}
      /\ at = "executing" => ~worker[w].saved
  BY DEF Verdict
<1>2. worker' = [worker EXCEPT ![w].at = at] BY DEF Preflight, GoesTo
<1> HIDE DEF at
<1>3. worker[w] \in Worker BY DEF IInv, TypeOK
<1>4. /\ h \in Worker /\ h.at = at
      /\ h.job = worker[w].job /\ h.token = worker[w].token
  BY <1>1, <1>3 DEF Worker, Beating
<1>5. worker' = [worker EXCEPT ![w] = h] BY <1>2
<1> HIDE DEF h
<1>6. worker[w].at = "claimed" BY DEF Preflight
<1>7. WorkersMove(w) BY <1>1, <1>4, <1>5, <1>6, GoesMove
<1>8. CallersMove /\ RowsAdvance /\ gen' = Projected(op')
  BY QuietCallers, QuietAdvances DEF Preflight
<1> QED BY <1>7, <1>8 DEF Advance

\* A worker whose record is missing.
LEMMA RejectAdvances ==
  ASSUME IInv, NEW w \in Workers, Reject(w)
  PROVE  Advance(w)
<1>1. worker[w].at # "idle" BY DEF Reject
<1>2. Holds(w) => MovedOn(op[worker[w].job], Failed(op[worker[w].job], FALSE),
                          PutBy(worker[w].job))
  BY <1>1, JobFits, HoldsMeans, FailedMoved, PutByBoolean
<1>3. RowsAdvance
  BY <1>1, <1>2, FencedAdvances DEF Reject, Commit
<1> QED BY <1>3, StopsMove, QuietCallers DEF Reject, Commit, Advance

\* A worker whose heartbeat extends its lease, or is refused.
LEMMA HeartbeatAdvances ==
  ASSUME IInv, NEW w \in Workers, Heartbeat(w)
  PROVE  Advance(w)
<1> DEFINE abort == IF ~Holds(w) /\ Abortable(w) THEN "lost" ELSE worker[w].abort
           h == [worker[w] EXCEPT !.abort = abort]
<1>1. worker[w].at # "idle" /\ worker[w].at # "claimed" BY DEF Heartbeat, Beating
<1>2. ASSUME Holds(w)
      PROVE  MovedOn(op[worker[w].job], Extended(w, None), PutBy(worker[w].job))
  <2>1. Empty \in Sums /\ "heartbeat" \in Slots BY JobAssumption
  <2> QED BY <1>1, <1>2, <2>1, JobFits, HoldsMeans, ChunkMoved, PutByBoolean DEF Extended
<1>3. RowsAdvance
  BY <1>1, <1>2, FencedAdvances DEF Heartbeat, Commit
<1>4. worker[w] \in Worker BY DEF IInv, TypeOK
<1>5. /\ h \in Worker /\ h.at = worker[w].at
      /\ h.job = worker[w].job /\ h.token = worker[w].token
  BY <1>4 DEF Worker
<1>6. worker' = [worker EXCEPT ![w] = h] BY DEF Heartbeat
<1> HIDE DEF h
<1>7. WorkersMove(w) BY <1>1, <1>5, <1>6, GoesMove
<1> QED BY <1>3, <1>7, QuietCallers DEF Heartbeat, Commit, Advance

\* A worker whose work is aborted.
LEMMA AbortedAdvances ==
  ASSUME IInv, NEW w \in Workers, NEW reason \in {"lost", "timeout"}, Aborted(w, reason)
  PROVE  Advance(w)
<1> DEFINE h == [worker[w] EXCEPT !.abort = reason]
<1>1. worker[w].at # "idle" /\ worker[w].at # "claimed" BY DEF Aborted, Abortable, Beating
<1>2. worker[w] \in Worker BY DEF IInv, TypeOK
<1>3. /\ h \in Worker /\ h.at = worker[w].at
      /\ h.job = worker[w].job /\ h.token = worker[w].token
  BY <1>2 DEF Worker
<1>4. worker' = [worker EXCEPT ![w] = h] BY DEF Aborted
<1> HIDE DEF h
<1>5. WorkersMove(w) BY <1>1, <1>3, <1>4, GoesMove
<1>6. CallersMove /\ RowsAdvance /\ gen' = Projected(op')
  BY QuietCallers, QuietAdvances DEF Aborted
<1> QED BY <1>5, <1>6 DEF Advance

\* A worker whose provider answers or throws.
LEMMA ExecuteAdvances ==
  ASSUME IInv, NEW w \in Workers, Execute(w)
  PROVE  Advance(w)
<1>1. worker[w].at # "idle" BY DEF Execute
<1>2. CASE GoesTo(w, "produced")
  BY <1>1, <1>2, GoesOn, QuietCallers, QuietAdvances
  DEF Execute, Advance, Phases, Beating, Unpaid
<1>3. ASSUME NEW retryable \in BOOLEAN, Catch(w, FALSE, retryable, FALSE)
      PROVE  Advance(w)
  BY <1>1, <1>3, CatchMove, QuietCallers, QuietAdvances DEF Execute, Advance
<1> QED BY <1>2, <1>3 DEF Execute

\* A worker whose edit breaks off.
LEMMA BreakEditAdvances ==
  ASSUME IInv, NEW w \in Workers, BreakEdit(w)
  PROVE  Advance(w)
<1>1. worker[w].at # "idle" BY DEF BreakEdit
<1>2. WorkersMove(w) BY <1>1, CatchMove DEF BreakEdit
<1> QED BY <1>2, QuietCallers, QuietAdvances DEF BreakEdit, Advance

\* A worker past its work, which holds the token, may write the progress.
LEMMA HolderPuts ==
  ASSUME NEW w \in Workers, worker[w].at # "idle", worker'[w].at \notin Unpaid, Holds(w)
  PROVE  PutBy(worker[w].job)
BY HoldsMeans DEF PutBy

\* A worker that saves its result.
LEMMA SaveResultAdvances ==
  ASSUME IInv, NEW w \in Workers, SaveResult(w)
  PROVE  Advance(w)
<1>1. worker[w].at # "idle" BY DEF SaveResult
<1>2. WorkersMove(w) /\ worker'[w].at \notin Unpaid
  <2>1. CASE GoesTo(w, "saved")
    BY <1>1, <2>1, GoesOn DEF Phases, Beating, Unpaid
  <2>2. CASE Stops(w) BY <2>2, StopsMove DEF Unpaid
  <2>3. ASSUME NEW retryable \in BOOLEAN, Catch(w, FALSE, retryable, FALSE)
        PROVE  WorkersMove(w) /\ worker'[w].at \notin Unpaid
    BY <1>1, <2>3, CatchMove
  <2> QED BY <2>1, <2>2, <2>3 DEF SaveResult
<1>3. CASE Commit(Fenced(w, WithResult(w)))
  <2>1. ASSUME Holds(w)
        PROVE  MovedOn(op[worker[w].job], WithResult(w), PutBy(worker[w].job))
    <3>1. "output" \in Sums /\ "result" \in Slots /\ "result_saved" \in Progress
      BY JobAssumption
    <3>2. PutBy(worker[w].job) BY <1>1, <1>2, <2>1, HolderPuts
    <3>3. /\ op[worker[w].job] \in Row /\ op[worker[w].job].request \in Requests
          /\ op[worker[w].job].status = "executing" /\ worker[w].attempt \in Nat
      BY <1>1, <2>1, JobFits, HoldsMeans
    <3> QED BY ONLY <3>1, <3>2, <3>3, ChunkMoved, PutByBoolean DEF WithResult
  <2>2. RowsAdvance BY <1>1, <1>3, <2>1, FencedAdvances DEF Commit
  <2> QED BY <1>2, <1>3, <2>2, QuietCallers DEF SaveResult, Commit, Advance
<1>4. CASE UNCHANGED <<op, gen>>
  BY <1>2, <1>4, QuietCallers, QuietAdvances DEF SaveResult, Advance
<1> QED BY <1>3, <1>4 DEF SaveResult

\* A worker that has its result projected.
LEMMA SucceedAdvances ==
  ASSUME IInv, NEW w \in Workers, Succeed(w)
  PROVE  Advance(w)
<1>1. worker[w].at # "idle" BY DEF Succeed
<1>2. WorkersMove(w)
  <2>1. CASE Stops(w) BY <2>1, StopsMove
  <2>2. ASSUME NEW retryable \in BOOLEAN, NEW deterministic \in BOOLEAN,
               Catch(w, TRUE, retryable, deterministic)
        PROVE  WorkersMove(w)
    BY <1>1, <2>2, CatchMove
  <2> QED BY <2>1, <2>2 DEF Succeed
<1>3. CASE Commit(Fenced(w, FinalizeAndClose(op[worker[w].job])))
  <2>1. Holds(w) => MovedOn(op[worker[w].job], FinalizeAndClose(op[worker[w].job]),
                            PutBy(worker[w].job))
    BY <1>1, JobFits, HoldsMeans, FinalizeMoved, PutByBoolean
  <2>2. RowsAdvance BY <1>1, <1>3, <2>1, FencedAdvances DEF Commit
  <2> QED BY <1>2, <1>3, <2>2, QuietCallers DEF Succeed, Commit, Advance
<1>4. CASE UNCHANGED <<op, gen>>
  BY <1>2, <1>4, QuietCallers, QuietAdvances DEF Succeed, Advance
<1> QED BY <1>3, <1>4 DEF Succeed

\* A worker that keeps a saved result for a later attempt.
LEMMA RecordAdvances ==
  ASSUME IInv, NEW w \in Workers, RecordFinishError(w)
  PROVE  Advance(w)
<1>1. worker[w].at # "idle" BY DEF RecordFinishError
<1>2. WorkersMove(w) /\ worker'[w].at \notin Unpaid
  BY StopsMove DEF RecordFinishError, Unpaid
<1>3. ASSUME Holds(w)
      PROVE  MovedOn(op[worker[w].job], Extended(w, "result_saved"), PutBy(worker[w].job))
  <2>1. Empty \in Sums /\ "heartbeat" \in Slots /\ "result_saved" \in Progress
    BY JobAssumption
  <2>2. PutBy(worker[w].job) BY <1>1, <1>2, <1>3, HolderPuts
  <2>3. /\ op[worker[w].job] \in Row /\ op[worker[w].job].request \in Requests
        /\ op[worker[w].job].status = "executing" /\ worker[w].attempt \in Nat
    BY <1>1, <1>3, JobFits, HoldsMeans
  <2> QED BY ONLY <2>1, <2>2, <2>3, ChunkMoved, PutByBoolean DEF Extended
<1>4. RowsAdvance BY <1>1, <1>3, FencedAdvances DEF RecordFinishError, Commit
<1> QED BY <1>2, <1>4, QuietCallers DEF RecordFinishError, Commit, Advance

\* A worker that declares its attempt failed.
LEMMA FailAdvances ==
  ASSUME IInv, NEW w \in Workers, Fail(w)
  PROVE  Advance(w)
<1>1. worker[w].at # "idle" BY DEF Fail
<1>2. worker[w].retry \in BOOLEAN BY DEF IInv, TypeOK, Worker
<1>3. Holds(w) => MovedOn(op[worker[w].job], Failed(op[worker[w].job], worker[w].retry),
                          PutBy(worker[w].job))
  BY <1>1, <1>2, JobFits, HoldsMeans, FailedMoved, PutByBoolean
<1>4. RowsAdvance BY <1>1, <1>3, FencedAdvances DEF Fail, Commit
<1> QED BY <1>4, StopsMove, QuietCallers DEF Fail, Commit, Advance

\* A worker that dies.
LEMMA CrashAdvances ==
  ASSUME IInv, NEW w \in Workers, Crash(w)
  PROVE  Advance(w)
BY StopsMove, QuietCallers, QuietAdvances DEF Crash, Advance

\* A worker that starts an edit: it writes the record itself.
LEMMA StartAttemptMoves ==
  ASSUME IInv, NEW w \in Workers, StartAttempt(w)
  PROVE  RowsAdvance /\ WorkersMove(w) /\ CallersMove /\ gen' \in [Generations -> Generation]
<1>1. worker[w].at = "executing" BY DEF StartAttempt
<1>2. PICK at \in {"editing", "produced"} : GoesTo(w, at) BY DEF StartAttempt
<1>3. WorkersMove(w)
  <2> DEFINE h == [worker[w] EXCEPT !.at = at]
  <2>1. worker[w] \in Worker BY DEF IInv, TypeOK
  <2>2. /\ h \in Worker /\ h.at = at
        /\ h.job = worker[w].job /\ h.token = worker[w].token
    BY <2>1 DEF Worker, Beating
  <2>3. worker' = [worker EXCEPT ![w] = h] BY <1>2 DEF GoesTo
  <2> HIDE DEF h
  <2> QED BY <1>1, <2>2, <2>3, GoesMove
<1>4. gen' \in [Generations -> Generation]
  <2> DEFINE g == Source(worker[w].job)
  <2>1. CASE gen' = gen BY <2>1 DEF IInv, TypeOK
  <2>2. CASE gen' = [gen EXCEPT ![g].status = "running"]
    BY <2>2, RecordTyped DEF IInv, Active
  <2> QED BY <2>1, <2>2 DEF StartAttempt
<1> QED BY <1>3, <1>4, QuietCallers, QuietAdvances DEF StartAttempt

\* A worker that ends an edit: it writes the record itself.
LEMMA EndEditMoves ==
  ASSUME IInv, NEW w \in Workers, NEW status \in {"succeeded", "failed"}, EndEdit(w, status)
  PROVE  RowsAdvance /\ WorkersMove(w) /\ CallersMove /\ gen' \in [Generations -> Generation]
<1>1. worker[w].at # "idle" BY DEF EndEdit
<1>2. WorkersMove(w)
  BY <1>1, GoesOn DEF EndEdit, Phases, Beating, Unpaid
<1>3. gen' \in [Generations -> Generation]
  <2> DEFINE g == Source(worker[w].job)
             by == IF status = "succeeded" THEN worker[w].job ELSE gen[g].by
             new == [gen[g] EXCEPT !.status = status, !.by = by]
  <2>1. CASE gen' = gen BY <2>1 DEF IInv, TypeOK
  <2>2. CASE gen' = [gen EXCEPT ![g].status = status, ![g].by =
                       IF status = "succeeded" THEN worker[w].job ELSE @]
    <3>1. CASE g \in Generations
      <4>1. gen[g] \in Generation /\ worker[w].job \in Jobs
        BY <1>1, <3>1, JobFits DEF IInv, TypeOK
      <4>2. by \in Jobs \cup {None} BY <4>1 DEF Generation
      <4> HIDE DEF by
      <4>3. new \in Generation BY <4>1, <4>2 DEF Generation, Over
      <4>4. gen' = [gen EXCEPT ![g] = new]
        BY <2>2, <3>1 DEF IInv, TypeOK, by
      <4> HIDE DEF new
      <4> QED BY <4>3, <4>4 DEF IInv, TypeOK
    <3>2. CASE g \notin Generations
      BY <2>2, <3>2 DEF IInv, TypeOK
    <3> QED BY <3>1, <3>2
  <2> QED BY <2>1, <2>2 DEF EndEdit
<1> QED BY <1>2, <1>3, QuietCallers, QuietAdvances DEF EndEdit

\* A worker whose record was over: it cancels its job.
LEMMA CloseCancelledMoves ==
  ASSUME IInv, NEW w \in Workers, CloseCancelled(w)
  PROVE  /\ RowsMove /\ WorkersMove(w) /\ CallersMove /\ gen' = Projected(op')
         /\ \A j \in Jobs : j # worker[w].job => op'[j] = op[j]
<1> DEFINE k == worker[w].job
<1>1. worker[w].at # "idle" BY DEF CloseCancelled
<1>2. k \in Jobs /\ op[k].status # "absent" /\ op \in [Jobs -> Row]
  BY <1>1, JobFits DEF IInv, TypeOK
<1>3. Moved(op[k], Cancelled(op[k]), PutBy(k)) BY <1>2, CancelledMoved, PutByBoolean
<1>4. op' = [op EXCEPT ![k] = Cancelled(op[k])] /\ gen' = Projected(op')
  BY <1>2 DEF CloseCancelled, Commit
<1>5. \A j \in Jobs : MovedOn(op[j], op[j], PutBy(j)) BY <1>2, SameMoved, PutByBoolean
<1>6. RowsMove
  <2>1. op' \in [Jobs -> Row] BY <1>2, <1>3, <1>4 DEF Moved
  <2>2. \A j \in Jobs : Moved(op[j], op'[j], PutBy(j))
    BY <1>2, <1>3, <1>4, <1>5 DEF MovedOn
  <2> QED BY <2>1, <2>2 DEF RowsMove
<1>7. WorkersMove(w) BY StopsMove DEF CloseCancelled
<1>8. \A j \in Jobs : j # k => op'[j] = op[j] BY <1>2, <1>4
<1> QED BY <1>4, <1>6, <1>7, <1>8, QuietCallers DEF CloseCancelled

----------------------------------------------------------------------------
(* The steps of users and of the clock. *)

\* `prepare` inserts a row.
LEMMA PrepareCreates ==
  ASSUME NEW rows \in [Jobs -> Row], NEW j \in Jobs, NEW r \in Requests
  PROVE  /\ WithJob(rows, j, r) \in [Jobs -> Row]
         /\ WithJob(rows, j, r)[j].status = "prepared"
         /\ WithJob(rows, j, r)[j].request = r
         /\ \A i \in Jobs : i # j => WithJob(rows, j, r)[i] = rows[i]
<1>1. None \in IdemKeys \cup {None} /\ MaxAttempts \in Nat /\ 0 \in Int BY JobAssumption
<1>2. PreparedRow(r, None, MaxAttempts, 0) \in Row BY <1>1, PreparedRowTyped
<1> QED BY <1>2, PreparedRowFields DEF WithJob

\* A job that is inserted, the other rows as they were.
LEMMA PrepareMoves ==
  ASSUME IInv, NEW j \in Jobs, NEW r \in Requests, MayPrepare(op, j, r), op' = WithJob(op, j, r)
  PROVE  RowsMove
<1>1. op \in [Jobs -> Row] BY DEF IInv, TypeOK
<1>2. \A i \in Jobs : MovedOn(op[i], op[i], PutBy(i)) BY <1>1, SameMoved, PutByBoolean
<1> QED BY <1>1, <1>2, PrepareCreates DEF MayPrepare, RowsMove, Created, MovedOn

\* A generation that is opened with its job.
LEMMA OpenMoves ==
  ASSUME IInv, NEW g \in Generations, NEW j \in Jobs, NEW r \in Requests, Open(g, j, r)
  PROVE  /\ RowsMove /\ WorkersMove(None) /\ CallersMove
         /\ gen' \in [Generations -> Generation]
<1>1. gen' \in [Generations -> Generation] BY RecordTyped DEF IInv, Open, Active
<1> QED BY <1>1, PrepareMoves, QuietWorkers, QuietCallers DEF Open

\* A record that is put back to pending for an edit.
LEMMA StartReeditMoves ==
  ASSUME IInv, NEW c \in Callers, NEW g \in Generations, NEW r \in Requests,
         StartReedit(c, g, r)
  PROVE  /\ RowsAdvance /\ WorkersMove(None) /\ CallersMove
         /\ gen' \in [Generations -> Generation]
<1>1. gen' \in [Generations -> Generation]
  <2>1. gen[g] \in Generation BY DEF IInv, TypeOK
  <2>2. [gen[g] EXCEPT !.status = "pending", !.by = None] \in Generation
    BY <2>1 DEF Generation, Active
  <2>3. gen' = [gen EXCEPT ![g] = [gen[g] EXCEPT !.status = "pending", !.by = None]]
    BY DEF StartReedit, IInv, TypeOK
  <2> QED BY <2>2, <2>3 DEF IInv, TypeOK
<1>2. CallersMove
  <2>1. caller' = [caller EXCEPT ![c] = <<"reedit", r>>] /\ KindOf[r] = Reedit
    BY DEF StartReedit
  <2>2. CallerFits(c)'
    BY <2>1 DEF IInv, TypeOK, CallerFits
  <2> QED BY <2>1, <2>2 DEF IInv, TypeOK, CallersMove
<1> QED BY <1>1, <1>2, QuietWorkers, QuietAdvances DEF StartReedit

\* A caller that is answered, or gives up.
LEMMA CallerDone ==
  ASSUME IInv, NEW c \in Callers, caller' = [caller EXCEPT ![c] = None]
  PROVE  CallersMove
BY DEF IInv, TypeOK, CallersMove

\* Jobs that are cancelled, the other rows as they were.
LEMMA CancelMoves ==
  ASSUME IInv, NEW S \in SUBSET Known
  PROVE  LET rows == [j \in Jobs |-> IF j \in S THEN Cancelled(op[j]) ELSE op[j]] IN
         /\ rows \in [Jobs -> Row]
         /\ \A j \in Jobs : Moved(op[j], rows[j], PutBy(j))
<1>1. op \in [Jobs -> Row] BY DEF IInv, TypeOK
<1>2. \A j \in Jobs : MovedOn(op[j], op[j], PutBy(j)) BY <1>1, SameMoved, PutByBoolean
<1>3. \A j \in S : j \in Jobs /\ Moved(op[j], Cancelled(op[j]), PutBy(j))
  BY <1>1, CancelledMoved, PutByBoolean DEF Known
<1> QED BY <1>2, <1>3 DEF MovedOn, Moved

\* Jobs that are found lapsed, or not, the other rows as they were.
LEMMA LapseAdvances ==
  ASSUME IInv, NEW S \in SUBSET Jobs
  PROVE  LET rows == [j \in Jobs |-> IF j \in S THEN ExpireIfDue(op[j], 0) ELSE op[j]] IN
         /\ rows \in [Jobs -> Row]
         /\ \A j \in Jobs : MovedOn(op[j], rows[j], PutBy(j))
<1>1. op \in [Jobs -> Row] BY DEF IInv, TypeOK
<1>2. \A j \in Jobs : MovedOn(op[j], op[j], PutBy(j)) BY <1>1, SameMoved, PutByBoolean
<1>3. \A j \in Jobs : MovedOn(op[j], ExpireIfDue(op[j], 0), PutBy(j))
  BY <1>1, ExpireMoved, PutByBoolean
<1> QED BY <1>2, <1>3 DEF MovedOn, Moved

\* An edit that replaces the live ones.
LEMMA RestartReeditMoves ==
  ASSUME IInv, NEW c \in Callers, NEW j \in Jobs, NEW r \in Requests, RestartReedit(c, j, r)
  PROVE  RowsMove /\ WorkersMove(None) /\ CallersMove /\ gen' = Projected(op')
<1> DEFINE live == LiveJobs(SourceOf[r], {Reedit})
           rows == [i \in Jobs |-> IF i \in live THEN Cancelled(op[i]) ELSE op[i]]
<1>1. live \in SUBSET Known BY DEF LiveJobs, JobsOf, Known
<1>2. /\ rows \in [Jobs -> Row]
      /\ \A i \in Jobs : Moved(op[i], rows[i], PutBy(i))
  BY <1>1, CancelMoves
<1>3. rows[j].status = "absent" /\ op' = WithJob(rows, j, r) /\ gen' = Projected(op')
  BY DEF RestartReedit, MayPrepare, Commit
<1> HIDE DEF rows
<1>4. op[j].status = "absent" BY <1>2, <1>3 DEF Moved
<1>5. RowsMove BY <1>2, <1>3, <1>4, PrepareCreates DEF RowsMove, Created
<1> QED BY <1>3, <1>5, QuietWorkers, CallerDone DEF RestartReedit

\* A generation that is cancelled with its jobs.
LEMMA CancelGenerationMoves ==
  ASSUME IInv, NEW g \in Generations, CancelGeneration(g)
  PROVE  /\ RowsMove /\ WorkersMove(None) /\ CallersMove
         /\ gen' \in [Generations -> Generation]
<1> DEFINE live == LiveJobs(g, Generate \cup {Reedit})
           lapsed == [j \in Jobs |-> IF j \in live THEN ExpireIfDue(op[j], 0) ELSE op[j]]
           dropped == [j \in Jobs |-> IF j \in live THEN Cancelled(op[j]) ELSE op[j]]
<1>1. live \in SUBSET Known /\ live \in SUBSET Jobs BY DEF LiveJobs, JobsOf, Known
<1> HIDE DEF live
<1>2. /\ lapsed \in [Jobs -> Row]
      /\ \A j \in Jobs : MovedOn(op[j], lapsed[j], PutBy(j))
  BY <1>1, LapseAdvances
<1>3. /\ dropped \in [Jobs -> Row]
      /\ \A j \in Jobs : Moved(op[j], dropped[j], PutBy(j))
  BY <1>1, CancelMoves
<1>4. gen' \in [Generations -> Generation]
  <2>1. CASE gen' = CancelledRecord(g)
    BY <2>1, RecordTyped DEF CancelledRecord, IInv, Over
  <2>2. CASE Commit(lapsed) BY <2>2, ProjectedTyped DEF Commit, IInv
  <2> QED BY <2>1, <2>2 DEF CancelGeneration, live
<1>5. op' = dropped \/ op' = lapsed BY DEF CancelGeneration, Commit, live
<1>6. RowsMove BY <1>2, <1>3, <1>5 DEF RowsMove, MovedOn
<1> QED BY <1>4, <1>6, QuietWorkers, QuietCallers DEF CancelGeneration

\* A record that is deleted.
LEMMA DeleteGenerationMoves ==
  ASSUME IInv, NEW g \in Generations, DeleteGeneration(g)
  PROVE  /\ RowsAdvance /\ WorkersMove(None) /\ CallersMove
         /\ gen' \in [Generations -> Generation]
<1>1. gen' \in [Generations -> Generation]
  <2>1. gen \in [Generations -> Generation] /\ gen[g] \in Generation BY DEF IInv, TypeOK
  <2>2. [gen[g] EXCEPT !.deleted = TRUE] \in Generation BY <2>1 DEF Generation
  <2>3. gen' = [gen EXCEPT ![g] = [gen[g] EXCEPT !.deleted = TRUE]]
    BY <2>1 DEF DeleteGeneration
  <2> QED BY <2>1, <2>2, <2>3
<1> QED BY <1>1, QuietWorkers, QuietCallers, QuietAdvances DEF DeleteGeneration

\* An image edit that is scheduled.
LEMMA ScheduleImageEditMoves ==
  ASSUME IInv, NEW j \in Jobs, NEW r \in Requests, ScheduleImageEdit(j, r)
  PROVE  RowsMove /\ WorkersMove(None) /\ CallersMove
BY PrepareMoves, QuietWorkers, QuietCallers DEF ScheduleImageEdit

\* An image edit that is looked at before it is cancelled.
LEMMA LookAtImageEditAdvances ==
  ASSUME IInv, NEW c \in Callers, NEW j \in Jobs, LookAtImageEdit(c, j)
  PROVE  Advance(None)
<1> DEFINE seen == ExpireIfDue(op[j], 0)
<1>1. op \in [Jobs -> Row] BY DEF IInv, TypeOK
<1>2. op' = [op EXCEPT ![j] = seen] /\ gen' = Projected(op')
  BY DEF LookAtImageEdit, Commit
<1>3. MovedOn(op[j], seen, PutBy(j)) BY <1>1, ExpireMoved, PutByBoolean
<1>4. \A i \in Jobs : MovedOn(op[i], op[i], PutBy(i)) BY <1>1, SameMoved, PutByBoolean
<1> HIDE DEF seen
<1>5. RowsAdvance
  <2>1. op' \in [Jobs -> Row] BY <1>1, <1>2, <1>3 DEF MovedOn, Moved
  <2>2. \A i \in Jobs : MovedOn(op[i], op'[i], PutBy(i)) BY <1>1, <1>2, <1>3, <1>4
  <2> QED BY <2>1, <2>2 DEF RowsAdvance
<1>6. CallersMove
  <2>1. op[j].status # "absent" /\ JobKind(j) = Edit
    BY DEF LookAtImageEdit, Live
  <2>2. (j \in Known)' /\ (JobKind(j) = Edit)'
    BY <2>1, <1>5 DEF RowsAdvance, MovedOn, Moved, Known, JobKind
  <2>3. CASE caller' = caller BY <2>3, QuietCallers
  <2>4. CASE caller' = [caller EXCEPT ![c] = <<"cancel", j>>]
    <3>1. CallerFits(c)' BY <2>2, <2>4 DEF IInv, TypeOK, CallerFits
    <3> QED BY <2>4, <3>1 DEF IInv, TypeOK, CallersMove
  <2> QED BY <2>3, <2>4 DEF LookAtImageEdit
<1> QED BY <1>2, <1>5, <1>6, QuietWorkers DEF LookAtImageEdit, Advance

\* An image edit that is cancelled.
LEMMA CancelImageEditMoves ==
  ASSUME IInv, NEW c \in Callers, NEW j \in Jobs, CancelImageEdit(c, j)
  PROVE  /\ RowsMove /\ WorkersMove(None) /\ CallersMove /\ gen' = Projected(op')
         /\ JobKind(j) = Edit
         /\ \A i \in Jobs : i # j => op'[i] = op[i]
<1>1. op \in [Jobs -> Row] BY DEF IInv, TypeOK
<1>2. j \in Known /\ JobKind(j) = Edit BY DEF CancelImageEdit, IInv, CallerFits
<1>3. {j} \in SUBSET Known BY <1>2
<1> DEFINE rows == [i \in Jobs |-> IF i \in {j} THEN Cancelled(op[i]) ELSE op[i]]
<1>4. /\ rows \in [Jobs -> Row]
      /\ \A i \in Jobs : Moved(op[i], rows[i], PutBy(i))
  BY <1>3, CancelMoves
<1>5. op' = rows /\ gen' = Projected(op')
  BY <1>1 DEF CancelImageEdit, Commit
<1>6. \A i \in Jobs : i # j => op'[i] = op[i] BY <1>1, <1>5
<1>7. RowsMove BY <1>4, <1>5 DEF RowsMove
<1> QED BY <1>2, <1>5, <1>6, <1>7, QuietWorkers, CallerDone DEF CancelImageEdit

\* A caller that gives up.
LEMMA CallerStopsAdvances ==
  ASSUME IInv, NEW c \in Callers, CallerStops(c)
  PROVE  Advance(None)
BY QuietWorkers, CallerDone, QuietAdvances DEF CallerStops, Advance

\* The clock.
LEMMA TickAdvances ==
  ASSUME IInv, Tick
  PROVE  Advance(None)
<1>1. op \in [Jobs -> Row] BY DEF IInv, TypeOK
<1>2. ASSUME NEW j \in Jobs
      PROVE  /\ MovedOn(op[j], op'[j], PutBy(j))
             /\ op'[j].applied = op[j].applied /\ op'[j].told = op[j].told
  <2>1. MovedOn(op[j], op[j], PutBy(j)) BY <1>1, SameMoved, PutByBoolean
  <2>2. CASE op'[j] = op[j] BY <2>1, <2>2
  <2>3. CASE op'[j] = [op[j] EXCEPT !.at = op[j].at - 1]
    <3> DEFINE new == [op[j] EXCEPT !.at = op[j].at - 1]
    <3>1. op[j].at - 1 \in Int BY <1>1, FieldTypes
    <3>2. new \in Row BY <1>1, <3>1, SetAt
    <3>3. /\ new.status = op[j].status /\ new.request = op[j].request
          /\ new.token = op[j].token /\ new.progress = op[j].progress
          /\ new.applied = op[j].applied /\ new.told = op[j].told
          /\ new.locks = op[j].locks
      BY <1>1 DEF Row
    <3> HIDE DEF new
    <3>4. MovedOn(op[j], new, PutBy(j))
      BY <2>1, <3>2, <3>3 DEF MovedOn, Moved, Guarded, Keeps, Succeeds, Fails, Drops
    <3> QED BY <2>3, <3>3, <3>4 DEF new
  <2> QED BY <2>2, <2>3 DEF Tick
<1>3. op' \in [Jobs -> Row]
  <2>1. \A j \in Jobs : op'[j] \in Row BY <1>2 DEF MovedOn, Moved
  <2> QED BY <2>1 DEF Tick
<1>4. Projected(op') = gen BY <1>2, ProjectedSame DEF IInv
<1> QED BY <1>2, <1>3, <1>4, QuietWorkers, QuietCallers DEF Tick, Advance, RowsAdvance

----------------------------------------------------------------------------
(* The invariant. *)

\* Initially nobody holds anything.
LEMMA InvHoldsInitially == Init => IInv
<1> SUFFICES ASSUME Init PROVE IInv OBVIOUS
<1>1. Idle \in Worker /\ Idle.at = "idle" BY DEF Idle, Worker
<1>2. TypeOK
  BY <1>1, BlankTyped DEF Init, TypeOK, Generation
<1>3. Known = {} BY DEF Init, Known, Blank
<1>4. \A w \in Workers : worker[w].at = "idle" BY <1>1 DEF Init
<1>5. HoldInv
  BY <1>3, <1>4 DEF HoldInv, RowsFit, HoldersFit, TicketsDiffer, KnowsItsJob, Unpaid
<1>6. ASSUME NEW c \in Callers PROVE CallerFits(c)
  <2>1. caller[c] = None BY DEF Init
  <2>2. \A r \in Requests : caller[c] # <<"reedit", r>> BY <2>1, JobAssumption
  <2>3. \A j \in Jobs : caller[c] # <<"cancel", j>> BY <2>1, JobAssumption
  <2> QED BY <2>2, <2>3 DEF CallerFits
<1> QED BY <1>2, <1>5, <1>6 DEF IInv

\* The steps that cancel nothing, insert nothing and leave the records to the
\* projection.
Advancing(w) ==
  \/ Claim(w) \/ Preflight(w) \/ Reject(w) \/ Execute(w) \/ BreakEdit(w)
  \/ SaveResult(w) \/ Succeed(w) \/ RecordFinishError(w) \/ Fail(w)
  \/ Heartbeat(w) \/ Crash(w)
  \/ \E reason \in {"lost", "timeout"} : Aborted(w, reason)

\* They advance.
LEMMA AdvancingAdvances ==
  ASSUME IInv, NEW w \in Workers, Advancing(w)
  PROVE  Advance(w)
BY ClaimAdvances, PreflightAdvances, RejectAdvances, ExecuteAdvances, BreakEditAdvances,
   SaveResultAdvances, SucceedAdvances, RecordAdvances, FailAdvances, HeartbeatAdvances,
   CrashAdvances, AbortedAdvances
DEF Advancing

\* The steps, each with the actor whose step it is.
Steps(w, g, j, r, c) ==
  \/ w \in Workers /\ (Advancing(w) \/ StartAttempt(w) \/ CloseCancelled(w)
                       \/ \E status \in {"succeeded", "failed"} : EndEdit(w, status))
  \/ g \in Generations /\ (CancelGeneration(g) \/ DeleteGeneration(g))
  \/ g \in Generations /\ j \in Jobs /\ r \in Requests /\ Open(g, j, r)
  \/ j \in Jobs /\ r \in Requests /\ ScheduleImageEdit(j, r)
  \/ c \in Callers /\ g \in Generations /\ r \in Requests /\ StartReedit(c, g, r)
  \/ c \in Callers /\ j \in Jobs /\ r \in Requests /\ RestartReedit(c, j, r)
  \/ c \in Callers /\ j \in Jobs /\ (LookAtImageEdit(c, j) \/ CancelImageEdit(c, j))
  \/ c \in Callers /\ CallerStops(c)
  \/ Tick

\* Next is one of them.
LEMMA NextIsAStep ==
  ASSUME Next
  PROVE  \E w, g, j, r, c : Steps(w, g, j, r, c)
BY DEF Next, User, Work, Steps, Advancing

\* Every step preserves the invariant, and moves the rows.
LEMMA StepKeepsInv ==
  ASSUME IInv, NEW w, NEW g, NEW j, NEW r, NEW c, Steps(w, g, j, r, c)
  PROVE  IInv' /\ RowsMove
<1>2. /\ RowsAdvance => RowsMove
      /\ \A u : Advance(u) => RowsMove
  BY DEF Advance, RowsAdvance, RowsMove, MovedOn
<1>1. CASE w \in Workers /\ Advancing(w)
  BY <1>1, <1>2, AdvancingAdvances, AdvanceKeeps
<1>3. Projected(op') \in [Generations -> Generation] /\ gen \in [Generations -> Generation]
  BY ProjectedTyped DEF IInv, TypeOK
<1>4. CASE w \in Workers /\ StartAttempt(w)
  BY <1>2, <1>4, StartAttemptMoves, InvKept
<1>5. CASE w \in Workers /\ CloseCancelled(w)
  BY <1>3, <1>5, CloseCancelledMoves, InvKept
<1>6. CASE w \in Workers /\ \E status \in {"succeeded", "failed"} : EndEdit(w, status)
  BY <1>2, <1>6, EndEditMoves, InvKept
<1>7. CASE g \in Generations /\ CancelGeneration(g)
  BY <1>7, CancelGenerationMoves, InvKept
<1>8. CASE g \in Generations /\ DeleteGeneration(g)
  BY <1>2, <1>8, DeleteGenerationMoves, InvKept
<1>9. CASE g \in Generations /\ j \in Jobs /\ r \in Requests /\ Open(g, j, r)
  BY <1>9, OpenMoves, InvKept
<1>10. CASE j \in Jobs /\ r \in Requests /\ ScheduleImageEdit(j, r)
  <2>1. gen' = gen BY <1>10 DEF ScheduleImageEdit
  <2> QED BY <1>3, <1>10, <2>1, ScheduleImageEditMoves, InvKept
<1>11. CASE c \in Callers /\ g \in Generations /\ r \in Requests /\ StartReedit(c, g, r)
  BY <1>2, <1>11, StartReeditMoves, InvKept
<1>12. CASE c \in Callers /\ j \in Jobs /\ r \in Requests /\ RestartReedit(c, j, r)
  BY <1>3, <1>12, RestartReeditMoves, InvKept
<1>13. CASE c \in Callers /\ j \in Jobs /\ LookAtImageEdit(c, j)
  BY <1>2, <1>13, LookAtImageEditAdvances, AdvanceKeeps
<1>14. CASE c \in Callers /\ j \in Jobs /\ CancelImageEdit(c, j)
  BY <1>3, <1>14, CancelImageEditMoves, InvKept
<1>15. CASE c \in Callers /\ CallerStops(c)
  BY <1>2, <1>15, CallerStopsAdvances, AdvanceKeeps
<1>16. CASE Tick
  BY <1>2, <1>16, TickAdvances, AdvanceKeeps
<1> QED BY <1>1, <1>4, <1>5, <1>6, <1>7, <1>8, <1>9, <1>10, <1>11, <1>12, <1>13, <1>14,
           <1>15, <1>16 DEF Steps

\* Stuttering changes nothing the invariant speaks of.
LEMMA InvStutters ==
  ASSUME IInv, UNCHANGED vars
  PROVE  IInv'
<1>1. Advance(None)
  BY QuietAdvances, QuietWorkers, QuietCallers DEF vars, Advance
<1> QED BY <1>1, AdvanceKeeps

\* The rows and the workers fit in every reachable state.
LEMMA Invariance == Spec => []IInv
<1>1. Init => IInv BY InvHoldsInitially
<1>2. IInv /\ [Next]_vars => IInv'
  BY NextIsAStep, StepKeepsInv, InvStutters
<1> QED BY <1>1, <1>2, PTL DEF Spec

(* In every reachable state every variable has its type: rows, records and *)
(* workers are what TypeOK says whatever was lost, aborted or cancelled.   *)
THEOREM TypeCorrect == Spec => []TypeOK
<1>1. IInv => TypeOK BY DEF IInv
<1> QED BY <1>1, Invariance, PTL

(* The model is never paid twice by a worker that still holds its job: one *)
(* that calls a provider under the current token has nothing saved yet.    *)
THEOREM ResultIsPaidOnce == Spec => []SavedResultIsNotPaidTwice
<1>1. IInv => SavedResultIsNotPaidTwice
  BY DEF IInv, HoldInv, KnowsItsJob, Unpaid, Current, SavedResultIsNotPaidTwice
<1> QED BY <1>1, Invariance, PTL

----------------------------------------------------------------------------
(* Records that are over. *)

\* A projection leaves a deleted record and one that is over alone.
LEMMA ProjectedOver ==
  ASSUME NEW g \in Generations, NEW new, gen[g].deleted \/ gen[g].status \notin Active
  PROVE  Projected(new)[g] = gen[g]
BY DEF Projected

\* A projection opens nothing and deletes nothing.
LEMMA ProjectedAbsent ==
  ASSUME IInv, NEW g \in Generations, NEW new, Projected(new)[g].status = "absent"
  PROVE  Projected(new)[g] = gen[g]
<1>1. gen[g] \in Generation BY DEF IInv, TypeOK
<1> QED BY <1>1 DEF Projected, Generation

\* No record is deleted before it exists: no step makes one absent, or deletes
\* an absent one.
Unborn(g) == gen[g].status = "absent" /\ gen[g].deleted

\* Every step keeps it so.
LEMMA UnbornNever ==
  ASSUME IInv, NEW w, NEW g, NEW j, NEW r, NEW c, Steps(w, g, j, r, c),
         NEW k \in Generations, ~Unborn(k)
  PROVE  ~Unborn(k)'
<1> SUFFICES ASSUME gen'[k].status = "absent", gen'[k] # gen[k] PROVE FALSE
  BY DEF Unborn
<1>1. gen \in [Generations -> Generation] BY DEF IInv, TypeOK
<1>2. gen' # gen /\ gen' # Projected(op') BY ProjectedAbsent
<1>3. CASE w \in Workers /\ Advancing(w)
  BY <1>2, <1>3, AdvancingAdvances DEF Advance
<1>4. CASE w \in Workers /\ StartAttempt(w)
  BY <1>1, <1>2, <1>4 DEF StartAttempt, Generation
<1>5. CASE w \in Workers /\ CloseCancelled(w)
  BY <1>2, <1>5, CloseCancelledMoves
<1>6. CASE w \in Workers /\ \E status \in {"succeeded", "failed"} : EndEdit(w, status)
  <2>1. PICK status \in {"succeeded", "failed"} : EndEdit(w, status) BY <1>6
  <2> DEFINE h == Source(worker[w].job)
             by == IF status = "succeeded" THEN worker[w].job ELSE gen[h].by
  <2>2. gen' = [gen EXCEPT ![h].status = status, ![h].by = IF status = "succeeded" THEN worker[w].job ELSE @]
    BY <1>2, <2>1 DEF EndEdit
  <2>3. CASE k = h
    <3>1. gen[k] \in Generation BY <1>1
    <3>2. gen'[k] = [gen[k] EXCEPT !.status = status, !.by = by] BY <1>1, <2>2, <2>3
    <3> HIDE DEF by
    <3>3. gen'[k].status = status BY <3>1, <3>2 DEF Generation
    <3> QED BY <3>3
  <2>4. CASE k # h BY <1>1, <2>2, <2>4
  <2> QED BY <2>3, <2>4
<1>7. CASE g \in Generations /\ CancelGeneration(g)
  <2> DEFINE live == LiveJobs(g, Generate \cup {Reedit})
             lapsed == [i \in Jobs |-> IF i \in live THEN ExpireIfDue(op[i], 0) ELSE op[i]]
  <2>1. CASE Commit(lapsed) BY <2>1, ProjectedAbsent DEF Commit
  <2>2. CASE gen' = CancelledRecord(g)
    BY <1>1, <2>2 DEF CancelledRecord, Generation
  <2> QED BY <1>7, <2>1, <2>2 DEF CancelGeneration
<1>8. CASE g \in Generations /\ DeleteGeneration(g)
  BY <1>1, <1>8 DEF DeleteGeneration, Generation
<1>9. CASE g \in Generations /\ j \in Jobs /\ r \in Requests /\ Open(g, j, r)
  BY <1>1, <1>9 DEF Open, Generation
<1>10. CASE j \in Jobs /\ r \in Requests /\ ScheduleImageEdit(j, r)
  BY <1>2, <1>10 DEF ScheduleImageEdit
<1>11. CASE c \in Callers /\ g \in Generations /\ r \in Requests /\ StartReedit(c, g, r)
  <2>1. gen' = [gen EXCEPT ![g] = [gen[g] EXCEPT !.status = "pending", !.by = None]]
    BY <1>1, <1>11 DEF StartReedit
  <2>2. gen[g] \in Generation BY <1>1, <1>11
  <2>3. [gen[g] EXCEPT !.status = "pending", !.by = None].status = "pending"
    BY <2>2 DEF Generation
  <2> QED BY <1>1, <2>1, <2>3
<1>12. CASE c \in Callers /\ j \in Jobs /\ r \in Requests /\ RestartReedit(c, j, r)
  BY <1>2, <1>12, RestartReeditMoves
<1>13. CASE c \in Callers /\ j \in Jobs /\ LookAtImageEdit(c, j)
  BY <1>2, <1>13, LookAtImageEditAdvances DEF Advance
<1>14. CASE c \in Callers /\ j \in Jobs /\ CancelImageEdit(c, j)
  BY <1>2, <1>14, CancelImageEditMoves
<1>15. CASE c \in Callers /\ CallerStops(c)
  BY <1>2, <1>15 DEF CallerStops
<1>16. CASE Tick
  BY <1>2, <1>16 DEF Tick
<1> QED BY <1>3, <1>4, <1>5, <1>6, <1>7, <1>8, <1>9, <1>10, <1>11, <1>12, <1>13, <1>14,
           <1>15, <1>16 DEF Steps

\* Every step leaves it alone, but the first one of a re-edit.
LEMMA OverKept ==
  ASSUME IInv, NEW w, NEW g, NEW j, NEW r, NEW c, Steps(w, g, j, r, c),
         NEW k \in Generations, gen[k].deleted \/ gen[k].status \in Over,
         ~Unborn(k)
  PROVE  \/ gen'[k].status = gen[k].status /\ gen'[k].by = gen[k].by
         \/ c \in Callers /\ r \in Requests /\ StartReedit(c, k, r)
<1>1. gen[k].deleted \/ gen[k].status \notin Active BY DEF Over, Active
<1>2. Projected(op')[k] = gen[k] BY <1>1, ProjectedOver
<1>3. gen \in [Generations -> Generation] BY DEF IInv, TypeOK
<1>4. CASE w \in Workers /\ Advancing(w)
  BY <1>2, <1>4, AdvancingAdvances DEF Advance
<1>5. CASE w \in Workers /\ StartAttempt(w)
  BY <1>1, <1>3, <1>5 DEF StartAttempt
<1>6. CASE w \in Workers /\ CloseCancelled(w)
  BY <1>2, <1>6, CloseCancelledMoves
<1>7. CASE w \in Workers /\ \E status \in {"succeeded", "failed"} : EndEdit(w, status)
  <2>1. PICK status \in {"succeeded", "failed"} : EndEdit(w, status) BY <1>7
  <2>2. CASE gen' = gen BY <2>2
  <2>3. CASE /\ gen[Source(worker[w].job)].status = "running"
             /\ ~gen[Source(worker[w].job)].deleted
    BY <1>1, <1>3, <2>1, <2>3 DEF EndEdit, Active
  <2> QED BY <2>1, <2>2, <2>3 DEF EndEdit
<1>8. CASE g \in Generations /\ CancelGeneration(g)
  <2> DEFINE live == LiveJobs(g, Generate \cup {Reedit})
             lapsed == [i \in Jobs |-> IF i \in live THEN ExpireIfDue(op[i], 0) ELSE op[i]]
  <2>1. CASE Commit(lapsed) BY <1>1, <2>1, ProjectedOver DEF Commit
  <2>2. CASE /\ Projected(lapsed)[g].status \in Active /\ ~Projected(lapsed)[g].deleted
             /\ gen' = CancelledRecord(g)
    <3>1. CASE k = g BY <1>1, <2>2, <3>1, ProjectedOver
    <3>2. CASE k # g BY <1>3, <2>2, <3>2 DEF CancelledRecord
    <3> QED BY <3>1, <3>2
  <2> QED BY <1>8, <2>1, <2>2 DEF CancelGeneration
<1>9. CASE g \in Generations /\ DeleteGeneration(g)
  BY <1>3, <1>9 DEF DeleteGeneration, Generation
<1>10. CASE g \in Generations /\ j \in Jobs /\ r \in Requests /\ Open(g, j, r)
  <2>1. gen[g].status = "absent" /\ gen' = [gen EXCEPT ![g].status = "pending"]
    BY <1>10 DEF Open
  <2>2. CASE k # g BY <1>3, <2>1, <2>2
  <2> QED BY <2>1, <2>2 DEF Over, Unborn
<1>11. CASE j \in Jobs /\ r \in Requests /\ ScheduleImageEdit(j, r)
  BY <1>11 DEF ScheduleImageEdit
<1>12. CASE c \in Callers /\ g \in Generations /\ r \in Requests /\ StartReedit(c, g, r)
  BY <1>3, <1>12 DEF StartReedit
<1>13. CASE c \in Callers /\ j \in Jobs /\ r \in Requests /\ RestartReedit(c, j, r)
  BY <1>2, <1>13, RestartReeditMoves
<1>14. CASE c \in Callers /\ j \in Jobs /\ LookAtImageEdit(c, j)
  BY <1>2, <1>14, LookAtImageEditAdvances DEF Advance
<1>15. CASE c \in Callers /\ j \in Jobs /\ CancelImageEdit(c, j)
  BY <1>2, <1>15, CancelImageEditMoves
<1>16. CASE c \in Callers /\ CallerStops(c)
  BY <1>16 DEF CallerStops
<1>17. CASE Tick
  BY <1>17 DEF Tick
<1> QED BY <1>4, <1>5, <1>6, <1>7, <1>8, <1>9, <1>10, <1>11, <1>12, <1>13, <1>14,
           <1>15, <1>16, <1>17 DEF Steps

RecordInv == IInv /\ \A g \in Generations : ~Unborn(g)

\* The rows, the workers and the records fit.
LEMMA RecordInvariance == Spec => []RecordInv
<1>1. Init => RecordInv
  BY InvHoldsInitially DEF RecordInv, Init, Unborn
<1>2. RecordInv /\ [Next]_vars => RecordInv'
  <2>1. RecordInv /\ Next => RecordInv'
    BY NextIsAStep, StepKeepsInv, UnbornNever DEF RecordInv
  <2>2. RecordInv /\ UNCHANGED vars => RecordInv'
    BY InvStutters DEF RecordInv, Unborn, vars
  <2> QED BY <2>1, <2>2
<1> QED BY <1>1, <1>2, PTL DEF Spec

(* Deleted records and records that are over are final for everybody but a *)
(* user who re-edits one that exists: no late worker, failure, expiry or   *)
(* cancel of theirs writes them.                                           *)
THEOREM OverRecordsStay == Spec => OverStaysOver
<1> DEFINE Final(k) ==
             gen[k].deleted \/ gen[k].status \in Over =>
               \/ gen'[k].status = gen[k].status /\ gen'[k].by = gen[k].by
               \/ ~gen[k].deleted /\ \E c \in Callers : caller[c] = None /\ caller'[c] # None
<1>1. ASSUME RecordInv, Next, NEW k \in Generations PROVE Final(k)
  <2> SUFFICES ASSUME gen[k].deleted \/ gen[k].status \in Over PROVE Final(k) OBVIOUS
  <2>1. PICK w, g, j, r, c : Steps(w, g, j, r, c) BY <1>1, NextIsAStep
  <2>2. CASE gen'[k].status = gen[k].status /\ gen'[k].by = gen[k].by BY <2>2
  <2>3. CASE c \in Callers /\ r \in Requests /\ StartReedit(c, k, r)
    <3>1. caller[c] = None /\ caller' = [caller EXCEPT ![c] = <<"reedit", r>>] /\ ~gen[k].deleted
      BY <2>3 DEF StartReedit
    <3>2. <<"reedit", r>> # None BY <2>3, JobAssumption
    <3>3. caller'[c] # None BY <1>1, <2>3, <3>1, <3>2 DEF RecordInv, IInv, TypeOK
    <3> QED BY <2>3, <3>1, <3>3
  <2> QED BY <1>1, <2>1, <2>2, <2>3, OverKept DEF RecordInv
<1> DEFINE Kept == \A k \in Generations : Final(k)
<1>2. RecordInv /\ [Next]_vars => [Kept]_vars
  BY <1>1
<1>3. [Kept]_vars <=> [\A g \in Generations : gen[g].deleted \/ gen[g].status \in Over =>
         \/ gen'[g].status = gen[g].status /\ gen'[g].by = gen[g].by
         \/ ~gen[g].deleted /\ \E c \in Callers : caller[c] = None /\ caller'[c] # None]_vars
  OBVIOUS
<1> HIDE DEF Kept
<1> QED BY <1>2, <1>3, RecordInvariance, PTL DEF Spec, OverStaysOver

----------------------------------------------------------------------------
(* Generations that nobody re-edits, and their jobs. *)

\* A record has at most one job that generates it, and none before it exists.
OneJob(g) ==
  /\ \A i, j \in JobsOf(g, Generate) : i = j
  /\ JobsOf(g, Generate) # {} => gen[g].status # "absent"

EndsWithItsJob(g) ==
  /\ ~gen[g].deleted => (gen[g].status \in Active <=> LiveJobs(g, Generate) # {})
  /\ gen[g].status = "succeeded" =>
       gen[g].by \in Jobs /\ op[gen[g].by].status = "succeeded"

\* Only a re-edit edits; a worker that was told to close a job looked at a
\* record that is over, and stays so if nobody re-edits it.
ClosesWhatIsOver(w) ==
  LET j == worker[w].job IN
  /\ worker[w].at = "editing" => JobKind(j) = Reedit
  /\ worker[w].at = "closing" =>
       JobKind(j) # Edit /\ (NeverReedited(Source(j)) => gen[Source(j)].status \in Over)

EndInv ==
  /\ RecordInv
  /\ \A g \in Generations : NeverReedited(g) => OneJob(g) /\ EndsWithItsJob(g)
  /\ \A w \in Workers : ClosesWhatIsOver(w)

\* Rows that move keep their records' jobs.
LEMMA JobsOfSame ==
  ASSUME \A j \in Jobs : Moved(op[j], op'[j], PutBy(j)), NEW g
  PROVE  JobsOf(g, Generate)' = JobsOf(g, Generate)
BY DEF JobsOf, Known, Moved, Source, JobKind

\* Why a transaction may drop a job although its record stays as it is.
MayDrop(j) ==
  JobKind(j) = Edit \/ gen[Source(j)].deleted \/ gen[Source(j)].status \in Over

\* A step of the kernel closes a record and its job together.
LEMMA RecordsKept ==
  ASSUME EndInv, op' \in [Jobs -> Row],
         \A j \in Jobs : Moved(op[j], op'[j], PutBy(j)), gen' = Projected(op'),
         NEW g \in Generations, NeverReedited(g),
         \A j \in JobsOf(g, Generate) : Drops(op[j], op'[j]) => MayDrop(j)
  PROVE  (OneJob(g) /\ EndsWithItsJob(g))'
<1>1. JobsOf(g, Generate)' = JobsOf(g, Generate) BY JobsOfSame
<1>2. gen[g] \in Generation /\ op \in [Jobs -> Row]
  BY DEF EndInv, RecordInv, IInv, TypeOK
<1>3. OneJob(g) /\ EndsWithItsJob(g) BY DEF EndInv
<1>4. OneJob(g)'
  <2>1. gen'[g].status = "absent" => gen[g].status = "absent"
    BY ProjectedAbsent DEF EndInv, RecordInv
  <2> QED BY <1>1, <1>3, <2>1 DEF OneJob
<1>5. \A j \in Jobs : op[j].status \in Terminal => op'[j].status = op[j].status
  BY DEF Moved, Keeps, Succeeds, Fails, Drops, Live, Terminal
<1>6. \A j \in Jobs : op'[j].status \in Live => op[j].status \in Live
  BY DEF Moved, Keeps, Succeeds, Fails, Drops, Live, Terminal
<1>7. CASE gen'[g] = gen[g] /\ (gen[g].deleted \/ gen[g].status \notin Active)
  <2>1. LiveJobs(g, Generate)' \subseteq LiveJobs(g, Generate)
    BY <1>1, <1>6 DEF LiveJobs, JobsOf, Known
  <2>2. "succeeded" \in Terminal BY DEF Terminal
  <2> QED BY <1>3, <1>4, <1>5, <1>7, <2>1, <2>2 DEF EndsWithItsJob
<1>8. CASE ~gen[g].deleted /\ gen[g].status \in Active
  <2>1. PICK j \in LiveJobs(g, Generate) : TRUE BY <1>3, <1>8 DEF EndsWithItsJob
  <2>2. /\ j \in Jobs /\ op[j].status \in Live /\ JobsOf(g, Generate) = {j}
        /\ Source(j) = g /\ JobKind(j) \in Generate
    BY <1>3, <2>1 DEF OneJob, LiveJobs, JobsOf, Known
  <2>3. op[j].applied \in Nat /\ op[j].told \in Nat BY <1>2, <2>2, FieldTypes
  <2>4. LiveJobs(g, Generate)' = IF op'[j].status \in Live THEN {j} ELSE {}
    BY <1>1, <2>2 DEF LiveJobs
  <2>5. gen'[g] = IF op'[j].applied > op[j].applied
                  THEN [gen[g] EXCEPT !.status = "succeeded",
                          !.by = CHOOSE i \in {j} : op'[i].applied > op[i].applied]
                  ELSE IF op'[j].told > op[j].told
                  THEN [gen[g] EXCEPT !.status = "failed"] ELSE gen[g]
    BY <1>8, <2>2 DEF Projected
  <2>6. CASE Keeps(op[j], op'[j])
    <3>1. gen'[g] = gen[g] /\ op'[j].status \in Live
      BY <2>2, <2>3, <2>5, <2>6 DEF Keeps
    <3> QED BY <1>4, <1>8, <2>4, <3>1 DEF EndsWithItsJob, Active
  <2>7. CASE Succeeds(op[j], op'[j])
    <3>1. op'[j].applied > op[j].applied /\ op'[j].status = "succeeded"
      BY <2>3, <2>7 DEF Succeeds
    <3>2. (CHOOSE i \in {j} : op'[i].applied > op[i].applied) = j BY <3>1
    <3>3. gen'[g] = [gen[g] EXCEPT !.status = "succeeded", !.by = j]
      BY <2>5, <3>1, <3>2
    <3>4. /\ gen'[g].status = "succeeded" /\ gen'[g].by = j
          /\ LiveJobs(g, Generate)' = {}
      BY <1>2, <2>4, <3>1, <3>3 DEF Generation, Live
    <3> QED BY <1>4, <2>2, <3>1, <3>4 DEF EndsWithItsJob, Active
  <2>8. CASE Fails(op[j], op'[j])
    <3>1. ~(op'[j].applied > op[j].applied) /\ op'[j].told > op[j].told /\ op'[j].status = "failed"
      BY <2>3, <2>8 DEF Fails
    <3>2. gen'[g] = [gen[g] EXCEPT !.status = "failed"] BY <2>5, <3>1
    <3>3. gen'[g].status = "failed" /\ LiveJobs(g, Generate)' = {}
      BY <1>2, <2>4, <3>1, <3>2 DEF Generation, Live
    <3> QED BY <1>4, <3>3 DEF EndsWithItsJob, Active
  <2>9. ~Drops(op[j], op'[j])
    BY <1>8, <2>2 DEF MayDrop, Active, Over, Generate, Edit, Detail
  <2> QED BY <2>2, <2>6, <2>7, <2>8, <2>9 DEF Moved
<1>9. gen'[g] = gen[g] \/ (~gen[g].deleted /\ gen[g].status \in Active)
  BY ProjectedOver
<1> QED BY <1>7, <1>8, <1>9

\* A step of the kernel that drops nothing.
LEMMA AdvanceEnds ==
  ASSUME EndInv, NEW u, Advance(u), NEW g \in Generations, NeverReedited(g)
  PROVE  (OneJob(g) /\ EndsWithItsJob(g))'
<1>1. /\ op' \in [Jobs -> Row] /\ gen' = Projected(op')
      /\ \A j \in Jobs : Moved(op[j], op'[j], PutBy(j)) /\ ~Drops(op[j], op'[j])
  BY DEF Advance, RowsAdvance, MovedOn
<1>2. JobsOf(g, Generate) \subseteq Jobs BY DEF JobsOf, Known
<1> QED BY <1>1, <1>2, RecordsKept

\* A row that is closed by a cancel is closed.
LEMMA CancelledIsOver ==
  ASSUME NEW row \in Row
  PROVE  Cancelled(row).status \notin Live
<1>1. ExpireIfDue(row, 0) \in Row BY ExpireMoved DEF MovedOn, Moved
<1>2. Close(ExpireIfDue(row, 0), "cancelled").status = "cancelled" BY <1>1, CloseFields
<1> QED BY <1>2 DEF Cancelled, Terminal, Live

\* A record of which nothing changed, nor did its jobs.
LEMMA RecordSame ==
  ASSUME EndInv, NEW g \in Generations, NeverReedited(g), gen'[g] = gen[g],
         JobsOf(g, Generate)' = JobsOf(g, Generate),
         \A j \in JobsOf(g, Generate) : op'[j] = op[j],
         \A j \in Jobs : op[j].status \in Terminal => op'[j].status = op[j].status
  PROVE  (OneJob(g) /\ EndsWithItsJob(g))'
<1>1. OneJob(g) /\ EndsWithItsJob(g) BY DEF EndInv
<1>2. LiveJobs(g, Generate)' = LiveJobs(g, Generate) BY DEF LiveJobs
<1>3. gen[g].status = "succeeded" =>
        gen[g].by \in Jobs /\ op'[gen[g].by].status = "succeeded"
  BY <1>1 DEF EndsWithItsJob, Terminal
<1>4. OneJob(g)' BY <1>1 DEF OneJob
<1> QED BY <1>1, <1>2, <1>3, <1>4 DEF EndsWithItsJob

\* A job that is inserted is one of its record and of no other.
LEMMA JobsOfCreated ==
  ASSUME IInv, NEW j \in Jobs, NEW r \in Requests, MayPrepare(op, j, r), op' = WithJob(op, j, r)
  PROVE  /\ \A g : JobsOf(g, Generate)' =
                     IF SourceOf[r] = g /\ KindOf[r] \in Generate
                     THEN JobsOf(g, Generate) \cup {j} ELSE JobsOf(g, Generate)
         /\ \A i \in Jobs : i # j => op'[i] = op[i]
         /\ op[j].status = "absent" /\ op'[j].status \in Live
<1>1. op \in [Jobs -> Row] BY DEF IInv, TypeOK
<1>2. /\ op'[j].status = "prepared" /\ op'[j].request = r /\ op[j].status = "absent"
      /\ \A i \in Jobs : i # j => op'[i] = op[i]
  BY <1>1, PrepareCreates DEF MayPrepare
<1>3. ASSUME NEW g
      PROVE  JobsOf(g, Generate)' =
               IF SourceOf[r] = g /\ KindOf[r] \in Generate
               THEN JobsOf(g, Generate) \cup {j} ELSE JobsOf(g, Generate)
  BY <1>2 DEF JobsOf, Known, Source, JobKind
<1> QED BY <1>2, <1>3 DEF Live

\* What a generation that nobody re-edits and its job are after each step.
LEMMA StepEnds ==
  ASSUME EndInv, NEW w, NEW g, NEW j, NEW r, NEW c, Steps(w, g, j, r, c),
         NEW k \in Generations, NeverReedited(k)
  PROVE  (OneJob(k) /\ EndsWithItsJob(k))'
<1> USE DEF EndInv, RecordInv
<1>1. op \in [Jobs -> Row] /\ gen \in [Generations -> Generation] BY DEF IInv, TypeOK
<1>2. ASSUME NEW v \in Workers, worker[v].at # "idle", JobKind(worker[v].job) = Reedit, op' = op,
             \A h \in Generations : h # Source(worker[v].job) => gen'[h] = gen[h]
      PROVE  (OneJob(k) /\ EndsWithItsJob(k))'
  <2>1. k # Source(worker[v].job)
    BY <1>2, JobFits DEF NeverReedited, JobKind, Source
  <2>2. JobsOf(k, Generate)' = JobsOf(k, Generate)
    BY <1>2 DEF JobsOf, Known, Source, JobKind
  <2>3. JobsOf(k, Generate) \subseteq Jobs BY DEF JobsOf, Known
  <2> QED BY <1>2, <2>1, <2>2, <2>3, RecordSame
<1>3. CASE w \in Workers /\ Advancing(w)
  BY <1>3, AdvancingAdvances, AdvanceEnds
<1>4. CASE w \in Workers /\ StartAttempt(w)
  <2>1. \A h \in Generations : h # Source(worker[w].job) => gen'[h] = gen[h]
    BY <1>1, <1>4 DEF StartAttempt
  <2> QED BY <1>2, <1>4, <2>1 DEF StartAttempt
<1>5. CASE w \in Workers /\ CloseCancelled(w)
  <2>1. /\ RowsMove /\ gen' = Projected(op')
        /\ \A i \in Jobs : i # worker[w].job => op'[i] = op[i]
    BY <1>5, CloseCancelledMoves
  <2>2. \A i \in JobsOf(k, Generate) : Drops(op[i], op'[i]) => MayDrop(i)
    BY <1>5, <2>1 DEF CloseCancelled, ClosesWhatIsOver, MayDrop, Drops, Live, JobsOf, Known
  <2>3. \A i \in Jobs : Moved(op[i], op'[i], PutBy(i))
    <3>1. worker[w].job \in Known /\ worker[w].job \in Jobs
      BY <1>5, JobFits DEF CloseCancelled
    <3>2. \A i \in Jobs : i # worker[w].job => MovedOn(op[i], op[i], PutBy(i))
      BY <1>1, SameMoved, PutByBoolean
    <3> QED BY <2>1, <3>1, <3>2 DEF RowsMove, Created, Known, MovedOn
  <2> QED BY <2>1, <2>2, <2>3, RecordsKept DEF RowsMove
<1>6. CASE w \in Workers /\ \E status \in {"succeeded", "failed"} : EndEdit(w, status)
  <2>1. PICK status \in {"succeeded", "failed"} : EndEdit(w, status) BY <1>6
  <2>2. \A h \in Generations : h # Source(worker[w].job) => gen'[h] = gen[h]
    BY <1>1, <2>1 DEF EndEdit
  <2>3. JobKind(worker[w].job) = Reedit /\ worker[w].at # "idle" /\ op' = op
    BY <1>6, <2>1 DEF EndEdit, ClosesWhatIsOver
  <2> QED BY <1>2, <1>6, <2>2, <2>3
<1>7. CASE g \in Generations /\ CancelGeneration(g)
  <2> DEFINE live == LiveJobs(g, Generate \cup {Reedit})
             lapsed == [i \in Jobs |-> IF i \in live THEN ExpireIfDue(op[i], 0) ELSE op[i]]
             dropped == [i \in Jobs |-> IF i \in live THEN Cancelled(op[i]) ELSE op[i]]
  <2>1. live \in SUBSET Known /\ live \in SUBSET Jobs BY DEF LiveJobs, JobsOf, Known
  <2>2. ASSUME Commit(lapsed) PROVE (OneJob(k) /\ EndsWithItsJob(k))'
    <3>1. /\ lapsed \in [Jobs -> Row]
          /\ \A i \in Jobs : MovedOn(op[i], lapsed[i], PutBy(i))
      BY <2>1, LapseAdvances
    <3>2. op' = lapsed /\ gen' = Projected(op') BY <2>2 DEF Commit
    <3> HIDE DEF lapsed
    <3>3. \A i \in Jobs : Moved(op[i], op'[i], PutBy(i)) /\ ~Drops(op[i], op'[i])
      BY <3>1, <3>2 DEF MovedOn
    <3>4. JobsOf(k, Generate) \subseteq Jobs BY DEF JobsOf, Known
    <3> QED BY <3>1, <3>2, <3>3, <3>4, RecordsKept
  <2>3. ASSUME op' = dropped, gen' = CancelledRecord(g)
        PROVE  (OneJob(k) /\ EndsWithItsJob(k))'
    <3>1. \A i \in Jobs : Moved(op[i], op'[i], PutBy(i))
      BY <2>1, <2>3, CancelMoves
    <3>2. JobsOf(k, Generate)' = JobsOf(k, Generate) BY <3>1, JobsOfSame
    <3>3. \A i \in Jobs : i \notin live => op'[i] = op[i] BY <2>3
    <3>4. \A i \in live : op'[i].status \notin Live BY <1>1, <2>1, <2>3, CancelledIsOver
    <3> HIDE DEF dropped
    <3>5. CASE k # g
      <4>1. gen'[k] = gen[k] BY <1>1, <2>3, <3>5 DEF CancelledRecord
      <4>2. \A i \in JobsOf(k, Generate) : op'[i] = op[i]
        BY <3>3, <3>5 DEF JobsOf, LiveJobs, Known
      <4>3. \A i \in Jobs : op[i].status \in Terminal => op'[i].status = op[i].status
        BY <3>1 DEF Moved, Keeps, Succeeds, Fails, Drops, Live, Terminal
      <4> QED BY <3>2, <4>1, <4>2, <4>3, RecordSame
    <3>6. CASE k = g
      <4>1. gen'[k].status \in {"failed", "cancelled"}
        BY <1>1, <2>3, <3>6 DEF CancelledRecord, Generation
      <4>2. LiveJobs(k, Generate)' = {}
        <5> SUFFICES ASSUME NEW i \in JobsOf(k, Generate) PROVE op'[i].status \notin Live
          BY <3>2 DEF LiveJobs
        <5>1. i \in Jobs BY DEF JobsOf, Known
        <5>2. CASE i \in live BY <3>4, <5>2
        <5>3. CASE i \notin live
          BY <3>3, <3>6, <5>1, <5>3 DEF LiveJobs, JobsOf
        <5> QED BY <5>2, <5>3
      <4> QED BY <3>2, <4>1, <4>2 DEF OneJob, EndsWithItsJob, Active
    <3> QED BY <3>5, <3>6
  <2> QED BY <1>7, <2>2, <2>3 DEF CancelGeneration
<1>8. CASE g \in Generations /\ DeleteGeneration(g)
  <2>1. op' = op /\ gen' = [gen EXCEPT ![g].deleted = TRUE] BY <1>8 DEF DeleteGeneration
  <2>2. /\ gen'[k].status = gen[k].status /\ gen'[k].by = gen[k].by
        /\ gen'[k].deleted = gen[k].deleted \/ gen'[k].deleted = TRUE
    BY <1>1, <2>1 DEF Generation
  <2>3. /\ JobsOf(k, Generate)' = JobsOf(k, Generate)
        /\ LiveJobs(k, Generate)' = LiveJobs(k, Generate)
    BY <2>1 DEF LiveJobs, JobsOf, Known, Source, JobKind
  <2>4. OneJob(k)' BY <2>2, <2>3 DEF OneJob
  <2> QED BY <2>1, <2>2, <2>3, <2>4 DEF EndsWithItsJob
<1>9. CASE g \in Generations /\ j \in Jobs /\ r \in Requests /\ Open(g, j, r)
  <2>1. /\ gen[g].status = "absent" /\ SourceOf[r] = g /\ KindOf[r] \in Generate
        /\ MayPrepare(op, j, r) /\ op' = WithJob(op, j, r)
        /\ gen' = [gen EXCEPT ![g].status = "pending"]
    BY <1>9 DEF Open
  <2>2. /\ \A h : JobsOf(h, Generate)' =
                    IF SourceOf[r] = h /\ KindOf[r] \in Generate
                    THEN JobsOf(h, Generate) \cup {j} ELSE JobsOf(h, Generate)
        /\ \A i \in Jobs : i # j => op'[i] = op[i]
        /\ op[j].status = "absent" /\ op'[j].status \in Live
    BY <1>9, <2>1, JobsOfCreated
  <2>3. CASE k # g
    BY <1>1, <2>1, <2>2, <2>3, RecordSame DEF JobsOf, Known, Terminal
  <2>4. CASE k = g
    <3>1. JobsOf(k, Generate)' = {j} BY <2>1, <2>2, <2>4 DEF OneJob
    <3>2. LiveJobs(k, Generate)' = {j} BY <2>2, <3>1 DEF LiveJobs
    <3>3. gen'[k].status = "pending" BY <1>1, <2>1, <2>4 DEF Generation
    <3> QED BY <3>1, <3>2, <3>3 DEF OneJob, EndsWithItsJob, Active
  <2> QED BY <2>3, <2>4
<1>10. CASE j \in Jobs /\ r \in Requests /\ ScheduleImageEdit(j, r)
  <2>1. /\ MayPrepare(op, j, r) /\ op' = WithJob(op, j, r) /\ gen' = gen
        /\ KindOf[r] \notin Generate
    BY <1>10 DEF ScheduleImageEdit, Generate, Edit
  <2>2. /\ JobsOf(k, Generate)' = JobsOf(k, Generate)
        /\ \A i \in Jobs : i # j => op'[i] = op[i]
        /\ op[j].status = "absent"
    BY <1>10, <2>1, JobsOfCreated
  <2> QED BY <2>1, <2>2, RecordSame DEF JobsOf, Known, Terminal
<1>11. CASE c \in Callers /\ g \in Generations /\ r \in Requests /\ StartReedit(c, g, r)
  <2>1. k # g /\ op' = op BY <1>11 DEF StartReedit, NeverReedited
  <2>2. gen'[k] = gen[k] BY <1>1, <1>11, <2>1 DEF StartReedit
  <2>3. JobsOf(k, Generate)' = JobsOf(k, Generate) /\ JobsOf(k, Generate) \subseteq Jobs
    BY <2>1 DEF JobsOf, Known, Source, JobKind
  <2> QED BY <2>1, <2>2, <2>3, RecordSame
<1>12. CASE c \in Callers /\ j \in Jobs /\ r \in Requests /\ RestartReedit(c, j, r)
  <2> DEFINE live == LiveJobs(SourceOf[r], {Reedit})
             rows == [i \in Jobs |-> IF i \in live THEN Cancelled(op[i]) ELSE op[i]]
  <2>1. KindOf[r] = Reedit BY <1>12 DEF RestartReedit, IInv, CallerFits
  <2>2. /\ live \in SUBSET Known /\ live \in SUBSET Jobs
        /\ \A i \in live : JobKind(i) = Reedit /\ op[i].status \in Live
    BY DEF LiveJobs, JobsOf, Known
  <2>3. /\ rows \in [Jobs -> Row] /\ \A i \in Jobs : Moved(op[i], rows[i], PutBy(i))
        /\ \A i \in Jobs : i \notin live => rows[i] = op[i]
    BY <2>2, CancelMoves
  <2>4. rows[j].status = "absent" /\ op' = WithJob(rows, j, r) /\ gen' = Projected(op')
    BY <1>12 DEF RestartReedit, MayPrepare, Commit
  <2> HIDE DEF rows, live
  <2>5. /\ op'[j].status = "prepared" /\ op'[j].request = r
        /\ \A i \in Jobs : i # j => op'[i] = rows[i]
    BY <1>12, <2>3, <2>4, PrepareCreates
  <2>6. op[j].status = "absent" /\ j \notin live
    BY <1>12, <2>2, <2>3, <2>4 DEF Moved, Known
  <2>7. \A i \in Jobs : i # j => op'[i].request = op[i].request
                               /\ (op'[i].status = "absent" <=> op[i].status = "absent")
    BY <2>3, <2>5 DEF Moved
  <2>8. Reedit \notin Generate BY DEF Reedit, Generate
  <2>9. JobsOf(k, Generate)' = JobsOf(k, Generate)
    BY <2>1, <2>5, <2>6, <2>7, <2>8 DEF JobsOf, Known, Source, JobKind
  <2>10. \A i \in JobsOf(k, Generate) : i \in Jobs /\ op'[i] = op[i]
    BY <2>2, <2>3, <2>5, <2>6, <2>8 DEF JobsOf, Known
  <2>11. gen'[k] = gen[k]
    <3>1. \A i \in JobsOf(k, Generate) : ~(op'[i].applied > op[i].applied) /\ ~(op'[i].told > op[i].told)
      BY <1>1, <2>10, FieldTypes
    <3> QED BY <2>4, <3>1 DEF Projected
  <2>12. \A i \in Jobs : op[i].status \in Terminal => op'[i].status = op[i].status
    BY <2>2, <2>3, <2>5, <2>6 DEF Terminal, Live
  <2> QED BY <2>9, <2>10, <2>11, <2>12, RecordSame
<1>13. CASE c \in Callers /\ j \in Jobs /\ LookAtImageEdit(c, j)
  BY <1>13, LookAtImageEditAdvances, AdvanceEnds
<1>14. CASE c \in Callers /\ j \in Jobs /\ CancelImageEdit(c, j)
  <2>1. /\ RowsMove /\ gen' = Projected(op') /\ JobKind(j) = Edit
        /\ \A i \in Jobs : i # j => op'[i] = op[i]
    BY <1>14, CancelImageEditMoves
  <2>2. j \in Known BY <1>14 DEF CancelImageEdit, IInv, CallerFits
  <2>3. \A i \in Jobs : Moved(op[i], op'[i], PutBy(i))
    <3>1. \A i \in Jobs : i # j => MovedOn(op[i], op[i], PutBy(i))
      BY <1>1, SameMoved, PutByBoolean
    <3> QED BY <2>1, <2>2, <3>1 DEF RowsMove, Created, Known, MovedOn
  <2>4. \A i \in JobsOf(k, Generate) : Drops(op[i], op'[i]) => MayDrop(i)
    BY <2>1 DEF MayDrop, Drops, Live, JobsOf, Known
  <2> QED BY <2>1, <2>3, <2>4, RecordsKept DEF RowsMove
<1>15. CASE c \in Callers /\ CallerStops(c)
  BY <1>15, CallerStopsAdvances, AdvanceEnds
<1>16. CASE Tick
  BY <1>16, TickAdvances, AdvanceEnds
<1> QED BY <1>3, <1>4, <1>5, <1>6, <1>7, <1>8, <1>9, <1>10, <1>11, <1>12, <1>13, <1>14,
           <1>15, <1>16 DEF Steps

\* Only a preflight that found the record over makes a worker close its job,
\* and only a re-edit makes one edit.
LEMMA WorkerPhase ==
  ASSUME IInv, NEW w, NEW g, NEW j, NEW r, NEW c, Steps(w, g, j, r, c), NEW v \in Workers
  PROVE  /\ worker'[v].at = "editing" =>
              /\ worker[v].at # "idle" /\ worker'[v].job = worker[v].job
              /\ worker[v].at = "editing" \/ StartAttempt(v)
         /\ worker'[v].at = "closing" =>
              /\ worker[v].at # "idle" /\ worker'[v].job = worker[v].job
              /\ worker[v].at = "closing" \/ Verdict(worker[v].job) = "cancelled"
<1> DEFINE Good ==
             /\ worker'[v].at = "editing" =>
                  /\ worker[v].at # "idle" /\ worker'[v].job = worker[v].job
                  /\ worker[v].at = "editing" \/ StartAttempt(v)
             /\ worker'[v].at = "closing" =>
                  /\ worker[v].at # "idle" /\ worker'[v].job = worker[v].job
                  /\ worker[v].at = "closing" \/ Verdict(worker[v].job) = "cancelled"
<1>1. worker \in [Workers -> Worker] BY DEF IInv, TypeOK
<1>2. ASSUME UNCHANGED worker PROVE Good
  BY <1>2
<1>3. ASSUME w \in Workers, Stops(w) PROVE Good
  BY <1>1, <1>3 DEF Stops, Idle
<1>4. ASSUME w \in Workers, worker[w].at # "idle",
             NEW at \in Phases, GoesTo(w, at), at = "editing" => StartAttempt(w),
             at = "closing" => Verdict(worker[w].job) = "cancelled"
      PROVE  Good
  <2>1. CASE v = w
    <3>1. worker[w] \in Worker BY <1>1, <1>4
    <3>2. worker'[w] = [worker[w] EXCEPT !.at = at] BY <1>1, <1>4 DEF GoesTo
    <3>3. worker'[w].at = at /\ worker'[w].job = worker[w].job BY <3>1, <3>2 DEF Worker
    <3> QED BY <1>4, <2>1, <3>3
  <2>2. CASE v # w BY <1>1, <1>4, <2>2 DEF GoesTo
  <2> QED BY <2>1, <2>2
<1>5. ASSUME w \in Workers, NEW saved \in BOOLEAN, NEW retryable \in BOOLEAN,
             NEW deterministic \in BOOLEAN, Catch(w, saved, retryable, deterministic)
      PROVE  Good
  <2> DEFINE again == (retryable \/ worker[w].abort = "timeout") /\ ~(saved /\ deterministic)
             at == IF saved /\ again THEN "recording" ELSE "failing"
  <2>1. CASE Stops(w) BY <1>3, <1>5, <2>1
  <2>2. CASE worker' = [worker EXCEPT ![w].at = at, ![w].retry = again]
    <3>1. at \notin {"editing", "closing"} OBVIOUS
    <3> HIDE DEF at, again
    <3>2. v = w => worker'[v].at = at BY <1>1, <2>2 DEF Worker
    <3>3. v # w => worker'[v] = worker[v] BY <1>1, <2>2
    <3> QED BY <3>1, <3>2, <3>3
  <2> QED BY <1>5, <2>1, <2>2 DEF Catch
<1>6. ASSUME w \in Workers, NEW abort, worker' = [worker EXCEPT ![w].abort = abort] PROVE Good
  <2>1. worker'[v].at = worker[v].at /\ worker'[v].job = worker[v].job
    BY <1>1, <1>6 DEF Worker
  <2> QED BY <2>1
<1>7. ASSUME w \in Workers, Claim(w) PROVE Good
  <2>1. v # w => worker'[v] = worker[v] BY <1>1, <1>7 DEF Claim
  <2>2. CASE UNCHANGED worker BY <1>2, <2>2
  <2>3. CASE ~UNCHANGED worker
    <3>1. PICK j0 \in Claimable :
            worker' = [worker EXCEPT ![w] =
              [Idle EXCEPT !.at = "claimed", !.job = j0, !.token = op[j0].token + 1,
                           !.attempt = op[j0].attempts + 1,
                           !.saved = op[j0].progress = "result_saved"]]
      BY <1>7, <2>3 DEF Claim
    <3>2. worker'[w].at = "claimed" BY <1>1, <1>7, <3>1 DEF Idle
    <3> QED BY <2>1, <3>2
  <2> QED BY <2>2, <2>3
<1>8. ASSUME w \in Workers, Preflight(w) PROVE Good
  <2>1. PICK at \in {"saved", "executing", "closing", "rejecting"} :
          /\ GoesTo(w, at)
          /\ at = "closing" => Verdict(worker[w].job) = "cancelled"
    BY <1>8 DEF Preflight, Verdict
  <2> QED BY <1>4, <1>8, <2>1 DEF Preflight, Phases, Beating
<1> SUFFICES Good OBVIOUS
<1> HIDE DEF Good
<1>9. CASE w \in Workers /\ (Reject(w) \/ RecordFinishError(w) \/ Fail(w) \/ Crash(w) \/ CloseCancelled(w))
  BY <1>3, <1>9 DEF Reject, RecordFinishError, Fail, Crash, CloseCancelled
<1>10. CASE w \in Workers /\ (Execute(w) \/ BreakEdit(w) \/ SaveResult(w) \/ Succeed(w))
  <2>1. "produced" \in Phases /\ "saved" \in Phases BY DEF Phases, Beating
  <2>2. CASE Execute(w)
    <3>1. CASE GoesTo(w, "produced") BY <1>4, <1>10, <2>1, <2>2, <3>1 DEF Execute
    <3> QED BY <1>5, <1>10, <2>2, <3>1 DEF Execute
  <2>3. CASE BreakEdit(w) BY <1>5, <1>10, <2>3 DEF BreakEdit
  <2>4. CASE SaveResult(w)
    <3>1. CASE GoesTo(w, "saved") BY <1>4, <1>10, <2>1, <2>4, <3>1 DEF SaveResult
    <3>2. CASE Stops(w) BY <1>3, <1>10, <3>2
    <3>3. ASSUME NEW retryable \in BOOLEAN, Catch(w, FALSE, retryable, FALSE) PROVE Good
      BY <1>5, <1>10, <3>3
    <3> QED BY <2>4, <3>1, <3>2, <3>3 DEF SaveResult
  <2>5. CASE Succeed(w)
    <3>1. CASE Stops(w) BY <1>3, <1>10, <3>1
    <3>2. ASSUME NEW retryable \in BOOLEAN, NEW deterministic \in BOOLEAN,
                 Catch(w, TRUE, retryable, deterministic)
          PROVE  Good
      BY <1>5, <1>10, <3>2
    <3> QED BY <2>5, <3>1, <3>2 DEF Succeed
  <2> QED BY <1>10, <2>2, <2>3, <2>4, <2>5
<1>11. CASE w \in Workers /\ Heartbeat(w)
  BY <1>6, <1>11 DEF Heartbeat
<1>12. CASE w \in Workers /\ \E reason \in {"lost", "timeout"} : Aborted(w, reason)
  BY <1>6, <1>12 DEF Aborted
<1>13. CASE w \in Workers /\ StartAttempt(w)
  <2>1. PICK at \in {"editing", "produced"} : GoesTo(w, at) BY <1>13 DEF StartAttempt
  <2>2. at \in Phases BY DEF Phases, Beating
  <2> QED BY <1>4, <1>13, <2>1, <2>2 DEF StartAttempt
<1>14. CASE w \in Workers /\ \E status \in {"succeeded", "failed"} : EndEdit(w, status)
  <2>1. "produced" \in Phases BY DEF Phases, Beating
  <2> QED BY <1>4, <1>14, <2>1 DEF EndEdit
<1>15. \/ UNCHANGED worker
       \/ w \in Workers /\ (Advancing(w) \/ StartAttempt(w) \/ CloseCancelled(w)
                            \/ \E status \in {"succeeded", "failed"} : EndEdit(w, status))
  BY DEF Steps, CancelGeneration, DeleteGeneration, Open, ScheduleImageEdit, StartReedit,
         RestartReedit, LookAtImageEdit, CancelImageEdit, CallerStops, Tick
<1>16. Good
  BY <1>2, <1>7, <1>8, <1>9, <1>10, <1>11, <1>12, <1>13, <1>14, <1>15 DEF Advancing
<1> QED BY <1>16

\* And such a record stays over until its worker has closed the job.
LEMMA StepCloses ==
  ASSUME EndInv, NEW w, NEW g, NEW j, NEW r, NEW c, Steps(w, g, j, r, c),
         NEW v \in Workers
  PROVE  ClosesWhatIsOver(v)'
<1> USE DEF EndInv, RecordInv
<1> DEFINE k == worker[v].job
<1>1. ASSUME worker'[v].at \in {"editing", "closing"}
      PROVE  /\ worker'[v].job = k /\ k \in Jobs /\ op[k].request \in Requests
             /\ op'[k].request = op[k].request
  <2>1. worker[v].at # "idle" /\ worker'[v].job = k BY <1>1, WorkerPhase
  <2>2. k \in Known /\ k \in Jobs /\ op[k].request \in Requests BY <2>1, JobFits
  <2>3. RowsMove BY StepKeepsInv
  <2> QED BY <2>1, <2>2, <2>3 DEF RowsMove, Created, Moved, Known
<1>2. ASSUME worker'[v].at = "editing" PROVE KindOf[op'[worker'[v].job].request] = Reedit
  <2>1. JobKind(k) = Reedit BY <1>2, WorkerPhase DEF ClosesWhatIsOver, StartAttempt
  <2> QED BY <1>1, <1>2, <2>1 DEF JobKind
<1>3. ASSUME worker'[v].at = "closing"
      PROVE  /\ KindOf[op'[worker'[v].job].request] # Edit
             /\ NeverReedited(SourceOf[op'[worker'[v].job].request]) =>
                  gen'[SourceOf[op'[worker'[v].job].request]].status \in Over
  <2>1. /\ JobKind(k) # Edit
        /\ NeverReedited(Source(k)) => gen[Source(k)].status \in Over
    BY <1>3, WorkerPhase DEF ClosesWhatIsOver, Verdict
  <2>2. Source(k) \in Generations
    BY <1>1, <1>3, <2>1, JobAssumption DEF Source, JobKind
  <2>3. NeverReedited(Source(k)) => gen'[Source(k)].status = gen[Source(k)].status
    BY <2>1, <2>2, OverKept DEF StartReedit, NeverReedited
  <2> QED BY <1>1, <1>3, <2>1, <2>3 DEF JobKind, Source
<1> QED BY <1>2, <1>3 DEF ClosesWhatIsOver, JobKind, Source

\* Records end with their jobs.
LEMMA EndInvariance == Spec => []EndInv
<1>1. Init => EndInv
  <2> SUFFICES ASSUME Init PROVE EndInv OBVIOUS
  <2>1. RecordInv BY InvHoldsInitially DEF RecordInv, Init, Unborn
  <2>2. Known = {} BY DEF Init, Known, Blank
  <2>3. ASSUME NEW g \in Generations PROVE OneJob(g) /\ EndsWithItsJob(g)
    BY <2>2 DEF Init, OneJob, EndsWithItsJob, JobsOf, LiveJobs, Active
  <2>4. ASSUME NEW w \in Workers PROVE ClosesWhatIsOver(w)
    BY DEF Init, Idle, ClosesWhatIsOver
  <2> QED BY <2>1, <2>3, <2>4 DEF EndInv
<1>2. EndInv /\ [Next]_vars => EndInv'
  <2>1. EndInv /\ Next => EndInv'
    <3> SUFFICES ASSUME EndInv, Next PROVE EndInv' OBVIOUS
    <3>1. PICK w, g, j, r, c : Steps(w, g, j, r, c) BY NextIsAStep
    <3>2. RecordInv' BY <3>1, StepKeepsInv, UnbornNever DEF EndInv, RecordInv
    <3>3. \A k \in Generations : NeverReedited(k) => (OneJob(k) /\ EndsWithItsJob(k))'
      BY <3>1, StepEnds
    <3>4. \A v \in Workers : ClosesWhatIsOver(v)' BY <3>1, StepCloses
    <3> QED BY <3>2, <3>3, <3>4 DEF EndInv
  <2>2. EndInv /\ UNCHANGED vars => EndInv'
    <3> SUFFICES ASSUME EndInv, UNCHANGED vars PROVE EndInv' OBVIOUS
    <3>1. RecordInv' BY InvStutters DEF EndInv, RecordInv, Unborn, vars
    <3>2. /\ \A k \in Generations : NeverReedited(k) => (OneJob(k) /\ EndsWithItsJob(k))'
          /\ \A v \in Workers : ClosesWhatIsOver(v)'
      BY DEF EndInv, OneJob, EndsWithItsJob, ClosesWhatIsOver, LiveJobs, JobsOf, Known,
             Source, JobKind, vars
    <3> QED BY <3>1, <3>2 DEF EndInv
  <2> QED BY <2>1, <2>2
<1> QED BY <1>1, <1>2, PTL DEF Spec

(* A generation that nobody re-edits is open exactly as long as a job for  *)
(* it lives, and an output it carries is that of the job that succeeded,   *)
(* whatever becomes of other records.  (A re-edit reopens its record       *)
(* before its job exists, which is what the run about OpenedWithItsJob     *)
(* shows.)                                                                 *)
THEOREM GenerationsEndWithTheirJobs == Spec => []GenerationEndsWithItsJob
<1>1. EndInv => GenerationEndsWithItsJob
  BY DEF EndInv, EndsWithItsJob, GenerationEndsWithItsJob
<1> QED BY <1>1, EndInvariance, PTL

----------------------------------------------------------------------------
(* Jobs and the operation contract. *)

\* A row is inserted, the others moved, and none of them has its keys.
Opens(j, r) ==
  /\ op[j].status = "absent" /\ op'[j].status = "prepared"
  /\ op'[j].locks = KeysOf[r] /\ op'[j].applied = 0 /\ op'[j].told = 0
  /\ \A i \in Jobs : i # j => /\ Moved(op[i], op'[i], PutBy(i))
                            /\ op'[i].locks \cap KeysOf[r] = {}
AllMove == \A i \in Jobs : Moved(op[i], op'[i], PutBy(i))

LEMMA PrepareOpens ==
  ASSUME IInv, NEW rows \in [Jobs -> Row], \A i \in Jobs : Moved(op[i], rows[i], PutBy(i)),
         NEW j \in Jobs, NEW r \in Requests, MayPrepare(rows, j, r), op' = WithJob(rows, j, r)
  PROVE  Opens(j, r)
<1>1. rows[j].status = "absent" /\ \A i \in Jobs : rows[i].locks \cap KeysOf[r] = {}
  BY DEF MayPrepare
<1>2. op'[j] = PreparedRow(r, None, MaxAttempts, 0) /\ \A i \in Jobs : i # j => op'[i] = rows[i]
  BY DEF WithJob
<1>3. op[j].status = "absent" BY <1>1 DEF Moved
<1> QED BY <1>1, <1>2, <1>3, PreparedRowFields DEF Opens

\* Every step inserts one row or none.
LEMMA StepOpens ==
  ASSUME IInv, NEW w, NEW g, NEW j, NEW r, NEW c, Steps(w, g, j, r, c)
  PROVE  AllMove \/ (j \in Jobs /\ r \in Requests /\ Opens(j, r))
<1>1. op \in [Jobs -> Row] BY DEF IInv, TypeOK
<1>2. RowsAdvance => AllMove BY DEF RowsAdvance, AllMove, MovedOn
<1>3. \A i \in Jobs : Moved(op[i], op[i], PutBy(i))
  BY <1>1, SameMoved, PutByBoolean DEF MovedOn
<1>4. ASSUME RowsMove, NEW i \in Known, \A h \in Jobs : h # i => op'[h] = op[h]
      PROVE  AllMove
  BY <1>3, <1>4 DEF RowsMove, Created, Known, AllMove
<1>5. CASE w \in Workers /\ Advancing(w)
  BY <1>2, <1>5, AdvancingAdvances DEF Advance
<1>6. CASE w \in Workers /\ StartAttempt(w)
  BY <1>3, <1>6 DEF StartAttempt, AllMove
<1>7. CASE w \in Workers /\ CloseCancelled(w)
  <2>1. worker[w].job \in Known BY <1>7, JobFits DEF CloseCancelled
  <2> QED BY <1>4, <1>7, <2>1, CloseCancelledMoves
<1>8. CASE w \in Workers /\ \E status \in {"succeeded", "failed"} : EndEdit(w, status)
  BY <1>3, <1>8 DEF EndEdit, AllMove
<1>9. CASE g \in Generations /\ CancelGeneration(g)
  <2> DEFINE live == LiveJobs(g, Generate \cup {Reedit})
             lapsed == [i \in Jobs |-> IF i \in live THEN ExpireIfDue(op[i], 0) ELSE op[i]]
             dropped == [i \in Jobs |-> IF i \in live THEN Cancelled(op[i]) ELSE op[i]]
  <2>1. live \in SUBSET Known /\ live \in SUBSET Jobs BY DEF LiveJobs, JobsOf, Known
  <2>2. \A i \in Jobs : MovedOn(op[i], lapsed[i], PutBy(i)) BY <2>1, LapseAdvances
  <2>3. \A i \in Jobs : Moved(op[i], dropped[i], PutBy(i)) BY <2>1, CancelMoves
  <2>4. op' = lapsed \/ op' = dropped BY <1>9 DEF CancelGeneration, Commit
  <2> HIDE DEF lapsed, dropped
  <2> QED BY <2>2, <2>3, <2>4 DEF AllMove, MovedOn
<1>10. CASE g \in Generations /\ DeleteGeneration(g)
  BY <1>3, <1>10 DEF DeleteGeneration, AllMove
<1>11. CASE g \in Generations /\ j \in Jobs /\ r \in Requests /\ Open(g, j, r)
  BY <1>1, <1>3, <1>11, PrepareOpens DEF Open
<1>12. CASE j \in Jobs /\ r \in Requests /\ ScheduleImageEdit(j, r)
  BY <1>1, <1>3, <1>12, PrepareOpens DEF ScheduleImageEdit
<1>13. CASE c \in Callers /\ g \in Generations /\ r \in Requests /\ StartReedit(c, g, r)
  BY <1>3, <1>13 DEF StartReedit, AllMove
<1>14. CASE c \in Callers /\ j \in Jobs /\ r \in Requests /\ RestartReedit(c, j, r)
  <2> DEFINE live == LiveJobs(SourceOf[r], {Reedit})
             rows == [i \in Jobs |-> IF i \in live THEN Cancelled(op[i]) ELSE op[i]]
  <2>1. live \in SUBSET Known BY DEF LiveJobs, JobsOf, Known
  <2>2. /\ rows \in [Jobs -> Row]
        /\ \A i \in Jobs : Moved(op[i], rows[i], PutBy(i))
    BY <2>1, CancelMoves
  <2>3. MayPrepare(rows, j, r) /\ op' = WithJob(rows, j, r)
    BY <1>14 DEF RestartReedit, Commit
  <2> HIDE DEF rows
  <2> QED BY <1>14, <2>2, <2>3, PrepareOpens
<1>15. CASE c \in Callers /\ j \in Jobs /\ LookAtImageEdit(c, j)
  BY <1>2, <1>15, LookAtImageEditAdvances DEF Advance
<1>16. CASE c \in Callers /\ j \in Jobs /\ CancelImageEdit(c, j)
  <2>1. j \in Known BY <1>16 DEF CancelImageEdit, IInv, CallerFits
  <2> QED BY <1>4, <1>16, <2>1, CancelImageEditMoves
<1>17. CASE c \in Callers /\ CallerStops(c)
  BY <1>3, <1>17 DEF CallerStops, AllMove
<1>18. CASE Tick
  BY <1>2, <1>18, TickAdvances DEF Advance
<1> QED BY <1>5, <1>6, <1>7, <1>8, <1>9, <1>10, <1>11, <1>12, <1>13, <1>14, <1>15, <1>16,
           <1>17, <1>18 DEF Steps

\* A row that moved, as the contract sees it.
LEMMA MovedMaps ==
  ASSUME NEW old \in Row, NEW new, NEW put \in BOOLEAN, Moved(old, new, put)
  PROVE  /\ old.status \in Live /\ new.status \notin Live =>
              /\ PhaseOf(old) = "open" /\ new.status \in Contract!Ends
              /\ PhaseOf(new) = new.status /\ new.locks = {}
              /\ new.applied = old.applied + (IF new.status = "succeeded" THEN 1 ELSE 0)
              /\ new.told = old.told + (IF new.status = "failed" THEN 1 ELSE 0)
         /\ ~(old.status \in Live /\ new.status \notin Live) =>
              /\ PhaseOf(new) = PhaseOf(old) /\ new.locks = old.locks
              /\ new.applied = old.applied /\ new.told = old.told
<1>1. new \in Row /\ (new.status = "absent" <=> old.status = "absent") BY DEF Moved
<1>2. old.applied \in Nat /\ old.told \in Nat BY FieldTypes
<1>3. CASE Keeps(old, new)
  <2>1. old.status \in Live \/ old.status \in Terminal \/ old.status = "absent"
    BY FieldTypes
  <2> QED BY <1>1, <1>3, <2>1 DEF Keeps, PhaseOf, Live, Terminal
<1>4. CASE Succeeds(old, new) \/ Fails(old, new) \/ Drops(old, new)
  BY <1>2, <1>4 DEF Succeeds, Fails, Drops, PhaseOf, Live, Contract!Ends
<1> QED BY <1>3, <1>4 DEF Moved

Ended == {i \in Jobs : op[i].status \in Live /\ op'[i].status \notin Live}

\* An id without a row has no ledger and no locks.
Fresh == \A j \in Jobs : op[j].status = "absent" =>
           op[j].applied = 0 /\ op[j].told = 0 /\ op[j].locks = {}

\* Rows that move, one of them perhaps inserted, are a transaction.
LEMMA MoveMaps ==
  ASSUME IInv, Fresh, AllMove \/ \E j \in Jobs, r \in Requests : Opens(j, r)
  PROVE  Contract!TransactNext
<1> DEFINE how == [i \in Ended |-> op'[i].status]
<1>1. op \in [Jobs -> Row] BY DEF IInv, TypeOK
<1>2. ASSUME NEW i \in Jobs, Moved(op[i], op'[i], PutBy(i))
      PROVE  /\ i \in Ended =>
                  /\ PhaseOf(op[i]) = "open" /\ op'[i].status \in Contract!Ends
                  /\ PhaseOf(op'[i]) = how[i] /\ op'[i].locks = {}
                  /\ op'[i].applied = op[i].applied + (IF how[i] = "succeeded" THEN 1 ELSE 0)
                  /\ op'[i].told = op[i].told + (IF how[i] = "failed" THEN 1 ELSE 0)
             /\ i \notin Ended =>
                  /\ PhaseOf(op'[i]) = PhaseOf(op[i]) /\ op'[i].locks = op[i].locks
                  /\ op'[i].applied = op[i].applied /\ op'[i].told = op[i].told
  BY <1>1, <1>2, MovedMaps, PutByBoolean DEF Ended
<1> HIDE DEF how
<1>3. Ended \in SUBSET Jobs BY DEF Ended
<1>4. CASE AllMove
  <2>1. how \in [Ended -> Contract!Ends] BY <1>2, <1>3, <1>4 DEF AllMove, how
  <2>2. Contract!Transact(Ended, how, {}, {})
    BY <1>2, <1>3, <1>4 DEF AllMove, Contract!Transact, Contract!ToldOf
  <2> QED BY <1>3, <2>1, <2>2 DEF Contract!TransactNext
<1>5. ASSUME NEW j \in Jobs, NEW r \in Requests, Opens(j, r)
      PROVE  Contract!TransactNext
  <2>1. j \notin Ended /\ \A i \in Jobs : i # j => Moved(op[i], op'[i], PutBy(i))
    BY <1>5 DEF Opens, Ended, Live
  <2>2. how \in [Ended -> Contract!Ends] BY <1>2, <1>3, <2>1 DEF how
  <2>3. /\ PhaseOf(op[j]) = "none" /\ PhaseOf(op'[j]) = "open"
        /\ op'[j].locks = KeysOf[r] /\ KeysOf[r] \in SUBSET Keys
        /\ op'[j].applied = op[j].applied /\ op'[j].told = op[j].told
    BY <1>5, RequestAssumption DEF Opens, PhaseOf, Live, Fresh
  <2>4. \A i \in Jobs \ Ended : i # j => op[i].locks \cap KeysOf[r] = {}
    BY <1>2, <1>5, <2>1 DEF Opens
  <2>5. op[j].locks = {} BY <1>5 DEF Opens, Fresh
  <2>6. /\ \A i \in Ended : PhaseOf(op[i]) = "open"
        /\ \A i \in Jobs \ Ended : op[i].locks \cap KeysOf[r] = {}
    BY <1>2, <1>3, <2>1, <2>4, <2>5
  <2>7. \A i \in Jobs :
          /\ PhaseOf(op'[i]) = IF i = j THEN "open" ELSE IF i \in Ended THEN how[i]
                               ELSE PhaseOf(op[i])
          /\ op'[i].locks = IF i = j THEN KeysOf[r] ELSE IF i \in Ended THEN {} ELSE op[i].locks
    BY <1>2, <2>1, <2>3
  <2>8. \A i \in Jobs :
          [applied |-> op'[i].applied, told |-> op'[i].told] =
            IF i \in Ended THEN Contract!ToldOf([applied |-> op[i].applied, told |-> op[i].told], how[i])
            ELSE [applied |-> op[i].applied, told |-> op[i].told]
    BY <1>2, <2>1, <2>3 DEF Contract!ToldOf
  <2>9. Contract!Transact(Ended, how, {j}, KeysOf[r])
    BY <1>3, <2>3, <2>6, <2>7, <2>8 DEF Contract!Transact
  <2> QED BY <1>3, <2>2, <2>3, <2>9 DEF Contract!TransactNext
<1> QED BY <1>4, <1>5

LEMMA StepMaps ==
  ASSUME IInv, Fresh, [Next]_vars
  PROVE  Fresh' /\ [Contract!TransactNext]_(Contract!vars)
<1>1. CASE Next
  <2>1. AllMove \/ \E j \in Jobs, r \in Requests : Opens(j, r)
    BY <1>1, NextIsAStep, StepOpens
  <2>2. RowsMove BY <1>1, NextIsAStep, StepKeepsInv
  <2>3. Fresh'
    BY <2>2 DEF Fresh, RowsMove, Created, Moved, Keeps, Succeeds, Fails, Drops, Live
  <2> QED BY <2>1, <2>3, MoveMaps
<1>2. CASE UNCHANGED vars
  BY <1>2 DEF vars, Fresh, Contract!vars
<1> QED BY <1>1, <1>2

(* The jobs of content keep the operation contract although their owner    *)
(* composes its calls - a claim that sweeps, a cancel that closes a record *)
(* and its jobs, a re-edit that replaces the one before it: a job ends     *)
(* once, its owner is told of it once, and it starts on keys nobody holds. *)
THEOREM ContractIsImplemented == Spec => ImplementsContract
<1>1. Init => Fresh /\ Contract!Init
  <2> SUFFICES ASSUME Init PROVE Fresh /\ Contract!Init OBVIOUS
  <2>1. /\ Blank.status = "absent" /\ Blank.locks = {}
        /\ Blank.applied = 0 /\ Blank.told = 0
    BY DEF Blank
  <2>2. \A j \in Jobs : /\ PhaseOf(op[j]) = "none" /\ op[j].locks = {}
                        /\ op[j].applied = 0 /\ op[j].told = 0
    BY <2>1 DEF Init, PhaseOf, Live
  <2> QED BY <2>2 DEF Fresh, Contract!Init
<1>2. IInv /\ Fresh /\ [Next]_vars => Fresh' /\ [Contract!TransactNext]_(Contract!vars)
  BY StepMaps
<1> QED BY <1>1, <1>2, Invariance, PTL DEF Spec, ImplementsContract, Contract!TransactSpec

(* The contract alone keeps what its clients build on: a transaction ends   *)
(* open jobs, each in one way, and opens one on keys that are free by then. *)
LEMMA TransactKeeps ==
  ASSUME Contract!Promise, Contract!TransactNext PROVE Contract!Promise'
<1>1. PICK ended \in SUBSET Jobs, opened \in {{}} \cup {{j} : j \in Jobs}, want \in SUBSET Keys :
        \E how \in [ended -> Contract!Ends] : Contract!Transact(ended, how, opened, want)
  BY DEF Contract!TransactNext
<1>2. PICK how \in [ended -> Contract!Ends] : Contract!Transact(ended, how, opened, want)
  BY <1>1
<1>3. ended \subseteq Jobs /\ opened \subseteq Jobs /\ \A i, j \in opened : i = j OBVIOUS
<1>4. \A j \in ended : how[j] \in {"succeeded", "failed", "cancelled"}
  BY <1>2 DEF Contract!Ends
<1>5. /\ \A j \in ended : PhaseOf(op[j]) = "open"
      /\ \A j \in opened : PhaseOf(op[j]) = "none"
      /\ \A j \in opened : \A i \in Jobs \ ended : want \cap op[i].locks = {}
  BY <1>2, <1>3 DEF Contract!Transact
<1>6. \A j \in Jobs : PhaseOf(op[j])' = IF j \in opened THEN "open" ELSE IF j \in ended THEN how[j]
                                        ELSE PhaseOf(op[j])
  BY <1>2 DEF Contract!Transact
<1>7. \A j \in Jobs : op'[j].locks = IF j \in opened THEN want ELSE IF j \in ended THEN {}
                                     ELSE op[j].locks
  BY <1>2 DEF Contract!Transact
<1>8. \A j \in Jobs :
        /\ j \in ended => /\ op'[j].applied = op[j].applied + (IF how[j] = "succeeded" THEN 1 ELSE 0)
                          /\ op'[j].told = op[j].told + (IF how[j] = "failed" THEN 1 ELSE 0)
        /\ j \notin ended => op'[j].applied = op[j].applied /\ op'[j].told = op[j].told
  BY <1>2 DEF Contract!Transact, Contract!ToldOf
<1>9. \A j \in Jobs : /\ op[j].applied = IF PhaseOf(op[j]) = "succeeded" THEN 1 ELSE 0
                      /\ op[j].told = IF PhaseOf(op[j]) = "failed" THEN 1 ELSE 0
                      /\ PhaseOf(op[j]) # "open" => op[j].locks = {}
                      /\ \A i \in Jobs : i # j => op[i].locks \cap op[j].locks = {}
  BY DEF Contract!Promise
<1>10. \A j \in Jobs : /\ op'[j].applied = IF PhaseOf(op[j])' = "succeeded" THEN 1 ELSE 0
                       /\ op'[j].told = IF PhaseOf(op[j])' = "failed" THEN 1 ELSE 0
  <2> SUFFICES ASSUME NEW j \in Jobs
               PROVE  /\ op'[j].applied = IF PhaseOf(op[j])' = "succeeded" THEN 1 ELSE 0
                      /\ op'[j].told = IF PhaseOf(op[j])' = "failed" THEN 1 ELSE 0
    OBVIOUS
  <2>1. CASE j \in ended BY <1>4, <1>5, <1>6, <1>8, <1>9, <2>1
  <2>2. CASE j \notin ended BY <1>5, <1>6, <1>8, <1>9, <2>2
  <2> QED BY <2>1, <2>2
<1>11. \A j \in Jobs : PhaseOf(op[j])' # "open" => op'[j].locks = {}
  BY <1>6, <1>7, <1>9
<1>12. \A i, j \in Jobs : i # j => op'[i].locks \cap op'[j].locks = {}
  BY <1>3, <1>5, <1>7, <1>9
<1> QED BY <1>10, <1>11, <1>12 DEF Contract!Promise

(* No two jobs hold one generation's key, none holds it when it is over,    *)
(* and the content domain is told of an end once, whichever of cancel,      *)
(* claim, sweep, finish or failure came first.                              *)
THEOREM PromiseIsKept == Spec => []Contract!Promise
<1>1. Contract!Init => Contract!Promise BY DEF Contract!Init, Contract!Promise
<1>2. Contract!Promise /\ [Contract!TransactNext]_(Contract!vars) => Contract!Promise'
  <2>1. Contract!Promise /\ UNCHANGED Contract!vars => Contract!Promise'
    BY DEF Contract!vars, Contract!Promise
  <2> QED BY <2>1, TransactKeeps
<1> QED BY <1>1, <1>2, ContractIsImplemented, PTL DEF ImplementsContract, Contract!TransactSpec
=============================================================================
