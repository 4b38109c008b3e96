-------------------------- MODULE OperationKernel --------------------------
(***************************************************************************)
(* The operation contract of apps/server/src/common/operation: the rows of *)
(* one organization, the callers that begin, prepare, claim, write and     *)
(* finish operations, and the clock.                                       *)
(*                                                                         *)
(* Every action is one database transaction that commits.  A transaction   *)
(* locks the rows it decides about and re-reads them under the lock, so it *)
(* takes effect at one point; only its `now` is older, by a lag of up to   *)
(* MaxLag ticks.  A transaction that throws rolls back and is no step.     *)
(***************************************************************************)
EXTENDS OperationRow

CONSTANTS
  Ops,              \* operation ids
  ReconcilingKinds, \* kinds whose owner sets `reconciles`
  WorkerKinds,      \* kinds some worker keeps claiming
  Attempts,         \* values of maxAttempts a prepare may ask for
  Delays,           \* scheduledFor and retryAfterMs, in ticks
  MaxLag,           \* bound on how old a transaction's `now` can be
  ExpiryBatch       \* EXPIRY_BATCH

ASSUME KernelAssumption ==
  /\ MaxLag \in Nat
  /\ Attempts \subseteq Nat \ {0}
  /\ Delays \subseteq Nat
  /\ WorkerKinds \subseteq Kinds /\ ReconcilingKinds \subseteq Kinds

VARIABLES
  op,      \* the operation rows
  grants   \* tokens some caller still remembers, with the attempt they were issued
           \* for and their age: a write cannot have started before it had its token

vars == <<op, grants>>

Lags  == 0 .. MaxLag
Grant == [token : Nat, attempt : Nat, age : Lags]

Init ==
  /\ op = [o \in Ops |-> Blank]
  /\ grants = [o \in Ops |-> {}]

GrantOf(row) == [token |-> row.token, attempt |-> row.attempts, age |-> 0]
OpKind(o) == KindOf[op[o].request]
Used == {o \in Ops : op[o].status # "absent"}

\* Mutants: finished runs are not looked at; only an identical lock set counts.
WithIdemLive(kind, k) ==
  {p \in Used : /\ k # None /\ op[p].idem = k /\ OpKind(p) = kind
                /\ op[p].status \in Live}
WithFileLive(kind, f) ==
  {p \in Used : /\ f # None /\ op[p].file = f /\ OpKind(p) = kind
                /\ op[p].status \in Live}
HoldersOfSame(keys) == {p \in Used : op[p].locks = keys /\ keys # {}}

WithIdem(kind, k) == {p \in Used : k # None /\ op[p].idem = k /\ OpKind(p) = kind}
WithFile(kind, f) == {p \in Used : f # None /\ op[p].file = f /\ OpKind(p) = kind}
HoldersOf(keys)   == {p \in Used : op[p].locks \cap keys # {}}

(***************************************************************************)
(* begin and prepare                                                       *)
(***************************************************************************)

(* Every run that stands in the way is judged under its row lock; the      *)
(* start goes through only if all of them are over by then.                *)
AllOver(others, lag) == \A p \in others : ExpireIfDue(op[p], lag).status \in Terminal

Begin(o, r, k, lag) ==
  LET previous == WithFile(KindOf[r], FileOf[r])
      holders  == HoldersOf(KeysOf[r])
  IN  /\ op[o].status = "absent"
      /\ WithIdem(KindOf[r], k) = {}
      /\ AllOver(previous \cup holders, lag)
      /\ \A p \in previous : op[p].status # "succeeded"
      /\ op' = [p \in Ops |->
                  IF p = o THEN BegunRow(r, k, lag)
                  ELSE IF p \in previous THEN [ExpireIfDue(op[p], lag) EXCEPT !.file = None]
                  ELSE IF p \in holders THEN ExpireIfDue(op[p], lag)
                  ELSE op[p]]
      /\ grants' = [grants EXCEPT ![o] = {GrantOf(op'[o])}]

Prepare(o, r, k, max, due, lag) ==
  LET holders == HoldersOf(KeysOf[r])
  IN  /\ op[o].status = "absent"
      /\ FileOf[r] = None
      /\ WithIdem(KindOf[r], k) = {}
      /\ AllOver(holders, lag)
      /\ op' = [p \in Ops |->
                  IF p = o THEN PreparedRow(r, k, max, IF due = None THEN -MaxLag ELSE due)
                  ELSE IF p \in holders THEN ExpireIfDue(op[p], lag) ELSE op[p]]
      /\ UNCHANGED grants

(* The same request under the same idempotency key gets the same run back, *)
(* begin with the run's token.                                             *)
BeginAgain(o, r, k, lag) ==
  /\ o \in WithIdem(KindOf[r], k)
  /\ op[o].request = r
  /\ op' = [op EXCEPT ![o] = ExpireIfDue(@, lag)]
  /\ grants' = [grants EXCEPT ![o] = @ \cup {GrantOf(op'[o])}]

(***************************************************************************)
(* claim                                                                   *)
(***************************************************************************)

Exhausted(kinds, lag) ==
  {o \in Used : /\ OpKind(o) \in kinds
                /\ op[o].status = "executing"
                /\ TimeIsUp(op[o], lag)
                /\ ~Retryable(op[o])}

\* Mutants: a lease still running does not protect; an expired one is never
\* taken over.
ClaimableUnexpired(kinds, lag) ==
  {o \in Used : /\ OpKind(o) \in kinds
                /\ Retryable(op[o])
                /\ \/ op[o].status = "prepared" /\ TimeIsUp(op[o], lag)
                   \/ op[o].status = "executing"}
ClaimablePreparedOnly(kinds, lag) ==
  {o \in Used : /\ OpKind(o) \in kinds
                /\ Retryable(op[o])
                /\ op[o].status = "prepared" /\ TimeIsUp(op[o], lag)}

Claimable(kinds, lag) ==
  {o \in Used : /\ OpKind(o) \in kinds
                /\ Retryable(op[o])
                /\ op[o].status \in {"prepared", "executing"} /\ TimeIsUp(op[o], lag)}

(* The first ExpiryBatch exhausted rows in lease order. *)
IsExpiryBatch(batch, all) ==
  /\ Cardinality(batch) <= ExpiryBatch
  /\ batch # all => Cardinality(batch) = ExpiryBatch
  /\ \A b \in batch, a \in all \ batch : op[b].at <= op[a].at

(* SKIP LOCKED passes over the rows other transactions hold at the moment. *)
(* ORDER BY only chooses among the claimable rows; any of them may be it.  *)
Claim(kinds, skipped, lag) ==
  \E batch \in SUBSET (Exhausted(kinds, lag) \ skipped) :
    /\ IsExpiryBatch(batch, Exhausted(kinds, lag) \ skipped)
    /\ \/ \E o \in Claimable(kinds, lag) \ skipped :
            /\ op' = [p \in Ops |-> IF p = o THEN Claimed(op[p], lag)
                                    ELSE IF p \in batch THEN ExpireIfDue(op[p], lag)
                                    ELSE op[p]]
            /\ grants' = [grants EXCEPT ![o] = @ \cup {GrantOf(op'[o])}]
       \/ /\ Claimable(kinds, lag) \ skipped = {}
          /\ op' = [p \in Ops |-> IF p \in batch THEN ExpireIfDue(op[p], lag) ELSE op[p]]
          /\ UNCHANGED grants

(***************************************************************************)
(* writes that carry a token: chunk and finish                             *)
(***************************************************************************)

PutChunk(o, g, s, sum, progress, lag) ==
  /\ FenceAdmits(op[o], g.token, lag)
  /\ ChunkVerdict(op[o], s, sum) \in {"store", "idempotent", "extend_only"}
  /\ op' = [op EXCEPT ![o] = WithChunk(@, s, sum, g.attempt, progress, lag)]
  /\ UNCHANGED grants

FinishFailed(o, g, retryAfter, lag) ==
  /\ FenceAdmits(op[o], g.token, lag)
  /\ op' = [op EXCEPT ![o] = IF retryAfter # None /\ Retryable(@)
                             THEN Reschedule(@, retryAfter - lag, TRUE)
                             ELSE CloseFailed(@)]
  /\ UNCHANGED grants

FinishReconciling(o, g, lag) ==
  /\ FenceAdmits(op[o], g.token, lag)
  /\ OpKind(o) \in ReconcilingKinds
  /\ op' = [op EXCEPT ![o] = Held(@)]
  /\ UNCHANGED grants

FinishSucceeded(o, g, lag) ==
  /\ FenceAdmits(op[o], g.token, lag)
  /\ op' = [op EXCEPT ![o] = FinalizeAndClose(@)]
  /\ UNCHANGED grants

(* A chunk or finish that comes after the lease ran out expires the row,   *)
(* commits that, and is rejected.                                          *)
RejectExpired(o, g, lag) ==
  /\ FenceExpires(op[o], g.token, lag)
  /\ op' = [op EXCEPT ![o] = ExpireIfDue(@, lag)]
  /\ UNCHANGED grants

(***************************************************************************)
(* writes without a token                                                  *)
(***************************************************************************)

Resolve(o, outcome) ==
  /\ op[o].status = "reconciling"
  /\ op' = [op EXCEPT ![o] = IF outcome = "failed" THEN CloseFailed(@)
                             ELSE FinalizeAndClose(@)]
  /\ UNCHANGED grants

\* Mutant: cancels whatever it finds.
CancelAnything(o, lag) ==
  /\ op[o].status # "absent"
  /\ op' = [op EXCEPT ![o] = Close(ExpireIfDue(@, lag), "cancelled")]
  /\ UNCHANGED grants
Cancel(o, lag) ==
  LET current == ExpireIfDue(op[o], lag)
  IN  /\ op[o].status # "absent"
      /\ op' = [op EXCEPT ![o] = IF current.status \in Terminal THEN current
                                 ELSE Close(current, "cancelled")]
      /\ UNCHANGED grants

(* list, get, findLive and a repeated prepare: a row they show is expired  *)
(* first if it is due.                                                     *)
Observe(o, lag) ==
  /\ op[o].status # "absent"
  /\ op' = [op EXCEPT ![o] = ExpireIfDue(@, lag)]
  /\ UNCHANGED grants

(***************************************************************************)
(* the environment                                                         *)
(***************************************************************************)

(* A caller crashed, gave up, or never got the answer that carried a token. *)
Forget(o, g) ==
  /\ grants' = [grants EXCEPT ![o] = @ \ {g}]
  /\ UNCHANGED op

(* Comparisons with the clock cannot tell times before -MaxLag apart. *)
Aged(t) == IF t > -MaxLag THEN t - 1 ELSE t

Tick ==
  /\ op' = [o \in Ops |->
              IF op[o].status \in {"prepared", "executing"}
              THEN [op[o] EXCEPT !.at = Aged(@)] ELSE op[o]]
  /\ grants' = [o \in Ops |-> {[g EXCEPT !.age = IF @ < MaxLag THEN @ + 1 ELSE @] : g \in grants[o]}]

Fenced(o, g) ==
  \E lag \in 0 .. g.age :
    \/ \E s \in Slots, sum \in Sums, p \in Progress \cup {None} : PutChunk(o, g, s, sum, p, lag)
    \/ \E retryAfter \in Delays \cup {None} : FinishFailed(o, g, retryAfter, lag)
    \/ FinishReconciling(o, g, lag)
    \/ FinishSucceeded(o, g, lag)
    \/ RejectExpired(o, g, lag)

Next ==
  \/ \E o \in Ops, r \in Requests, k \in IdemKeys \cup {None}, lag \in Lags :
       \/ Begin(o, r, k, lag)
       \/ BeginAgain(o, r, k, lag)
       \/ \E max \in Attempts, due \in Delays \cup {None} : Prepare(o, r, k, max, due, lag)
  \/ \E kinds \in SUBSET Kinds, skipped \in SUBSET Ops, lag \in Lags : Claim(kinds, skipped, lag)
  \/ \E o \in Ops : \E g \in grants[o] : Fenced(o, g) \/ Forget(o, g)
  \/ \E o \in Ops, outcome \in {"failed", "succeeded"} : Resolve(o, outcome)
  \/ \E o \in Ops, lag \in Lags : Cancel(o, lag) \/ Observe(o, lag)
  \/ Tick

Spec == Init /\ [][Next]_vars

(* Workers poll for the kinds they run (claim timers of the AI job worker  *)
(* and of the extension), and time passes.                                 *)
FairSpec == Spec /\ WF_vars(Tick) /\ WF_vars(Claim(WorkerKinds, {}, 0))

----------------------------------------------------------------------------
(* Type of the state. *)
TypeOK ==
  /\ op \in [Ops -> Row]
  /\ grants \in [Ops -> SUBSET Grant]

(* A run holds all the lock keys of its request while it is prepared,      *)
(* executing or reconciling - through every retry and lease expiry - and   *)
(* none of them once it is over.                                           *)
LocksHeldWhileLive ==
  \A o \in Ops : op[o].locks = IF op[o].status \in Live THEN KeysOf[op[o].request] ELSE {}

(* Two runs never hold the same lock key, whatever their kinds.            *)
LockExclusion ==
  \A o, p \in Ops : o # p => op[o].locks \cap op[p].locks = {}

(* The owner's ledger is written exactly once for a run that succeeded and *)
(* its failure hook runs exactly once for a run that failed, whoever       *)
(* noticed: the holder, a late writer, a reader, a claim or a later begin. *)
OwnerToldOnce ==
  \A o \in Ops :
    /\ op[o].applied = IF op[o].status = "succeeded" THEN 1 ELSE 0
    /\ op[o].told = IF op[o].status = "failed" THEN 1 ELSE 0

(* What finalize would read never contains a chunk of an attempt whose     *)
(* holder declared it failed, and a run that is over stages nothing.       *)
StagingIsOfThisTry ==
  \A o \in Ops, s \in Slots : op[o].chunks[s] # None =>
    /\ op[o].status \in Live
    /\ op[o].declared < op[o].chunks[s].attempt
    /\ op[o].chunks[s].attempt <= op[o].attempts

(* A run is claimed at most max_attempts times. *)
AttemptsWithinMax == \A o \in Ops : op[o].attempts <= op[o].max

(* One idempotency key of a kind names one run for good. *)
OneRunPerIdempotencyKey ==
  \A o, p \in Used :
    (OpKind(o) = OpKind(p) /\ op[o].idem # None /\ op[o].idem = op[p].idem) => o = p

(* One file is applied by at most one run of a kind. *)
FileAppliedOnce ==
  LET Applied(f) == {o \in Used : op[o].status = "succeeded" /\ FileOf[op[o].request] = f}
  IN  \A f \in {FileOf[r] : r \in Requests} \ {None} :
        \A o, p \in Applied(f) : OpKind(o) = OpKind(p) => o = p

(* A caller left over from an earlier attempt can no longer change the run *)
(* by any write that carries its token.                                    *)
FencedOut ==
  [][\A o \in Ops : \A g \in grants[o] :
       g.attempt < op[o].attempts /\ Fenced(o, g) => op' = op]_vars

(* A staged chunk is never replaced and never lost while the run goes on,  *)
(* not by lease expiry and not by a new claim; only the holder's own       *)
(* failed finish discards it.                                              *)
StagingKept ==
  [][\A o \in Ops, s \in Slots : op[o].chunks[s] # None =>
       \/ op'[o].chunks[s] = op[o].chunks[s]
       \/ op'[o].status \in Terminal
       \/ op'[o].declared = op[o].attempts]_vars

(* A run that is over is never reopened, retried, cancelled or told about  *)
(* again; at most its file hash is released for a new start.               *)
TerminalIsFinal ==
  [][\A o \in Ops : op[o].status \in Terminal =>
       op'[o] = [op[o] EXCEPT !.file = op'[o].file]]_vars

(* Before the lease has run out only the holder of the token and a cancel  *)
(* can take an executing run out of the holder's hands.                    *)
LeaseProtectsHolder ==
  [][\A o \in Ops :
       (/\ op[o].status = "executing" /\ op[o].at > 0
        /\ op'[o].token # op[o].token \/ op'[o].status # "executing")
       => \/ op'[o].status = "cancelled"
          \/ \E g \in grants[o] : g.token = op[o].token /\ Fenced(o, g)]_vars

(* The rows implement the contract the owners rely on. *)
PhaseOf(row) ==
  CASE row.status = "absent" -> "none"
    [] row.status \in Live -> "open"
    [] OTHER -> row.status

Contract ==
  INSTANCE OperationContract WITH
    phase  <- [o \in Ops |-> PhaseOf(op[o])],
    holds  <- [o \in Ops |-> op[o].locks],
    ledger <- [o \in Ops |-> [applied |-> op[o].applied, told |-> op[o].told]]

ImplementsContract == Contract!Spec

(* Work of a polled kind that nobody holds - prepared, or executing with   *)
(* its holder gone - does not stay that way: it is claimed again or ended. *)
Orphaned(o) ==
  /\ op[o].status \in {"prepared", "executing"}
  /\ OpKind(o) \in WorkerKinds
  /\ op[o].status = "executing" => \A g \in grants[o] : g.token # op[o].token

OrphansRecovered == \A o \in Ops : Orphaned(o) ~> ~Orphaned(o)

============================================================================
