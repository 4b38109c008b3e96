# KidItem: models, checks and proofs

KidItem is a back office for an online seller: a NestJS API on PostgreSQL
(`apps/server`), a web application, a browser extension that works the malls'
own pages, a desktop gateway that runs AI agents, and workers inside the API.
Its hard part is not computation. It is that people, agents, a browser and
outside providers all change the same ledgers, each may stop at any moment, and
an outside effect (an order placed, a product registered, a model paid for)
cannot be rolled back. The modules here model the five protocols the code uses
against that, check them with TLC on small instances and prove their safety with
TLAPS for every instance.

## 1. Inventory

### Modelled

**Operation kernel** (`common/operation`). One row per run of anything long:
status, a fence token, attempts, a lease, lock keys, an idempotency key, a file
hash, staged chunks.
*Operations*: `begin` (the caller runs it at once), `prepare` (a worker claims
it), `claim`, `putChunk`, `finish` (succeeded, failed with or without retry,
reconciling), `resolve` (an operator's answer to a reconciling run), `cancel`,
and reads, which close what has lapsed.
*Interactions*: every domain gives the kernel an owner; `finalize` and
`onFailed` run inside the transaction that closes the row.
*Hard*: transactions interleave, `now` is read before the row lock is waited
for, holders outlive their lease, answers are lost and requests repeated,
whoever comes first notices a lapsed lease.
*Correct when*: locks exclude; the owner is told exactly once how a run ended;
an old token changes nothing; staged work survives a dead holder but not an
attempt that declared itself failed; a file is applied once; an ended run stays
ended; work does not stay without a holder.

**AI generation jobs** (`content`). Generation records (thumbnails, detail
pages), image edits, and a job of the kernel for each; workers that claim the
job, look at the record, call a model, save the result, then project it.
*Hard*: the record and the job belong to two contexts; a worker can crash, lose
its lease, be timed out or miss an answer between any two transactions while
the user cancels, deletes or re-edits.
*Correct when*: record and job end together, an ended record is not written by
a latecomer, a saved result is not paid for twice, everything ends.

**Purchase-order submission** (`supply`). An order, one attempt row per
idempotency key, and an outside checkout that is asked between two
transactions.
*Hard*: two callers, two keys, timeouts whose request still arrives, an API that
dies with the question open, an order that is deleted or confirmed by hand.
*Correct when*: the supplier takes the order at most once, what it took is never
forgotten, and an interrupted attempt reaches the operator.

**Capability invocations** (`agent-os`). Mutations asked for by agents: a
receipt per request key, the user's approval within a window, a dispatcher in
memory, a sweep at bootstrap.
*Hard*: approval races rejection, expiry, replays and the sweep; the owner may
have committed although its answer is lost; a deploy changes what needs approval.
*Correct when*: nothing runs unapproved, the receipt is true, one flight at a
time calls the owner, an approval survives a restart.

**Turns of agents** (`agent-os` and `apps/agent-gateway`). A conversation with an
agent runs in the desktop gateway, behind a firewall: the API queues commands
(start, interrupt, delete), the gateway polls for them, hands them to a provider
(Claude, Codex), and posts batches of events. The API keeps it all in memory: the
queue, the answers it waits for, the stream and the tool authority of each live
turn, the cursor of events. The gateway keeps its active turns, the commands it
has applied, and an outbox of events not yet accepted, in memory as well.
*Hard*: either side may die and come back knowing nothing; commands are repeated
until acknowledged, batches until accepted; a request is given up after thirty
seconds while its command is queued or running; a poll may be held while another
gateway takes over; a turn is stopped while it starts.
*Correct when*: the maps of the API agree; a turn runs at most once and alone in
its conversation; what the API waits for will be answered; what it has forgotten
is stopped before anything new is started; events arrive once and in order.

How they meet: AI jobs are rows of the operation kernel, so `AiDirectJob` is
built from the same row operators (`OperationRow`) as `OperationKernel`. The
purchase-order submission is one of the owners a capability invocation calls:
`OwnerCommits` there stands for the transactions modelled in `PurchaseOrder`.

### Not modelled (yet)

`PROJECT.json` names the sources and the reason of every component. In short:

| component | state | operations | what is hard | what must hold |
|---|---|---|---|---|
| CopilotKit runner, message log | threads, messages, run log on SQLite | append, resume, replay | a stream that ends without its terminal | a thread is readable after any stop |
| extension runtime | one run at a time, tab leases, heartbeats | run, runClaimed, chain to the next run | a cancel between chunks; fence lost while a page is open | tabs are released, nothing is written after the fence is lost |
| channel registration | targets, listings, frozen payloads | plan, finalize, confirm, close | submitted but unread: the run waits in `reconciling` | one live registration per target and listing |
| orders | collected orders, transfers, tracking uploads | collect, transfer, confirm, close | as registration, with an uploaded file applied once | a transfer is not sent twice |
| products | source snapshots, publication | publish, correct bindings | a publication races readers that checked freshness | one published generation |
| sourcing | source records, decision batches, collections | begin/complete/fail, admit, decide | same-day duplicates, partial collections | a complete result is published once |
| advertising, analytics, finance, inventory, other supply | ledgers | collections, single transactions | little beyond the kernel's contract | (kernel) |
| auth, organizations, readiness, alerts, todo, uploads, feature gate | rows | single transactions | - | - |
| web, Python agents, page scripts, templates, job runner, labeller, scripts | - | user interface, I/O, tooling | pages and processes outside the repository | - |

## 2. Plan

1. `OperationRow`, `OperationKernel`, `OperationContract`: the core everything
   else stands on. *Done, proved, refinement proved.*
2. `AiDirectJob` on `OperationRow`, against `OperationTransactions`. *Done,
   safety proved, refinement proved* (records and jobs end together for the
   generations nobody re-edits, as the findings require).
3. `PurchaseOrder`, against `PurchaseContract`. *Done, safety proved,
   refinement proved.*
4. `CapabilityInvocation`, against `MutationContract`. *Done, safety proved,
   refinement proved.* Left: compose it with `PurchaseOrder` by the two
   contracts (an invocation whose attempt the operator reconciled as
   failed has no path to a known failure today).
5. `GatewayWire`, `GatewayControl` (API) and `AgentGateway` (native), composed in
   `GatewayPlane` over a lossy connection between two sides that restart, against
   `TurnContract`. *Done, safety proved, refinement proved.* Left: a
   second conversation in the checked instance; sizes of answers.
6. Owners that reconcile: channel registration and order transfer, on
   `OperationRow`, with the operator's answer.
7. The extension runtime as the client of the kernel; then the message log,
   product publication, sourcing decision batches, the labeller.

Runs stay small enough to finish in minutes; the three violation runs of
`AiDirectJob` take less than a second each.

## 3. The modules

| module | models | composed from |
|---|---|---|
| `OperationRow` | what one transaction does to one row: lease test, claim, hold, fence, chunk write, close with finalize/onFailed, reschedule, expire | - |
| `OperationKernel` | `OperationService`: begin, prepare, claim, putChunk, finish, resolve, cancel, reads over all rows, locks and tokens | extends `OperationRow` |
| `OperationContract` | abstract: open with keys or not at all, end once, ledger told in the same step | refined by `OperationKernel` |
| `OperationTransactions` | abstract: what the operation contract leaves of an owner that makes several calls in one transaction | extends `OperationContract`; refined by `AiDirectJob` |
| `AiDirectJob` | jobs, records, workers and users of `content` | extends `OperationRow` |
| `PurchaseContract` | abstract: one try at a time, asked once while it is open, ended as the supplier's books say | refined by `PurchaseOrder` |
| `MutationContract` | abstract: one request per key, one effect, only when allowed, answers final and true | refined by `CapabilityInvocation` |
| `PurchaseOrder` | `PurchaseOrderSubmissionService`, its transactions and checkout adapter, reconciliation, status changes, delete | - |
| `CapabilityInvocation` | invocation, approval, dispatcher, sweep | - |
| `GatewayWire` | the commands and events, and the request and the batch in flight | - |
| `GatewayControl` | the API's side: command queue, response broker, turn registry, event handler, conversation service, poll and event endpoints | extends `GatewayWire` |
| `AgentGateway` | the gateway's side: session loop, dispatcher, outbox, active turns, end of the process | extends `GatewayWire` |
| `GatewayPlane` | both, and their properties | extends `GatewayControl`, `AgentGateway` |
| `TurnContract` | abstract: what the API says of a turn and what its provider does | refined by `GatewayPlane` |
| `MCOperationKernel`, `MCAiDirectJob`, `MCGatewayPlane` | the instances for TLC | the module they are named after |
| `OperationRowProofs`, `OperationKernelProofs`, `OperationContractProofs`, `AiDirectJobProofs`, `PurchaseOrderProofs`, `CapabilityInvocationProofs`, `GatewayPlaneProofs` | theorems and lemmas | the module they are named after |
| `GatewaySessionProofs` | theorems and lemmas on the session between gateway and API; `GatewayPlaneProofs` builds on it | `GatewayPlane` |

**State.** `op[o]` is the `operations` row with its chunks; `locks` are the rows of
the lock table; `at` is `lease_expires_at` (or `scheduled_for`) relative to now,
so the clock is `Tick` counting every `at` down and no absolute time is kept.
`grants[o]` are the tokens some caller remembers; `Forget` is that caller's
crash. `applied`, `told`, `declared` are history: how often `finalize` and
`onFailed` ran, and the last attempt that failed itself. `gen` is the generation
record, `worker[w]` the local variables of `AiDirectJobWorkerService.tick`,
`caller` how far a request of two transactions got. In `PurchaseOrder`,
`attempt[k]` is the row of an idempotency key, `call[c]` the local variables of
one `submit`, `supplier` and `asked` the outside world. In
`CapabilityInvocation`, `row[k]` is the receipt, `inFlight` the dispatcher's map,
`effect` whether the owner committed under its key and `owner` whether it may
still do so: an owner whose answer was lost can commit after nobody waits.
In the gateway modules `queue`, `pending`, `streams`, `authority`, `running`,
`descriptors`, `session`, `cursor` are the maps of the API's classes, lost together in
`ApiCrash`; `phase` is where the session loop awaits, `batch` the commands of
the last poll it has not dispatched, `active`, `applied`, `outbox` the
gateway's maps, `me` its instance; `poll` and `post` are what is on its way. `run[t]`
is the provider's process (`none`, `running`, `stopping`, `over`), outside the
repository. `no[c]` numbers the commands in the order of issue and `since` is the
last number before the API's latest crash (history, to tell commands of one API process
from those of another).

**Steps.** One action is one committed transaction, with every call it makes
that changes state: the owner's hook, the release of locks, the deletion of
chunks. A transaction that throws rolls back and is no step. What code does
between two transactions (an `await` on a provider, a timer) is an action of its
own, so crashes, lost answers and other callers fit in between. `PROJECT.json`
gives the source lines of every definition.

**Assumptions about code outside `src/`.** PostgreSQL: row locks and unique
indexes; a transaction takes effect at one point. The supplier decides on what
it was asked, perhaps after nobody waits. A capability's owner keeps one effect
per owner key, and its proof that nothing was committed also means that nothing
will be. These are marked external.

**Modelling decisions a reader should know.**
- *Clock.* In `OperationKernel` a transaction's `now` is up to `MaxLag` ticks
  older than its commit (it waited for a lock). `AiDirectJob` reads the clock
  with lag 0: lags are the kernel's question.
- *Owner hooks are total.* A hook that always throws blocks its row, and a claim
  that meets it; that is listed as a hazard and excluded by the fairness.
- *Provider calls are shorter than the 15 minutes after which an attempt may be
  reconciled* (default timeout 60 s). The variable that sets the timeout has no
  upper bound; listed as a hazard.
- *The operator answers from the supplier's final books* (`BooksSay`), and a
  purchase typed in by hand is not counted as a supplier order of a key.
- *Gateway: what shares the path of a turn is left out.* Listing, creating,
  renaming and preferences use the same queue, broker and outbox and touch no
  turn. Assistant text is left out; that it may fill a stream or the outbox is
  in `Overflow` and in the loss of an answer. `turnsByCommand` holds what
  the registry's map holds.
- *Gateway: the timing of polls.* A poll is held for at most 25 s and the
  client's own deadline is longer, so a client that gives up first is not
  modelled. The desktop's task restarts a gateway after a minute
  (`apply-deployment.ps1:1746`), so an old instance's poll is not received after
  a newer one's. A process that closes drops its requests.
- *Gateway: the memory of applied commands* (1,024) is larger than what the API
  may have unacknowledged, and is not bounded in the model.
- *Gateway: branches that never run.* `SkipApplied`, and the branches of
  `HandleBatch` for a gap or a repeated batch, never fire: the code defends
  against what `DispatchedOnce` and `EventsInOrder` show cannot happen. Every
  other action of the plane fires in the run.
- *Receipts that needed no approval are not swept* at bootstrap; they are
  carried out when the same request is repeated. The code chooses that, so
  `ApprovedIsCarriedOut` speaks of approvals only.

## 4. What the runs check

| run | instance | distinct states | shows |
|---|---|---|---|
| `kernel_browser` | 3 runs begun by the extension, 2 keys, 1 file, 1 idempotency key, lag 1 | 20,861 | locks, owner told once, idempotency, one application of a file, terminal states |
| `kernel_worker` | 2 prepared runs on one key, 2 attempts, staged chunks, lag 1 | 277,568 | fencing, staging, lease protection |
| `kernel_mixed` | begun and claimed kinds contending for 2 keys, expiry batch smaller than the backlog | ~69,000 | refinement of the contract, begun and claimed, and that orphaned work is recovered |
| `ai_jobs` | one record or image edit, 3 attempts, 2 workers, 1 user | 228,811 | record and job end together, no second payment, everything ends |
| `ai_reedit` | one thumbnail re-edited with 2 jobs, 2 workers | 265,895 | only a re-edit reopens a record; every transaction is one the operation contract allows; every job is closed |
| `purchase_submission` | 2 callers, 2 keys, 2 collections, restarts | 937,511 | one supplier order, nothing accepted is lost, nothing is stuck; refinement of the purchase contract |
| `capability_mutations` | 2 callers, 2 keys, 2 requests, one expiring window, 1 restart | 851,580 | nothing unapproved, true receipts, one flight, approvals carried out; refinement of the mutation contract |
| `gateway_turns` | one conversation, 2 turns, 2 gateway instances, at most 5 user commands, API crashes and gateway starts together | 672,876 | the API's maps agree, no turn is waited for in vain, runs twice or beside another, forgotten ones are stopped first, events in order |

Four more runs expect a violation; they are section 5.

Each property has a mutant: a plausible slip in the code (a dropped guard, a
missing reset, an off-by-one) for which the same run finds a counterexample, so
no property holds merely by the shape of the model.

**Why these bounds are enough to be interesting.** Exclusion, idempotency and
fencing are about two parties; the instances have two parties plus a third
(another run, worker or user) to get in between. Two attempts are the least with
both a retry and a last attempt; three let a saved result survive two failures.
Lease 1 or 2 with lag 1 makes every order of "the lease ran out" and "the
transaction read the clock" possible. Two collections are the least with a stale
one. One restart is the least with something lost; the second would start from
the same kind of state. `SweepLimit` equals the number of keys (100 in the code):
with fewer, receipts whose owner never answers starve later ones, a hazard in
the list.
Two turns of one conversation are the least that may run beside each other, two
gateway instances the least for a takeover. Five inputs allow a turn, an API crash, a
second turn, its stop, and a new gateway, in any order. The limits of the code
(`MaxStreams`, `MaxPending`, `MaxQueued`, `MaxActive`, `MaxBuffered`, `MaxPosted`; 64
to 1,024 there) are scaled to 2 to 4, so that a queue, an outbox and a batch do get full.

**Fairness.**
- Kernel: `WF(Tick)`, time passes, and `WF(Claim(WorkerKinds, {}, 0))`, workers
  poll on a timer and a claim without a candidate still closes exhausted runs.
  No holder is assumed to finish and no reader to look.
- AI jobs: `WF(Tick)` and `WF(Work(w))`: the worker's loop schedules itself
  again after every tick whatever happened, and the provider call is cut off by
  a timeout. Workers may still crash at any step; `CHECK_DEADLOCK FALSE` because
  all jobs may be over.
- Purchase orders: `WF(Proceed(c))`, a request that runs keeps running unless
  the API restarts; `WF(Age(k))`; the supplier eventually decides. Nothing is
  assumed of the operator.
- Capabilities: `WF(Sweep)`, part of the start, and `WF(Run(t))`, a flight goes
  on unless the API restarts. No client is assumed to repeat anything.
- Gateway: what arrives is received, the session loop goes on, an interrupted
  provider ends, a process that closes exits, a crashed API is started again.
  Nothing makes users act, a process fail, a gateway start again, or an answer
  be readable; a run that ends with a gateway that is gone is a run.

## 5. Where the code and its documents disagree

Each is a run in which TLC finds a counterexample to what a document says.

- `ai_reedit_failed` (`ai-direct-job-processor.service.ts:218`): the last failure
  of a re-edit closes its operation and is projected by nobody; the thumbnail
  record stays open without a job.
- `ai_reedit_opened` (`thumbnail-generation.service.ts:178`): the record is reset in
  one transaction and its job prepared in another, while the architecture
  document names one transaction.
- `ai_saved_lost` (`ai-direct-job-worker.service.ts:143`): a saved result whose
  acknowledgement is lost is cleared by the failure that follows and the model
  is called again.
- `gateway_authority` (`gateway-conversation.adapter.ts:144`): when the start of a
  turn is not answered within thirty seconds the adapter closes the turn's
  authority although its provider may run on, while the queue says that only a
  terminal provider event does.

That is why `SavedResultIsNotPaidTwice` says what does hold: a worker that still
holds the job does not call the model while the row says a result is saved.

## 6. What is proved

TLAPS checks the proofs for all values of the constants; assumptions are only
those the modules name.

**Operation kernel** (`OperationRowProofs`, `OperationKernelProofs`; assumes
`RequestAssumption`, `NoneAssumption`, `KernelAssumption`). Type correctness, seven other safety
invariants and four action properties, for any number of runs, kinds, lock
keys, callers, attempts, leases and lags: those the runs check, and two that only
the proof states, that a run holds its keys exactly while it is live
(`LocksHeldWhileLive`) and that none is claimed more often than allowed
(`AttemptsWithinMax`). Most of them are not inductive alone. `IInv` adds
- `RowInv`: what one row looks like between transactions. It ties locks to
  liveness, the owner's counters to the status, every staged chunk to an attempt
  after the last declared failure, the file hash to the request while it counts;
- `GrantInv`: a remembered token is not newer than the row's, and if it is the
  row's current token it was issued for the current attempt. Without it,
  fencing could not be told from luck;
- `LockExclusion`, `FileUnique`, `IdemUnique`: what the unique indexes say.

The proof goes through one relation, `Follows(row, new)`: what any transaction
may make of an existing row. Each write of `OperationRow` is shown once to
follow; a step that creates no row takes all rows to rows that follow
(`RowsFollow`); begin and prepare add one row on keys nobody has (`RowCreated`).
The action properties are consequences of `Follows`.

**Refinement** (`OperationContractProofs`): `Spec => ImplementsContract`. Each
kernel step is an `Open` (with the lapsed holders it ended), an `Expire`, an `End`
or a stutter of the contract, under `phase`, `holds` and `ledger` computed from the
rows. This is what a domain may rely on when it writes an owner. The contract has
no transactions of several calls; `OperationTransactions` has, and
`TransactionsAreAllowed` shows that the kernel's own steps are among them, so both
components speak of one contract (`OneCall`: a step of the one is a transaction of
the other).

Every contract also states, as `Promise`, what its clients build on. A theorem per
component (`PromiseIsKept`, `ContractIsEnough`) derives it, for all but the kernel
from the contract's own steps alone: what the refinements preserve is strong
enough to be worth preserving. The exclusion of AI jobs and that their owner is told once are
proved in no other way.

**Purchase orders** (`PurchaseOrderProofs`; assumes `NoneAssumption`,
`StockAssumption`). All safety properties of the run, for any callers, keys and
collections, and two more: one attempt of an order is open at a time, and an
order is placed on the stock it was checked against (`OneAttemptAtATime`,
`BoughtOnFreshStock`). The invariant relates four records of one purchase: `RowFits` (the
attempt row against the supplier's books and the number of questions), `CallFits`
(what a caller remembers against the row it owns: still prepared, still fresh,
still the latest), `OneOwner` (one caller owns an open attempt). That an attempt
cannot be reconciled under a caller that still waits is exactly what makes
`OneSupplierOrder` inductive. `SucceededIsOrdered` and `BoughtOnFreshStock` are
only proved; the run checks the refinement instead, which contains that a success
places the order, though not who placed it.

*Refinement*: `Spec => ImplementsContract`. A try of `PurchaseContract` is what the
statuses of an attempt come to (`TryOf`: prepared, unknown and failed attempts
are open until somebody knows better). A new intent is `Begin`, the request
`Ask`, a completion `Succeed`, a reconciliation `Succeed` or `Fail`, a number typed
in `PlaceByHand`, the delete `Withdraw`; timeouts, promotions, restarts, refusals,
collections of stock and what a caller remembers are stutters.

**Capability invocations** (`CapabilityInvocationProofs`; assumes
`TasksAssumption`, `KeysAssumption`, `BoundAssumption`). All safety properties of
the run, for any callers, keys, requests and windows. `RowFits` ties a receipt to
the owner's effect (an effect that needed an approval has one; a failure has no
effect), `CallFits` ties a flight to the receipt it works for: from the call of the
owner until it lands, the receipt is pending and, if asked, approved, and the
flight holds its key. `OwnerFits` says the same of an owner that was asked, has
not answered and may yet commit, whether or not a flight still waits. The lemma that matters is `ExpiredFits`: a look at a row
can expire only what nobody decided and no flight relies on, which is why a
lazy expiry by any reader is harmless. `SettledIsFinal` is only proved; the run
checks the refinement instead, which contains that answers, requests and approvals
are final, though not the other fields of a receipt.

*Refinement*: `Spec => ImplementsContract`. A transaction writes one receipt: a new one
is `Admit`, a stored approval `Allow`, a rejection, an expiry, a success or a known
failure `Answer`. The owner's commit is `CarryOut`, whoever still waits for it.
Dispatching, sweeping, joining a flight, replays and restarts are stutters. The
contract's guards are what `RowFits`, `CallFits` and `OwnerFits` say.

**AI generation jobs** (`AiDirectJobProofs`; assumes `RequestAssumption`,
`NoneAssumption`, `JobAssumption`). Type correctness, `SavedResultIsNotPaidTwice`,
`OverStaysOver`, `GenerationEndsWithItsJob` and the refinement, with no hypothesis on
what is requested. The proof goes through
`Moved(old, new, put)`, what a transaction may do to the row of an existing job: each write is
shown once to be such a move, and every step but the insertion of a job moves
every row. On `Moved` stand three invariants, each with one lemma for all steps:
- `HoldInv`, of the workers: tokens are not newer than the row's, two workers with one
  job hold different tokens, and one whose token is current and that has not yet worked
  knows whether a result is saved. The last needs the second: only the holder
  of the current token changes the progress.
- `RecordInv`: no record is deleted before it exists, or an `Open` could revive it.
- `EndInv`, of records and jobs: a record has one generating job at most, opened with
  it; a job is dropped without its record only by somebody who found the
  record over (`ClosesWhatIsOver`, which a worker carries from its preflight
  to the cancel).

A re-edit reopens its record in a transaction of its own, so what
`GenerationEndsWithItsJob` says, it says of the generations no request re-edits,
beside any number of re-edited ones; the runs `ai_reedit_opened` and
`ai_reedit_failed` show that it does not hold of the others.

*Refinement*: `Spec => ImplementsContract`. One transaction of this component may
claim a job and end exhausted ones, or cancel the job of a record and open its
successor; `Moved` says what becomes of each row, `PrepareOpens` that the one inserted
gets keys nobody holds after the cancels, and `MoveMaps` that both together are a
`Transact` of `OperationTransactions`.

**Turns of agents** (`GatewaySessionProofs`, `GatewayPlaneProofs`; assumes
`WireAssumption` and the assumptions of the modules it composes). All five
invariants, `DispatchedOnce` and the refinement, for any number of turns,
conversations and gateway instances and any limits.
- `SessionInv` is about the connection: instances are not used again (`Sessions`);
  what is on its way belongs to the gateway that runs and goes with the phase
  of its loop (`Requests`); the API's cursor and the outbox differ by at most the
  batch in flight (`Counted`), which is `EventsInOrder`; every command has its own
  number (`Numbers`).
- `PlaneInv` is about the turns: what has not been dispatched has not run
  (`Unstarted`), the dispatcher is as far with a start as the provider is, and
  a conversation has one active turn (`Dispatching`); what the outbox says is so
  (`Truthful`); a live turn began (`LiveTurnsBegan`); `Aligned`; a command that was
  dispatched and is still queued has its answer in the outbox, and no poll is
  under way before that is posted (`AnsweredOnce`), which is why no command is
  dispatched again; every stream is accounted for (`Accounted`); commands of one
  API process and turns of a former one are never together (`Separate`).
- Refinement: `StartTurn` is `Ask`; `Launched` is `Begin`; what else the
  gateway and the provider do is `End` or a stutter; an event batch and a
  timeout are `Learn`; a takeover, a lost poll and a crash of the API are
  `Forget`.

**Only model-checked.** Liveness (`OrphansRecovered`, `JobsEnd`, `GenerationsEnd`,
`NothingIsStuck`, `ApprovedIsCarriedOut`, `ForgottenTurnsEnd`): fairness and ENABLED are
beyond the prover. The disagreements are counterexamples.

## 7. Running it

`tlc -config X.cfg M` and `tlapm M.tla` with the pairs listed in `PROJECT.json`.
The passing runs take between half a minute and three minutes with two workers,
the violation runs seconds. Each module of proofs takes up to two minutes.
