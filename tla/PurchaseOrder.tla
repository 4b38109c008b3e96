--------------------------- MODULE PurchaseOrder ---------------------------
(* The submission of one purchase order to the external supplier            *)
(* (apps/server/src/supply): callers of the HTTP route and of the Agent     *)
(* capability race on the order row, each with an idempotency key, and the  *)
(* checkout provider is asked between two transactions, so its answer may   *)
(* be late, lost or ambiguous and the API may stop at any point.  An        *)
(* operator settles what the code cannot.  Every transaction locks the      *)
(* order row, so one order is the unit of the model.                        *)
EXTENDS Naturals, FiniteSets

CONSTANTS
  Callers,     \* requests the API serves at once
  Keys,        \* idempotency keys they arrive with
  None,        \* no key
  MaxStock     \* bound: how many inventory collections are published

ASSUME NoneAssumption == None \notin Keys
ASSUME StockAssumption == MaxStock \in Nat

VARIABLES
  order,       \* status of the purchase_orders row, or "gone"
  placedBy,    \* whose purchase the row shows: a key, "manual", or None
  attempt,     \* the purchase_order_submission_attempts row of each key
  latest,      \* the key of the newest attempt, or None
  stock,       \* generation of the last published inventory collection
  call,        \* what each caller of submit has done and remembers
  supplier,    \* what the supplier did with the request of each key
  asked        \* how often the supplier was asked with each key

vars == <<order, placedBy, attempt, latest, stock, call, supplier, asked>>

NoAttempt == [status |-> "none", outcome |-> "none", gen |-> 0, old |-> FALSE]
Idle == [at |-> "idle", key |-> None, gen |-> 0, manual |-> FALSE, answer |-> "none"]

OrderStatus == {"draft", "pending", "ordered", "shipped", "received", "gone"}
Placed == {"ordered", "shipped", "received"}
Unresolved == {"prepared", "provider_succeeded", "provider_failed", "provider_unknown"}
Attempt == [status : Unresolved \cup {"none", "reconciled"},
            outcome : {"none", "provider_succeeded", "provider_failed"},
            gen : Nat, old : BOOLEAN]
Call == [at : {"idle", "drafted", "gated", "created", "asking", "answered"},
         key : Keys \cup {None}, gen : Nat, manual : BOOLEAN,
         answer : {"none", "accepted", "failed", "unknown"}]

\* A caller that owns the attempt of its key and has not settled it yet.
Owns(c) == call[c].at \in {"created", "asking", "answered"}

Init == /\ order = "draft" /\ placedBy = None
        /\ attempt = [k \in Keys |-> NoAttempt] /\ latest = None
        /\ stock = 0
        /\ call = [c \in Callers |-> Idle]
        /\ supplier = [k \in Keys |-> "none"] /\ asked = [k \in Keys |-> 0]

-----------------------------------------------------------------------------
(* PurchaseOrderSubmissionService.submit, cut at its awaits.                *)

Return(c) == call' = [call EXCEPT ![c] = Idle]
Go(c, where) == call' = [call EXCEPT ![c].at = where]

\* prepareDraft: a draft becomes pending before anything else is looked at.
Submit(c, k, g, m) ==
  /\ call[c].at = "idle"
  /\ order \in {"draft", "pending", "ordered"}
  /\ order' = IF order = "draft" THEN "pending" ELSE order
  /\ call' = [call EXCEPT ![c] =
       [at |-> "drafted", key |-> k, gen |-> g, manual |-> m, answer |-> "none"]]
  /\ UNCHANGED <<placedBy, attempt, latest, stock, supplier, asked>>

Collected(g) == g = stock /\ g > 0

\* The checkout snapshot and requireCollectedStock, each a transaction of its own.
Gate(c) ==
  /\ call[c].at = "drafted"
  /\ IF order # "gone" /\ Collected(call[c].gen) THEN Go(c, "gated") ELSE Return(c)
  /\ UNCHANGED <<order, placedBy, attempt, latest, stock, supplier, asked>>

\* Mutants of Promote: without the window, or never.
PromoteAtOnce(a) == IF a.status = "prepared" THEN [a EXCEPT !.status = "provider_unknown"] ELSE a
PromoteNever(a) == a

\* promoteExpiredPrepared: fifteen minutes on, a prepared intent is unknown.
Promote(a) == IF a.status = "prepared" /\ a.old THEN [a EXCEPT !.status = "provider_unknown"] ELSE a

MayStart(k) ==
  latest # None => /\ attempt[latest].status = "reconciled"
                   /\ attempt[latest].outcome = "provider_failed"
                   /\ latest # k

\* The same transaction reads the collection again, under its lock.
MayPrepare(c) == Collected(call[c].gen) /\ order = "pending"

\* Already ordered (the caller gets the order), or refused: nothing is written.
PrepareRefused(c) ==
  /\ call[c].at = "gated" /\ ~MayPrepare(c)
  /\ Return(c)
  /\ UNCHANGED <<order, placedBy, attempt, latest, stock, supplier, asked>>

\* The caller brings the supplier's order id: the provider is not needed.
PrepareProviderless(c) ==
  /\ call[c].at = "gated" /\ MayPrepare(c) /\ call[c].manual
  /\ order' = "ordered" /\ placedBy' = "manual"
  /\ Return(c)
  /\ UNCHANGED <<attempt, latest, stock, supplier, asked>>

\* The newest attempt stands in the way, and is promoted if its time is over;
\* a key reused with another request is refused before that.
PrepareExisting(c) ==
  /\ call[c].at = "gated" /\ MayPrepare(c) /\ ~call[c].manual
  /\ ~MayStart(call[c].key)
  /\ attempt' = IF latest = call[c].key /\ attempt[latest].gen # call[c].gen
                THEN attempt
                ELSE [attempt EXCEPT ![latest] = Promote(@)]
  /\ Return(c)
  /\ UNCHANGED <<order, placedBy, latest, stock, supplier, asked>>

\* An older attempt already has this key: the unique index refuses the insert.
PrepareDuplicate(c) ==
  /\ call[c].at = "gated" /\ MayPrepare(c) /\ ~call[c].manual
  /\ MayStart(call[c].key) /\ attempt[call[c].key].status # "none"
  /\ Return(c)
  /\ UNCHANGED <<order, placedBy, attempt, latest, stock, supplier, asked>>

\* Mutant of PrepareCreated: no unique index on the key.
PrepareAgain(c) ==
  /\ call[c].at = "gated" /\ MayPrepare(c) /\ ~call[c].manual
  /\ MayStart(call[c].key)
  /\ attempt' = [attempt EXCEPT ![call[c].key] =
       [status |-> "prepared", outcome |-> "none", gen |-> call[c].gen, old |-> FALSE]]
  /\ latest' = call[c].key
  /\ Go(c, "created")
  /\ UNCHANGED <<order, placedBy, stock, supplier, asked>>

PrepareCreated(c) ==
  /\ call[c].at = "gated" /\ MayPrepare(c) /\ ~call[c].manual
  /\ MayStart(call[c].key) /\ attempt[call[c].key].status = "none"
  /\ attempt' = [attempt EXCEPT ![call[c].key] =
       [status |-> "prepared", outcome |-> "none", gen |-> call[c].gen, old |-> FALSE]]
  /\ latest' = call[c].key
  /\ Go(c, "created")
  /\ UNCHANGED <<order, placedBy, stock, supplier, asked>>

\* checkoutRuntime.submit sends the request.
Ask(c) ==
  /\ call[c].at = "created"
  /\ supplier' = [supplier EXCEPT ![call[c].key] = "open"]
  /\ asked' = [asked EXCEPT ![call[c].key] = @ + 1]
  /\ Go(c, "asking")
  /\ UNCHANGED <<order, placedBy, attempt, latest, stock>>

\* No provider is configured: a clear failure, and nothing is sent.
NotConfigured(c) ==
  /\ call[c].at = "created"
  /\ call' = [call EXCEPT ![c].at = "answered", ![c].answer = "failed"]
  /\ UNCHANGED <<order, placedBy, attempt, latest, stock, supplier, asked>>

\* An order id, an HTTP error of any origin, or no usable answer in time.
Answer(c, a) ==
  /\ call[c].at = "asking"
  /\ a = "accepted" => supplier[call[c].key] = "accepted"
  /\ call' = [call EXCEPT ![c].at = "answered", ![c].answer = a]
  /\ UNCHANGED <<order, placedBy, attempt, latest, stock, supplier, asked>>

MayComplete(c) == attempt[call[c].key].status = "prepared" /\ order = "pending"

CompleteSuccess(c) ==
  /\ call[c].at = "answered" /\ call[c].answer = "accepted" /\ MayComplete(c)
  /\ attempt' = [attempt EXCEPT ![call[c].key].status = "provider_succeeded"]
  /\ order' = "ordered" /\ placedBy' = call[c].key
  /\ Return(c)
  /\ UNCHANGED <<latest, stock, supplier, asked>>

\* The transaction refuses, or the database does: the outcome is now unknown.
CompletionFails(c) ==
  /\ call[c].at = "answered" /\ call[c].answer = "accepted"
  /\ call' = [call EXCEPT ![c].answer = "unknown"]
  /\ UNCHANGED <<order, placedBy, attempt, latest, stock, supplier, asked>>

\* Mutant of CompleteAttempt: the answer is stored as it came.
CompleteVerbatim(c) ==
  /\ call[c].at = "answered" /\ call[c].answer \in {"failed", "unknown"}
  /\ attempt' = [attempt EXCEPT ![call[c].key].status = call[c].answer]
  /\ Return(c)
  /\ UNCHANGED <<order, placedBy, latest, stock, supplier, asked>>

\* completeProviderFailure and markProviderUnknown.
CompleteAttempt(c) ==
  /\ call[c].at = "answered" /\ call[c].answer \in {"failed", "unknown"}
  /\ attempt' = IF attempt[call[c].key].status = "prepared"
                THEN [attempt EXCEPT ![call[c].key].status =
                        IF call[c].answer = "failed" THEN "provider_failed"
                                                     ELSE "provider_unknown"]
                ELSE attempt
  /\ Return(c)
  /\ UNCHANGED <<order, placedBy, latest, stock, supplier, asked>>

-----------------------------------------------------------------------------
(* The other operations on the order, the operator and the environment.    *)

\* The operator answers from the supplier's own books, once they are final.
BooksSay(k, outcome) ==
  supplier[k] \in IF outcome = "provider_succeeded" THEN {"accepted"} ELSE {"none", "refused"}

\* Mutant of Reconcile: the order does not follow its attempt.
ReconcileAttemptOnly(outcome) ==
  /\ order # "gone" /\ latest # None
  /\ Promote(attempt[latest]).status \in {"provider_unknown", "provider_failed"}
  /\ BooksSay(latest, outcome)
  /\ attempt' = [attempt EXCEPT ![latest].status = "reconciled", ![latest].outcome = outcome]
  /\ UNCHANGED <<order, placedBy, latest, stock, call, supplier, asked>>

Reconcile(outcome) ==
  /\ order # "gone" /\ latest # None
  /\ Promote(attempt[latest]).status \in {"provider_unknown", "provider_failed"}
  /\ BooksSay(latest, outcome)
  /\ attempt' = [attempt EXCEPT ![latest].status = "reconciled", ![latest].outcome = outcome]
  /\ IF outcome = "provider_succeeded" /\ order = "pending"
     THEN order' = "ordered" /\ placedBy' = latest
     ELSE UNCHANGED <<order, placedBy>>
  /\ UNCHANGED <<latest, stock, call, supplier, asked>>

\* updateStatus leaves "ordered" to a submission.
Follows == [draft |-> "pending", ordered |-> "shipped", shipped |-> "received"]
UpdateStatus ==
  /\ order \in DOMAIN Follows /\ order' = Follows[order]
  /\ UNCHANGED <<placedBy, attempt, latest, stock, call, supplier, asked>>

\* Mutant of Deletable: open attempts are not looked at.
DeletableAnyway == order \in {"draft", "pending"}

Deletable == order \in {"draft", "pending"} /\ \A k \in Keys : attempt[k].status \notin Unresolved

\* The attempts go with the order (onDelete: Cascade).
Delete ==
  /\ Deletable
  /\ order' = "gone" /\ placedBy' = None
  /\ attempt' = [k \in Keys |-> NoAttempt] /\ latest' = None
  /\ UNCHANGED <<stock, call, supplier, asked>>

\* Products publishes a new inventory collection.
Publish ==
  /\ stock < MaxStock /\ stock' = stock + 1
  /\ UNCHANGED <<order, placedBy, attempt, latest, call, supplier, asked>>

\* The supplier decides, whether or not anybody still waits for it.
Decide(k, verdict) ==
  /\ supplier[k] = "open"
  /\ supplier' = [supplier EXCEPT ![k] = verdict]
  /\ UNCHANGED <<order, placedBy, attempt, latest, stock, call, asked>>

\* Fifteen minutes pass; the provider call and its two transactions end well before.
Age(k) ==
  /\ attempt[k].status = "prepared" /\ ~attempt[k].old
  /\ \A c \in Callers : ~(Owns(c) /\ call[c].key = k)
  /\ attempt' = [attempt EXCEPT ![k].old = TRUE]
  /\ UNCHANGED <<order, placedBy, latest, stock, call, supplier, asked>>

\* The API process stops and starts again: what callers remember is lost.
Restart ==
  /\ call' = [c \in Callers |-> Idle]
  /\ UNCHANGED <<order, placedBy, attempt, latest, stock, supplier, asked>>

-----------------------------------------------------------------------------
Prepare(c) == \/ PrepareRefused(c) \/ PrepareProviderless(c) \/ PrepareExisting(c)
              \/ PrepareDuplicate(c) \/ PrepareCreated(c)

Proceed(c) == \/ Gate(c) \/ Prepare(c) \/ Ask(c) \/ NotConfigured(c)
              \/ \E a \in {"accepted", "failed", "unknown"} : Answer(c, a)
              \/ CompleteSuccess(c) \/ CompletionFails(c) \/ CompleteAttempt(c)

Next ==
  \/ \E c \in Callers :
       \/ \E k \in Keys, g \in 1..MaxStock, m \in BOOLEAN : Submit(c, k, g, m)
       \/ Proceed(c)
  \/ \E outcome \in {"provider_succeeded", "provider_failed"} : Reconcile(outcome)
  \/ \E k \in Keys : Age(k) \/ \E verdict \in {"accepted", "refused"} : Decide(k, verdict)
  \/ UpdateStatus \/ Delete \/ Publish \/ Restart

Spec == Init /\ [][Next]_vars

\* A caller runs on, time passes, and a supplier that was asked decides.
FairSpec == /\ Spec
            /\ \A c \in Callers : WF_vars(Proceed(c))
            /\ \A k \in Keys : /\ WF_vars(Age(k))
                               /\ WF_vars(\E v \in {"accepted", "refused"} : Decide(k, v))

-----------------------------------------------------------------------------
TypeOK == /\ order \in OrderStatus /\ placedBy \in Keys \cup {None, "manual"}
          /\ attempt \in [Keys -> Attempt] /\ latest \in Keys \cup {None}
          /\ stock \in 0..MaxStock /\ call \in [Callers -> Call]
          /\ supplier \in [Keys -> {"none", "open", "accepted", "refused"}]
          /\ asked \in [Keys -> Nat]

(* Only the newest attempt of an order may still be open: a new one starts  *)
(* when an operator has recorded that the one before it failed (prepare).   *)
OneAttemptAtATime ==
  \A k \in Keys : attempt[k].status # "none" /\ k # latest =>
    attempt[k].status = "reconciled" /\ attempt[k].outcome = "provider_failed"

(* The supplier is asked at most once with an idempotency key, whatever     *)
(* callers race, retry or are cut off by a restart.                         *)
NoSecondAsk == \A k \in Keys : asked[k] <= 1

(* The supplier never takes the same purchase order twice: the durable      *)
(* intent, the window before it may be reconciled and the operator's answer *)
(* keep two requests from being open together.                              *)
OneSupplierOrder ==
  \A j, k \in Keys : supplier[j] = "accepted" /\ supplier[k] = "accepted" => j = k

(* What the supplier accepted is never forgotten: the order is still there, *)
(* and the attempt that placed it has not been written off.                 *)
AcceptedIsKept ==
  \A k \in Keys : supplier[k] = "accepted" =>
    order # "gone" /\ latest = k /\ attempt[k].outcome # "provider_failed"

(* A purchase that is known to have succeeded is never left pending, where  *)
(* it could be deleted or submitted again, and it carries the number of     *)
(* that purchase unless somebody typed in another.                          *)
SucceededIsOrdered ==
  \A k \in Keys : (attempt[k].status = "provider_succeeded"
                    \/ attempt[k].outcome = "provider_succeeded")
                  => order \in Placed /\ placedBy \in {k, "manual"}

(* An intent is only written while the inventory collection its caller      *)
(* named is still the published one, however long ago the caller read it.   *)
BoughtOnFreshStock ==
  [][\A k \in Keys : attempt[k].status = "none" /\ attempt'[k].status = "prepared"
       => attempt'[k].gen = stock /\ stock > 0]_vars

TryOf(a) ==
  IF a.status = "none" THEN "none"
  ELSE IF a.status = "provider_succeeded" \/ a.outcome = "provider_succeeded" THEN "succeeded"
  ELSE IF a.status = "reconciled" THEN "failed" ELSE "open"
Tries == [k \in Keys |-> TryOf(attempt[k])]
Shown == IF order = "gone" THEN "gone" ELSE IF order \in Placed THEN "placed" ELSE "open"

Contract == INSTANCE PurchaseContract WITH order <- Shown, try <- Tries, books <- supplier

(* Whatever callers, timeouts and restarts do, what the rows and the        *)
(* supplier's books show is a behaviour of the contract: one try at a time, *)
(* asked once while it is open, and ended as the supplier's books say.      *)
ImplementsContract == Contract!Spec

(* An attempt that was interrupted does not stay out of the operator's      *)
(* reach: sooner or later it is settled or can be reconciled.               *)
Reconcilable(k) == \E o \in {"provider_succeeded", "provider_failed"} :
  /\ Promote(attempt[k]).status \in {"provider_unknown", "provider_failed"}
  /\ BooksSay(k, o)
NothingIsStuck ==
  \A k \in Keys : attempt[k].status = "prepared" ~>
    (attempt[k].status \notin Unresolved \ {"provider_succeeded"} \/ Reconcilable(k))
=============================================================================
