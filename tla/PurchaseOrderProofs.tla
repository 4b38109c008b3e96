------------------------ MODULE PurchaseOrderProofs ------------------------
(* What holds of the submission of a purchase order for any callers, keys   *)
(* and collections.  The inductive invariant relates four records of one    *)
(* purchase: the attempt rows, the supplier's books, how often it was asked *)
(* and what each caller remembers.                                          *)
EXTENDS PurchaseOrder, TLAPS

\* The attempt of a key and what the supplier did with it.
RowFits(k) ==
  /\ attempt[k].status = "reconciled" <=> attempt[k].outcome # "none"
  /\ attempt[k].status # "none" /\ k # latest =>
       attempt[k].status = "reconciled" /\ attempt[k].outcome = "provider_failed"
  /\ attempt[k].status = "none" => supplier[k] \in {"none", "refused"}
  /\ attempt[k].status = "none" /\ order # "gone" => supplier[k] = "none" /\ asked[k] = 0
  /\ attempt[k].status # "none" => order # "gone"
  /\ attempt[k].status = "provider_succeeded" \/ attempt[k].outcome = "provider_succeeded"
       => /\ supplier[k] = "accepted" /\ latest = k
          /\ order \in Placed /\ placedBy \in {k, "manual"}
  /\ attempt[k].outcome = "provider_failed" => supplier[k] \in {"none", "refused"}
  /\ asked[k] <= 1 /\ (asked[k] = 0 => supplier[k] = "none")

\* A caller that owns an attempt still has it to itself.
CallFits(c) ==
  /\ call[c].at # "idle" => call[c].key \in Keys
  /\ Owns(c) => /\ attempt[call[c].key].status = "prepared"
                /\ ~attempt[call[c].key].old
                /\ latest = call[c].key
  /\ call[c].at = "created" => asked[call[c].key] = 0
  /\ call[c].at = "answered" /\ call[c].answer = "accepted"
       => supplier[call[c].key] = "accepted"

OneOwner == \A c, d \in Callers : Owns(c) /\ Owns(d) => c = d

IInv == /\ TypeOK
        /\ \A k \in Keys : RowFits(k)
        /\ latest # None => attempt[latest].status # "none"
        /\ \A c \in Callers : CallFits(c)
        /\ OneOwner

-----------------------------------------------------------------------------
\* A function stays in its set when one value is replaced by another of it.
LEMMA Put ==
  ASSUME NEW S, NEW T, NEW f \in [S -> T], NEW x \in S, NEW v \in T
  PROVE  [f EXCEPT ![x] = v] \in [S -> T]
OBVIOUS

(* One lemma per action; in each, one step per part of the invariant.       *)

LEMMA SubmitKeeps ==
  ASSUME IInv, NEW c \in Callers, NEW k \in Keys, NEW g \in 1..MaxStock, NEW m \in BOOLEAN, Submit(c, k, g, m)
  PROVE  IInv'
<1> USE DEF IInv, TypeOK, Attempt, Call, OrderStatus, Placed, Unresolved, NoAttempt, Idle
<1>1. TypeOK'
  BY NoneAssumption, StockAssumption DEF Submit
<1>2. \A j \in Keys : RowFits(j)'
  BY NoneAssumption DEF Submit, RowFits, CallFits, Owns
<1>3. latest' # None => attempt'[latest'].status # "none"
  BY NoneAssumption DEF Submit, RowFits, CallFits, Owns
<1>4. \A b \in Callers : CallFits(b)'
  BY NoneAssumption DEF Submit, RowFits, CallFits, Owns, OneOwner
<1>5. OneOwner'
  BY NoneAssumption DEF Submit, RowFits, CallFits, Owns, OneOwner
<1> QED  BY <1>1, <1>2, <1>3, <1>4, <1>5

LEMMA GateKeeps ==
  ASSUME IInv, NEW c \in Callers, Gate(c)
  PROVE  IInv'
<1> USE DEF IInv, TypeOK, Attempt, Call, OrderStatus, Placed, Unresolved, NoAttempt, Idle
<1>1. TypeOK'
  <2>1. CASE Go(c, "gated")
    BY <2>1, StockAssumption DEF Gate, Go
  <2>2. CASE Return(c)
    BY <2>2, NoneAssumption, StockAssumption DEF Gate, Return
  <2> QED  BY <2>1, <2>2 DEF Gate
<1>2. \A j \in Keys : RowFits(j)'
  BY NoneAssumption DEF Gate, Return, Go, RowFits, CallFits, Owns
<1>3. latest' # None => attempt'[latest'].status # "none"
  BY NoneAssumption DEF Gate, Return, Go, RowFits, CallFits, Owns
<1>4. \A b \in Callers : CallFits(b)'
  BY NoneAssumption DEF Gate, Return, Go, RowFits, CallFits, Owns, OneOwner
<1>5. OneOwner'
  BY NoneAssumption DEF Gate, Return, Go, RowFits, CallFits, Owns, OneOwner
<1> QED  BY <1>1, <1>2, <1>3, <1>4, <1>5

LEMMA PrepareRefusedKeeps ==
  ASSUME IInv, NEW c \in Callers, PrepareRefused(c)
  PROVE  IInv'
<1> USE DEF IInv, TypeOK, Attempt, Call, OrderStatus, Placed, Unresolved, NoAttempt, Idle
<1>1. TypeOK'
  BY NoneAssumption, StockAssumption DEF PrepareRefused, Return
<1>2. \A j \in Keys : RowFits(j)'
  BY NoneAssumption DEF PrepareRefused, Return, RowFits, CallFits, Owns
<1>3. latest' # None => attempt'[latest'].status # "none"
  BY NoneAssumption DEF PrepareRefused, Return, RowFits, CallFits, Owns
<1>4. \A b \in Callers : CallFits(b)'
  BY NoneAssumption DEF PrepareRefused, Return, RowFits, CallFits, Owns, OneOwner
<1>5. OneOwner'
  BY NoneAssumption DEF PrepareRefused, Return, RowFits, CallFits, Owns, OneOwner
<1> QED  BY <1>1, <1>2, <1>3, <1>4, <1>5

LEMMA PrepareProviderlessKeeps ==
  ASSUME IInv, NEW c \in Callers, PrepareProviderless(c)
  PROVE  IInv'
<1> USE DEF IInv, TypeOK, Attempt, Call, OrderStatus, Placed, Unresolved, NoAttempt, Idle
<1>1. TypeOK'
  BY NoneAssumption, StockAssumption DEF PrepareProviderless, MayPrepare, Return
<1>2. \A j \in Keys : RowFits(j)'
  BY NoneAssumption DEF PrepareProviderless, MayPrepare, Return, RowFits, CallFits, Owns
<1>3. latest' # None => attempt'[latest'].status # "none"
  BY NoneAssumption DEF PrepareProviderless, MayPrepare, Return, RowFits, CallFits, Owns
<1>4. \A b \in Callers : CallFits(b)'
  BY NoneAssumption DEF PrepareProviderless, MayPrepare, Return, RowFits, CallFits, Owns, OneOwner
<1>5. OneOwner'
  BY NoneAssumption DEF PrepareProviderless, MayPrepare, Return, RowFits, CallFits, Owns, OneOwner
<1> QED  BY <1>1, <1>2, <1>3, <1>4, <1>5

LEMMA PrepareExistingKeeps ==
  ASSUME IInv, NEW c \in Callers, PrepareExisting(c)
  PROVE  IInv'
<1> USE DEF IInv, TypeOK, Attempt, Call, OrderStatus, Placed, Unresolved, NoAttempt, Idle
<1>1. TypeOK'
  BY NoneAssumption, StockAssumption DEF PrepareExisting, MayStart, Promote, Return
<1>2. \A j \in Keys : RowFits(j)'
  BY NoneAssumption DEF PrepareExisting, MayStart, Promote, Return, RowFits, CallFits, Owns
<1>3. latest' # None => attempt'[latest'].status # "none"
  BY NoneAssumption DEF PrepareExisting, MayStart, Promote, Return, RowFits, CallFits, Owns
<1>4. \A b \in Callers : CallFits(b)'
  BY NoneAssumption DEF PrepareExisting, MayStart, Promote, Return, RowFits, CallFits, Owns, OneOwner
<1>5. OneOwner'
  BY NoneAssumption DEF PrepareExisting, MayStart, Promote, Return, RowFits, CallFits, Owns, OneOwner
<1> QED  BY <1>1, <1>2, <1>3, <1>4, <1>5

LEMMA PrepareDuplicateKeeps ==
  ASSUME IInv, NEW c \in Callers, PrepareDuplicate(c)
  PROVE  IInv'
<1> USE DEF IInv, TypeOK, Attempt, Call, OrderStatus, Placed, Unresolved, NoAttempt, Idle
<1>1. TypeOK'
  BY NoneAssumption, StockAssumption DEF PrepareDuplicate, Return
<1>2. \A j \in Keys : RowFits(j)'
  BY NoneAssumption DEF PrepareDuplicate, Return, RowFits, CallFits, Owns
<1>3. latest' # None => attempt'[latest'].status # "none"
  BY NoneAssumption DEF PrepareDuplicate, Return, RowFits, CallFits, Owns
<1>4. \A b \in Callers : CallFits(b)'
  BY NoneAssumption DEF PrepareDuplicate, Return, RowFits, CallFits, Owns, OneOwner
<1>5. OneOwner'
  BY NoneAssumption DEF PrepareDuplicate, Return, RowFits, CallFits, Owns, OneOwner
<1> QED  BY <1>1, <1>2, <1>3, <1>4, <1>5

LEMMA PrepareCreatedKeeps ==
  ASSUME IInv, NEW c \in Callers, PrepareCreated(c)
  PROVE  IInv'
<1>1. TypeOK'
  <2>1. call[c] \in Call /\ call[c].key \in Keys
    BY DEF IInv, TypeOK, CallFits, PrepareCreated, Call
  <2>2. [call[c] EXCEPT !.at = "created"] \in Call
    BY <2>1 DEF Call
  <2>3. call' \in [Callers -> Call]
    BY <2>2, Put DEF IInv, TypeOK, PrepareCreated, Go
  <2>4. [status |-> "prepared", outcome |-> "none", gen |-> call[c].gen, old |-> FALSE] \in Attempt
    BY <2>1 DEF Attempt, Call, Unresolved
  <2>5. attempt' \in [Keys -> Attempt]
    BY <2>4, Put DEF IInv, TypeOK, PrepareCreated
  <2> QED  BY <2>1, <2>3, <2>5 DEF IInv, TypeOK, PrepareCreated
<1> USE DEF IInv, TypeOK, Attempt, Call, OrderStatus, Placed, Unresolved, NoAttempt, Idle
<1>2. \A j \in Keys : RowFits(j)'
  BY NoneAssumption DEF PrepareCreated, MayPrepare, MayStart, Go, RowFits, CallFits, Owns
<1>3. latest' # None => attempt'[latest'].status # "none"
  BY NoneAssumption DEF PrepareCreated, MayPrepare, MayStart, Go, RowFits, CallFits, Owns
<1>4. \A b \in Callers : CallFits(b)'
  BY NoneAssumption DEF PrepareCreated, MayPrepare, MayStart, Go, RowFits, CallFits, Owns, OneOwner
<1>5. OneOwner'
  BY NoneAssumption DEF PrepareCreated, MayPrepare, MayStart, Go, RowFits, CallFits, Owns, OneOwner
<1> QED  BY <1>1, <1>2, <1>3, <1>4, <1>5

LEMMA AskKeeps ==
  ASSUME IInv, NEW c \in Callers, Ask(c)
  PROVE  IInv'
<1> USE DEF IInv, TypeOK, Attempt, Call, OrderStatus, Placed, Unresolved, NoAttempt, Idle
<1>1. TypeOK'
  <2>1. call[c].key \in Keys
    BY DEF Ask, CallFits
  <2>2. attempt' \in [Keys -> Attempt]
    BY <2>1 DEF Ask
  <2>3. call' \in [Callers -> Call]
    BY <2>1, NoneAssumption DEF Ask, Go
  <2>4. supplier' \in [Keys -> {"none", "open", "accepted", "refused"}] /\ asked' \in [Keys -> Nat]
    BY <2>1 DEF Ask
  <2> QED  BY <2>1, <2>2, <2>3, <2>4 DEF Ask
<1>2. \A j \in Keys : RowFits(j)'
  BY NoneAssumption DEF Ask, Go, RowFits, CallFits, Owns
<1>3. latest' # None => attempt'[latest'].status # "none"
  BY NoneAssumption DEF Ask, Go, RowFits, CallFits, Owns
<1>4. \A b \in Callers : CallFits(b)'
  BY NoneAssumption DEF Ask, Go, RowFits, CallFits, Owns, OneOwner
<1>5. OneOwner'
  BY NoneAssumption DEF Ask, Go, RowFits, CallFits, Owns, OneOwner
<1> QED  BY <1>1, <1>2, <1>3, <1>4, <1>5

LEMMA NotConfiguredKeeps ==
  ASSUME IInv, NEW c \in Callers, NotConfigured(c)
  PROVE  IInv'
<1>1. TypeOK'
  <2>1. call[c] \in Call
    BY DEF IInv, TypeOK
  <2>2. [call[c] EXCEPT !.at = "answered", !.answer = "failed"] \in Call
    BY <2>1 DEF Call
  <2>3. call' = [call EXCEPT ![c] = [call[c] EXCEPT !.at = "answered", !.answer = "failed"]]
    BY DEF NotConfigured
  <2> QED  BY <2>2, <2>3, Put DEF IInv, TypeOK, NotConfigured
<1> USE DEF IInv, TypeOK, Attempt, Call, OrderStatus, Placed, Unresolved, NoAttempt, Idle
<1>2. \A j \in Keys : RowFits(j)'
  BY NoneAssumption DEF NotConfigured, RowFits, CallFits, Owns
<1>3. latest' # None => attempt'[latest'].status # "none"
  BY NoneAssumption DEF NotConfigured, RowFits, CallFits, Owns
<1>4. \A b \in Callers : CallFits(b)'
  BY NoneAssumption DEF NotConfigured, RowFits, CallFits, Owns, OneOwner
<1>5. OneOwner'
  BY NoneAssumption DEF NotConfigured, RowFits, CallFits, Owns, OneOwner
<1> QED  BY <1>1, <1>2, <1>3, <1>4, <1>5

LEMMA AnswerKeeps ==
  ASSUME IInv, NEW c \in Callers, NEW a \in {"accepted", "failed", "unknown"}, Answer(c, a)
  PROVE  IInv'
<1>1. TypeOK'
  <2>1. call[c] \in Call
    BY DEF IInv, TypeOK
  <2>2. [call[c] EXCEPT !.at = "answered", !.answer = a] \in Call
    BY <2>1 DEF Call
  <2>3. call' = [call EXCEPT ![c] = [call[c] EXCEPT !.at = "answered", !.answer = a]]
    BY DEF Answer
  <2> QED  BY <2>2, <2>3, Put DEF IInv, TypeOK, Answer
<1> USE DEF IInv, TypeOK, Attempt, Call, OrderStatus, Placed, Unresolved, NoAttempt, Idle
<1>2. \A j \in Keys : RowFits(j)'
  BY NoneAssumption DEF Answer, RowFits, CallFits, Owns
<1>3. latest' # None => attempt'[latest'].status # "none"
  BY NoneAssumption DEF Answer, RowFits, CallFits, Owns
<1>4. \A b \in Callers : CallFits(b)'
  BY NoneAssumption DEF Answer, RowFits, CallFits, Owns, OneOwner
<1>5. OneOwner'
  BY NoneAssumption DEF Answer, RowFits, CallFits, Owns, OneOwner
<1> QED  BY <1>1, <1>2, <1>3, <1>4, <1>5

LEMMA CompleteSuccessKeeps ==
  ASSUME IInv, NEW c \in Callers, CompleteSuccess(c)
  PROVE  IInv'
<1> USE DEF IInv, TypeOK, Attempt, Call, OrderStatus, Placed, Unresolved, NoAttempt, Idle
<1>1. TypeOK'
  <2>1. call[c].key \in Keys
    BY DEF CompleteSuccess, CallFits
  <2>2. attempt' \in [Keys -> Attempt]
    BY <2>1 DEF CompleteSuccess
  <2>3. call' \in [Callers -> Call]
    BY <2>1, NoneAssumption DEF CompleteSuccess, Return
  <2>4. supplier' \in [Keys -> {"none", "open", "accepted", "refused"}] /\ asked' \in [Keys -> Nat]
    BY <2>1 DEF CompleteSuccess
  <2> QED  BY <2>1, <2>2, <2>3, <2>4 DEF CompleteSuccess
<1>2. \A j \in Keys : RowFits(j)'
  BY NoneAssumption DEF CompleteSuccess, MayComplete, Return, RowFits, CallFits, Owns
<1>3. latest' # None => attempt'[latest'].status # "none"
  BY NoneAssumption DEF CompleteSuccess, MayComplete, Return, RowFits, CallFits, Owns
<1>4. \A b \in Callers : CallFits(b)'
  BY NoneAssumption DEF CompleteSuccess, MayComplete, Return, RowFits, CallFits, Owns, OneOwner
<1>5. OneOwner'
  BY NoneAssumption DEF CompleteSuccess, MayComplete, Return, RowFits, CallFits, Owns, OneOwner
<1> QED  BY <1>1, <1>2, <1>3, <1>4, <1>5

LEMMA CompletionFailsKeeps ==
  ASSUME IInv, NEW c \in Callers, CompletionFails(c)
  PROVE  IInv'
<1> USE DEF IInv, TypeOK, Attempt, Call, OrderStatus, Placed, Unresolved, NoAttempt, Idle
<1>1. TypeOK'
  BY NoneAssumption, StockAssumption DEF CompletionFails
<1>2. \A j \in Keys : RowFits(j)'
  BY NoneAssumption DEF CompletionFails, RowFits, CallFits, Owns
<1>3. latest' # None => attempt'[latest'].status # "none"
  BY NoneAssumption DEF CompletionFails, RowFits, CallFits, Owns
<1>4. \A b \in Callers : CallFits(b)'
  BY NoneAssumption DEF CompletionFails, RowFits, CallFits, Owns, OneOwner
<1>5. OneOwner'
  BY NoneAssumption DEF CompletionFails, RowFits, CallFits, Owns, OneOwner
<1> QED  BY <1>1, <1>2, <1>3, <1>4, <1>5

LEMMA CompleteAttemptKeeps ==
  ASSUME IInv, NEW c \in Callers, CompleteAttempt(c)
  PROVE  IInv'
<1> USE DEF IInv, TypeOK, Attempt, Call, OrderStatus, Placed, Unresolved, NoAttempt, Idle
<1>1. TypeOK'
  <2>1. call[c].key \in Keys
    BY DEF CompleteAttempt, CallFits
  <2>2. attempt' \in [Keys -> Attempt]
    BY <2>1 DEF CompleteAttempt
  <2>3. call' \in [Callers -> Call]
    BY <2>1, NoneAssumption DEF CompleteAttempt, Return
  <2>4. supplier' \in [Keys -> {"none", "open", "accepted", "refused"}] /\ asked' \in [Keys -> Nat]
    BY <2>1 DEF CompleteAttempt
  <2> QED  BY <2>1, <2>2, <2>3, <2>4 DEF CompleteAttempt
<1>2. \A j \in Keys : RowFits(j)'
  BY NoneAssumption DEF CompleteAttempt, Return, RowFits, CallFits, Owns
<1>3. latest' # None => attempt'[latest'].status # "none"
  BY NoneAssumption DEF CompleteAttempt, Return, RowFits, CallFits, Owns
<1>4. \A b \in Callers : CallFits(b)'
  BY NoneAssumption DEF CompleteAttempt, Return, RowFits, CallFits, Owns, OneOwner
<1>5. OneOwner'
  BY NoneAssumption DEF CompleteAttempt, Return, RowFits, CallFits, Owns, OneOwner
<1> QED  BY <1>1, <1>2, <1>3, <1>4, <1>5

LEMMA ReconcileKeeps ==
  ASSUME IInv, NEW outcome \in {"provider_succeeded", "provider_failed"}, Reconcile(outcome)
  PROVE  IInv'
<1> USE DEF IInv, TypeOK, Attempt, Call, OrderStatus, Placed, Unresolved, NoAttempt, Idle
<1>1. TypeOK'
  BY NoneAssumption, StockAssumption DEF Reconcile, Promote, BooksSay
<1>2. \A j \in Keys : RowFits(j)'
  BY NoneAssumption DEF Reconcile, Promote, BooksSay, RowFits, CallFits, Owns
<1>3. latest' # None => attempt'[latest'].status # "none"
  BY NoneAssumption DEF Reconcile, Promote, BooksSay, RowFits, CallFits, Owns
<1>4. \A b \in Callers : CallFits(b)'
  BY NoneAssumption DEF Reconcile, Promote, BooksSay, RowFits, CallFits, Owns, OneOwner
<1>5. OneOwner'
  BY NoneAssumption DEF Reconcile, Promote, BooksSay, RowFits, CallFits, Owns, OneOwner
<1> QED  BY <1>1, <1>2, <1>3, <1>4, <1>5

LEMMA AgeKeeps ==
  ASSUME IInv, NEW k \in Keys, Age(k)
  PROVE  IInv'
<1>1. TypeOK'
  <2>1. [attempt[k] EXCEPT !.old = TRUE] \in Attempt
    BY DEF IInv, TypeOK, Attempt
  <2>2. attempt' = [attempt EXCEPT ![k] = [attempt[k] EXCEPT !.old = TRUE]]
    BY DEF Age
  <2>3. attempt' \in [Keys -> Attempt]
    BY <2>1, <2>2, Put DEF IInv, TypeOK
  <2> QED  BY <2>3 DEF IInv, TypeOK, Age
<1> USE DEF IInv, TypeOK, Attempt, Call, OrderStatus, Placed, Unresolved, NoAttempt, Idle
<1>2. \A j \in Keys : RowFits(j)'
  BY NoneAssumption DEF Age, RowFits, CallFits, Owns
<1>3. latest' # None => attempt'[latest'].status # "none"
  BY NoneAssumption DEF Age, RowFits, CallFits, Owns
<1>4. \A b \in Callers : CallFits(b)'
  BY NoneAssumption DEF Age, RowFits, CallFits, Owns, OneOwner
<1>5. OneOwner'
  BY NoneAssumption DEF Age, RowFits, CallFits, Owns, OneOwner
<1> QED  BY <1>1, <1>2, <1>3, <1>4, <1>5

LEMMA DecideKeeps ==
  ASSUME IInv, NEW k \in Keys, NEW verdict \in {"accepted", "refused"}, Decide(k, verdict)
  PROVE  IInv'
<1> USE DEF IInv, TypeOK, Attempt, Call, OrderStatus, Placed, Unresolved, NoAttempt, Idle
<1>1. TypeOK'
  BY NoneAssumption, StockAssumption DEF Decide
<1>2. \A j \in Keys : RowFits(j)'
  BY NoneAssumption DEF Decide, RowFits, CallFits, Owns
<1>3. latest' # None => attempt'[latest'].status # "none"
  BY NoneAssumption DEF Decide, RowFits, CallFits, Owns
<1>4. \A b \in Callers : CallFits(b)'
  BY NoneAssumption DEF Decide, RowFits, CallFits, Owns, OneOwner
<1>5. OneOwner'
  BY NoneAssumption DEF Decide, RowFits, CallFits, Owns, OneOwner
<1> QED  BY <1>1, <1>2, <1>3, <1>4, <1>5

LEMMA UpdateStatusKeeps ==
  ASSUME IInv, UpdateStatus
  PROVE  IInv'
<1> USE DEF IInv, TypeOK, Attempt, Call, OrderStatus, Placed, Unresolved, NoAttempt, Idle
<1>1. TypeOK'
  BY NoneAssumption, StockAssumption DEF UpdateStatus, Follows
<1>2. \A j \in Keys : RowFits(j)'
  BY NoneAssumption DEF UpdateStatus, Follows, RowFits, CallFits, Owns
<1>3. latest' # None => attempt'[latest'].status # "none"
  BY NoneAssumption DEF UpdateStatus, Follows, RowFits, CallFits, Owns
<1>4. \A b \in Callers : CallFits(b)'
  BY NoneAssumption DEF UpdateStatus, Follows, RowFits, CallFits, Owns, OneOwner
<1>5. OneOwner'
  BY NoneAssumption DEF UpdateStatus, Follows, RowFits, CallFits, Owns, OneOwner
<1> QED  BY <1>1, <1>2, <1>3, <1>4, <1>5

LEMMA DeleteKeeps ==
  ASSUME IInv, Delete
  PROVE  IInv'
<1> USE DEF IInv, TypeOK, Attempt, Call, OrderStatus, Placed, Unresolved, NoAttempt, Idle
<1>1. TypeOK'
  BY NoneAssumption, StockAssumption DEF Delete, Deletable, Unresolved
<1>2. \A j \in Keys : RowFits(j)'
  BY NoneAssumption DEF Delete, Deletable, Unresolved, RowFits, CallFits, Owns
<1>3. latest' # None => attempt'[latest'].status # "none"
  BY NoneAssumption DEF Delete, Deletable, Unresolved, RowFits, CallFits, Owns
<1>4. \A b \in Callers : CallFits(b)'
  BY NoneAssumption DEF Delete, Deletable, Unresolved, RowFits, CallFits, Owns, OneOwner
<1>5. OneOwner'
  BY NoneAssumption DEF Delete, Deletable, Unresolved, RowFits, CallFits, Owns, OneOwner
<1> QED  BY <1>1, <1>2, <1>3, <1>4, <1>5

LEMMA PublishKeeps ==
  ASSUME IInv, Publish
  PROVE  IInv'
<1> USE DEF IInv, TypeOK, Attempt, Call, OrderStatus, Placed, Unresolved, NoAttempt, Idle
<1>1. TypeOK'
  BY NoneAssumption, StockAssumption DEF Publish
<1>2. \A j \in Keys : RowFits(j)'
  BY NoneAssumption DEF Publish, RowFits, CallFits, Owns
<1>3. latest' # None => attempt'[latest'].status # "none"
  BY NoneAssumption DEF Publish, RowFits, CallFits, Owns
<1>4. \A b \in Callers : CallFits(b)'
  BY NoneAssumption DEF Publish, RowFits, CallFits, Owns, OneOwner
<1>5. OneOwner'
  BY NoneAssumption DEF Publish, RowFits, CallFits, Owns, OneOwner
<1> QED  BY <1>1, <1>2, <1>3, <1>4, <1>5

LEMMA RestartKeeps ==
  ASSUME IInv, Restart
  PROVE  IInv'
<1> USE DEF IInv, TypeOK, Attempt, Call, OrderStatus, Placed, Unresolved, NoAttempt, Idle
<1>1. TypeOK'
  BY NoneAssumption, StockAssumption DEF Restart
<1>2. \A j \in Keys : RowFits(j)'
  BY NoneAssumption DEF Restart, RowFits, CallFits, Owns
<1>3. latest' # None => attempt'[latest'].status # "none"
  BY NoneAssumption DEF Restart, RowFits, CallFits, Owns
<1>4. \A b \in Callers : CallFits(b)'
  BY NoneAssumption DEF Restart, RowFits, CallFits, Owns, OneOwner
<1>5. OneOwner'
  BY NoneAssumption DEF Restart, RowFits, CallFits, Owns, OneOwner
<1> QED  BY <1>1, <1>2, <1>3, <1>4, <1>5

-----------------------------------------------------------------------------
LEMMA InitFits == Init => IInv
BY NoneAssumption, StockAssumption
   DEF Init, IInv, TypeOK, Attempt, Call, OrderStatus, Unresolved, NoAttempt, Idle,
       RowFits, CallFits, Owns, OneOwner

LEMMA NextFits == IInv /\ [Next]_vars => IInv'
<1> SUFFICES ASSUME IInv, [Next]_vars  PROVE IInv'
  OBVIOUS
<1>1. CASE UNCHANGED vars
  BY <1>1 DEF vars, IInv, TypeOK, RowFits, CallFits, Owns, OneOwner
<1>2. ASSUME NEW c \in Callers,
             \/ \E k \in Keys, g \in 1..MaxStock, m \in BOOLEAN : Submit(c, k, g, m)
             \/ Proceed(c)
      PROVE  IInv'
  BY <1>2, SubmitKeeps, GateKeeps, PrepareRefusedKeeps, PrepareProviderlessKeeps,
     PrepareExistingKeeps, PrepareDuplicateKeeps, PrepareCreatedKeeps, AskKeeps,
     NotConfiguredKeeps, AnswerKeeps, CompleteSuccessKeeps, CompletionFailsKeeps,
     CompleteAttemptKeeps DEF Proceed, Prepare
<1>3. CASE \E outcome \in {"provider_succeeded", "provider_failed"} : Reconcile(outcome)
  BY <1>3, ReconcileKeeps
<1>4. CASE \E k \in Keys : \/ Age(k)
                         \/ \E verdict \in {"accepted", "refused"} : Decide(k, verdict)
  BY <1>4, AgeKeeps, DecideKeeps
<1>5. CASE UpdateStatus \/ Delete \/ Publish \/ Restart
  BY <1>5, UpdateStatusKeeps, DeleteKeeps, PublishKeeps, RestartKeeps
<1> QED  BY <1>1, <1>2, <1>3, <1>4, <1>5 DEF Next

(* The rows, the supplier's books and what callers remember fit together.   *)
THEOREM Invariant == Spec => []IInv
BY InitFits, NextFits, PTL DEF Spec

(* Every variable keeps its type.                                           *)
THEOREM TypeCorrect == Spec => []TypeOK
BY Invariant, PTL DEF IInv

(* A new attempt starts only after an operator recorded that the one before *)
(* it failed.                                                               *)
THEOREM AttemptsFollowOneAnother == Spec => []OneAttemptAtATime
<1>1. IInv => OneAttemptAtATime
  BY DEF IInv, OneAttemptAtATime, RowFits
<1> QED  BY Invariant, <1>1, PTL

(* The supplier is asked at most once with an idempotency key.              *)
THEOREM SupplierAskedOnce == Spec => []NoSecondAsk
<1>1. IInv => NoSecondAsk
  BY DEF IInv, NoSecondAsk, RowFits
<1> QED  BY Invariant, <1>1, PTL

(* What the supplier accepted belongs to the newest attempt of an order that *)
(* still exists, and that attempt is not written off.                       *)
THEOREM AcceptedPurchaseIsKept == Spec => []AcceptedIsKept
<1>1. IInv => AcceptedIsKept
  BY DEF IInv, TypeOK, Attempt, AcceptedIsKept, RowFits
<1> QED  BY Invariant, <1>1, PTL

(* The supplier takes the purchase order once, for any callers and keys.    *)
THEOREM PurchasedOnce == Spec => []OneSupplierOrder
<1>1. AcceptedIsKept => OneSupplierOrder
  BY DEF AcceptedIsKept, OneSupplierOrder
<1> QED  BY AcceptedPurchaseIsKept, <1>1, PTL

(* A purchase known to have succeeded is ordered, under its own number or   *)
(* one that was typed in.                                                   *)
THEOREM SucceededPurchaseIsOrdered == Spec => []SucceededIsOrdered
<1>1. IInv => SucceededIsOrdered
  BY DEF IInv, SucceededIsOrdered, RowFits
<1> QED  BY Invariant, <1>1, PTL

(* An intent is written only on the inventory collection its caller named,  *)
(* and while that is still the published one.                               *)
THEOREM IntentsRestOnFreshStock == Spec => BoughtOnFreshStock
<1>1. ASSUME IInv, [Next]_vars, NEW k \in Keys,
             attempt[k].status = "none", attempt'[k].status = "prepared"
      PROVE  attempt'[k].gen = stock /\ stock > 0
  <2> USE <1>1 DEF IInv, TypeOK
  <2>1. PICK c \in Callers : PrepareCreated(c)
    <3>1. attempt' # attempt
      OBVIOUS
    <3>2. ASSUME NEW c \in Callers, PrepareExisting(c)  PROVE FALSE
      <4>1. latest \in Keys
        BY <3>2, NoneAssumption DEF PrepareExisting, MayStart
      <4> QED  BY <4>1, <3>2 DEF PrepareExisting, Promote, Attempt
    <3>5. ASSUME NEW c \in Callers, CompleteAttempt(c) \/ CompleteSuccess(c)  PROVE FALSE
      <4>1. call[c].key \in Keys /\ attempt[call[c].key].status \in {"prepared"} \cup {attempt[call[c].key].status}
        BY <3>5 DEF CompleteAttempt, CompleteSuccess, CallFits
      <4>2. CASE attempt' = attempt
        BY <4>2
      <4>3. CASE attempt[call[c].key].status = "prepared"
        BY <4>1, <4>3, <3>5 DEF CompleteAttempt, CompleteSuccess, Attempt
      <4> QED  BY <4>2, <4>3, <3>5 DEF CompleteAttempt, CompleteSuccess, MayComplete
    <3>3. ~(\E o \in {"provider_succeeded", "provider_failed"} : Reconcile(o))
      BY DEF Reconcile, Promote, Attempt
    <3>4. ~(\E j \in Keys : Age(j)) /\ ~Delete
      BY DEF Age, Delete, NoAttempt, Attempt
    <3>6. ~(\E c \in Callers, j \in Keys, g \in 1..MaxStock, m \in BOOLEAN : Submit(c, j, g, m))
      BY <3>1 DEF Submit
    <3>7. ~(\E j \in Keys, verdict \in {"accepted", "refused"} : Decide(j, verdict))
      BY <3>1 DEF Decide
    <3>8. ~UpdateStatus /\ ~Publish /\ ~Restart /\ ~UNCHANGED vars
      BY <3>1 DEF UpdateStatus, Publish, Restart, vars
    <3>9. PICK c \in Callers : Proceed(c)
      BY <3>3, <3>4, <3>6, <3>7, <3>8 DEF Next
    <3>10. PrepareCreated(c)
      BY <3>1, <3>2, <3>5, <3>9 DEF Proceed, Prepare, Gate, PrepareRefused, PrepareProviderless,
         PrepareDuplicate, Ask, NotConfigured, Answer, CompletionFails
    <3> QED  BY <3>10
  <2> QED
    BY <2>1 DEF PrepareCreated, MayPrepare, Collected
<1>2. IInv /\ [Next]_vars =>
        [\A k \in Keys : attempt[k].status = "none" /\ attempt'[k].status = "prepared"
           => attempt'[k].gen = stock /\ stock > 0]_vars
  BY <1>1
<1> QED  BY Invariant, <1>2, PTL DEF Spec, BoughtOnFreshStock

-----------------------------------------------------------------------------
(* The contract.  Under the mapping a step of the submission is one of its  *)
(* steps, or leaves what is shown of the order, the tries and the supplier's *)
(* books as it was.                                                         *)

Quiet == UNCHANGED <<Shown, Tries, supplier>>

\* A try, read from its attempt.
LEMMA TryRead ==
  ASSUME NEW a \in Attempt, a.status = "reconciled" <=> a.outcome # "none"
  PROVE  /\ TryOf(a) = "none" <=> a.status = "none"
         /\ TryOf(a) = "open" <=> a.status \in {"prepared", "provider_failed", "provider_unknown"}
         /\ TryOf(a) = "failed" <=> a.outcome = "provider_failed"
         /\ TryOf(a) = "succeeded" <=>
              a.status = "provider_succeeded" \/ a.outcome = "provider_succeeded"
         /\ TryOf(a) = "succeeded" => a.status # "none"
BY DEF TryOf, Attempt, Unresolved

\* The tries, read from the attempts of a state that fits.
LEMMA TriesRead ==
  ASSUME IInv, NEW k \in Keys
  PROVE  /\ attempt[k] \in Attempt
         /\ Tries[k] = TryOf(attempt[k])
         /\ Tries[k] = "none" <=> attempt[k].status = "none"
         /\ Tries[k] = "open" <=> attempt[k].status \in {"prepared", "provider_failed", "provider_unknown"}
         /\ Tries[k] = "failed" <=> attempt[k].outcome = "provider_failed"
         /\ Tries[k] = "succeeded" <=>
              attempt[k].status = "provider_succeeded" \/ attempt[k].outcome = "provider_succeeded"
         /\ Tries[k] \in {"none", "open", "failed", "succeeded"}
<1>1. attempt[k] \in Attempt /\ RowFits(k) BY DEF IInv, TypeOK
<1>2. Tries[k] \in {"none", "open", "failed", "succeeded"} BY DEF Tries, TryOf
<1> QED BY <1>1, <1>2, TryRead DEF Tries, RowFits

\* One attempt is rewritten, the others stay.
LEMMA OneTry ==
  ASSUME IInv, NEW k \in Keys, NEW a, attempt' = [attempt EXCEPT ![k] = a]
  PROVE  Tries' = [Tries EXCEPT ![k] = TryOf(a)]
BY DEF Tries, IInv, TypeOK

LEMMA SameTries == ASSUME attempt' = attempt PROVE Tries' = Tries
BY DEF Tries

LEMMA SameShown == ASSUME order' = order PROVE Shown' = Shown
BY DEF Shown

\* Steps that write no attempt and leave the order on its side of "ordered".
LEMMA CallerIsQuiet ==
  ASSUME IInv, NEW c \in Callers,
         \/ \E k \in Keys, g \in 1..MaxStock, m \in BOOLEAN : Submit(c, k, g, m)
         \/ Gate(c) \/ PrepareRefused(c) \/ PrepareDuplicate(c) \/ NotConfigured(c)
         \/ \E a \in {"accepted", "failed", "unknown"} : Answer(c, a)
         \/ CompletionFails(c)
  PROVE  Quiet
<1>1. attempt' = attempt /\ supplier' = supplier
  BY DEF Submit, Gate, PrepareRefused, PrepareDuplicate, NotConfigured, Answer, CompletionFails
<1>2. Shown' = Shown
  BY DEF Submit, Gate, PrepareRefused, PrepareDuplicate, NotConfigured, Answer, CompletionFails,
         Shown, Placed
<1> QED BY <1>1, <1>2, SameTries DEF Quiet

LEMMA ServiceIsQuiet ==
  ASSUME UpdateStatus \/ Publish \/ Restart
  PROVE  Quiet
<1>1. attempt' = attempt /\ supplier' = supplier BY DEF UpdateStatus, Publish, Restart
<1>2. Shown' = Shown BY DEF UpdateStatus, Publish, Restart, Follows, Shown, Placed
<1> QED BY <1>1, <1>2, SameTries DEF Quiet

\* An attempt in the way is promoted or left: its try stays open.
LEMMA ExistingIsQuiet ==
  ASSUME IInv, NEW c \in Callers, PrepareExisting(c)
  PROVE  Quiet
<1>1. latest \in Keys /\ attempt[latest] \in Attempt
  BY NoneAssumption DEF PrepareExisting, MayStart, IInv, TypeOK
<1>2. TryOf(Promote(attempt[latest])) = TryOf(attempt[latest])
  BY <1>1 DEF Promote, TryOf, Attempt
<1>3. CASE attempt' = attempt
  BY <1>3, SameTries, SameShown DEF PrepareExisting, Quiet
<1>4. CASE attempt' = [attempt EXCEPT ![latest] = Promote(@)]
  <2>1. attempt' = [attempt EXCEPT ![latest] = Promote(attempt[latest])] BY <1>4
  <2>2. Tries' = [Tries EXCEPT ![latest] = TryOf(Promote(attempt[latest]))]
    BY <1>1, <2>1, OneTry
  <2>3. Tries' = Tries BY <1>1, <1>2, <2>2 DEF Tries
  <2> QED BY <2>3, SameShown DEF PrepareExisting, Quiet
<1> QED BY <1>3, <1>4 DEF PrepareExisting

\* Time passes over an attempt: its try stays open.
LEMMA AgeIsQuiet ==
  ASSUME IInv, NEW k \in Keys, Age(k)
  PROVE  Quiet
<1> DEFINE a == [attempt[k] EXCEPT !.old = TRUE]
<1>1. attempt[k] \in Attempt BY DEF IInv, TypeOK
<1>2. TryOf(a) = TryOf(attempt[k]) BY <1>1 DEF TryOf, Attempt
<1>3. attempt' = [attempt EXCEPT ![k] = a] BY DEF Age
<1> HIDE DEF a
<1>4. Tries' = Tries BY <1>2, <1>3, OneTry DEF Tries
<1> QED BY <1>4, SameShown DEF Age, Quiet

\* An order number that was typed in.
LEMMA ProviderlessMaps ==
  ASSUME IInv, NEW c \in Callers, PrepareProviderless(c)
  PROVE  Contract!PlaceByHand
BY SameTries DEF PrepareProviderless, MayPrepare, Shown, Placed, Contract!PlaceByHand

\* An intent is a try begun after all others failed.
LEMMA CreatedMaps ==
  ASSUME IInv, NEW c \in Callers, PrepareCreated(c)
  PROVE  call[c].key \in Keys /\ Contract!Begin(call[c].key)
<1> DEFINE k == call[c].key
           a == [status |-> "prepared", outcome |-> "none", gen |-> call[c].gen, old |-> FALSE]
<1>1. k \in Keys BY DEF PrepareCreated, IInv, CallFits
<1>2. Shown = "open" /\ Shown' = Shown
  BY DEF PrepareCreated, MayPrepare, Shown, Placed
<1>3. Tries[k] = "none" BY <1>1, TriesRead DEF PrepareCreated
<1>4. ASSUME NEW j \in Keys PROVE Tries[j] \in {"none", "failed"}
  <2>1. CASE attempt[j].status = "none" BY <2>1, TriesRead
  <2>2. CASE attempt[j].status # "none"
    <3>1. attempt[j].outcome = "provider_failed"
      BY <2>2, NoneAssumption DEF PrepareCreated, MayStart, IInv, RowFits
    <3> QED BY <3>1, TriesRead
  <2> QED BY <2>1, <2>2
<1>5. TryOf(a) = "open" BY DEF TryOf
<1>6. attempt' = [attempt EXCEPT ![k] = a] BY DEF PrepareCreated
<1>7. Tries' = [Tries EXCEPT ![k] = "open"] BY <1>1, <1>5, <1>6, OneTry
<1>8. supplier' = supplier BY DEF PrepareCreated
<1> QED BY <1>1, <1>2, <1>3, <1>4, <1>7, <1>8 DEF Contract!Begin

\* The supplier is asked within the try of the caller's attempt.
LEMMA AskMaps ==
  ASSUME IInv, NEW c \in Callers, Ask(c)
  PROVE  call[c].key \in Keys /\ Contract!Ask(call[c].key)
<1> DEFINE k == call[c].key
<1>1. k \in Keys /\ attempt[k].status = "prepared" /\ asked[k] = 0
  BY DEF Ask, Owns, IInv, CallFits
<1>2. Tries[k] = "open" /\ supplier[k] = "none"
  BY <1>1, TriesRead DEF IInv, RowFits
<1> QED BY <1>1, <1>2, SameTries, SameShown DEF Ask, Contract!Ask

LEMMA DecideMaps ==
  ASSUME NEW k \in Keys, NEW verdict \in {"accepted", "refused"}, Decide(k, verdict)
  PROVE  Contract!Decide(k, verdict)
BY SameTries, SameShown DEF Decide, Contract!Decide

\* The caller's answer places the order.
LEMMA SuccessMaps ==
  ASSUME IInv, NEW c \in Callers, CompleteSuccess(c)
  PROVE  call[c].key \in Keys /\ Contract!Succeed(call[c].key)
<1> DEFINE k == call[c].key
           a == [attempt[k] EXCEPT !.status = "provider_succeeded"]
<1>1. /\ k \in Keys /\ attempt[k].status = "prepared" /\ supplier[k] = "accepted"
      /\ attempt[k] \in Attempt
  BY DEF CompleteSuccess, MayComplete, IInv, CallFits, TypeOK
<1>2. Tries[k] = "open" BY <1>1, TriesRead
<1>3. Shown = "open" /\ Shown' = "placed"
  BY DEF CompleteSuccess, MayComplete, Shown, Placed
<1>4. TryOf(a) = "succeeded" BY <1>1 DEF TryOf, Attempt
<1>5. attempt' = [attempt EXCEPT ![k] = a] BY DEF CompleteSuccess
<1>6. supplier' = supplier BY DEF CompleteSuccess
<1>7. k \in Keys /\ supplier[k] = "accepted" BY <1>1
<1> HIDE DEF a, k
<1>8. Tries' = [Tries EXCEPT ![k] = "succeeded"] BY <1>4, <1>5, <1>7, OneTry
<1>9. Contract!Succeed(k) BY <1>2, <1>3, <1>6, <1>7, <1>8 DEF Contract!Succeed
<1> QED BY <1>7, <1>9 DEF k

\* A failure or an unknown outcome leaves the try open for the operator.
LEMMA AttemptIsQuiet ==
  ASSUME IInv, NEW c \in Callers, CompleteAttempt(c)
  PROVE  Quiet
<1> DEFINE k == call[c].key
           status == IF call[c].answer = "failed" THEN "provider_failed" ELSE "provider_unknown"
           a == [attempt[k] EXCEPT !.status = status]
<1>1. k \in Keys /\ attempt[k].status = "prepared" /\ attempt[k] \in Attempt
  BY DEF CompleteAttempt, Owns, IInv, CallFits, TypeOK
<1>2. attempt[k].outcome = "none"
  BY <1>1 DEF IInv, RowFits, Attempt
<1>3. TryOf(a) = TryOf(attempt[k]) BY <1>1, <1>2 DEF TryOf, Attempt
<1>4. attempt' = [attempt EXCEPT ![k] = a] BY <1>1 DEF CompleteAttempt
<1> HIDE DEF a
<1>5. Tries' = Tries BY <1>1, <1>3, <1>4, OneTry DEF Tries
<1> QED BY <1>5, SameShown DEF CompleteAttempt, Quiet

\* The operator's answer ends the try as the supplier's books say.
LEMMA ReconcileMaps ==
  ASSUME IInv, NEW outcome \in {"provider_succeeded", "provider_failed"}, Reconcile(outcome)
  PROVE  latest \in Keys /\ (Contract!Succeed(latest) \/ Contract!Fail(latest))
<1> DEFINE a == [attempt[latest] EXCEPT !.status = "reconciled", !.outcome = outcome]
<1>1. latest \in Keys /\ attempt[latest] \in Attempt
  BY DEF Reconcile, IInv, TypeOK
<1>2. attempt[latest].status \in {"prepared", "provider_failed", "provider_unknown"}
  BY <1>1 DEF Reconcile, Promote, Attempt
<1>3. Tries[latest] = "open" BY <1>1, <1>2, TriesRead
<1>4. attempt' = [attempt EXCEPT ![latest] = a] BY DEF Reconcile
<1>5. a.status = "reconciled" /\ a.outcome = outcome BY <1>1 DEF Attempt
<1>6. supplier' = supplier BY DEF Reconcile
<1>7. CASE outcome = "provider_succeeded"
  <2>1. TryOf(a) = "succeeded" BY <1>5, <1>7 DEF TryOf
  <2> HIDE DEF a
  <2>2. Tries' = [Tries EXCEPT ![latest] = "succeeded"] BY <1>1, <1>4, <2>1, OneTry
  <2>3. supplier[latest] = "accepted" BY <1>7 DEF Reconcile, BooksSay
  <2>4. order # "gone" /\ IInv' BY ReconcileKeeps DEF Reconcile
  <2>5. order' \in Placed
    <3>1. attempt'[latest].outcome = "provider_succeeded" /\ latest' = latest
      BY <1>1, <1>4, <1>5, <1>7 DEF Reconcile, IInv, TypeOK
    <3> QED BY <1>1, <2>4, <3>1 DEF IInv, RowFits
  <2>6. Shown # "gone" /\ Shown' = "placed" BY <2>4, <2>5 DEF Shown, Placed
  <2> QED BY <1>1, <1>3, <1>6, <2>2, <2>3, <2>6 DEF Contract!Succeed
<1>8. CASE outcome = "provider_failed"
  <2>1. TryOf(a) = "failed" BY <1>5, <1>8 DEF TryOf
  <2> HIDE DEF a
  <2>2. Tries' = [Tries EXCEPT ![latest] = "failed"] BY <1>1, <1>4, <2>1, OneTry
  <2>3. supplier[latest] \in {"none", "refused"} BY <1>8 DEF Reconcile, BooksSay
  <2>4. Shown' = Shown BY <1>8, SameShown DEF Reconcile
  <2> QED BY <1>1, <1>3, <1>6, <2>2, <2>3, <2>4 DEF Contract!Fail
<1> QED BY <1>1, <1>7, <1>8

\* An order is deleted when none of its tries is open or has succeeded.
LEMMA DeleteMaps ==
  ASSUME IInv, Delete
  PROVE  Contract!Withdraw
<1>1. Shown = "open" /\ Shown' = "gone" BY DEF Delete, Deletable, Shown, Placed
<1>2. ASSUME NEW k \in Keys PROVE Tries[k] \in {"none", "failed"}
  <2>1. attempt[k].status \notin Unresolved /\ order \notin Placed
    BY DEF Delete, Deletable, Placed
  <2>2. Tries[k] # "open" BY <2>1, TriesRead DEF Unresolved
  <2>3. Tries[k] # "succeeded" BY <2>1, TriesRead DEF IInv, RowFits
  <2> QED BY <2>2, <2>3, TriesRead
<1>3. Tries' = [k \in Keys |-> "none"] BY DEF Delete, Tries, TryOf, NoAttempt
<1> QED BY <1>1, <1>2, <1>3 DEF Delete, Contract!Withdraw

LEMMA StepMaps == IInv /\ [Next]_vars => [Contract!Next]_(Contract!vars)
<1> SUFFICES ASSUME IInv, [Next]_vars PROVE Contract!Next \/ Quiet
  BY DEF Quiet, Contract!vars
<1>1. CASE UNCHANGED vars
  BY <1>1, SameTries, SameShown DEF vars, Quiet
<1>2. ASSUME NEW c \in Callers,
             \/ \E k \in Keys, g \in 1..MaxStock, m \in BOOLEAN : Submit(c, k, g, m)
             \/ Proceed(c)
      PROVE  Contract!Next \/ Quiet
  <2>1. CASE PrepareProviderless(c) BY <2>1, ProviderlessMaps DEF Contract!Next
  <2>2. CASE PrepareCreated(c) BY <2>2, CreatedMaps DEF Contract!Next
  <2>3. CASE Ask(c) BY <2>3, AskMaps DEF Contract!Next
  <2>4. CASE CompleteSuccess(c) BY <2>4, SuccessMaps DEF Contract!Next
  <2>5. CASE PrepareExisting(c) \/ CompleteAttempt(c) BY <2>5, ExistingIsQuiet, AttemptIsQuiet
  <2> QED BY <1>2, <2>1, <2>2, <2>3, <2>4, <2>5, CallerIsQuiet DEF Proceed, Prepare
<1>3. CASE \E outcome \in {"provider_succeeded", "provider_failed"} : Reconcile(outcome)
  BY <1>3, ReconcileMaps DEF Contract!Next
<1>4. CASE \E k \in Keys : \/ Age(k)
                         \/ \E verdict \in {"accepted", "refused"} : Decide(k, verdict)
  BY <1>4, AgeIsQuiet, DecideMaps DEF Contract!Next
<1>5. CASE Delete BY <1>5, DeleteMaps DEF Contract!Next
<1>6. CASE UpdateStatus \/ Publish \/ Restart
  BY <1>6, ServiceIsQuiet
<1> QED BY <1>1, <1>2, <1>3, <1>4, <1>5, <1>6 DEF Next

(* Whatever callers race, time out or are cut off by a restart, a purchase  *)
(* order is tried as the contract says: the next try begins when all others *)
(* are known to have failed, and each ends as the supplier's books say.     *)
THEOREM ContractIsImplemented == Spec => ImplementsContract
<1>1. Init => Contract!Init
  BY DEF Init, NoAttempt, Shown, Placed, Tries, TryOf, Contract!Init
<1> QED BY <1>1, StepMaps, Invariant, PTL DEF Spec, ImplementsContract, Contract!Spec

(* The contract alone is enough to order once: whoever keeps it never has   *)
(* two purchases under way, nor one that belongs to no order.               *)
THEOREM ContractIsEnough == ImplementsContract => []Contract!Promise
<1> DEFINE Tried == \A j, k \in Keys :
             /\ supplier[k] \in {"open", "accepted"} => Tries[k] \in {"open", "succeeded"}
             /\ {Tries[j], Tries[k]} \subseteq {"open", "succeeded"} => j = k
             /\ Tries[k] \in {"open", "succeeded"} => Shown # "gone"
<1>1. Contract!Init => Tried BY DEF Contract!Init
<1>2. Tried /\ [Contract!Next]_(Contract!vars) => Tried'
  <2> SUFFICES ASSUME Tried, Contract!Next \/ UNCHANGED Contract!vars PROVE Tried' OBVIOUS
  <2>1. ASSUME NEW k \in Keys, Contract!Begin(k) PROVE Tried' BY <2>1 DEF Contract!Begin
  <2>2. ASSUME NEW k \in Keys, Contract!Ask(k) PROVE Tried' BY <2>2 DEF Contract!Ask
  <2>3. ASSUME NEW k \in Keys, Contract!Succeed(k) PROVE Tried' BY <2>3 DEF Contract!Succeed
  <2>4. ASSUME NEW k \in Keys, Contract!Fail(k) PROVE Tried' BY <2>4 DEF Contract!Fail
  <2>5. ASSUME NEW k \in Keys, NEW v \in {"accepted", "refused"}, Contract!Decide(k, v) PROVE Tried'
    BY <2>5 DEF Contract!Decide
  <2>6. CASE Contract!PlaceByHand BY <2>6 DEF Contract!PlaceByHand
  <2>7. CASE Contract!Withdraw BY <2>7 DEF Contract!Withdraw
  <2>8. CASE UNCHANGED Contract!vars BY <2>8 DEF Contract!vars
  <2> QED BY <2>1, <2>2, <2>3, <2>4, <2>5, <2>6, <2>7, <2>8 DEF Contract!Next
<1>3. Tried => Contract!Promise BY DEF Contract!Promise
<1> QED BY <1>1, <1>2, <1>3, PTL DEF ImplementsContract, Contract!Spec
=============================================================================
