--------------------- MODULE CapabilityInvocationProofs ---------------------
(* What holds of agent mutations for any requests, keys and windows.  The   *)
(* inductive invariant ties the receipt of an invocation to what its owner  *)
(* did (RowFits) and may yet do (OwnerFits), and a flight to the receipt it  *)
(* works for (CallFits).                                                    *)
EXTENDS CapabilityInvocation, FiniteSetTheorems, TLAPS

\* A receipt and the owner's effect under its key.
RowFits(r, e) ==
  /\ r.status = "none" => ~e /\ r.decision = "none"
  /\ r.decision # "none" => r.asked
  /\ r.decision = "rejected" => r.status = "failed"
  /\ r.status = "failed" => ~e
  /\ r.status = "succeeded" => e
  /\ e /\ r.asked => r.decision = "approved"

\* What a flight that called the owner relies on, until it has landed.
Runnable(r) == r.status = "pending" /\ (r.asked => r.decision = "approved")

Called == {"calling", "done", "refused"}

CallFits(t) ==
  /\ call[t].at # "idle" => call[t].key \in Keys
  /\ call[t].at = "deciding" => call[t].decision # "none"
  /\ call[t].at \in Called => Runnable(row[call[t].key])
  /\ call[t].at \in Called \cup {"reading"} => inFlight[call[t].key] = t
  /\ call[t].at = "done" => effect[call[t].key]
  /\ call[t].at = "refused" => ~effect[call[t].key] /\ owner[call[t].key] = "refused"

\* An owner that may still commit does so for a receipt that may be carried out.
OwnerFits(k) == owner[k] = "asked" /\ ~effect[k] => Runnable(row[k])

IInv == /\ TypeOK
        /\ \A k \in Keys : RowFits(row[k], effect[k]) /\ OwnerFits(k)
        /\ \A t \in Tasks : CallFits(t)

\* What no step may do to a receipt.
Settles(r, n) == /\ r.status \in {"succeeded", "failed"} => n = r
                 /\ r.decision # "none" => n.decision = r.decision
                 /\ r.status # "none" => n.req = r.req

Kept == IInv' /\ \A k \in Keys : Settles(row[k], row'[k])

-----------------------------------------------------------------------------
(* What is written to a receipt.                                            *)

LEMMA Bounds == Window \in Nat /\ SweepLimit \in Nat /\ MaxTime \in Nat /\ MaxRestarts \in Nat
BY BoundAssumption

\* The words of deriveCapabilityApprovalState, one by one.
LEMMA Approvals ==
  ASSUME NEW r \in Row, NEW at \in Nat
  PROVE  /\ r.decision # "none" => Approval(r, at) = r.decision
         /\ r.decision = "none" /\ ~r.asked => Approval(r, at) = "not_required"
         /\ r.decision = "none" /\ r.asked /\ r.status = "pending" /\ at < r.expires
              => Approval(r, at) = "pending"
         /\ r.decision = "none" /\ r.asked /\ ~(r.status = "pending" /\ at < r.expires)
              => Approval(r, at) = "expired"
BY DEF Approval, Row

\* A look expires only what nobody decided and no flight relies on.
LEMMA ExpiredFits ==
  ASSUME NEW r \in Row, NEW e \in BOOLEAN, NEW at \in Nat, RowFits(r, e)
  PROVE  /\ Expired(r, at) \in Row
         /\ RowFits(Expired(r, at), e)
         /\ Settles(r, Expired(r, at))
         /\ Runnable(r) => Expired(r, at) = r
         /\ Expired(r, at).req = r.req
         /\ Expired(r, at).asked = r.asked
         /\ Expired(r, at).status = "pending" => Expired(r, at) = r
<1>1. CASE r.status = "pending" /\ Approval(r, at) = "expired"
  <2>1. r.decision = "none" /\ r.asked
    BY <1>1, Approvals DEF Row
  <2>2. Expired(r, at) = [r EXCEPT !.status = "failed"]
    BY <1>1 DEF Expired
  <2> QED  BY <1>1, <2>1, <2>2 DEF Row, RowFits, Settles, Runnable
<1>2. CASE ~(r.status = "pending" /\ Approval(r, at) = "expired")
  BY <1>2 DEF Expired, Settles
<1> QED  BY <1>1, <1>2

\* What may run is what a flight can rely on.
LEMMA MayRunIsRunnable ==
  ASSUME NEW r \in Row, NEW e \in BOOLEAN, now \in Nat, RowFits(r, e)
  PROVE  MayRun(r) <=> Runnable(r)
<1>1. CASE r.decision = "none"
  BY <1>1, Approvals DEF MayRun, Runnable, RowFits, Row
<1>2. CASE r.decision # "none"
  BY <1>2, Approvals DEF MayRun, Runnable, RowFits, Row
<1> QED  BY <1>1, <1>2

\* A decision is stored only where one was asked for and none was made.
LEMMA DecidedFits ==
  ASSUME NEW r \in Row, NEW e \in BOOLEAN, NEW at \in Nat, RowFits(r, e),
         NEW d \in {"approved", "rejected"}, StillOpen(r, at)
  PROVE  /\ Decided(r, d) \in Row
         /\ RowFits(Decided(r, d), e)
         /\ Settles(r, Decided(r, d))
         /\ ~Runnable(r)
<1>1. r.decision = "none" /\ r.asked /\ r.status = "pending"
  BY Approvals DEF StillOpen, Row
<1>2. ~e
  BY <1>1 DEF RowFits
<1>3. Decided(r, d) \in Row
  BY <1>1 DEF Decided, Row
<1>4. /\ Decided(r, d).decision = d /\ Decided(r, d).asked /\ Decided(r, d).req = r.req
      /\ Decided(r, d).status = IF d = "rejected" THEN "failed" ELSE "pending"
  BY <1>1 DEF Decided, Row
<1> QED  BY <1>1, <1>2, <1>3, <1>4 DEF RowFits, Settles, Runnable

-----------------------------------------------------------------------------
(* Steps that write receipts and move requests about.                       *)

\* The receipts after a step in which the owners did nothing.
RowsStep == /\ row' \in [Keys -> Row]
            /\ \A k \in Keys : /\ RowFits(row'[k], effect[k])
                               /\ Settles(row[k], row'[k])
                               /\ Runnable(row[k]) => Runnable(row'[k])

LEMMA RowsSame == ASSUME IInv, row' = row  PROVE RowsStep
BY DEF IInv, TypeOK, RowsStep, Settles

\* One receipt is replaced.
LEMMA OneRow ==
  ASSUME IInv, NEW k \in Keys, NEW n \in Row, row' = [row EXCEPT ![k] = n],
         RowFits(n, effect[k]), Settles(row[k], n), Runnable(row[k]) => Runnable(n)
  PROVE  RowsStep
<1>1. \A j \in Keys : row'[j] = IF j = k THEN n ELSE row[j]
  BY DEF IInv, TypeOK
<1> QED  BY <1>1 DEF IInv, TypeOK, RowsStep, Settles

LEMMA LookedKeeps == ASSUME IInv, NEW k \in Keys, Looked(k)  PROVE RowsStep
<1>1. row[k] \in Row /\ effect[k] \in BOOLEAN /\ now \in Nat
  BY Bounds DEF IInv, TypeOK
<1>2. RowFits(row[k], effect[k])
  BY DEF IInv
<1>3. row' = [row EXCEPT ![k] = Expired(row[k], now)]
  BY DEF Looked, IInv, TypeOK
<1> DEFINE N == Expired(row[k], now)
<1>4. N \in Row /\ RowFits(N, effect[k]) /\ Settles(row[k], N) /\ (Runnable(row[k]) => N = row[k])
  BY <1>1, <1>2, ExpiredFits
<1> HIDE DEF N
<1> QED  BY <1>3, <1>4, OneRow DEF N

\* A request that is in no flight, before and after.
Waiting == {"idle", "deciding", "admitted"}
LEMMA RequestMoves ==
  ASSUME IInv, RowsStep, UNCHANGED <<now, risky, inFlight, booted, effect, owner, restarts>>,
         NEW c \in Tasks, call[c].at \in Waiting, NEW x \in Call, x.at \in Waiting,
         x.at # "idle" => x.key \in Keys, x.at = "deciding" => x.decision # "none",
         call' = [call EXCEPT ![c] = x]
  PROVE  Kept
<1>1. TypeOK'
  BY DEF IInv, TypeOK, RowsStep
<1>2. \A k \in Keys : RowFits(row'[k], effect'[k]) /\ OwnerFits(k)'
  BY DEF RowsStep, IInv, OwnerFits
<1>3. ASSUME NEW t \in Tasks  PROVE CallFits(t)'
  <2>1. call'[t] = IF t = c THEN x ELSE call[t]
    BY DEF IInv, TypeOK
  <2>2. CallFits(t)
    BY DEF IInv
  <2> QED  BY <2>1, <2>2 DEF CallFits, Waiting, Called, RowsStep
<1> QED  BY <1>1, <1>2, <1>3 DEF IInv, Kept, RowsStep

\* No request moves.
LEMMA NobodyMoves ==
  ASSUME IInv, RowsStep, UNCHANGED <<risky, call, inFlight, effect, owner>>,
         now' \in 0..MaxTime, booted' \in BOOLEAN, restarts' \in 0..MaxRestarts
  PROVE  Kept
<1>1. TypeOK'
  BY DEF IInv, TypeOK, RowsStep
<1>2. ASSUME NEW t \in Tasks  PROVE CallFits(t)'
  BY DEF IInv, CallFits, Called, RowsStep
<1>3. \A k \in Keys : OwnerFits(k)'
  BY DEF RowsStep, IInv, OwnerFits
<1> QED  BY <1>1, <1>2, <1>3 DEF IInv, Kept, RowsStep

LEMMA Values ==
  ASSUME IInv, NEW c \in Tasks
  PROVE  /\ Idle \in Call
         /\ \A k \in Keys : /\ row[k] \in Row /\ effect[k] \in BOOLEAN
                            /\ RowFits(row[k], effect[k])
                            /\ [Idle EXCEPT !.at = "admitted", !.key = k] \in Call
         /\ now \in Nat /\ call[c] \in Call /\ CallFits(c)
<1>1. Idle \in Call
  BY DEF Call, Idle
<1>2. \A k \in Keys : [Idle EXCEPT !.at = "admitted", !.key = k] \in Call
  BY DEF Call, Idle
<1>3. /\ \A k \in Keys : row[k] \in Row /\ effect[k] \in BOOLEAN /\ RowFits(row[k], effect[k])
      /\ call[c] \in Call /\ CallFits(c)
  BY DEF IInv, TypeOK
<1>4. now \in Nat
  BY Bounds DEF IInv, TypeOK
<1> QED  BY <1>1, <1>2, <1>3, <1>4

\* A request is handed to the dispatcher.
LEMMA AdmittedKeeps ==
  ASSUME IInv, RowsStep, UNCHANGED <<now, risky, inFlight, booted, effect, owner, restarts>>,
         NEW c \in Tasks, call[c].at \in Waiting, NEW k \in Keys, Admitted(c, k)
  PROVE  Kept
<1> DEFINE X == [Idle EXCEPT !.at = "admitted", !.key = k]
<1>1. X \in Call /\ X.at = "admitted" /\ X.key = k
  BY Values DEF Idle
<1>2. call' = [call EXCEPT ![c] = X]
  BY DEF Admitted
<1> HIDE DEF X
<1> QED  BY <1>1, <1>2, RequestMoves DEF Waiting

\* A request is answered.
LEMMA ReturnedKeeps ==
  ASSUME IInv, RowsStep, UNCHANGED <<now, risky, inFlight, booted, effect, owner, restarts>>,
         NEW c \in Tasks, call[c].at \in Waiting, Return(c)
  PROVE  Kept
<1>1. Idle \in Call /\ Idle.at = "idle"
  BY Values DEF Idle
<1> QED  BY <1>1, RequestMoves DEF Return, Waiting

LEMMA InvokeKeeps ==
  ASSUME IInv, NEW c \in Callers, NEW k \in Keys, NEW q \in Requests, Invoke(c, k, q)
  PROVE  Kept
<1> DEFINE B == Cardinality({j \in Keys : row[j].status # "none"})
           N == [status |-> "pending", req |-> q, asked |-> risky,
                 expires |-> IF risky THEN now + Window ELSE 0, decision |-> "none", born |-> B]
<1>0. c \in Tasks
  BY DEF Tasks
<1>1. B \in Nat
  BY KeysAssumption, FS_Subset, FS_CardinalityType
<1>2. N \in Row
  <2>0. now \in Nat /\ risky \in BOOLEAN
    BY <1>0, Values DEF IInv, TypeOK
  <2> DEFINE E == IF risky THEN now + Window ELSE 0
  <2>1. E \in Nat
    BY <2>0, Bounds
  <2> HIDE DEF E, B
  <2>2. [status |-> "pending", req |-> q, asked |-> risky, expires |-> E, decision |-> "none",
         born |-> B] \in Row
    BY <1>1, <2>0, <2>1 DEF Row
  <2> QED  BY <2>2 DEF E, B
<1>3. RowFits(N, effect[k]) /\ Settles(row[k], N) /\ ~Runnable(row[k])
  BY <1>0, Values DEF RowFits, Settles, Runnable, Invoke
<1>4. RowsStep
  <2>1. row' = [row EXCEPT ![k] = N]
    BY DEF Invoke
  <2> HIDE DEF N
  <2> QED  BY <2>1, <1>2, <1>3, OneRow
<1>5. call[c].at = "idle"
  BY DEF Invoke, Free
<1>6. CASE call' = call
  BY <1>4, <1>6, NobodyMoves DEF Invoke, IInv, TypeOK
<1>7. CASE Admitted(c, k)
  BY <1>0, <1>4, <1>5, <1>7, AdmittedKeeps DEF Invoke, Waiting
<1> QED  BY <1>6, <1>7 DEF Invoke

LEMMA ReplayKeeps ==
  ASSUME IInv, NEW c \in Callers, NEW k \in Keys, NEW q \in Requests, Replay(c, k, q)
  PROVE  Kept
<1>0. c \in Tasks
  BY DEF Tasks
<1>1. RowsStep
  BY LookedKeeps DEF Replay
<1>2. CASE call' = call
  BY <1>1, <1>2, NobodyMoves DEF Replay, IInv, TypeOK
<1>3. CASE Admitted(c, k)
  BY <1>0, <1>1, <1>3, AdmittedKeeps DEF Replay, Free, Waiting
<1> QED  BY <1>2, <1>3 DEF Replay

LEMMA DecideKeeps ==
  ASSUME IInv, NEW c \in Callers, NEW k \in Keys, NEW d \in {"approved", "rejected"},
         Decide(c, k, d)
  PROVE  Kept
<1> DEFINE X == [at |-> "deciding", key |-> k, decision |-> d, time |-> now]
<1>0. c \in Tasks
  BY DEF Tasks
<1>1. RowsStep
  BY LookedKeeps DEF Decide
<1>2. CASE call' = call
  BY <1>1, <1>2, NobodyMoves DEF Decide, IInv, TypeOK
<1>3. CASE call' = [call EXCEPT ![c] = X]
  <2>1. X \in Call
    BY <1>0, Values DEF Call
  <2>2. X.at = "deciding" /\ X.key = k /\ X.decision # "none"
    OBVIOUS
  <2>3. call[c].at = "idle" /\ UNCHANGED <<now, risky, inFlight, booted, effect, owner, restarts>>
    BY DEF Decide, Free
  <2> HIDE DEF X
  <2> QED  BY <1>0, <1>1, <1>3, <2>1, <2>2, <2>3, RequestMoves DEF Waiting
<1> QED  BY <1>2, <1>3 DEF Decide

LEMMA DecideApprovalKeeps ==
  ASSUME IInv, NEW c \in Callers, DecideApproval(c)
  PROVE  Kept
<1> DEFINE k == call[c].key
<1>0. c \in Tasks /\ call[c].at = "deciding"
  BY DEF Tasks, DecideApproval
<1>1. k \in Keys /\ call[c].time \in Nat /\ call[c].decision \in {"none", "approved", "rejected"}
  BY <1>0, Values DEF CallFits, Call
<1>2. UNCHANGED <<now, risky, inFlight, booted, effect, owner, restarts>>
  BY DEF DecideApproval
<1>3. ASSUME RowsStep, Return(c) \/ Admitted(c, k)  PROVE Kept
  BY <1>0, <1>1, <1>2, <1>3, AdmittedKeeps, ReturnedKeeps DEF Waiting
<1>4. PICK r \in {row[k], Expired(row[k], now)} :
        IF StillOpen(r, call[c].time)
        THEN /\ row' = [row EXCEPT ![k] = Decided(r, call[c].decision)]
             /\ IF call[c].decision = "approved" THEN Admitted(c, k) ELSE Return(c)
        ELSE Looked(k) /\ Return(c)
  BY DEF DecideApproval
<1>5. CASE ~StillOpen(r, call[c].time)
  BY <1>1, <1>3, <1>4, <1>5, LookedKeeps
<1>6. CASE StillOpen(r, call[c].time)
  <2>1. row[k] \in Row /\ effect[k] \in BOOLEAN /\ RowFits(row[k], effect[k]) /\ now \in Nat
    BY <1>0, <1>1, Values
  <2>2. r \in Row /\ RowFits(r, effect[k])
    BY <2>1, <1>4, ExpiredFits
  <2>3. r.status = "pending"
    BY <1>1, <1>6, <2>2, Approvals DEF StillOpen, Row
  <2>4. r = row[k]
    BY <2>1, <2>3, <1>4, ExpiredFits
  <2>5. call[c].decision \in {"approved", "rejected"}
    BY <1>0, <1>1, Values DEF CallFits
  <2> DEFINE N == Decided(row[k], call[c].decision)
  <2>6. N \in Row /\ RowFits(N, effect[k]) /\ Settles(row[k], N) /\ ~Runnable(row[k])
    BY <1>1, <1>6, <2>1, <2>4, <2>5, DecidedFits
  <2>7. row' = [row EXCEPT ![k] = N]
    BY <1>4, <1>6, <2>4
  <2> HIDE DEF N
  <2>8. RowsStep
    BY <1>1, <2>6, <2>7, OneRow
  <2> QED  BY <1>3, <1>4, <1>6, <2>8
<1> QED  BY <1>5, <1>6

-----------------------------------------------------------------------------
(* Flights.                                                                 *)

LEMMA JoinKeeps == ASSUME IInv, NEW t \in Tasks, Join(t)  PROVE Kept
BY RowsSame, ReturnedKeeps DEF Join, Waiting

\* A flight takes the key; nobody had it.
LEMMA DispatchKeeps == ASSUME IInv, NEW t \in Tasks, Dispatch(t)  PROVE Kept
<1> DEFINE k == call[t].key
<1>1. k \in Keys /\ call[t].at = "admitted" /\ inFlight[k] = None
  BY Values DEF CallFits, Dispatch
<1>2. None \notin Tasks
  BY TasksAssumption DEF Tasks
<1>3. \A s \in Tasks : call'[s] = IF s = t THEN [call[t] EXCEPT !.at = "reading"] ELSE call[s]
  BY DEF Dispatch, IInv, TypeOK
<1>4. \A j \in Keys : inFlight'[j] = IF j = k THEN t ELSE inFlight[j]
  BY DEF Dispatch, IInv, TypeOK
<1>5. TypeOK'
  BY <1>1 DEF Dispatch, IInv, TypeOK, Call
<1>6. ASSUME NEW s \in Tasks  PROVE CallFits(s)'
  <2>1. CallFits(s) /\ call[s] \in Call /\ call[t] \in Call
    BY Values
  <2>2. CASE s = t
    BY <1>1, <1>3, <1>4, <2>1, <2>2 DEF CallFits, Called, Dispatch, Call
  <2>3. CASE s # t
    BY <1>1, <1>2, <1>3, <1>4, <2>1, <2>3 DEF CallFits, Called, Dispatch
  <2> QED  BY <2>2, <2>3
<1> QED  BY <1>5, <1>6 DEF Kept, IInv, OwnerFits, Dispatch, Settles

\* A flight ends: its key is free and the others had other keys.
LEMMA LandKeeps ==
  ASSUME IInv, NEW t \in Tasks, call[t].at \in Called \cup {"reading"}, Land(t),
         row' \in [Keys -> Row],
         \A k \in Keys : /\ RowFits(row'[k], effect[k])
                         /\ Settles(row[k], row'[k])
                         /\ k # call[t].key /\ Runnable(row[k]) => Runnable(row'[k]),
         owner[call[t].key] = "asked" /\ ~effect[call[t].key] /\ Runnable(row[call[t].key])
           => Runnable(row'[call[t].key]),
         UNCHANGED <<now, risky, booted, effect, owner, restarts>>
  PROVE  Kept
<1> DEFINE k == call[t].key
<1>1. k \in Keys /\ inFlight[k] = t
  BY Values DEF CallFits, Called
<1>2. \A s \in Tasks : call'[s] = IF s = t THEN Idle ELSE call[s]
  BY DEF Land, Return, IInv, TypeOK
<1>3. \A j \in Keys : inFlight'[j] = IF j = k THEN None ELSE inFlight[j]
  BY DEF Land, IInv, TypeOK
<1>4. TypeOK'
  BY <1>1, Values DEF Land, Return, IInv, TypeOK
<1>5. ASSUME NEW s \in Tasks  PROVE CallFits(s)'
  <2>1. CallFits(s)
    BY Values
  <2>2. CASE s = t
    BY <1>2, <2>2 DEF CallFits, Called, Idle
  <2>3. CASE s # t
    <3>1. call'[s] = call[s]
      BY <1>2, <2>3
    <3>2. CASE call[s].at \in Called \cup {"reading"}
      <4>1. call[s].key \in Keys /\ call[s].key # k
        BY <1>1, <2>1, <2>3, <3>2 DEF CallFits, Called
      <4> QED  BY <1>3, <2>1, <3>1, <4>1 DEF CallFits, Called
    <3>3. CASE call[s].at \notin Called \cup {"reading"}
      BY <2>1, <3>1, <3>3 DEF CallFits, Called
    <3> QED  BY <3>2, <3>3
  <2> QED  BY <2>2, <2>3
<1>6. \A j \in Keys : OwnerFits(j)'
  BY <1>1 DEF IInv, OwnerFits
<1> QED  BY <1>4, <1>5, <1>6 DEF Kept, IInv

LEMMA CallOwnerKeeps == ASSUME IInv, NEW t \in Tasks, CallOwner(t)  PROVE Kept
<1> DEFINE k == call[t].key
<1>1. k \in Keys /\ call[t].at = "reading" /\ inFlight[k] = t
  BY Values DEF CallFits, CallOwner
<1>2. RowsStep
  BY <1>1, LookedKeeps DEF CallOwner
<1>3. Runnable(row'[k])
  <2>1. row[k] \in Row /\ effect[k] \in BOOLEAN /\ RowFits(row[k], effect[k]) /\ now \in Nat
    BY <1>1, Values
  <2> DEFINE N == Expired(row[k], now)
  <2>2. N \in Row /\ RowFits(N, effect[k])
    BY <2>1, ExpiredFits
  <2>3. MayRun(N)
    BY DEF CallOwner, MayCall
  <2>4. row'[k] = N
    BY <1>1 DEF CallOwner, Looked, IInv, TypeOK
  <2> HIDE DEF N
  <2> QED  BY <2>1, <2>2, <2>3, <2>4, MayRunIsRunnable
<1>4. \A s \in Tasks : call'[s] = IF s = t THEN [call[t] EXCEPT !.at = "calling"] ELSE call[s]
  BY DEF CallOwner, IInv, TypeOK
<1>5. TypeOK'
  BY <1>1, <1>2, ZenonT(60) DEF CallOwner, IInv, TypeOK, Call, RowsStep
<1>6. ASSUME NEW s \in Tasks  PROVE CallFits(s)'
  <2>1. CallFits(s) /\ call[t] \in Call
    BY Values
  <2>2. CASE s = t
    BY <1>1, <1>3, <1>4, <2>1, <2>2 DEF CallFits, Called, CallOwner, Call
  <2>3. CASE s # t
    BY <1>1, <1>2, <1>4, <2>1, <2>3 DEF CallFits, Called, CallOwner, RowsStep, IInv, TypeOK
  <2> QED  BY <2>2, <2>3
<1>7. \A j \in Keys : OwnerFits(j)'
  BY <1>1, <1>2, <1>3 DEF CallOwner, IInv, TypeOK, OwnerFits, RowsStep
<1> QED  BY <1>2, <1>5, <1>6, <1>7 DEF Kept, IInv, CallOwner, RowsStep

LEMMA CallNobodyKeeps == ASSUME IInv, NEW t \in Tasks, CallNobody(t)  PROVE Kept
<1>1. call[t].key \in Keys
  BY Values DEF CallFits, CallNobody
<1>2. RowsStep
  BY <1>1, LookedKeeps DEF CallNobody
<1> QED  BY <1>1, <1>2, LandKeeps DEF CallNobody, RowsStep, Called

LEMMA OwnerCommitsKeeps == ASSUME IInv, NEW k \in Keys, OwnerCommits(k)  PROVE Kept
<1>1. /\ owner[k] = "asked" /\ Runnable(row[k])
      /\ RowFits(row[k], effect[k]) /\ row[k] \in Row
  BY DEF IInv, TypeOK, OwnerFits, OwnerCommits
<1>2. \A j \in Keys : effect'[j] = IF j = k THEN TRUE ELSE effect[j]
  BY DEF OwnerCommits, IInv, TypeOK
<1>3. TypeOK'
  BY DEF OwnerCommits, IInv, TypeOK
<1>4. ASSUME NEW j \in Keys  PROVE RowFits(row'[j], effect'[j]) /\ OwnerFits(j)'
  <2>1. CASE j = k
    BY <1>1, <1>2, <2>1 DEF RowFits, OwnerFits, Runnable, OwnerCommits, Row
  <2>2. CASE j # k
    BY <1>2, <2>2 DEF RowFits, OwnerFits, OwnerCommits, IInv
  <2> QED  BY <2>1, <2>2
<1>5. ASSUME NEW s \in Tasks  PROVE CallFits(s)'
  BY <1>1, <1>2 DEF IInv, CallFits, Called, OwnerCommits
<1> QED  BY <1>3, <1>4, <1>5 DEF Kept, IInv, OwnerCommits, Settles

LEMMA OwnerAnswersKeeps == ASSUME IInv, NEW t \in Tasks, OwnerAnswers(t)  PROVE Kept
<1> DEFINE k == call[t].key
<1>1. k \in Keys /\ call[t].at = "calling" /\ inFlight[k] = t
  BY Values DEF CallFits, Called, OwnerAnswers
<1>2. \A s \in Tasks : call'[s] =
        IF s = t THEN [call[t] EXCEPT !.at = IF effect[k] THEN "done" ELSE "refused"] ELSE call[s]
  BY DEF OwnerAnswers, IInv, TypeOK
<1>3. \A j \in Keys : owner'[j] = IF j = k /\ ~effect[k] THEN "refused" ELSE owner[j]
  BY DEF OwnerAnswers, IInv, TypeOK
<1>4. TypeOK'
  <2>1. [call[t] EXCEPT !.at = "done"] \in Call /\ [call[t] EXCEPT !.at = "refused"] \in Call
    BY DEF IInv, TypeOK, Call
  <2> QED  BY <2>1, <1>1 DEF OwnerAnswers, IInv, TypeOK
<1>5. ASSUME NEW s \in Tasks  PROVE CallFits(s)'
  <2>1. CallFits(s) /\ call[s] \in Call
    BY Values
  <2>2. CASE s = t
    BY <1>1, <1>2, <1>3, <2>1, <2>2 DEF CallFits, Called, OwnerAnswers, Call
  <2>3. CASE s # t
    BY <1>2, <1>3, <2>1, <2>3 DEF CallFits, Called, OwnerAnswers
  <2> QED  BY <2>2, <2>3
<1>6. \A j \in Keys : OwnerFits(j)'
  BY <1>3 DEF IInv, OwnerFits, OwnerAnswers
<1> QED  BY <1>4, <1>5, <1>6 DEF Kept, IInv, OwnerAnswers, Settles

LEMMA AnswerLostKeeps == ASSUME IInv, NEW t \in Tasks, AnswerLost(t)  PROVE Kept
<1>1. RowsStep
  BY RowsSame DEF AnswerLost
<1> QED  BY <1>1, LandKeeps DEF AnswerLost, RowsStep, Called

\* The receipt of a flight is what the flight relied on: no look can have
\* expired it.
LEMMA RecordSucceededKeeps == ASSUME IInv, NEW t \in Tasks, RecordSucceeded(t)  PROVE Kept
<1> DEFINE k == call[t].key
           N == [row[k] EXCEPT !.status = "succeeded"]
<1>1. /\ k \in Keys /\ call[t].at = "done" /\ Runnable(row[k]) /\ effect[k]
      /\ RowFits(row[k], effect[k]) /\ row[k] \in Row /\ effect[k] \in BOOLEAN /\ now \in Nat
  BY Values DEF CallFits, Called, RecordSucceeded
<1>2. Expired(row[k], now) = row[k] /\ MayRun(row[k])
  BY <1>1, ExpiredFits, MayRunIsRunnable, ZenonT(60)
<1>3. row' = [row EXCEPT ![k] = N]
  BY <1>2 DEF RecordSucceeded
<1>4. N \in Row /\ RowFits(N, effect[k]) /\ Settles(row[k], N)
  BY <1>1 DEF Row, RowFits, Settles, Runnable
<1> HIDE DEF N
<1>5. \A j \in Keys : row'[j] = IF j = k THEN N ELSE row[j]
  BY <1>3 DEF IInv, TypeOK
<1>6. row' \in [Keys -> Row]
  BY <1>3, <1>4 DEF IInv, TypeOK
<1>7. \A j \in Keys : /\ RowFits(row'[j], effect[j]) /\ Settles(row[j], row'[j])
                      /\ j # k /\ Runnable(row[j]) => Runnable(row'[j])
  BY <1>4, <1>5 DEF IInv, Settles
<1>8. ~effect[k] => Runnable(row'[k])
  BY <1>1
<1> QED  BY <1>1, <1>6, <1>7, <1>8, LandKeeps DEF RecordSucceeded, Called

LEMMA RecordKnownFailureKeeps == ASSUME IInv, NEW t \in Tasks, RecordKnownFailure(t)  PROVE Kept
<1> DEFINE k == call[t].key
           N == [row[k] EXCEPT !.status = "failed"]
<1>1. /\ k \in Keys /\ call[t].at = "refused" /\ Runnable(row[k]) /\ ~effect[k]
      /\ owner[k] = "refused"
      /\ RowFits(row[k], effect[k]) /\ row[k] \in Row /\ effect[k] \in BOOLEAN /\ now \in Nat
  BY Values DEF CallFits, Called, RecordKnownFailure
<1>2. Expired(row[k], now) = row[k] /\ row[k].status = "pending"
  BY <1>1, ExpiredFits DEF Runnable
<1>3. row' = [row EXCEPT ![k] = N]
  BY <1>2 DEF RecordKnownFailure
<1>4. N \in Row /\ RowFits(N, effect[k]) /\ Settles(row[k], N)
  BY <1>1 DEF Row, RowFits, Settles, Runnable
<1> HIDE DEF N
<1>5. \A j \in Keys : row'[j] = IF j = k THEN N ELSE row[j]
  BY <1>3 DEF IInv, TypeOK
<1>6. row' \in [Keys -> Row]
  BY <1>3, <1>4 DEF IInv, TypeOK
<1>7. \A j \in Keys : /\ RowFits(row'[j], effect[j]) /\ Settles(row[j], row'[j])
                      /\ j # k /\ Runnable(row[j]) => Runnable(row'[j])
  BY <1>4, <1>5 DEF IInv, Settles
<1> QED  BY <1>1, <1>6, <1>7, LandKeeps DEF RecordKnownFailure, Called

-----------------------------------------------------------------------------
(* The process.                                                             *)

LEMMA SweepKeeps == ASSUME IInv, Sweep  PROVE Kept
<1>1. Swept \subseteq Keys
  BY DEF Swept, Sweepable
<1>2. ASSUME NEW t \in Tasks
      PROVE  /\ call'[t] \in Call
             /\ \/ call'[t].at = "idle"
                \/ call'[t].at = "admitted" /\ call'[t].key \in Keys
  <2> DEFINE X == [Idle EXCEPT !.at = "admitted", !.key = t]
  <2>1. call'[t] = IF t \in Swept THEN X ELSE Idle
    BY DEF Sweep
  <2>2. Idle \in Call /\ Idle.at = "idle" /\ X.at = "admitted" /\ X.key = t
    BY Values DEF Idle
  <2>3. t \in Swept => X \in Call /\ t \in Keys
    BY <1>1, Values
  <2> HIDE DEF X
  <2> QED  BY <2>1, <2>2, <2>3
<1>3. \A t \in Tasks : /\ call'[t] \in Call
                       /\ \/ call'[t].at = "idle"
                          \/ call'[t].at = "admitted" /\ call'[t].key \in Keys
  BY <1>2
<1>4. TypeOK'
  BY <1>3 DEF Sweep, IInv, TypeOK
<1>5. \A t \in Tasks : CallFits(t)'
  BY <1>3 DEF CallFits, Called
<1> QED  BY <1>4, <1>5 DEF Kept, IInv, OwnerFits, Sweep, Settles

LEMMA RestartKeeps == ASSUME IInv, Restart  PROVE Kept
<1>0. Idle \in Call /\ restarts' \in 0..MaxRestarts
  BY Bounds DEF Restart, IInv, TypeOK, Idle, Call
<1>1. TypeOK'
  BY <1>0 DEF Restart, IInv, TypeOK
<1>2. \A t \in Tasks : CallFits(t)'
  BY DEF Restart, CallFits, Called, Idle
<1> QED  BY <1>1, <1>2 DEF Kept, IInv, OwnerFits, Restart, Settles

LEMMA LookKeeps == ASSUME IInv, NEW k \in Keys, Look(k)  PROVE Kept
BY LookedKeeps, NobodyMoves DEF Look, IInv, TypeOK

LEMMA TickKeeps == ASSUME IInv, Tick  PROVE Kept
<1>1. now' \in 0..MaxTime
  BY Bounds DEF Tick, IInv, TypeOK
<1> QED  BY <1>1, RowsSame, NobodyMoves DEF Tick, IInv, TypeOK

LEMMA InitFits == Init => IInv
<1> SUFFICES ASSUME Init  PROVE IInv
  OBVIOUS
<1>0. NoRow \in Row /\ Idle \in Call /\ 0 \in 0..MaxTime /\ 0 \in 0..MaxRestarts
  BY Bounds DEF NoRow, Row, Idle, Call
<1>1. TypeOK
  BY <1>0 DEF Init, TypeOK
<1>2. \A k \in Keys : RowFits(row[k], effect[k]) /\ OwnerFits(k)
  BY DEF Init, RowFits, OwnerFits, NoRow
<1>3. \A t \in Tasks : CallFits(t)
  BY DEF Init, CallFits, Called, Idle
<1> QED  BY <1>1, <1>2, <1>3 DEF IInv

LEMMA StepKeeps == IInv /\ [Next]_vars => Kept
<1> SUFFICES ASSUME IInv, [Next]_vars  PROVE Kept
  OBVIOUS
<1>1. ASSUME NEW c \in Callers, NEW k \in Keys,
             \/ \E q \in Requests : Invoke(c, k, q) \/ Replay(c, k, q)
             \/ \E d \in {"approved", "rejected"} : Decide(c, k, d)
      PROVE  Kept
  BY <1>1, InvokeKeeps, ReplayKeeps, DecideKeeps
<1>2. ASSUME NEW c \in Callers, DecideApproval(c)  PROVE Kept
  BY <1>2, DecideApprovalKeeps
<1>3. ASSUME NEW t \in Tasks, Run(t)  PROVE Kept
  BY <1>3, JoinKeeps, DispatchKeeps, CallOwnerKeeps, CallNobodyKeeps, OwnerAnswersKeeps,
     AnswerLostKeeps, RecordSucceededKeeps, RecordKnownFailureKeeps DEF Run
<1>4. ASSUME NEW k \in Keys, OwnerCommits(k) \/ Look(k)  PROVE Kept
  BY <1>4, LookKeeps, OwnerCommitsKeeps
<1>5. CASE Sweep \/ Tick \/ Restart
  BY <1>5, SweepKeeps, TickKeeps, RestartKeeps
<1>6. CASE UNCHANGED vars
  <2>1. RowsStep
    BY <1>6, RowsSame DEF vars
  <2> QED  BY <1>6, <2>1, NobodyMoves DEF vars, IInv, TypeOK
<1> QED  BY <1>1, <1>2, <1>3, <1>4, <1>5, <1>6 DEF Next

-----------------------------------------------------------------------------
(* The inductive invariant holds in every reachable state.                  *)
THEOREM Invariant == Spec => []IInv
<1>1. IInv /\ [Next]_vars => IInv'
  BY StepKeeps DEF Kept
<1> QED  BY <1>1, InitFits, PTL DEF Spec

(* Receipts, requests and flights have the shapes the model declares.       *)
THEOREM TypeCorrect == Spec => []TypeOK
<1>1. IInv => TypeOK
  BY DEF IInv
<1> QED  BY <1>1, Invariant, PTL

(* Nothing an approval was asked for happens without the user's approval.   *)
THEOREM Unapproved == Spec => []NothingUnapproved
<1>1. IInv => NothingUnapproved
  BY DEF IInv, RowFits, NothingUnapproved
<1> QED  BY <1>1, Invariant, PTL

(* A failed receipt had no effect and a succeeded one had.                  *)
THEOREM Truth == Spec => []ReceiptTellsTruth
<1>1. IInv => ReceiptTellsTruth
  BY DEF IInv, RowFits, ReceiptTellsTruth
<1> QED  BY <1>1, Invariant, PTL

(* No call to an owner is under way for a receipt that failed.              *)
THEOREM FailedIsOver == Spec => []NoCallAfterFailure
<1>1. IInv => NoCallAfterFailure
  BY DEF IInv, CallFits, Called, Runnable, NoCallAfterFailure
<1> QED  BY <1>1, Invariant, PTL

(* The owner is called for an invocation by one flight at a time.           *)
THEOREM OneFlight == Spec => []OneOwnerCall
<1>1. IInv => OneOwnerCall
  BY DEF IInv, CallFits, Called, OneOwnerCall
<1> QED  BY <1>1, Invariant, PTL

(* Settled receipts, decisions and requests do not change.                  *)
THEOREM Final == Spec => SettledIsFinal
<1>1. IInv /\ [Next]_vars =>
        [\A k \in Keys :
           /\ row[k].status \in {"succeeded", "failed"} => row'[k] = row[k]
           /\ row[k].decision # "none" => row'[k].decision = row[k].decision
           /\ row[k].status # "none" => row'[k].req = row[k].req]_vars
  BY StepKeeps DEF Kept, Settles
<1> QED  BY <1>1, Invariant, PTL DEF Spec, SettledIsFinal

-----------------------------------------------------------------------------
(* Receipts and effects as the contract sees them.                          *)

\* What a step that leaves the effects alone may make of one receipt: nothing
\* the contract sees, or its Admit, Allow or Answer.
Same(r, n) == n.req = r.req /\ AllowedBy(n) = AllowedBy(r)
Moves(r, n, e) ==
  \/ StageOf(n) = StageOf(r) /\ Same(r, n)
  \/ StageOf(r) = "none" /\ StageOf(n) = "open" /\ n.req \in Requests
  \/ StageOf(r) = "open" /\ StageOf(n) = "open" /\ ~e /\ n.req = r.req /\ AllowedBy(n) = TRUE
  \/ StageOf(r) = "open" /\ n.status \in {"succeeded", "failed"} /\ Same(r, n)
     /\ (e <=> n.status = "succeeded")

OneMoves(k) == \E n \in Row : row' = [row EXCEPT ![k] = n] /\ Moves(row[k], n, effect[k])

\* A look settles a receipt that had no effect, or none.
LEMMA LookedMoves == ASSUME IInv, NEW k \in Keys, Looked(k)  PROVE OneMoves(k)
<1>1. row[k] \in Row /\ effect[k] \in BOOLEAN /\ now \in Nat /\ RowFits(row[k], effect[k])
  BY Bounds DEF IInv, TypeOK
<1> DEFINE N == Expired(row[k], now)
<1>2. N \in Row /\ RowFits(N, effect[k]) /\ row' = [row EXCEPT ![k] = N]
  BY <1>1, ExpiredFits DEF Looked
<1>3. CASE row[k].status = "pending" /\ Approval(row[k], now) = "expired"
  <2>1. N = [row[k] EXCEPT !.status = "failed"]
    BY <1>3 DEF Expired
  <2>2. /\ N.status = "failed" /\ N.req = row[k].req /\ N.asked = row[k].asked
        /\ N.decision = row[k].decision
    BY <2>1, <1>1 DEF Row
  <2>3. ~effect[k]
    BY <2>2, <1>2 DEF RowFits
  <2> QED  BY <2>2, <2>3, <1>2, <1>3 DEF OneMoves, Moves, Same, StageOf, AllowedBy
<1>4. CASE ~(row[k].status = "pending" /\ Approval(row[k], now) = "expired")
  <2>1. N = row[k]
    BY <1>4 DEF Expired
  <2> QED  BY <2>1, <1>2 DEF OneMoves, Moves, Same
<1> QED  BY <1>3, <1>4

LEMMA InvokeMoves ==
  ASSUME IInv, IInv', NEW c \in Callers, NEW k \in Keys, NEW q \in Requests, Invoke(c, k, q)
  PROVE  OneMoves(k)
<1>1. row[k].status = "none" /\ row' \in [Keys -> Row]
  BY DEF Invoke, IInv, TypeOK
<1> DEFINE N == [status |-> "pending", req |-> q, asked |-> risky,
                 expires |-> IF risky THEN now + Window ELSE 0, decision |-> "none",
                 born |-> Cardinality({j \in Keys : row[j].status # "none"})]
<1>2. row' = [row EXCEPT ![k] = N] /\ N.status = "pending" /\ N.req = q
  BY DEF Invoke
<1> HIDE DEF N
<1>3. N \in Row
  BY <1>1, <1>2 DEF IInv, TypeOK
<1> QED  BY <1>1, <1>2, <1>3 DEF OneMoves, Moves, StageOf

\* A rejection answers, an approval allows.
LEMMA DecideApprovalMoves ==
  ASSUME IInv, NEW c \in Callers, DecideApproval(c)
  PROVE  OneMoves(call[c].key)
<1> DEFINE k == call[c].key
<1>0. call[c].at = "deciding" /\ c \in Tasks
  BY DEF Tasks, DecideApproval
<1>1. k \in Keys /\ call[c].time \in Nat /\ call[c].decision \in {"approved", "rejected"}
  BY <1>0, Values DEF CallFits, Call
<1>2. row[k] \in Row /\ effect[k] \in BOOLEAN /\ RowFits(row[k], effect[k]) /\ now \in Nat
  BY <1>0, <1>1, Values
<1>3. PICK r \in {row[k], Expired(row[k], now)} :
        IF StillOpen(r, call[c].time)
        THEN row' = [row EXCEPT ![k] = Decided(r, call[c].decision)]
        ELSE Looked(k)
  BY DEF DecideApproval
<1>4. CASE ~StillOpen(r, call[c].time)
  BY <1>1, <1>3, <1>4, LookedMoves
<1>5. CASE StillOpen(r, call[c].time)
  <2>1. r \in Row /\ RowFits(r, effect[k])
    BY <1>2, <1>3, ExpiredFits
  <2>2. r.decision = "none" /\ r.asked /\ r.status = "pending"
    BY <1>1, <1>5, <2>1, Approvals DEF StillOpen, Row
  <2>3. r = row[k] /\ ~effect[k]
    BY <1>2, <1>3, <2>1, <2>2, ExpiredFits DEF RowFits
  <2> DEFINE N == Decided(r, call[c].decision)
  <2>4. /\ N \in Row /\ N.req = r.req /\ N.asked = r.asked /\ N.decision = call[c].decision
        /\ N.status = IF call[c].decision = "rejected" THEN "failed" ELSE "pending"
    BY <1>1, <2>1, <2>2 DEF Decided, Row
  <2>5. row' = [row EXCEPT ![k] = N]
    BY <1>3, <1>5
  <2> HIDE DEF N
  <2> QED  BY <1>1, <2>2, <2>3, <2>4, <2>5 DEF OneMoves, Moves, Same, StageOf, AllowedBy
<1> QED  BY <1>4, <1>5

\* What is recorded of a flight is what its owner did.
LEMMA RecordsMove ==
  ASSUME IInv, NEW t \in Tasks, RecordSucceeded(t) \/ RecordKnownFailure(t)
  PROVE  OneMoves(call[t].key)
<1> DEFINE k == call[t].key
<1>1. /\ k \in Keys /\ Runnable(row[k]) /\ row[k] \in Row /\ effect[k] \in BOOLEAN
      /\ RowFits(row[k], effect[k]) /\ now \in Nat
      /\ (call[t].at = "done" /\ effect[k]) \/ (call[t].at = "refused" /\ ~effect[k])
  BY Values DEF CallFits, Called, RecordSucceeded, RecordKnownFailure
<1>2. Expired(row[k], now) = row[k] /\ MayRun(row[k]) /\ row[k].status = "pending"
  BY <1>1, ExpiredFits, MayRunIsRunnable DEF Runnable
<1>3. PICK w \in {"succeeded", "failed"} :
        /\ row' = [row EXCEPT ![k] = [row[k] EXCEPT !.status = w]]
        /\ w = "succeeded" <=> call[t].at = "done"
  BY <1>1, <1>2 DEF RecordSucceeded, RecordKnownFailure
<1> DEFINE N == [row[k] EXCEPT !.status = w]
<1>4. N \in Row /\ N.status = w /\ Same(row[k], N)
  BY <1>1, <1>2 DEF Row, Same, AllowedBy
<1> HIDE DEF N
<1> QED  BY <1>1, <1>2, <1>3, <1>4 DEF OneMoves, Moves, StageOf, N

\* Every step leaves the contract's variables alone, or moves one receipt, or
\* is an owner's commit for a receipt that is open and allowed.
Moved == \/ UNCHANGED <<row, effect>>
         \/ UNCHANGED effect /\ \E k \in Keys : OneMoves(k)
         \/ \E k \in Keys : /\ UNCHANGED row /\ effect' = [effect EXCEPT ![k] = TRUE]
                            /\ ~effect[k] /\ Runnable(row[k])
LEMMA StepMoves == ASSUME IInv, IInv', [Next]_vars  PROVE Moved
<1>1. ASSUME NEW c \in Callers, NEW k \in Keys, NEW q \in Requests,
             Invoke(c, k, q) \/ Replay(c, k, q)
      PROVE  Moved
  BY <1>1, InvokeMoves, LookedMoves DEF Invoke, Replay, Moved
<1>2. ASSUME NEW c \in Callers, NEW k \in Keys, NEW d \in {"approved", "rejected"},
             Decide(c, k, d)
      PROVE  Moved
  BY <1>2, LookedMoves DEF Decide, Moved
<1>3. ASSUME NEW c \in Callers, DecideApproval(c)  PROVE Moved
  <2>1. call[c].key \in Keys
    BY <1>3, Values DEF CallFits, DecideApproval, Tasks
  <2> QED  BY <1>3, <2>1, DecideApprovalMoves DEF DecideApproval, Moved
<1>4. ASSUME NEW t \in Tasks, Run(t)  PROVE Moved
  <2>1. call[t].at # "idle" => call[t].key \in Keys
    BY Values DEF CallFits
  <2>2. CASE Join(t) \/ Dispatch(t) \/ OwnerAnswers(t) \/ AnswerLost(t)
    BY <2>2 DEF Join, Dispatch, OwnerAnswers, AnswerLost, Moved
  <2>3. CASE CallOwner(t) \/ CallNobody(t)
    BY <2>1, <2>3, LookedMoves DEF CallOwner, CallNobody, Moved
  <2>4. CASE RecordSucceeded(t) \/ RecordKnownFailure(t)
    <3>1. call[t].key \in Keys /\ UNCHANGED effect
      BY <2>1, <2>4 DEF RecordSucceeded, RecordKnownFailure
    <3> QED  BY <2>4, <3>1, RecordsMove DEF Moved
  <2> QED  BY <1>4, <2>2, <2>3, <2>4 DEF Run
<1>5. ASSUME NEW k \in Keys, OwnerCommits(k) \/ Look(k)  PROVE Moved
  <2>1. CASE OwnerCommits(k)
    BY <2>1 DEF OwnerCommits, IInv, OwnerFits, Moved
  <2>2. CASE Look(k)
    BY <2>2, LookedMoves DEF Look, Moved
  <2> QED  BY <1>5, <2>1, <2>2
<1>6. CASE Sweep \/ Tick \/ Restart \/ UNCHANGED vars
  BY <1>6 DEF Sweep, Tick, Restart, vars, Moved
<1>7. ASSUME NEW c \in Callers, NEW k \in Keys,
             \/ \E q \in Requests : Invoke(c, k, q) \/ Replay(c, k, q)
             \/ \E d \in {"approved", "rejected"} : Decide(c, k, d)
      PROVE  Moved
  BY <1>1, <1>2, <1>7
<1> QED  BY <1>3, <1>4, <1>5, <1>6, <1>7 DEF Next

\* A receipt that moves is a step of the contract.
LEMMA MoveMaps ==
  ASSUME IInv, IInv', UNCHANGED effect, NEW k \in Keys, OneMoves(k)
  PROVE  [Contract!Next]_Contract!vars
<1> DEFINE S == [j \in Keys |-> StageOf(row[j])]
           Q == [j \in Keys |-> row[j].req]
           A == [j \in Keys |-> AllowedBy(row[j])]
<1>1. PICK n \in Row : row' = [row EXCEPT ![k] = n] /\ Moves(row[k], n, effect[k])
  BY DEF OneMoves
<1>2. \A j \in Keys : row'[j] = IF j = k THEN n ELSE row[j]
  BY <1>1 DEF IInv, TypeOK
<1>3. /\ S' = [S EXCEPT ![k] = StageOf(n)]
      /\ Q' = [Q EXCEPT ![k] = n.req]
      /\ A' = [A EXCEPT ![k] = AllowedBy(n)]
  BY <1>2
<1>4. S[k] = StageOf(row[k]) /\ Q[k] = row[k].req /\ A[k] = AllowedBy(row[k])
  OBVIOUS
<1>5. AllowedBy(n) \in BOOLEAN
  BY DEF AllowedBy
<1>6. CASE StageOf(n) = StageOf(row[k]) /\ Same(row[k], n)
  <2>1. S' = S /\ Q' = Q /\ A' = A
    BY <1>2, <1>6 DEF Same
  <2> QED  BY <2>1 DEF Contract!vars
<1>7. CASE StageOf(row[k]) = "none" /\ StageOf(n) = "open" /\ n.req \in Requests
  <2>1. Contract!Admit(k, n.req, AllowedBy(n))
    BY <1>3, <1>4, <1>7 DEF Contract!Admit
  <2> QED  BY <1>5, <1>7, <2>1 DEF Contract!Next
<1>8. CASE /\ StageOf(row[k]) = "open" /\ StageOf(n) = "open" /\ ~effect[k]
           /\ n.req = row[k].req /\ AllowedBy(n) = TRUE
  <2>1. S' = S /\ Q' = Q
    BY <1>2, <1>8
  <2>2. Contract!Allow(k)
    BY <1>3, <1>4, <1>8, <2>1 DEF Contract!Allow
  <2> QED  BY <2>2 DEF Contract!Next
<1>9. CASE /\ StageOf(row[k]) = "open" /\ n.status \in {"succeeded", "failed"}
           /\ Same(row[k], n) /\ (effect[k] <=> n.status = "succeeded")
  <2>1. Q' = Q /\ A' = A
    BY <1>2, <1>9 DEF Same
  <2>2. StageOf(n) = n.status
    BY <1>9 DEF StageOf
  <2>3. Contract!Answer(k, n.status)
    BY <1>3, <1>4, <1>9, <2>1, <2>2 DEF Contract!Answer
  <2> QED  BY <1>9, <2>3 DEF Contract!Next
<1> QED  BY <1>1, <1>6, <1>7, <1>8, <1>9 DEF Moves

LEMMA StepMaps ==
  ASSUME IInv, IInv', [Next]_vars
  PROVE  [Contract!Next]_Contract!vars
<1>1. CASE UNCHANGED <<row, effect>>
  BY <1>1 DEF Contract!vars
<1>2. ASSUME UNCHANGED effect, NEW k \in Keys, OneMoves(k)
      PROVE  [Contract!Next]_Contract!vars
  BY <1>2, MoveMaps
<1>3. ASSUME NEW k \in Keys, UNCHANGED row, effect' = [effect EXCEPT ![k] = TRUE],
             ~effect[k], Runnable(row[k])
      PROVE  [Contract!Next]_Contract!vars
  <2>1. StageOf(row[k]) = "open" /\ AllowedBy(row[k])
    BY <1>3 DEF Runnable, StageOf, AllowedBy
  <2>2. Contract!CarryOut(k)
    BY <1>3, <2>1 DEF Contract!CarryOut
  <2> QED  BY <2>2 DEF Contract!Next
<1> QED  BY <1>1, <1>2, <1>3, StepMoves DEF Moved

LEMMA InitMaps == Init => Contract!Init
<1> SUFFICES ASSUME Init  PROVE Contract!Init
  OBVIOUS
<1>1. ASSUME NEW k \in Keys
      PROVE  StageOf(row[k]) = "none" /\ row[k].req = None /\ AllowedBy(row[k]) = FALSE
  BY DEF Init, NoRow, StageOf, AllowedBy
<1> QED  BY <1>1 DEF Init, Contract!Init

(* Receipts and effects are a behaviour of the contract of agent mutations: *)
(* one request per key, one effect at most, only while it is open and       *)
(* allowed, and a final and true answer.                                    *)
THEOREM ContractIsImplemented == Spec => ImplementsContract
<1>1. IInv /\ IInv' /\ [Next]_vars => [Contract!Next]_Contract!vars
  BY StepMaps
<1> QED  BY <1>1, InitMaps, Invariant, PTL DEF Spec, ImplementsContract, Contract!Spec

(* The contract alone is enough to trust an answer: whoever keeps it acts   *)
(* only when allowed, and its answers say what happened.                    *)
THEOREM ContractIsEnough == ImplementsContract => []Contract!Promise
<1>1. Contract!Init => Contract!Promise BY DEF Contract!Init, Contract!Promise
<1>2. Contract!Promise /\ [Contract!Next]_(Contract!vars) => Contract!Promise'
  <2> SUFFICES ASSUME Contract!Promise, Contract!Next \/ UNCHANGED Contract!vars
               PROVE  Contract!Promise'
    OBVIOUS
  <2>1. ASSUME NEW k \in Keys, NEW q \in Requests, NEW free \in BOOLEAN, Contract!Admit(k, q, free)
        PROVE  Contract!Promise'
    BY <2>1 DEF Contract!Admit, Contract!Promise
  <2>2. ASSUME NEW k \in Keys, Contract!Allow(k) PROVE Contract!Promise'
    BY <2>2 DEF Contract!Allow, Contract!Promise
  <2>3. ASSUME NEW k \in Keys, Contract!CarryOut(k) PROVE Contract!Promise'
    BY <2>3 DEF Contract!CarryOut, Contract!Promise
  <2>4. ASSUME NEW k \in Keys, NEW outcome \in {"succeeded", "failed"}, Contract!Answer(k, outcome)
        PROVE  Contract!Promise'
    BY <2>4 DEF Contract!Answer, Contract!Promise
  <2>5. CASE UNCHANGED Contract!vars BY <2>5 DEF Contract!vars, Contract!Promise
  <2> QED BY <2>1, <2>2, <2>3, <2>4, <2>5 DEF Contract!Next
<1> QED BY <1>1, <1>2, PTL DEF ImplementsContract, Contract!Spec
=============================================================================
