------------------------ MODULE CapabilityInvocation ------------------------
(* Mutations that agents ask for (apps/server/src/agent-os): admission under  *)
(* a request key, the user's approval with its window, and the dispatcher     *)
(* that runs the owner of the capability in this process and may lose what    *)
(* it answered.  The owner keeps one effect per owner key (external).         *)
EXTENDS Naturals, FiniteSets

CONSTANTS
  Callers,     \* requests the API serves at once
  Keys,        \* request keys, one invocation each
  Requests,    \* what may be asked for: user, capability, agent and input
  None,
  Window,      \* how long an approval may be given
  SweepLimit,  \* receipts the sweep at bootstrap takes
  MaxTime,     \* bound on the clock
  MaxRestarts  \* bound on the restarts of the API

ASSUME TasksAssumption == Callers \cap Keys = {} /\ None \notin Callers \cup Keys \cup Requests
ASSUME KeysAssumption == IsFiniteSet(Keys)
ASSUME BoundAssumption == {Window, SweepLimit, MaxTime, MaxRestarts} \subseteq Nat

VARIABLES
  row,         \* the capability_invocations row of each request key
  now,         \* the clock
  risky,       \* does the capability's definition ask for approval today
  call,        \* what each task does: a request, or the sweep's flight of a key
  inFlight,    \* the dispatcher's inFlightByInvocationId
  booted,      \* has the sweep of this process been started
  effect,      \* did the owner commit under the invocation's owner key
  owner,       \* what the owner of the invocation's capability is at
  restarts     \* how often the API was started again

vars == <<row, now, risky, call, inFlight, booted, effect, owner, restarts>>

Tasks == Callers \cup Keys
NoRow == [status |-> "none", req |-> None, asked |-> FALSE, expires |-> 0,
          decision |-> "none", born |-> 0]
Idle == [at |-> "idle", key |-> None, decision |-> "none", time |-> 0]

Row == [status : {"none", "pending", "succeeded", "failed"}, req : Requests \cup {None},
        asked : BOOLEAN, expires : Nat, decision : {"none", "approved", "rejected"}, born : Nat]
Call == [at : {"idle", "deciding", "admitted", "reading", "calling", "done", "refused"},
         key : Keys \cup {None}, decision : {"none", "approved", "rejected"}, time : Nat]

Init == /\ row = [k \in Keys |-> NoRow] /\ now = 0 /\ risky \in BOOLEAN
        /\ call = [t \in Tasks |-> Idle] /\ inFlight = [k \in Keys |-> None]
        /\ booted = FALSE
        /\ effect = [k \in Keys |-> FALSE] /\ owner = [k \in Keys |-> "unasked"]
        /\ restarts = 0

-----------------------------------------------------------------------------
\* deriveCapabilityApprovalState
Approval(r, at) ==
  CASE r.decision # "none" -> r.decision
    [] r.decision = "none" /\ ~r.asked -> "not_required"
    [] r.decision = "none" /\ r.asked /\ r.status = "pending" /\ at < r.expires -> "pending"
    [] OTHER -> "expired"

\* (mutant) only a rejection stops a run.
MayRunUnlessRejected(r) == r.status = "pending" /\ Approval(r, now) # "rejected"

MayRun(r) == r.status = "pending" /\ Approval(r, now) \in {"not_required", "approved"}

\* expireIfNecessary, which every read of a row does first.
Expired(r, at) == IF r.status = "pending" /\ Approval(r, at) = "expired"
                  THEN [r EXCEPT !.status = "failed"] ELSE r

\* hasCapabilityApprovalPolicyDrift
Drift(r) == r.asked # risky

\* The API listens once its sweep is over.
Listening == booted /\ \A k \in Keys : call[k].at = "idle"
Free(c) == Listening /\ call[c].at = "idle"
Return(t) == call' = [call EXCEPT ![t] = Idle]

Looked(k) == row' = [row EXCEPT ![k] = Expired(@, now)]

-----------------------------------------------------------------------------
(* CapabilityInvocationService.invoke up to the dispatcher.                  *)

Admitted(c, k) == call' = [call EXCEPT ![c] = [Idle EXCEPT !.at = "admitted", !.key = k]]

Invoke(c, k, q) ==
  /\ Free(c) /\ row[k].status = "none"
  /\ row' = [row EXCEPT ![k] =
       [status |-> "pending", req |-> q, asked |-> risky,
        expires |-> IF risky THEN now + Window ELSE 0, decision |-> "none",
        born |-> Cardinality({j \in Keys : row[j].status # "none"})]]
  /\ IF risky THEN UNCHANGED call ELSE Admitted(c, k)
  /\ UNCHANGED <<now, risky, inFlight, booted, effect, owner, restarts>>

\* The key is taken: the same request may run, another one is a conflict.
Replay(c, k, q) ==
  /\ Free(c) /\ row[k].status # "none"
  /\ Looked(k)
  /\ IF row[k].req = q /\ MayRun(Expired(row[k], now)) /\ ~Drift(row[k])
     THEN Admitted(c, k) ELSE UNCHANGED call
  /\ UNCHANGED <<now, risky, inFlight, booted, effect, owner, restarts>>

-----------------------------------------------------------------------------
(* CapabilityApprovalService.decide                                          *)

Decide(c, k, d) ==
  /\ Free(c) /\ row[k].status # "none"
  /\ Looked(k)
  /\ LET a == Approval(Expired(row[k], now), now) IN
       IF a = "expired" \/ (a = "rejected" /\ d = "approved")
       THEN UNCHANGED call
       ELSE call' = [call EXCEPT ![c] =
              [at |-> "deciding", key |-> k, decision |-> d, time |-> now]]
  /\ UNCHANGED <<now, risky, inFlight, booted, effect, owner, restarts>>

\* decideApproval: the write is conditional on the row and on the instant the
\* decision was made; time may pass between the look before it and the write.
\* (mutant) the status keeps the word of the decision.
DecidedInWords(r, d) == [r EXCEPT !.decision = d,
                                  !.status = IF d = "rejected" THEN "rejected" ELSE @]
Decided(r, d) == [r EXCEPT !.decision = d,
                           !.status = IF d = "rejected" THEN "failed" ELSE @]
\* (mutant) an earlier decision is not looked at.
StillOpenWhilePending(r, at) == r.asked /\ r.status = "pending" /\ at < r.expires
\* (mutant) nothing but the window is looked at.
StillOpenInWindow(r, at) == r.asked /\ at < r.expires
StillOpen(r, at) == Approval(r, at) = "pending"
DecideApproval(c) ==
  LET k == call[c].key IN
  /\ call[c].at = "deciding"
  /\ \E r \in {row[k], Expired(row[k], now)} :
       IF StillOpen(r, call[c].time)
       THEN /\ row' = [row EXCEPT ![k] = Decided(r, call[c].decision)]
            /\ IF call[c].decision = "approved" THEN Admitted(c, k) ELSE Return(c)
       ELSE /\ Looked(k)
            /\ Return(c)
  /\ UNCHANGED <<now, risky, inFlight, booted, effect, owner, restarts>>

-----------------------------------------------------------------------------
(* CapabilityMutationDispatcher                                              *)

\* A flight that is under way is joined: the caller waits for its result.
Join(t) ==
  /\ call[t].at = "admitted" /\ inFlight[call[t].key] # None
  /\ Return(t)
  /\ UNCHANGED <<row, now, risky, inFlight, booted, effect, owner, restarts>>

\* (mutant) a flight under way is not looked for.
DispatchAnyway(t) ==
  /\ call[t].at = "admitted"
  /\ inFlight' = [inFlight EXCEPT ![call[t].key] = t]
  /\ call' = [call EXCEPT ![t].at = "reading"]
  /\ UNCHANGED <<row, now, risky, booted, effect, owner, restarts>>

Dispatch(t) ==
  /\ call[t].at = "admitted" /\ inFlight[call[t].key] = None
  /\ inFlight' = [inFlight EXCEPT ![call[t].key] = t]
  /\ call' = [call EXCEPT ![t].at = "reading"]
  /\ UNCHANGED <<row, now, risky, booted, effect, owner, restarts>>

Land(t) == inFlight' = [inFlight EXCEPT ![call[t].key] = None] /\ Return(t)

\* dispatchPersisted reads the row again and trusts nothing it was given.
MayCall(r) == MayRun(r) /\ ~Drift(r)

CallOwner(t) ==
  /\ call[t].at = "reading" /\ Looked(call[t].key)
  /\ MayCall(Expired(row[call[t].key], now))
  /\ call' = [call EXCEPT ![t].at = "calling"]
  /\ owner' = [owner EXCEPT ![call[t].key] = "asked"]
  /\ UNCHANGED <<now, risky, inFlight, booted, effect, restarts>>

CallNobody(t) ==
  /\ call[t].at = "reading" /\ Looked(call[t].key)
  /\ ~MayCall(Expired(row[call[t].key], now))
  /\ Land(t)
  /\ UNCHANGED <<now, risky, booted, effect, owner, restarts>>

\* The owner commits at most once under its key, perhaps when nobody waits any more.
OwnerCommits(k) ==
  /\ owner[k] = "asked" /\ ~effect[k]
  /\ effect' = [effect EXCEPT ![k] = TRUE]
  /\ UNCHANGED <<row, now, risky, call, inFlight, booted, owner, restarts>>

\* The owner answers: its result, or the proof that it has not committed and will not.
OwnerAnswers(t) ==
  /\ call[t].at = "calling"
  /\ IF effect[call[t].key]
     THEN call' = [call EXCEPT ![t].at = "done"] /\ UNCHANGED owner
     ELSE /\ call' = [call EXCEPT ![t].at = "refused"]
          /\ owner' = [owner EXCEPT ![call[t].key] = "refused"]
  /\ UNCHANGED <<row, now, risky, inFlight, booted, effect, restarts>>

\* (mutant) an owner that did not answer is taken to have failed.
AnswerLostIsFailure(t) ==
  /\ call[t].at \in {"calling", "done", "refused"}
  /\ row' = [row EXCEPT ![call[t].key].status = "failed"]
  /\ Land(t)
  /\ UNCHANGED <<now, risky, booted, effect, owner, restarts>>

\* No usable answer: the invocation stays pending under the same owner key.
AnswerLost(t) ==
  /\ call[t].at \in {"calling", "done", "refused"}
  /\ Land(t)
  /\ UNCHANGED <<row, now, risky, booted, effect, owner, restarts>>

RecordSucceeded(t) ==
  LET r == Expired(row[call[t].key], now) IN
  /\ call[t].at = "done"
  /\ row' = [row EXCEPT ![call[t].key] =
       IF MayRun(r) THEN [r EXCEPT !.status = "succeeded"] ELSE r]
  /\ Land(t)
  /\ UNCHANGED <<now, risky, booted, effect, owner, restarts>>

RecordKnownFailure(t) ==
  LET r == Expired(row[call[t].key], now) IN
  /\ call[t].at = "refused"
  /\ row' = [row EXCEPT ![call[t].key] =
       IF r.status = "pending" THEN [r EXCEPT !.status = "failed"] ELSE r]
  /\ Land(t)
  /\ UNCHANGED <<now, risky, booted, effect, owner, restarts>>

\* runBootstrapSweep: the oldest approved receipts that are still pending.
\* (mutant) the receipts that needed no approval are taken instead.
SweepableUnasked == {k \in Keys : row[k].status = "pending" /\ ~row[k].asked}
Sweepable == {k \in Keys : row[k].status = "pending" /\ row[k].decision = "approved"}
Swept == {k \in Sweepable :
            Cardinality({j \in Sweepable : row[j].born < row[k].born}) < SweepLimit}
Sweep ==
  /\ ~booted /\ booted' = TRUE
  /\ call' = [t \in Tasks |-> IF t \in Swept THEN [Idle EXCEPT !.at = "admitted", !.key = t]
                                             ELSE Idle]
  /\ UNCHANGED <<row, now, risky, inFlight, effect, owner, restarts>>

-----------------------------------------------------------------------------
\* A status is read.
Look(k) ==
  /\ Listening /\ row[k].status # "none" /\ Looked(k)
  /\ UNCHANGED <<now, risky, call, inFlight, booted, effect, owner, restarts>>

Tick == /\ now < MaxTime /\ now' = now + 1
        /\ UNCHANGED <<row, risky, call, inFlight, booted, effect, owner, restarts>>

\* The API stops and starts again, perhaps with other definitions.
Restart ==
  /\ restarts < MaxRestarts /\ restarts' = restarts + 1
  /\ call' = [t \in Tasks |-> Idle] /\ inFlight' = [k \in Keys |-> None]
  /\ booted' = FALSE /\ risky' \in BOOLEAN
  /\ UNCHANGED <<row, now, effect, owner>>

Run(t) == \/ Join(t) \/ Dispatch(t) \/ CallOwner(t) \/ CallNobody(t) \/ OwnerAnswers(t)
          \/ AnswerLost(t) \/ RecordSucceeded(t) \/ RecordKnownFailure(t)

Next ==
  \/ \E c \in Callers, k \in Keys :
       \/ \E q \in Requests : Invoke(c, k, q) \/ Replay(c, k, q)
       \/ \E d \in {"approved", "rejected"} : Decide(c, k, d)
  \/ \E c \in Callers : DecideApproval(c)
  \/ \E t \in Tasks : Run(t)
  \/ \E k \in Keys : OwnerCommits(k) \/ Look(k)
  \/ Sweep \/ Tick \/ Restart

Spec == Init /\ [][Next]_vars
FairSpec == Spec /\ WF_vars(Sweep) /\ \A t \in Tasks : WF_vars(Run(t))

-----------------------------------------------------------------------------
TypeOK == /\ row \in [Keys -> Row] /\ now \in 0..MaxTime /\ risky \in BOOLEAN
          /\ call \in [Tasks -> Call] /\ inFlight \in [Keys -> Tasks \cup {None}]
          /\ booted \in BOOLEAN
          /\ effect \in [Keys -> BOOLEAN] /\ owner \in [Keys -> {"unasked", "asked", "refused"}]
          /\ restarts \in 0..MaxRestarts

(* Nothing an approval was asked for happens without one: not when it was   *)
(* rejected, not when it expired, not after the definition changed.         *)
NothingUnapproved ==
  \A k \in Keys : effect[k] /\ row[k].asked => row[k].decision = "approved"

(* The receipt tells the truth about the owner: what is recorded as failed, *)
(* for whatever reason, has had no effect, and a success has.               *)
ReceiptTellsTruth ==
  \A k \in Keys : /\ row[k].status = "failed" => ~effect[k]
                  /\ row[k].status = "succeeded" => effect[k]

(* And it goes on telling it: an invocation that failed is never carried    *)
(* out by a call that was already under way.                                *)
NoCallAfterFailure ==
  \A t \in Tasks : call[t].at = "calling" => row[call[t].key].status # "failed"

(* The owner is called for one invocation by one flight at a time.          *)
OneOwnerCall ==
  \A s, t \in Tasks :
    (call[s].at = "calling" /\ call[t].at = "calling" /\ call[s].key = call[t].key) => s = t

(* A receipt that is settled does not change, and neither does a decision   *)
(* or the request it was made about.                                        *)
SettledIsFinal ==
  [][\A k \in Keys :
       /\ row[k].status \in {"succeeded", "failed"} => row'[k] = row[k]
       /\ row[k].decision # "none" => row'[k].decision = row[k].decision
       /\ row[k].status # "none" => row'[k].req = row[k].req]_vars

StageOf(r) == IF r.status = "pending" THEN "open" ELSE r.status
AllowedBy(r) == r.status # "none" /\ (r.asked => r.decision = "approved")

Contract ==
  INSTANCE MutationContract WITH
    stage   <- [k \in Keys |-> StageOf(row[k])],
    request <- [k \in Keys |-> row[k].req],
    allowed <- [k \in Keys |-> AllowedBy(row[k])],
    done    <- effect

(* Whatever races, expires, is lost or restarted, receipts and effects are  *)
(* a behaviour of the contract: an owner, however late, commits once and    *)
(* only for an invocation that is open and allowed, and an answer is final  *)
(* and true.                                                                *)
ImplementsContract == Contract!Spec

(* What the user approved is carried out without another request, even if   *)
(* the API stops right after the approval, unless the definition no longer  *)
(* asks for one.                                                            *)
ApprovedIsCarriedOut ==
  \A k \in Keys : row[k].decision = "approved" /\ row[k].status = "pending" ~>
    (owner[k] # "unasked" \/ row[k].status # "pending" \/ Drift(row[k]))
=============================================================================
