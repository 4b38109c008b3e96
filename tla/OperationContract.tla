------------------------- MODULE OperationContract -------------------------
(***************************************************************************)
(* What the operation contract (ADR-0025) promises an owner, without rows, *)
(* tokens, leases or retries: an operation is opened once with all its     *)
(* lock keys or not at all, no two open operations hold a common key, it   *)
(* ends once, the owner's ledger is told of the end in the same step, and  *)
(* the keys are free from then on.                                         *)
(***************************************************************************)
EXTENDS Naturals

CONSTANTS Ops, Keys

VARIABLES
  phase,    \* none, open, or how the operation ended
  holds,    \* the lock keys an operation holds
  ledger    \* how often the owner's finalize and onFailed ran for it

vars == <<phase, holds, ledger>>

Ends == {"succeeded", "failed", "cancelled"}

Init ==
  /\ phase = [o \in Ops |-> "none"]
  /\ holds = [o \in Ops |-> {}]
  /\ ledger = [o \in Ops |-> [applied |-> 0, told |-> 0]]

ToldOf(l, how) ==
  [applied |-> l.applied + (IF how = "succeeded" THEN 1 ELSE 0),
   told |-> l.told + (IF how = "failed" THEN 1 ELSE 0)]

(* Operations that lapsed are failed in the step that finds them lapsed;   *)
(* that step may open a new operation on the keys they held.               *)
Lapse(lapsed) ==
  /\ \A p \in lapsed : phase[p] = "open"
  /\ ledger' = [p \in Ops |-> IF p \in lapsed THEN ToldOf(ledger[p], "failed") ELSE ledger[p]]

Open(o, want, lapsed) ==
  /\ phase[o] = "none"
  /\ Lapse(lapsed)
  /\ \A p \in Ops \ lapsed : holds[p] \cap want = {}
  /\ phase' = [p \in Ops |-> IF p = o THEN "open" ELSE IF p \in lapsed THEN "failed" ELSE phase[p]]
  /\ holds' = [p \in Ops |-> IF p = o THEN want ELSE IF p \in lapsed THEN {} ELSE holds[p]]

Expire(lapsed) ==
  /\ Lapse(lapsed)
  /\ phase' = [p \in Ops |-> IF p \in lapsed THEN "failed" ELSE phase[p]]
  /\ holds' = [p \in Ops |-> IF p \in lapsed THEN {} ELSE holds[p]]

End(o, how) ==
  /\ phase[o] = "open"
  /\ phase' = [phase EXCEPT ![o] = how]
  /\ holds' = [holds EXCEPT ![o] = {}]
  /\ ledger' = [ledger EXCEPT ![o] = ToldOf(@, how)]

Next ==
  \/ \E o \in Ops, want \in SUBSET Keys, lapsed \in SUBSET Ops : Open(o, want, lapsed)
  \/ \E lapsed \in SUBSET Ops : Expire(lapsed)
  \/ \E o \in Ops, how \in Ends : End(o, how)

Spec == Init /\ [][Next]_vars

(* What an owner builds on: keys are held by one operation, and only while *)
(* it is open; the ledger heard of a success or a failure once, and of     *)
(* nothing else.                                                           *)
Promise ==
  /\ \A o \in Ops : phase[o] # "open" => holds[o] = {}
  /\ \A o, p \in Ops : o # p => holds[o] \cap holds[p] = {}
  /\ \A o \in Ops : ledger[o] = [applied |-> IF phase[o] = "succeeded" THEN 1 ELSE 0,
                                told    |-> IF phase[o] = "failed" THEN 1 ELSE 0]
============================================================================
