----------------------- MODULE OperationTransactions -----------------------
(***************************************************************************)
(* What the operation contract leaves of an owner that makes several calls *)
(* of it in one transaction: operations end, each for itself, and one is   *)
(* opened on keys that are free by then, all of it or nothing.  A step of  *)
(* OperationContract is such a transaction.                                *)
(***************************************************************************)
EXTENDS OperationContract

Transact(ended, how, opened, want) ==
  /\ \A o \in ended : phase[o] = "open"
  /\ \A o \in opened : phase[o] = "none"
  /\ \A o \in opened : \A p \in Ops \ ended : want \cap holds[p] = {}
  /\ phase' = [o \in Ops |-> IF o \in opened THEN "open"
                             ELSE IF o \in ended THEN how[o] ELSE phase[o]]
  /\ holds' = [o \in Ops |-> IF o \in opened THEN want
                             ELSE IF o \in ended THEN {} ELSE holds[o]]
  /\ ledger' = [o \in Ops |-> IF o \in ended THEN ToldOf(ledger[o], how[o]) ELSE ledger[o]]

TransactNext ==
  \E ended \in SUBSET Ops, opened \in {{}} \cup {{o} : o \in Ops}, want \in SUBSET Keys :
    \E how \in [ended -> Ends] : Transact(ended, how, opened, want)

TransactSpec == Init /\ [][TransactNext]_vars
============================================================================
