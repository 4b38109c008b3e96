---------------------- MODULE OperationContractProofs ----------------------
(***************************************************************************)
(* OperationKernel implements OperationContract: the initial rows map to   *)
(* its initial state, and every transaction to one of its steps or to a    *)
(* stutter.  The argument uses only what NextSteps says of a transaction.  *)
(***************************************************************************)
EXTENDS OperationKernelProofs

\* How one row and its image change when the row follows.
LEMMA Maps ==
  ASSUME NEW row, RowInv(row), NEW n, Follows(row, n)
  PROVE  /\ row.status \in Live /\ n.status \notin Live =>
              /\ PhaseOf(row) = "open"
              /\ n.status \in Contract!Ends /\ PhaseOf(n) = n.status
              /\ n.locks = {}
              /\ n.applied = row.applied + (IF n.status = "succeeded" THEN 1 ELSE 0)
              /\ n.told = row.told + (IF n.status = "failed" THEN 1 ELSE 0)
         /\ (row.status \in Live /\ n.status \in Live) \/ row.status \notin Live =>
              /\ PhaseOf(n) = PhaseOf(row)
              /\ n.locks = row.locks /\ n.applied = row.applied /\ n.told = row.told
<1>1. row \in Row /\ n \in Row /\ RowInv(n) /\ n.request = row.request BY DEF RowInv, Follows
<1>2. ASSUME row.status \in Live, n.status \notin Live
      PROVE  /\ PhaseOf(row) = "open"
             /\ n.status \in Contract!Ends /\ PhaseOf(n) = n.status
             /\ n.locks = {}
             /\ n.applied = row.applied + (IF n.status = "succeeded" THEN 1 ELSE 0)
             /\ n.told = row.told + (IF n.status = "failed" THEN 1 ELSE 0)
  <2>1. row.status # "absent" /\ n.status # "absent"
        /\ row.status # "succeeded" /\ row.status # "failed"
    BY <1>2 DEF Live, Follows
  <2>2. n.status \in Terminal BY <1>1, <1>2, <2>1, FieldTypes
  <2> QED BY <1>1, <1>2, <2>1, <2>2 DEF PhaseOf, Contract!Ends, Terminal, RowInv
<1>3. ASSUME row.status \in Live /\ n.status \in Live
      PROVE  /\ PhaseOf(n) = PhaseOf(row)
             /\ n.locks = row.locks /\ n.applied = row.applied /\ n.told = row.told
  <2>1. row.status \notin {"absent", "succeeded", "failed"}
        /\ n.status \notin {"absent", "succeeded", "failed"}
    BY <1>3 DEF Live
  <2> QED BY <1>1, <1>3, <2>1 DEF PhaseOf, RowInv
<1>4. ASSUME row.status \notin Live
      PROVE  /\ PhaseOf(n) = PhaseOf(row)
             /\ n.locks = row.locks /\ n.applied = row.applied /\ n.told = row.told
  <2>1. n.status = row.status
    <3>1. CASE row.status = "absent" BY <3>1 DEF Follows
    <3>2. CASE row.status # "absent"
      <4>1. row.status \in Terminal BY <1>1, <1>4, <3>2, FieldTypes
      <4>2. n = [row EXCEPT !.file = n.file] BY <4>1 DEF Follows
      <4>3. [row EXCEPT !.file = n.file].status = row.status BY <1>1 DEF Row
      <4> QED BY <4>2, <4>3
    <3> QED BY <3>1, <3>2
  <2> QED BY <1>1, <1>4, <2>1 DEF PhaseOf, RowInv
<1> QED BY <1>2, <1>3, <1>4

Lapsed == {p \in Ops : op[p].status \in Live /\ op'[p].status = "failed"}

\* The image of rows that lapse or do not end.
LEMMA LapseMaps ==
  ASSUME IInv, NEW p \in Ops, Follows(op[p], op'[p]), Lapses(p)
  PROVE  /\ p \in Lapsed =>
              /\ PhaseOf(op[p]) = "open" /\ PhaseOf(op'[p]) = "failed" /\ op'[p].locks = {}
              /\ op'[p].applied = op[p].applied + 0 /\ op'[p].told = op[p].told + 1
         /\ p \notin Lapsed =>
              /\ PhaseOf(op'[p]) = PhaseOf(op[p]) /\ op'[p].locks = op[p].locks
              /\ op'[p].applied = op[p].applied /\ op'[p].told = op[p].told
<1>1. RowInv(op[p]) BY DEF IInv
<1>2. p \in Lapsed => op[p].status \in Live /\ op'[p].status \notin Live /\ op'[p].status = "failed"
  BY DEF Lapsed, Live
<1>3. p \notin Lapsed =>
        (op[p].status \in Live /\ op'[p].status \in Live) \/ op[p].status \notin Live
  BY DEF Lapsed, Lapses
<1> QED BY <1>1, <1>2, <1>3, Maps

\* Every step of the kernel is a step of the contract.
LEMMA StepMaps ==
  ASSUME IInv, Next PROVE Contract!Next
<1>1. CASE RowsStep
  <2>1. \A p \in Ops : Follows(op[p], op'[p]) BY <1>1 DEF RowsStep
  <2>2. CASE \A p \in Ops : Lapses(p)
    <3>1. PICK lapsed \in SUBSET Ops : lapsed = Lapsed BY DEF Lapsed
    <3>2. Contract!Expire(lapsed)
      BY <2>1, <2>2, LapseMaps, <3>1 DEF Contract!Expire, Contract!Lapse, Contract!ToldOf
    <3> QED BY <3>2 DEF Contract!Next
  <2>3. CASE \E o \in Ops : ~Lapses(o) /\ \A p \in Ops \ {o} : op'[p] = op[p]
    <3>1. PICK o \in Ops : ~Lapses(o) /\ \A p \in Ops \ {o} : op'[p] = op[p] BY <2>3
    <3>2. op[o].status \in Live /\ op'[o].status \notin Live BY <3>1 DEF Lapses
    <3>3. /\ PhaseOf(op[o]) = "open"
          /\ op'[o].status \in Contract!Ends /\ PhaseOf(op'[o]) = op'[o].status
          /\ op'[o].locks = {}
          /\ op'[o].applied = op[o].applied + (IF op'[o].status = "succeeded" THEN 1 ELSE 0)
          /\ op'[o].told = op[o].told + (IF op'[o].status = "failed" THEN 1 ELSE 0)
      BY <2>1, <3>2, Maps DEF IInv
    <3>4. PICK how \in Contract!Ends : how = op'[o].status BY <3>3
    <3>5. Contract!End(o, how)
      BY <3>1, <3>3, <3>4 DEF Contract!End, Contract!ToldOf
    <3> QED BY <3>5 DEF Contract!Next
  <2>4. \/ \A p \in Ops : Lapses(p)
        \/ \E o \in Ops : ~Lapses(o) /\ \A p \in Ops \ {o} : op'[p] = op[p]
    BY <1>1 DEF RowsStep, Lapses
  <2> QED BY <2>2, <2>3, <2>4
<1>2. CASE \E o \in Ops : CreateStep(o)
  <2>1. PICK o \in Ops : CreateStep(o) BY <1>2
  <2>2. op[o].status = "absent" /\ RowInv(op[o]) BY <2>1 DEF CreateStep, IInv
  <2>3. PhaseOf(op[o]) = "none" /\ op[o].applied = 0 /\ op[o].told = 0
    BY <2>2 DEF PhaseOf, RowInv, Live
  <2>4. PhaseOf(op'[o]) = "open" /\ op'[o].applied = 0 /\ op'[o].told = 0
    BY <2>1 DEF CreateStep, PhaseOf, RowInv, Live
  <2>5. o \notin Lapsed /\ Lapsed \in SUBSET Ops BY <2>2 DEF Lapsed, Live
  <2>6. \A p \in Ops \ {o} : Follows(op[p], op'[p]) /\ Lapses(p) /\ op'[p].locks \cap op'[o].locks = {}
    BY <2>1 DEF CreateStep
  <2>7. op'[o].locks \in SUBSET Keys
    <3>1. op'[o] \in Row BY <2>1 DEF CreateStep
    <3> QED BY <3>1, FieldTypes
  <2>8. op[o].locks = {} BY <2>2 DEF RowInv, Live
  <2>9. \A p \in Ops \ {o} :
          /\ p \in Lapsed =>
               /\ PhaseOf(op[p]) = "open" /\ PhaseOf(op'[p]) = "failed" /\ op'[p].locks = {}
               /\ op'[p].applied = op[p].applied + 0 /\ op'[p].told = op[p].told + 1
          /\ p \notin Lapsed =>
               /\ PhaseOf(op'[p]) = PhaseOf(op[p]) /\ op'[p].locks = op[p].locks
               /\ op'[p].applied = op[p].applied /\ op'[p].told = op[p].told
    BY <2>6, LapseMaps
  <2>10. \A p \in Ops \ Lapsed : op[p].locks \cap op'[o].locks = {}
    BY <2>6, <2>8, <2>9
  <2>11. PICK want \in SUBSET Keys, lapsed \in SUBSET Ops : want = op'[o].locks /\ lapsed = Lapsed
    BY <2>5, <2>7
  <2>12. Contract!Lapse(lapsed)
    BY <2>3, <2>4, <2>5, <2>9, <2>11 DEF Contract!Lapse, Contract!ToldOf
  <2>13. \A p \in Ops : PhaseOf(op'[p]) = IF p = o THEN "open" ELSE IF p \in Lapsed THEN "failed"
                                          ELSE PhaseOf(op[p])
    BY <2>4, <2>9
  <2>14. \A p \in Ops : op'[p].locks = IF p = o THEN op'[o].locks ELSE IF p \in Lapsed THEN {}
                                       ELSE op[p].locks
    BY <2>9
  <2>15. Contract!Open(o, want, lapsed)
    BY <2>3, <2>10, <2>11, <2>12, <2>13, <2>14 DEF Contract!Open
  <2> QED BY <2>15 DEF Contract!Next
<1> QED BY <1>1, <1>2, NextSteps

(* The rows, whatever the interleaving of transactions, keep the contract. *)
THEOREM ContractIsImplemented == Spec => ImplementsContract
<1>1. Init => Contract!Init
  <2> SUFFICES ASSUME Init PROVE Contract!Init OBVIOUS
  <2>1. \A o \in Ops : op[o] = Blank BY DEF Init
  <2>2. Blank.status = "absent" /\ Blank.locks = {} /\ Blank.applied = 0 /\ Blank.told = 0
    BY DEF Blank
  <2>3. \A o \in Ops : PhaseOf(op[o]) = "none" /\ op[o].locks = {}
                       /\ op[o].applied = 0 /\ op[o].told = 0
    BY <2>1, <2>2 DEF PhaseOf, Live
  <2> QED BY <2>3 DEF Contract!Init
<1>2. IInv /\ [Next]_vars => [Contract!Next]_(Contract!vars)
  <2>1. UNCHANGED vars => UNCHANGED Contract!vars BY DEF vars, Contract!vars, PhaseOf
  <2> QED BY <2>1, StepMaps
<1> QED BY <1>1, <1>2, Invariant, PTL DEF Spec, ImplementsContract, Contract!Spec

----------------------------------------------------------------------------
(* Owners that make several calls in one transaction.                       *)

Several ==
  INSTANCE OperationTransactions WITH
    phase  <- [o \in Ops |-> PhaseOf(op[o])],
    holds  <- [o \in Ops |-> op[o].locks],
    ledger <- [o \in Ops |-> [applied |-> op[o].applied, told |-> op[o].told]]

\* A step of the contract is a transaction with one call.
LEMMA OneCall ==
  ASSUME Contract!Next PROVE Several!TransactNext
<1>0. Several!Ends = Contract!Ends /\ "failed" \in Several!Ends
  BY DEF Several!Ends, Contract!Ends
<1>1. ASSUME NEW o \in Ops, NEW want \in SUBSET Keys, NEW lapsed \in SUBSET Ops,
             Contract!Open(o, want, lapsed)
      PROVE  Several!TransactNext
  <2> DEFINE how == [p \in lapsed |-> "failed"]
  <2>1. o \notin lapsed BY <1>1 DEF Contract!Open, Contract!Lapse
  <2>2. Several!Transact(lapsed, how, {o}, want)
    BY <1>1, <2>1 DEF Contract!Open, Contract!Lapse, Contract!ToldOf,
                      Several!Transact, Several!ToldOf
  <2>3. how \in [lapsed -> Several!Ends] BY <1>0
  <2> HIDE DEF how
  <2> QED BY <2>2, <2>3 DEF Several!TransactNext
<1>2. ASSUME NEW lapsed \in SUBSET Ops, Contract!Expire(lapsed)
      PROVE  Several!TransactNext
  <2> DEFINE how == [p \in lapsed |-> "failed"]
  <2>1. Several!Transact(lapsed, how, {}, {})
    BY <1>2 DEF Contract!Expire, Contract!Lapse, Contract!ToldOf,
                Several!Transact, Several!ToldOf
  <2>2. how \in [lapsed -> Several!Ends] BY <1>0
  <2> HIDE DEF how
  <2> QED BY <2>1, <2>2 DEF Several!TransactNext
<1>3. ASSUME NEW o \in Ops, NEW end \in Contract!Ends, Contract!End(o, end)
      PROVE  Several!TransactNext
  <2> DEFINE how == [p \in {o} |-> end]
  <2>1. Several!Transact({o}, how, {}, {})
    BY <1>3 DEF Contract!End, Contract!ToldOf, Several!Transact, Several!ToldOf
  <2>2. how \in [{o} -> Several!Ends] /\ {o} \in SUBSET Ops BY <1>0
  <2> HIDE DEF how
  <2> QED BY <2>1, <2>2 DEF Several!TransactNext
<1> QED BY <1>1, <1>2, <1>3 DEF Contract!Next

(* The kernel's calls are transactions of the contract the AI jobs keep:    *)
(* the two components agree on what an operation may do.                    *)
THEOREM TransactionsAreAllowed == Spec => Several!TransactSpec
<1>1. Contract!Init => Several!Init
  BY DEF Contract!Init, Several!Init
<1>2. [Contract!Next]_(Contract!vars) => [Several!TransactNext]_(Several!vars)
  BY OneCall DEF Contract!vars, Several!vars
<1> QED BY <1>1, <1>2, ContractIsImplemented, PTL
        DEF ImplementsContract, Contract!Spec, Several!TransactSpec

(* What the contract promises an owner, the rows keep.                       *)
THEOREM PromiseIsKept == Spec => []Contract!Promise
<1>1. IInv => Contract!Promise
  <2> SUFFICES ASSUME IInv PROVE Contract!Promise OBVIOUS
  <2>1. \A o \in Ops : RowInv(op[o]) BY DEF IInv
  <2>2. \A o \in Ops : /\ PhaseOf(op[o]) # "open" => op[o].locks = {}
                       /\ op[o].applied = IF PhaseOf(op[o]) = "succeeded" THEN 1 ELSE 0
                       /\ op[o].told = IF PhaseOf(op[o]) = "failed" THEN 1 ELSE 0
    BY <2>1 DEF RowInv, PhaseOf, Live
  <2>3. \A o, p \in Ops : o # p => op[o].locks \cap op[p].locks = {}
    BY DEF IInv, LockExclusion
  <2> QED BY <2>2, <2>3 DEF Contract!Promise
<1> QED BY <1>1, Invariant, PTL
============================================================================
