----------------------- MODULE OperationKernelProofs -----------------------
(***************************************************************************)
(* Theorems about OperationKernel for every set of operations, kinds, lock *)
(* keys, callers and delays.                                               *)
(*                                                                         *)
(* The argument: RowInv says what one row looks like between transactions; *)
(* Follows(old, new) says what any transaction may do to an existing row.  *)
(* A step that creates no row takes every row to one that follows it       *)
(* (lemma RowsFollow); begin and prepare also insert one row on keys, key  *)
(* and file nobody has (lemma RowCreated).  Both preserve IInv.            *)
(***************************************************************************)
EXTENDS OperationKernel, OperationRowProofs

RowInv(row) ==
  /\ row \in Row
  /\ row.status # "absent" => row.request \in Requests
  /\ row.locks = IF row.status \in Live THEN KeysOf[row.request] ELSE {}
  /\ row.applied = IF row.status = "succeeded" THEN 1 ELSE 0
  /\ row.told = IF row.status = "failed" THEN 1 ELSE 0
  /\ row.attempts <= row.max
  /\ row.declared <= row.attempts
  /\ row.status = "executing" => row.declared < row.attempts
  /\ row.status \in Live \cup {"succeeded"} => row.file = FileOf[row.request]
  /\ \A s \in Slots : row.chunks[s] # None =>
       /\ row.status \in Live
       /\ row.declared < row.chunks[s].attempt
       /\ row.chunks[s].attempt <= row.attempts

\* The token of an executing row names its current attempt.
GrantInv(row, gs) ==
  /\ row.status = "absent" => gs = {}
  /\ \A g \in gs : /\ g.token <= row.token
                   /\ row.status = "executing" /\ g.token = row.token
                      => g.attempt = row.attempts

FileUnique ==
  \A o, p \in Ops : o # p /\ op[o].status # "absent" /\ op[p].status # "absent"
                    /\ OpKind(o) = OpKind(p) /\ op[o].file # None => op[o].file # op[p].file

IdemUnique ==
  \A o, p \in Ops : o # p /\ op[o].status # "absent" /\ op[p].status # "absent"
                    /\ OpKind(o) = OpKind(p) /\ op[o].idem # None => op[o].idem # op[p].idem

IInv ==
  /\ op \in [Ops -> Row]
  /\ grants \in [Ops -> SUBSET Grant]
  /\ \A o \in Ops : RowInv(op[o])
  /\ \A o \in Ops : GrantInv(op[o], grants[o])
  /\ LockExclusion
  /\ FileUnique
  /\ IdemUnique

\* What a transaction may make of a row that exists.
Follows(row, new) ==
  /\ RowInv(new)
  /\ new.request = row.request
  /\ new.idem = row.idem
  /\ new.file = row.file \/ new.file = None
  /\ new.locks \subseteq row.locks
  /\ (new.status = "absent" <=> row.status = "absent")
  /\ new.token >= row.token
  /\ new.status = "executing" /\ new.token = row.token
     => row.status = "executing" /\ new.attempts = row.attempts
  /\ row.status \in Terminal => new = [row EXCEPT !.file = new.file]
  /\ \A s \in Slots : row.chunks[s] # None =>
       \/ new.chunks[s] = row.chunks[s]
       \/ new.status \in Terminal
       \/ new.declared = row.attempts

----------------------------------------------------------------------------
(* The writes of OperationRow. *)

\* An empty staging area stages nothing.
LEMMA NothingStaged == \A s \in Slots : NoChunks[s] = None
BY DEF NoChunks

\* A row that is left alone follows itself.
LEMMA SameFollows ==
  ASSUME NEW row, RowInv(row) PROVE Follows(row, row)
<1>1. row \in Row BY DEF RowInv
<1>2. row = [row EXCEPT !.file = row.file] BY <1>1 DEF Row
<1> QED BY <1>1, <1>2, FieldTypes DEF RowInv, Follows

\* A live row that ends.
LEMMA EndFollows ==
  ASSUME NEW row, RowInv(row), row.status \in Live, NEW n \in Row,
         n.status \in Terminal, n.locks = {}, n.chunks = NoChunks,
         n.request = row.request, n.idem = row.idem, n.file = row.file,
         n.token = row.token, n.attempts = row.attempts, n.max = row.max,
         n.declared = row.declared,
         n.applied = row.applied + (IF n.status = "succeeded" THEN 1 ELSE 0),
         n.told = row.told + (IF n.status = "failed" THEN 1 ELSE 0)
  PROVE  Follows(row, n)
<1>1. row \in Row BY DEF RowInv
<1>2. row.status \notin Terminal /\ row.applied = 0 /\ row.told = 0 BY DEF RowInv, Live, Terminal
<1>3. n.status \notin Live /\ n.status # "absent" /\ row.status # "absent" BY DEF Live, Terminal
<1>4. RowInv(n)
  BY <1>1, <1>2, <1>3, NothingStaged, FieldTypes DEF RowInv, Live, Terminal
<1> QED BY <1>1, <1>2, <1>3, <1>4, FieldTypes DEF Follows, Live, Terminal

\* A live row that stays live.
LEMMA LiveFollows ==
  ASSUME NEW row, RowInv(row), row.status \in Live, NEW n \in Row, n.status \in Live,
         n.locks = row.locks, n.request = row.request, n.idem = row.idem, n.file = row.file,
         n.max = row.max, n.applied = row.applied, n.told = row.told,
         n.token >= row.token,
         n.token = row.token /\ n.status = "executing" => row.status = "executing",
         n.token = row.token => n.attempts = row.attempts,
         row.attempts <= n.attempts, n.attempts <= row.max,
         n.declared = row.declared \/ n.declared = row.attempts,
         n.status = "executing" => n.declared < n.attempts,
         \A s \in Slots : n.chunks[s] # None =>
           /\ n.declared < n.chunks[s].attempt /\ n.chunks[s].attempt <= n.attempts,
         \A s \in Slots : row.chunks[s] # None =>
           n.chunks[s] = row.chunks[s] \/ n.declared = row.attempts
  PROVE  Follows(row, n)
<1>1. row \in Row BY DEF RowInv
<1>2. row.status \notin Terminal /\ n.status \notin Terminal
      /\ row.status # "absent" /\ n.status # "absent" /\ n.status \notin {"succeeded", "failed"}
      /\ row.status \notin {"succeeded", "failed"}
  BY DEF Live, Terminal
<1>3. RowInv(n)
  <2>1. n.declared <= n.attempts BY <1>1, FieldTypes DEF RowInv
  <2> QED BY <1>1, <1>2, <2>1 DEF RowInv
<1> QED BY <1>1, <1>2, <1>3 DEF Follows

\* A terminal failure of a live row.
LEMMA CloseFailedFollows ==
  ASSUME NEW row, RowInv(row), row.status \in Live
  PROVE  Follows(row, CloseFailed(row)) /\ CloseFailed(row).status = "failed"
<1>1. row \in Row /\ row.applied \in Nat BY FieldTypes DEF RowInv
<1>2. CloseFailed(row) \in Row BY <1>1, CloseFailedTyped
<1> QED BY <1>1, <1>2, CloseFailedFields, EndFollows DEF Terminal

\* A success of a live row.
LEMMA FinalizeFollows ==
  ASSUME NEW row, RowInv(row), row.status \in Live
  PROVE  Follows(row, FinalizeAndClose(row)) /\ FinalizeAndClose(row).status = "succeeded"
<1>1. row \in Row /\ row.told \in Nat BY FieldTypes DEF RowInv
<1>2. FinalizeAndClose(row) \in Row BY <1>1, FinalizeTyped
<1> QED BY <1>1, <1>2, FinalizeFields, EndFollows DEF Terminal

\* A cancel of a live row.
LEMMA CancelledFollows ==
  ASSUME NEW row, RowInv(row), row.status \in Live
  PROVE  Follows(row, Close(row, "cancelled"))
<1>1. row \in Row /\ row.told \in Nat /\ row.applied \in Nat BY FieldTypes DEF RowInv
<1>2. Close(row, "cancelled") \in Row BY <1>1, CloseTyped DEF Terminal
<1> QED BY <1>1, <1>2, CloseFields, EndFollows DEF Terminal

\* A retry, by a failed finish or by expiry.
LEMMA RescheduleFollows ==
  ASSUME NEW row, RowInv(row), row.status = "executing",
         NEW delay \in Int, NEW clear \in BOOLEAN
  PROVE  /\ Follows(row, Reschedule(row, delay, clear))
         /\ Reschedule(row, delay, clear).status = "prepared"
<1> DEFINE n == Reschedule(row, delay, clear)
<1>1. row \in Row /\ row.token \in Nat /\ row.attempts \in Nat /\ row.declared \in Nat
  BY FieldTypes DEF RowInv
<1>2. n \in Row BY <1>1, RescheduleTyped
<1>3. /\ n.status = "prepared" /\ n.locks = row.locks
      /\ n.chunks = IF clear THEN NoChunks ELSE row.chunks
      /\ n.request = row.request /\ n.idem = row.idem /\ n.file = row.file
      /\ n.token = row.token + 1 /\ n.attempts = row.attempts /\ n.max = row.max
      /\ n.applied = row.applied /\ n.told = row.told
      /\ n.declared = IF clear THEN row.attempts ELSE row.declared
  BY <1>1, RescheduleFields
<1> HIDE DEF n
<1>4. row.status \in Live /\ n.status \in Live BY <1>3 DEF Live
<1>5. \A s \in Slots : n.chunks[s] # None =>
        n.declared < n.chunks[s].attempt /\ n.chunks[s].attempt <= n.attempts
  BY <1>3, NothingStaged DEF RowInv
<1>6. n.token # row.token /\ n.token >= row.token BY <1>1, <1>3
<1>7. row.attempts <= n.attempts /\ n.attempts <= row.max BY <1>1, <1>3 DEF RowInv
<1>8. Follows(row, n) BY <1>2, <1>3, <1>4, <1>5, <1>6, <1>7, LiveFollows
<1> QED BY <1>3, <1>8 DEF n

\* Whatever expiry makes of a row.
LEMMA ExpireFollows ==
  ASSUME NEW row, RowInv(row), NEW lag \in Int
  PROVE  Follows(row, ExpireIfDue(row, lag))
<1>1. CASE row.status # "executing" \/ ~TimeIsUp(row, lag)
  BY <1>1, SameFollows DEF ExpireIfDue
<1>2. CASE row.status = "executing" /\ TimeIsUp(row, lag) /\ Retryable(row)
  <2>1. -lag \in Int OBVIOUS
  <2> QED BY <1>2, <2>1, RescheduleFollows DEF ExpireIfDue
<1>3. CASE row.status = "executing" /\ TimeIsUp(row, lag) /\ ~Retryable(row)
  BY <1>3, CloseFailedFollows DEF ExpireIfDue, Live
<1> QED BY <1>1, <1>2, <1>3

\* A row that is over after the expiry was over before it, or is failed now.
LEMMA ExpireToTerminal ==
  ASSUME NEW row, RowInv(row), NEW lag \in Int, ExpireIfDue(row, lag).status \in Terminal
  PROVE  \/ ExpireIfDue(row, lag) = row /\ row.status \in Terminal
         \/ ExpireIfDue(row, lag).status = "failed" /\ row.status \in Live
<1>1. CASE row.status # "executing" \/ ~TimeIsUp(row, lag)
  BY <1>1 DEF ExpireIfDue
<1>2. CASE row.status = "executing" /\ TimeIsUp(row, lag) /\ Retryable(row)
  <2>1. -lag \in Int OBVIOUS
  <2>2. Reschedule(row, -lag, FALSE).status = "prepared" BY <1>2, <2>1, RescheduleFollows
  <2> QED BY <1>2, <2>2 DEF ExpireIfDue, Terminal
<1>3. CASE row.status = "executing" /\ TimeIsUp(row, lag) /\ ~Retryable(row)
  BY <1>3, CloseFailedFollows DEF ExpireIfDue, Live
<1> QED BY <1>1, <1>2, <1>3

\* The file hash of a run that failed or was cancelled may be released.
LEMMA ReleaseFollows ==
  ASSUME NEW row, RowInv(row), row.status # "succeeded", NEW lag \in Int,
         ExpireIfDue(row, lag).status \in Terminal
  PROVE  Follows(row, [ExpireIfDue(row, lag) EXCEPT !.file = None])
<1> DEFINE n == ExpireIfDue(row, lag)
           m == [n EXCEPT !.file = None]
<1>1. Follows(row, n) BY ExpireFollows
<1>2. n.status \in Terminal /\ n.status # "succeeded"
  BY ExpireToTerminal
<1>3. row.status \in Terminal => n = row BY ExpireToTerminal DEF Live, Terminal
<1> HIDE DEF n
<1>4. n \in Row BY <1>1 DEF Follows, RowInv
<1>5. m \in Row BY <1>4, ClearFile
<1>6. /\ m.file = None /\ m.status = n.status /\ m.request = n.request /\ m.idem = n.idem
      /\ m.token = n.token /\ m.attempts = n.attempts /\ m.max = n.max
      /\ m.locks = n.locks /\ m.chunks = n.chunks
      /\ m.applied = n.applied /\ m.told = n.told /\ m.declared = n.declared
  BY <1>4 DEF Row
<1>7. row.status \in Terminal => m = [row EXCEPT !.file = m.file]
  BY <1>3, <1>6
<1> HIDE DEF m
<1>8. RowInv(m)
  BY <1>1, <1>2, <1>5, <1>6 DEF Follows, RowInv, Live, Terminal
<1>9. Follows(row, m)
  BY <1>1, <1>6, <1>7, <1>8 DEF Follows
<1> QED BY <1>9 DEF m, n

\* A claim of a row that is due.
LEMMA ClaimedFollows ==
  ASSUME NEW row, RowInv(row), row.status \in {"prepared", "executing"}, Retryable(row),
         NEW lag \in Int
  PROVE  Follows(row, Claimed(row, lag)) /\ Claimed(row, lag).status = "executing"
<1> DEFINE n == Claimed(row, lag)
<1>1. /\ row \in Row /\ row.request \in Requests
      /\ row.token \in Nat /\ row.attempts \in Nat /\ row.declared \in Nat /\ row.max \in Nat
  BY FieldTypes DEF RowInv
<1>2. n \in Row BY <1>1, ClaimedTyped
<1>3. /\ n.status = "executing" /\ n.locks = row.locks /\ n.chunks = row.chunks
      /\ n.request = row.request /\ n.idem = row.idem /\ n.file = row.file
      /\ n.token = row.token + 1 /\ n.attempts = row.attempts + 1 /\ n.max = row.max
      /\ n.applied = row.applied /\ n.told = row.told /\ n.declared = row.declared
  BY <1>1, ClaimedFields
<1> HIDE DEF n
<1>4. row.status \in Live /\ n.status \in Live BY <1>3 DEF Live
<1>5. \A s \in Slots : n.chunks[s] # None =>
        n.declared < n.chunks[s].attempt /\ n.chunks[s].attempt <= n.attempts
  <2>1. \A s \in Slots : row.chunks[s] # None => row.chunks[s].attempt \in Nat
    BY <1>1, FieldTypes DEF Chunk
  <2> QED BY <1>1, <1>3, <2>1 DEF RowInv
<1>6. n.token # row.token /\ n.token >= row.token BY <1>1, <1>3
<1>7. row.attempts <= n.attempts /\ n.attempts <= row.max /\ n.declared < n.attempts
  BY <1>1, <1>3 DEF RowInv, Retryable
<1>8. Follows(row, n) BY <1>2, <1>3, <1>4, <1>5, <1>6, <1>7, LiveFollows
<1> QED BY <1>3, <1>8 DEF n

\* A finish that leaves the outcome open.
LEMMA HeldFollows ==
  ASSUME NEW row, RowInv(row), row.status = "executing"
  PROVE  Follows(row, Held(row))
<1>1. row \in Row BY DEF RowInv
<1> QED BY <1>1, FieldTypes, HeldTyped, HeldFields
        DEF RowInv, Follows, Live, Terminal

\* A chunk stored by the holder of the current attempt.
LEMMA WithChunkFollows ==
  ASSUME NEW row, RowInv(row), row.status = "executing",
         NEW s \in Slots, NEW sum \in Sums, NEW progress \in Progress \cup {None}, NEW lag \in Int
  PROVE  Follows(row, WithChunk(row, s, sum, row.attempts, progress, lag))
<1> DEFINE n == WithChunk(row, s, sum, row.attempts, progress, lag)
<1>1. row \in Row /\ row.request \in Requests /\ row.attempts \in Nat BY FieldTypes DEF RowInv
<1>2. n \in Row BY <1>1, WithChunkTyped
<1>3. /\ n.status = row.status /\ n.locks = row.locks
      /\ n.request = row.request /\ n.idem = row.idem /\ n.file = row.file
      /\ n.token = row.token /\ n.attempts = row.attempts /\ n.max = row.max
      /\ n.applied = row.applied /\ n.told = row.told /\ n.declared = row.declared
  BY <1>1 DEF WithChunk, Row
<1>4. \A t \in Slots : \/ n.chunks[t] = row.chunks[t]
                       \/ row.chunks[t] = None /\ n.chunks[t].attempt = row.attempts
  <2> DEFINE v == IF ChunkVerdict(row, s, sum) = "store"
                  THEN [row.chunks EXCEPT ![s] = [sum |-> sum, attempt |-> row.attempts]]
                  ELSE row.chunks
  <2>1. n.chunks = v BY <1>1 DEF WithChunk, Row
  <2>2. ChunkVerdict(row, s, sum) = "store" => row.chunks[s] = None BY DEF ChunkVerdict
  <2>3. row.chunks \in [Slots -> Chunk \cup {None}] BY <1>1, FieldTypes
  <2> HIDE DEF n
  <2> QED BY <2>1, <2>2, <2>3
<1> HIDE DEF n
<1>5. RowInv(n)
  BY <1>1, <1>2, <1>3, <1>4, FieldTypes DEF RowInv, Live, Terminal
<1>6. Follows(row, n)
  BY <1>1, <1>2, <1>3, <1>4, <1>5, FieldTypes DEF Follows, Live, Terminal
<1> QED BY <1>6 DEF n

\* Time passing.
LEMMA AgedFollows ==
  ASSUME NEW row, RowInv(row), row.status \in {"prepared", "executing"}
  PROVE  Follows(row, [row EXCEPT !.at = Aged(@)])
<1> DEFINE n == [row EXCEPT !.at = Aged(@)]
<1>1. row \in Row BY DEF RowInv
<1>2. Aged(row.at) \in Int BY <1>1, FieldTypes, KernelAssumption DEF Aged
<1>3. n \in Row BY <1>1, <1>2, SetAt
<1>4. /\ n.status = row.status /\ n.locks = row.locks /\ n.chunks = row.chunks
      /\ n.request = row.request /\ n.idem = row.idem /\ n.file = row.file
      /\ n.token = row.token /\ n.attempts = row.attempts /\ n.max = row.max
      /\ n.applied = row.applied /\ n.told = row.told /\ n.declared = row.declared
  BY <1>1 DEF Row
<1> HIDE DEF n
<1>5. Follows(row, n)
  BY <1>1, <1>3, <1>4, FieldTypes DEF RowInv, Follows, Live, Terminal
<1> QED BY <1>5 DEF n

\* A cancel that finds the row live after expiry.
LEMMA CancelFollows ==
  ASSUME NEW row, RowInv(row), NEW lag \in Int,
         ExpireIfDue(row, lag).status \notin Terminal, row.status # "absent"
  PROVE  Follows(row, Close(ExpireIfDue(row, lag), "cancelled"))
<1> DEFINE n == ExpireIfDue(row, lag)
           m == Close(n, "cancelled")
<1>1. Follows(row, n) BY ExpireFollows
<1>2. row.status \in Live
  <2>1. row.status \in Terminal => n = row BY DEF ExpireIfDue, Terminal
  <2> QED BY <2>1, FieldTypes DEF RowInv
<1>3. n.status \in Live BY <1>1, FieldTypes DEF Follows, RowInv
<1> HIDE DEF n
<1>4. Follows(n, m) BY <1>1, <1>3, CancelledFollows DEF Follows
<1>5. m.status = "cancelled" BY <1>1, CloseFields DEF Follows, RowInv
<1> HIDE DEF m
<1>6. Follows(row, m)
  BY <1>1, <1>2, <1>3, <1>4, <1>5, FieldTypes DEF Follows, RowInv, Live, Terminal
<1> QED BY <1>6 DEF m, n

\* Expiry ends a live row only by failing it.
LEMMA ExpireLapses ==
  ASSUME NEW row, RowInv(row), row.status \in Live, NEW lag \in Int
  PROVE  ExpireIfDue(row, lag).status \in Live \cup {"failed"}
<1>1. Follows(row, ExpireIfDue(row, lag)) BY ExpireFollows
<1>2. ExpireIfDue(row, lag).status \in Live \cup Terminal
  <2>1. ExpireIfDue(row, lag).status # "absent" BY <1>1 DEF Follows, Live
  <2> QED BY <1>1, <2>1, FieldTypes DEF Follows, RowInv
<1> QED BY <1>2, ExpireToTerminal DEF Live, Terminal

----------------------------------------------------------------------------
(* Steps. *)

\* A token somebody remembers is an old one or the one just issued.
GrantStep(o) ==
  /\ op[o].status = "absent" /\ op'[o].status = "absent" => grants'[o] = {}
  /\ \A g \in grants'[o] :
       \/ \E h \in grants[o] : h.token = g.token /\ h.attempt = g.attempt
       \/ g.token = op'[o].token /\ g.attempt = op'[o].attempts

\* A live row that ends was found lapsed.
Lapses(o) == op[o].status \in Live => op'[o].status \in Live \cup {"failed"}

\* A step of transactions that insert no row.
RowsStep ==
  /\ op' \in [Ops -> Row]
  /\ grants' \in [Ops -> SUBSET Grant]
  /\ \A o \in Ops : Follows(op[o], op'[o])
  /\ \A o \in Ops : GrantStep(o)
  /\ \/ \A o \in Ops : Lapses(o)
     \/ \E o \in Ops : \A p \in Ops \ {o} : op'[p] = op[p]

\* A step that inserts row o.
CreateStep(o) ==
  /\ op' \in [Ops -> Row]
  /\ grants' \in [Ops -> SUBSET Grant]
  /\ op[o].status = "absent"
  /\ RowInv(op'[o]) /\ op'[o].status \in Live
  /\ \A p \in Ops : GrantStep(p)
  /\ \A p \in Ops \ {o} :
       /\ Follows(op[p], op'[p])
       /\ Lapses(p)
       /\ op'[p].locks \cap op'[o].locks = {}
       /\ op[p].status # "absent" /\ KindOf[op'[o].request] = OpKind(p) =>
            /\ op'[o].idem # None => op'[p].idem # op'[o].idem
            /\ op'[o].file # None => op'[p].file # op'[o].file

\* Tokens stay tied to their attempt.
LEMMA GrantFollows ==
  ASSUME IInv, NEW o \in Ops, GrantStep(o),
         op[o].status # "absent" => Follows(op[o], op'[o]),
         RowInv(op'[o])
  PROVE  GrantInv(op'[o], grants'[o])
<1>1. op'[o].token \in Nat /\ op[o].token \in Nat
  BY FieldTypes DEF IInv, RowInv
<1>2. CASE op[o].status = "absent"
  <2>1. grants[o] = {} BY <1>2 DEF IInv, GrantInv
  <2> QED BY <1>1, <1>2, <2>1 DEF GrantStep, GrantInv
<1>3. CASE op[o].status # "absent"
  <2>1. op'[o].status # "absent" BY <1>3 DEF Follows
  <2>2. ASSUME NEW g \in grants'[o]
        PROVE  /\ g.token <= op'[o].token
               /\ op'[o].status = "executing" /\ g.token = op'[o].token
                  => g.attempt = op'[o].attempts
    <3>1. CASE g.token = op'[o].token /\ g.attempt = op'[o].attempts
      BY <1>1, <3>1
    <3>2. CASE \E h \in grants[o] : h.token = g.token /\ h.attempt = g.attempt
      <4>1. PICK h \in grants[o] : h.token = g.token /\ h.attempt = g.attempt BY <3>2
      <4>2. h.token \in Nat BY <4>1 DEF IInv, Grant
      <4>3. /\ h.token <= op[o].token
            /\ op[o].status = "executing" /\ h.token = op[o].token
               => h.attempt = op[o].attempts
        BY <4>1 DEF IInv, GrantInv
      <4>4. /\ op'[o].token >= op[o].token
            /\ op'[o].status = "executing" /\ op'[o].token = op[o].token
               => op[o].status = "executing" /\ op'[o].attempts = op[o].attempts
        BY <1>3 DEF Follows
      <4> QED BY <1>1, <4>1, <4>2, <4>3, <4>4
    <3> QED BY <3>1, <3>2 DEF GrantStep
  <2> QED BY <2>1, <2>2 DEF GrantInv
<1> QED BY <1>2, <1>3

(* A step that inserts no row preserves the invariant. *)
LEMMA RowsFollow ==
  ASSUME IInv, RowsStep PROVE IInv'
<1>1. \A o \in Ops : RowInv(op'[o]) /\ Follows(op[o], op'[o])
  BY DEF RowsStep, Follows
<1>2. ASSUME NEW o \in Ops PROVE GrantInv(op'[o], grants'[o])
  BY <1>1, GrantFollows DEF RowsStep
<1>3. LockExclusion'
  BY <1>1, ZenonT(60) DEF IInv, LockExclusion, Follows
<1>4. \A o \in Ops : /\ op'[o].request = op[o].request
                     /\ op'[o].idem = op[o].idem
                     /\ op'[o].file = op[o].file \/ op'[o].file = None
                     /\ (op'[o].status = "absent" <=> op[o].status = "absent")
  BY <1>1 DEF Follows
<1>5. \A o, p \in Ops : o # p /\ op'[o].status # "absent" /\ op'[p].status # "absent"
                        /\ OpKind(o)' = OpKind(p)' =>
        /\ op'[o].idem # None => op'[p].idem # op'[o].idem
        /\ op'[o].file # None => op'[p].file # op'[o].file
  BY <1>4 DEF IInv, FileUnique, IdemUnique, OpKind
<1>6. FileUnique'
  BY <1>5 DEF FileUnique
<1>7. IdemUnique'
  BY <1>5 DEF IdemUnique
<1> QED BY <1>1, <1>2, <1>3, <1>6, <1>7 DEF IInv, RowsStep

(* A step that inserts a row preserves the invariant. *)
LEMMA RowCreated ==
  ASSUME IInv, NEW c \in Ops, CreateStep(c) PROVE IInv'
<1>1. \A o \in Ops : RowInv(op'[o])
  BY DEF CreateStep, Follows
<1>2. ASSUME NEW o \in Ops PROVE GrantInv(op'[o], grants'[o])
  <2>1. op[o].status # "absent" => Follows(op[o], op'[o]) BY DEF CreateStep
  <2> QED BY <1>1, <2>1, GrantFollows DEF CreateStep
<1>3. LockExclusion'
  BY DEF IInv, LockExclusion, CreateStep, Follows
<1>4. \A o \in Ops \ {c} : /\ op'[o].request = op[o].request
                           /\ op'[o].idem = op[o].idem
                           /\ op'[o].file = op[o].file \/ op'[o].file = None
                           /\ (op'[o].status = "absent" <=> op[o].status = "absent")
  BY DEF CreateStep, Follows
<1>5. \A p \in Ops \ {c} : op'[p].status # "absent" /\ OpKind(c)' = OpKind(p)' =>
        /\ op'[c].idem # None => op'[p].idem # op'[c].idem
        /\ op'[c].file # None => op'[p].file # op'[c].file
  BY <1>4 DEF OpKind, CreateStep
<1>6. \A o, p \in Ops \ {c} : o # p /\ op'[o].status # "absent" /\ op'[p].status # "absent"
                              /\ OpKind(o)' = OpKind(p)' =>
        /\ op'[o].idem # None => op'[p].idem # op'[o].idem
        /\ op'[o].file # None => op'[p].file # op'[o].file
  BY <1>4 DEF IInv, FileUnique, IdemUnique, OpKind
<1>7. FileUnique'
  BY <1>5, <1>6 DEF FileUnique
<1>8. IdemUnique'
  BY <1>5, <1>6 DEF IdemUnique
<1> QED BY <1>1, <1>2, <1>3, <1>7, <1>8 DEF IInv, CreateStep

----------------------------------------------------------------------------
(* Every action is one of the two kinds of step. *)

\* One row changes and no token is issued.
LEMMA OneRow ==
  ASSUME IInv, NEW o \in Ops, Follows(op[o], op'[o]), op'[o] \in Row,
         op' = [op EXCEPT ![o] = op'[o]],
         \/ UNCHANGED grants
         \/ grants' = [grants EXCEPT ![o] = @ \cup {GrantOf(op'[o])}] /\ op[o].status # "absent"
  PROVE  RowsStep
<1>1. op' \in [Ops -> Row] /\ \A p \in Ops \ {o} : op'[p] = op[p] BY DEF IInv
<1>2. \A p \in Ops : Follows(op[p], op'[p]) BY <1>1, SameFollows DEF IInv
<1>3. GrantOf(op'[o]) \in Grant
  <2>1. op'[o].token \in Nat /\ op'[o].attempts \in Nat BY FieldTypes
  <2>2. 0 \in Lags BY KernelAssumption DEF Lags
  <2> QED BY <2>1, <2>2 DEF GrantOf, Grant
<1>4. grants' \in [Ops -> SUBSET Grant] BY <1>3 DEF IInv
<1>5. ASSUME NEW p \in Ops PROVE GrantStep(p)
  <2>1. op[p].status = "absent" => grants[p] = {} BY DEF IInv, GrantInv
  <2> DEFINE new == GrantOf(op'[o])
  <2> HIDE DEF new
  <2>2. \/ grants'[p] = grants[p]
        \/ p = o /\ op[p].status # "absent" /\ grants'[p] = grants[p] \cup {new}
    BY DEF IInv, new
  <2>3. new.token = op'[o].token /\ new.attempt = op'[o].attempts BY DEF new, GrantOf
  <2> QED BY <2>1, <2>2, <2>3 DEF GrantStep
<1> QED BY <1>1, <1>2, <1>4, <1>5 DEF RowsStep

\* Lags are integers.
LEMMA LagsInt == Lags \subseteq Int
BY KernelAssumption DEF Lags

\* Follows implies membership in Row.
LEMMA FollowsTyped ==
  ASSUME NEW row, NEW n, Follows(row, n) PROVE n \in Row
BY DEF Follows, RowInv

\* A write that carries a token inserts no row.
LEMMA FencedStep ==
  ASSUME IInv, NEW o \in Ops, NEW g \in grants[o], Fenced(o, g)
  PROVE  RowsStep
<1>1. RowInv(op[o]) /\ g \in Grant BY DEF IInv
<1>2. PICK lag \in 0 .. g.age :
        \/ \E s \in Slots, sum \in Sums, p \in Progress \cup {None} : PutChunk(o, g, s, sum, p, lag)
        \/ \E retryAfter \in Delays \cup {None} : FinishFailed(o, g, retryAfter, lag)
        \/ FinishReconciling(o, g, lag)
        \/ FinishSucceeded(o, g, lag)
        \/ RejectExpired(o, g, lag)
  BY DEF Fenced
<1>3. lag \in Int BY <1>2
<1>4. CASE \E s \in Slots, sum \in Sums, p \in Progress \cup {None} : PutChunk(o, g, s, sum, p, lag)
  <2>1. PICK s \in Slots, sum \in Sums, p \in Progress \cup {None} : PutChunk(o, g, s, sum, p, lag)
    BY <1>4
  <2>2. op[o].status = "executing" /\ g.token = op[o].token
    BY <2>1 DEF PutChunk, FenceAdmits
  <2>3. g.attempt = op[o].attempts BY <2>2 DEF IInv, GrantInv
  <2>4. Follows(op[o], WithChunk(op[o], s, sum, g.attempt, p, lag))
    BY <1>1, <1>3, <2>2, <2>3, WithChunkFollows
  <2>5. op' = [op EXCEPT ![o] = WithChunk(op[o], s, sum, g.attempt, p, lag)] /\ UNCHANGED grants
    BY <2>1 DEF PutChunk
  <2>6. op'[o] = WithChunk(op[o], s, sum, g.attempt, p, lag) BY <2>5 DEF IInv
  <2> QED BY <2>4, <2>5, <2>6, OneRow, FollowsTyped
<1>5. CASE \E retryAfter \in Delays \cup {None} : FinishFailed(o, g, retryAfter, lag)
  <2>1. PICK retryAfter \in Delays \cup {None} : FinishFailed(o, g, retryAfter, lag)
    BY <1>5
  <2>2. op[o].status = "executing" /\ UNCHANGED grants
    BY <2>1 DEF FinishFailed, FenceAdmits
  <2>3. CASE retryAfter # None /\ Retryable(op[o])
    <3>1. retryAfter - lag \in Int BY <1>3, <2>3, KernelAssumption
    <3>2. Follows(op[o], Reschedule(op[o], retryAfter - lag, TRUE))
      BY <1>1, <2>2, <3>1, RescheduleFollows
    <3>3. op' = [op EXCEPT ![o] = Reschedule(op[o], retryAfter - lag, TRUE)]
      BY <2>1, <2>3 DEF FinishFailed
    <3>4. op'[o] = Reschedule(op[o], retryAfter - lag, TRUE) BY <3>3 DEF IInv
    <3> QED BY <2>2, <3>2, <3>3, <3>4, OneRow, FollowsTyped
  <2>4. CASE ~(retryAfter # None /\ Retryable(op[o]))
    <3>1. Follows(op[o], CloseFailed(op[o]))
      BY <1>1, <2>2, CloseFailedFollows DEF Live
    <3>2. op' = [op EXCEPT ![o] = CloseFailed(op[o])]
      BY <2>1, <2>4 DEF FinishFailed
    <3>3. op'[o] = CloseFailed(op[o]) BY <3>2 DEF IInv
    <3> QED BY <2>2, <3>1, <3>2, <3>3, OneRow, FollowsTyped
  <2> QED BY <2>3, <2>4
<1>6. CASE FinishReconciling(o, g, lag)
  <2>1. op[o].status = "executing" /\ UNCHANGED grants /\ op' = [op EXCEPT ![o] = Held(op[o])]
    BY <1>6 DEF FinishReconciling, FenceAdmits
  <2>2. Follows(op[o], Held(op[o])) BY <1>1, <2>1, HeldFollows
  <2>3. op'[o] = Held(op[o]) BY <2>1 DEF IInv
  <2> QED BY <2>1, <2>2, <2>3, OneRow, FollowsTyped
<1>7. CASE FinishSucceeded(o, g, lag)
  <2>1. op[o].status = "executing" /\ UNCHANGED grants
        /\ op' = [op EXCEPT ![o] = FinalizeAndClose(op[o])]
    BY <1>7 DEF FinishSucceeded, FenceAdmits
  <2>2. Follows(op[o], FinalizeAndClose(op[o])) BY <1>1, <2>1, FinalizeFollows DEF Live
  <2>3. op'[o] = FinalizeAndClose(op[o]) BY <2>1 DEF IInv
  <2> QED BY <2>1, <2>2, <2>3, OneRow, FollowsTyped
<1>8. CASE RejectExpired(o, g, lag)
  <2>1. UNCHANGED grants /\ op' = [op EXCEPT ![o] = ExpireIfDue(op[o], lag)]
    BY <1>8 DEF RejectExpired
  <2>2. Follows(op[o], ExpireIfDue(op[o], lag)) BY <1>1, <1>3, ExpireFollows
  <2>3. op'[o] = ExpireIfDue(op[o], lag) BY <2>1 DEF IInv
  <2> QED BY <2>1, <2>2, <2>3, OneRow, FollowsTyped
<1> QED BY <1>2, <1>4, <1>5, <1>6, <1>7, <1>8

\* Neither does resolving a reconciling run,
LEMMA ResolveStep ==
  ASSUME IInv, NEW o \in Ops, NEW outcome, Resolve(o, outcome)
  PROVE  RowsStep
<1>1. RowInv(op[o]) BY DEF IInv
<1>2. op[o].status \in Live /\ UNCHANGED grants BY DEF Resolve, Live
<1> DEFINE n == IF outcome = "failed" THEN CloseFailed(op[o]) ELSE FinalizeAndClose(op[o])
<1>3. Follows(op[o], n) BY <1>1, <1>2, CloseFailedFollows, FinalizeFollows
<1>4. op' = [op EXCEPT ![o] = n] BY DEF Resolve
<1> HIDE DEF n
<1>5. op'[o] = n BY <1>4 DEF IInv
<1> QED BY <1>2, <1>3, <1>4, <1>5, OneRow, FollowsTyped

\* a cancel,
LEMMA CancelStep ==
  ASSUME IInv, NEW o \in Ops, NEW lag \in Lags, Cancel(o, lag)
  PROVE  RowsStep
<1>1. RowInv(op[o]) /\ lag \in Int BY LagsInt DEF IInv
<1>2. op[o].status # "absent" /\ UNCHANGED grants BY DEF Cancel
<1> DEFINE current == ExpireIfDue(op[o], lag)
           n == IF current.status \in Terminal THEN current ELSE Close(current, "cancelled")
<1>3. op' = [op EXCEPT ![o] = n] BY DEF Cancel
<1>4. Follows(op[o], n)
  <2>1. CASE current.status \in Terminal BY <1>1, <2>1, ExpireFollows
  <2>2. CASE current.status \notin Terminal BY <1>1, <1>2, <2>2, CancelFollows
  <2> QED BY <2>1, <2>2
<1> HIDE DEF n
<1>5. op'[o] = n BY <1>3 DEF IInv
<1> QED BY <1>2, <1>3, <1>4, <1>5, OneRow, FollowsTyped

\* a read that expires what it shows,
LEMMA ObserveStep ==
  ASSUME IInv, NEW o \in Ops, NEW lag \in Lags, Observe(o, lag)
  PROVE  RowsStep
<1>1. RowInv(op[o]) /\ lag \in Int BY LagsInt DEF IInv
<1>2. UNCHANGED grants /\ op' = [op EXCEPT ![o] = ExpireIfDue(op[o], lag)] BY DEF Observe
<1>3. Follows(op[o], ExpireIfDue(op[o], lag)) BY <1>1, ExpireFollows
<1>4. op'[o] = ExpireIfDue(op[o], lag) BY <1>2 DEF IInv
<1> QED BY <1>2, <1>3, <1>4, OneRow, FollowsTyped

\* a begin that finds its run again,
LEMMA BeginAgainStep ==
  ASSUME IInv, NEW o \in Ops, NEW r, NEW k, NEW lag \in Lags, BeginAgain(o, r, k, lag)
  PROVE  RowsStep
<1>1. RowInv(op[o]) /\ lag \in Int BY LagsInt DEF IInv
<1>2. /\ op[o].status # "absent"
      /\ grants' = [grants EXCEPT ![o] = @ \cup {GrantOf(op'[o])}]
      /\ op' = [op EXCEPT ![o] = ExpireIfDue(op[o], lag)]
  BY DEF BeginAgain, WithIdem, Used
<1>3. Follows(op[o], ExpireIfDue(op[o], lag)) BY <1>1, ExpireFollows
<1>4. op'[o] = ExpireIfDue(op[o], lag) BY <1>2 DEF IInv
<1> QED BY <1>2, <1>3, <1>4, OneRow, FollowsTyped

\* a caller that is gone,
LEMMA ForgetStep ==
  ASSUME IInv, NEW o \in Ops, NEW g, Forget(o, g)
  PROVE  RowsStep
<1>1. grants' = [grants EXCEPT ![o] = @ \ {g}] /\ op' = op BY DEF Forget
<1>2. grants' \in [Ops -> SUBSET Grant] BY <1>1 DEF IInv
<1>3. \A p \in Ops : grants'[p] \subseteq grants[p] BY <1>1 DEF IInv
<1>4. \A p \in Ops : GrantStep(p) BY <1>1, <1>3 DEF GrantStep, IInv, GrantInv
<1>5. \A p \in Ops : Follows(op[p], op'[p]) /\ Lapses(p)
  BY <1>1, SameFollows DEF IInv, Lapses
<1> QED BY <1>1, <1>2, <1>4, <1>5 DEF RowsStep, IInv

\* the clock,
LEMMA TickStep ==
  ASSUME IInv, Tick
  PROVE  RowsStep
<1>1. ASSUME NEW o \in Ops PROVE Follows(op[o], op'[o]) /\ op'[o].status = op[o].status
  <2>1. CASE op[o].status \in {"prepared", "executing"}
    <3>1. op'[o] = [op[o] EXCEPT !.at = Aged(@)] BY <2>1 DEF Tick
    <3>2. op[o] \in Row BY DEF IInv
    <3>3. op'[o].status = op[o].status BY <3>1, <3>2 DEF Row
    <3> QED BY <2>1, <3>1, <3>3, AgedFollows DEF IInv
  <2>2. CASE op[o].status \notin {"prepared", "executing"}
    <3>1. op'[o] = op[o] BY <2>2 DEF Tick
    <3> QED BY <3>1, SameFollows DEF IInv
  <2> QED BY <2>1, <2>2
<1>2. op' \in [Ops -> Row] BY <1>1, FollowsTyped DEF Tick
<1>3. ASSUME NEW o \in Ops, NEW g \in grants'[o]
      PROVE  g \in Grant /\ \E h \in grants[o] : h.token = g.token /\ h.attempt = g.attempt
  <2>1. PICK h \in grants[o] : g = [h EXCEPT !.age = IF @ < MaxLag THEN @ + 1 ELSE @]
    BY DEF Tick
  <2>2. h \in Grant BY DEF IInv
  <2>3. (IF h.age < MaxLag THEN h.age + 1 ELSE h.age) \in Lags
    BY <2>2, KernelAssumption DEF Grant, Lags
  <2> QED BY <2>1, <2>2, <2>3 DEF Grant
<1>4. grants' \in [Ops -> SUBSET Grant] BY <1>3 DEF Tick
<1>5. ASSUME NEW o \in Ops, grants[o] = {} PROVE grants'[o] = {} BY <1>3, <1>5
<1>6. \A o \in Ops : GrantStep(o)
  BY <1>3, <1>5 DEF GrantStep, IInv, GrantInv
<1>7. \A o \in Ops : Lapses(o) BY <1>1 DEF Lapses
<1> QED BY <1>1, <1>2, <1>4, <1>6, <1>7 DEF RowsStep

\* or a claim, whatever it expires on the way.
LEMMA ClaimStep ==
  ASSUME IInv, NEW kinds, NEW skipped, NEW lag \in Lags, Claim(kinds, skipped, lag)
  PROVE  RowsStep
<1>1. lag \in Int BY LagsInt
<1>2. PICK batch \in SUBSET (Exhausted(kinds, lag) \ skipped) :
        \/ \E o \in Claimable(kinds, lag) \ skipped :
             /\ op' = [p \in Ops |-> IF p = o THEN Claimed(op[p], lag)
                                     ELSE IF p \in batch THEN ExpireIfDue(op[p], lag)
                                     ELSE op[p]]
             /\ grants' = [grants EXCEPT ![o] = @ \cup {GrantOf(op'[o])}]
        \/ /\ op' = [p \in Ops |-> IF p \in batch THEN ExpireIfDue(op[p], lag) ELSE op[p]]
           /\ UNCHANGED grants
  BY DEF Claim
<1>3. ASSUME NEW p \in Ops
      PROVE  /\ Follows(op[p], op[p]) /\ Follows(op[p], ExpireIfDue(op[p], lag))
             /\ op[p].status \in Live => ExpireIfDue(op[p], lag).status \in Live \cup {"failed"}
  BY <1>1, SameFollows, ExpireFollows, ExpireLapses DEF IInv
<1>4. CASE \E o \in Claimable(kinds, lag) \ skipped :
             /\ op' = [p \in Ops |-> IF p = o THEN Claimed(op[p], lag)
                                     ELSE IF p \in batch THEN ExpireIfDue(op[p], lag)
                                     ELSE op[p]]
             /\ grants' = [grants EXCEPT ![o] = @ \cup {GrantOf(op'[o])}]
  <2>1. PICK o \in Claimable(kinds, lag) \ skipped :
             /\ op' = [p \in Ops |-> IF p = o THEN Claimed(op[p], lag)
                                     ELSE IF p \in batch THEN ExpireIfDue(op[p], lag)
                                     ELSE op[p]]
             /\ grants' = [grants EXCEPT ![o] = @ \cup {GrantOf(op'[o])}]
    BY <1>4
  <2>2. o \in Ops /\ op[o].status \in {"prepared", "executing"} /\ Retryable(op[o])
    BY DEF Claimable, Used
  <2>3. Follows(op[o], Claimed(op[o], lag)) /\ Claimed(op[o], lag).status = "executing"
    BY <1>1, <2>2, ClaimedFollows DEF IInv
  <2>4. op'[o] = Claimed(op[o], lag) BY <2>1, <2>2
  <2>5. \A p \in Ops \ {o} : op'[p] = ExpireIfDue(op[p], lag) \/ op'[p] = op[p] BY <2>1
  <2>6. \A p \in Ops : Follows(op[p], op'[p]) BY <1>3, <2>3, <2>4, <2>5
  <2>7. \A p \in Ops : Lapses(p) BY <1>3, <2>3, <2>4, <2>5 DEF Lapses, Live
  <2>8. op' \in [Ops -> Row] BY <2>1, <2>6, FollowsTyped
  <2> DEFINE new == GrantOf(op'[o])
  <2>9. new \in Grant /\ new.token = op'[o].token /\ new.attempt = op'[o].attempts
    <3>1. op'[o].token \in Nat /\ op'[o].attempts \in Nat BY <2>2, <2>8, FieldTypes
    <3>2. 0 \in Lags BY KernelAssumption DEF Lags
    <3> QED BY <3>1, <3>2 DEF GrantOf, Grant
  <2> HIDE DEF new
  <2>10. \A p \in Ops : \/ grants'[p] = grants[p]
                        \/ p = o /\ grants'[p] = grants[p] \cup {new}
    BY <2>1, <2>2 DEF IInv, new
  <2>11. grants' \in [Ops -> SUBSET Grant] BY <2>1, <2>9, <2>10 DEF IInv
  <2>12. \A p \in Ops : GrantStep(p) BY <2>2, <2>9, <2>10 DEF GrantStep, IInv, GrantInv
  <2> QED BY <2>6, <2>7, <2>8, <2>11, <2>12 DEF RowsStep
<1>5. CASE /\ op' = [p \in Ops |-> IF p \in batch THEN ExpireIfDue(op[p], lag) ELSE op[p]]
           /\ UNCHANGED grants
  <2>1. \A p \in Ops : op'[p] = ExpireIfDue(op[p], lag) \/ op'[p] = op[p] BY <1>5
  <2>2. \A p \in Ops : Follows(op[p], op'[p]) BY <1>3, <2>1
  <2>3. \A p \in Ops : Lapses(p) BY <1>3, <2>1 DEF Lapses
  <2>4. op' \in [Ops -> Row] BY <1>5, <2>2, FollowsTyped
  <2>5. \A p \in Ops : GrantStep(p) BY <1>5 DEF GrantStep, IInv, GrantInv
  <2> QED BY <1>5, <2>2, <2>3, <2>4, <2>5 DEF RowsStep, IInv
<1> QED BY <1>2, <1>4, <1>5

\* The row begin inserts.
LEMMA BegunInv ==
  ASSUME NEW r \in Requests, NEW k \in IdemKeys \cup {None}, NEW lag \in Int
  PROVE  RowInv(BegunRow(r, k, lag))
<1> QED BY BegunRowTyped, BegunRowFields, NothingStaged DEF RowInv, Live

\* The row prepare inserts.
LEMMA PreparedInv ==
  ASSUME NEW r \in Requests, NEW k \in IdemKeys \cup {None}, NEW max \in Nat, NEW at \in Int,
         FileOf[r] = None
  PROVE  RowInv(PreparedRow(r, k, max, at))
<1> QED BY PreparedRowTyped, PreparedRowFields, NothingStaged DEF RowInv, Live

\* After the runs that hold a key of a request are over, nobody else does.
LEMMA KeysFree ==
  ASSUME IInv, NEW r \in Requests, NEW p \in Ops, NEW lag \in Int,
         p \in HoldersOf(KeysOf[r]) => ExpireIfDue(op[p], lag).status \in Terminal
  PROVE  /\ p \in HoldersOf(KeysOf[r]) => ExpireIfDue(op[p], lag).locks \cap KeysOf[r] = {}
         /\ p \notin HoldersOf(KeysOf[r]) => op[p].locks \cap KeysOf[r] = {}
<1>1. RowInv(op[p]) BY DEF IInv
<1>2. p \notin HoldersOf(KeysOf[r]) => op[p].locks \cap KeysOf[r] = {}
  BY <1>1 DEF HoldersOf, Used, RowInv, Live
<1>3. Follows(op[p], ExpireIfDue(op[p], lag)) BY <1>1, ExpireFollows
<1>4. ExpireIfDue(op[p], lag).status \in Terminal => ExpireIfDue(op[p], lag).locks = {}
  BY <1>3 DEF Follows, RowInv, Live, Terminal
<1> QED BY <1>2, <1>4

\* begin inserts one row, on keys nobody holds after the others are over.
LEMMA BeginStep ==
  ASSUME IInv, NEW o \in Ops, NEW r \in Requests, NEW k \in IdemKeys \cup {None}, NEW lag \in Lags,
         Begin(o, r, k, lag)
  PROVE  CreateStep(o)
<1> DEFINE previous == WithFile(KindOf[r], FileOf[r])
           holders  == HoldersOf(KeysOf[r])
<1>1. lag \in Int BY LagsInt
<1>2. /\ op[o].status = "absent"
      /\ WithIdem(KindOf[r], k) = {}
      /\ \A p \in previous \cup holders : ExpireIfDue(op[p], lag).status \in Terminal
      /\ \A p \in previous : op[p].status # "succeeded"
      /\ grants' = [grants EXCEPT ![o] = {GrantOf(op'[o])}]
  BY DEF Begin, AllOver
<1>3. op' = [p \in Ops |->
               IF p = o THEN BegunRow(r, k, lag)
               ELSE IF p \in previous THEN [ExpireIfDue(op[p], lag) EXCEPT !.file = None]
               ELSE IF p \in holders THEN ExpireIfDue(op[p], lag)
               ELSE op[p]]
  BY DEF Begin
<1> HIDE DEF previous, holders
<1>4. op'[o] = BegunRow(r, k, lag) BY <1>3
<1>5. RowInv(op'[o]) BY <1>1, <1>4, BegunInv
<1>6. /\ op'[o].status = "executing" /\ op'[o].request = r /\ op'[o].idem = k
      /\ op'[o].file = FileOf[r] /\ op'[o].locks = KeysOf[r]
  BY <1>4, BegunRowFields
<1>7. ASSUME NEW p \in Ops \ {o}
      PROVE  /\ Follows(op[p], op'[p])
             /\ Lapses(p)
             /\ op'[p].locks \cap KeysOf[r] = {}
             /\ p \in previous => op'[p].file = None
             /\ p \notin previous => op'[p].file = op[p].file
  <2>1. RowInv(op[p]) /\ op[p] \in Row BY DEF IInv
  <2>2. /\ p \in holders => ExpireIfDue(op[p], lag).locks \cap KeysOf[r] = {}
        /\ p \notin holders => op[p].locks \cap KeysOf[r] = {}
    BY <1>1, <1>2, KeysFree DEF holders
  <2>3. Follows(op[p], ExpireIfDue(op[p], lag)) BY <1>1, <2>1, ExpireFollows
  <2>4. op[p].status \in Live => ExpireIfDue(op[p], lag).status \in Live \cup {"failed"}
    BY <1>1, <2>1, ExpireLapses
  <2>5. ExpireIfDue(op[p], lag).file = op[p].file
    <3>1. Reschedule(op[p], -lag, FALSE).file = op[p].file BY <2>1, RescheduleFields, ZenonT(60)
    <3>2. CloseFailed(op[p]).file = op[p].file BY <2>1, CloseFailedFields
    <3> QED BY <3>1, <3>2 DEF ExpireIfDue
  <2>6. CASE p \in previous
    <3> DEFINE n == ExpireIfDue(op[p], lag)
               m == [n EXCEPT !.file = None]
    <3>1. op'[p] = m BY <1>3, <2>6
    <3>2. n.status \in Terminal /\ op[p].status # "succeeded" BY <1>2, <2>6
    <3>3. Follows(op[p], m) BY <1>1, <2>1, <3>2, ReleaseFollows
    <3>4. n \in Row BY <2>3, FollowsTyped
    <3>5. n.locks = {} BY <2>3, <3>2 DEF Follows, RowInv, Live, Terminal
    <3> HIDE DEF n
    <3>6. m.file = None /\ m.status = n.status /\ m.locks = n.locks BY <3>4 DEF Row
    <3>7. op[p].status \in Live => n.status \in Live \cup {"failed"} BY <2>4 DEF n
    <3> QED BY <2>6, <3>1, <3>3, <3>5, <3>6, <3>7 DEF Lapses
  <2>7. CASE p \notin previous /\ p \in holders
    <3>1. op'[p] = ExpireIfDue(op[p], lag) BY <1>3, <2>7
    <3> QED BY <2>2, <2>3, <2>4, <2>5, <2>7, <3>1 DEF Lapses
  <2>8. CASE p \notin previous /\ p \notin holders
    <3>1. op'[p] = op[p] BY <1>3, <2>8
    <3> QED BY <2>1, <2>2, <2>8, <3>1, SameFollows DEF Lapses
  <2> QED BY <2>6, <2>7, <2>8
<1>8. ASSUME NEW p \in Ops \ {o}, op[p].status # "absent", KindOf[op'[o].request] = OpKind(p)
      PROVE  /\ op'[o].idem # None => op'[p].idem # op'[o].idem
             /\ op'[o].file # None => op'[p].file # op'[o].file
  <2>1. k # None => op[p].idem # k
    BY <1>2, <1>6, <1>8 DEF WithIdem, Used
  <2>2. op'[p].idem = op[p].idem BY <1>7 DEF Follows
  <2>3. FileOf[r] # None /\ op[p].file = FileOf[r] => p \in previous
    BY <1>6, <1>8 DEF previous, WithFile, Used
  <2> QED BY <1>6, <1>7, <2>1, <2>2, <2>3
<1>9. op' \in [Ops -> Row]
  <2>1. \A p \in Ops : op'[p] \in Row BY <1>5, <1>7, FollowsTyped DEF RowInv
  <2> QED BY <1>3, <2>1
<1> DEFINE new == GrantOf(op'[o])
<1>10. new \in Grant /\ new.token = op'[o].token /\ new.attempt = op'[o].attempts
  <2>1. op'[o].token \in Nat /\ op'[o].attempts \in Nat BY <1>9, FieldTypes
  <2>2. 0 \in Lags BY KernelAssumption DEF Lags
  <2> QED BY <2>1, <2>2 DEF GrantOf, Grant
<1> HIDE DEF new
<1>11. grants'[o] = {new} /\ \A p \in Ops \ {o} : grants'[p] = grants[p]
  <2>1. grants' = [grants EXCEPT ![o] = {new}] BY <1>2 DEF new
  <2>2. grants \in [Ops -> SUBSET Grant] BY DEF IInv
  <2> QED BY <2>1, <2>2
<1>12. grants' \in [Ops -> SUBSET Grant] BY <1>2, <1>10, <1>11 DEF IInv
<1>13. \A p \in Ops : GrantStep(p)
  BY <1>6, <1>10, <1>11 DEF GrantStep, IInv, GrantInv
<1> QED BY <1>2, <1>5, <1>6, <1>7, <1>8, <1>9, <1>12, <1>13 DEF CreateStep, Live

\* So does prepare.
LEMMA PrepareStep ==
  ASSUME IInv, NEW o \in Ops, NEW r \in Requests, NEW k \in IdemKeys \cup {None},
         NEW max \in Attempts, NEW due \in Delays \cup {None}, NEW lag \in Lags,
         Prepare(o, r, k, max, due, lag)
  PROVE  CreateStep(o)
<1> DEFINE holders == HoldersOf(KeysOf[r])
           at == IF due = None THEN -MaxLag ELSE due
<1>1. lag \in Int /\ max \in Nat /\ at \in Int BY LagsInt, KernelAssumption
<1>2. /\ op[o].status = "absent"
      /\ FileOf[r] = None
      /\ WithIdem(KindOf[r], k) = {}
      /\ \A p \in holders : ExpireIfDue(op[p], lag).status \in Terminal
      /\ UNCHANGED grants
      /\ op' = [p \in Ops |->
                  IF p = o THEN PreparedRow(r, k, max, at)
                  ELSE IF p \in holders THEN ExpireIfDue(op[p], lag) ELSE op[p]]
  BY DEF Prepare, AllOver
<1> HIDE DEF holders, at
<1>3. op'[o] = PreparedRow(r, k, max, at) BY <1>2
<1>4. RowInv(op'[o]) BY <1>1, <1>2, <1>3, PreparedInv
<1>5. /\ op'[o].status = "prepared" /\ op'[o].request = r /\ op'[o].idem = k
      /\ op'[o].file = None /\ op'[o].locks = KeysOf[r]
  BY <1>3, PreparedRowFields
<1>6. ASSUME NEW p \in Ops \ {o}
      PROVE  /\ Follows(op[p], op'[p])
             /\ Lapses(p)
             /\ op'[p].locks \cap KeysOf[r] = {}
  <2>1. RowInv(op[p]) BY DEF IInv
  <2>2. /\ p \in holders => ExpireIfDue(op[p], lag).locks \cap KeysOf[r] = {}
        /\ p \notin holders => op[p].locks \cap KeysOf[r] = {}
    BY <1>1, <1>2, KeysFree DEF holders
  <2>3. Follows(op[p], ExpireIfDue(op[p], lag)) BY <1>1, <2>1, ExpireFollows
  <2>4. op[p].status \in Live => ExpireIfDue(op[p], lag).status \in Live \cup {"failed"}
    BY <1>1, <2>1, ExpireLapses
  <2>5. CASE p \in holders
    <3>1. op'[p] = ExpireIfDue(op[p], lag) BY <1>2, <2>5
    <3> QED BY <2>2, <2>3, <2>4, <2>5, <3>1 DEF Lapses
  <2>6. CASE p \notin holders
    <3>1. op'[p] = op[p] BY <1>2, <2>6
    <3> QED BY <2>1, <2>2, <2>6, <3>1, SameFollows DEF Lapses
  <2> QED BY <2>5, <2>6
<1>7. ASSUME NEW p \in Ops \ {o}, op[p].status # "absent", KindOf[op'[o].request] = OpKind(p)
      PROVE  op'[o].idem # None => op'[p].idem # op'[o].idem
  <2>1. k # None => op[p].idem # k
    BY <1>2, <1>5, <1>7 DEF WithIdem, Used
  <2>2. op'[p].idem = op[p].idem BY <1>6 DEF Follows
  <2> QED BY <1>5, <2>1, <2>2
<1>8. op' \in [Ops -> Row]
  <2>1. \A p \in Ops : op'[p] \in Row BY <1>4, <1>6, FollowsTyped DEF RowInv
  <2> QED BY <1>2, <2>1
<1>9. \A p \in Ops : GrantStep(p) BY <1>2 DEF GrantStep, IInv, GrantInv
<1> QED BY <1>2, <1>4, <1>5, <1>6, <1>7, <1>8, <1>9 DEF CreateStep, Live, IInv

(* What any step of the specification does to the rows. *)
LEMMA NextSteps ==
  ASSUME IInv, Next PROVE RowsStep \/ \E o \in Ops : CreateStep(o)
<1>1. CASE \E o \in Ops, r \in Requests, k \in IdemKeys \cup {None}, lag \in Lags :
             \/ Begin(o, r, k, lag)
             \/ BeginAgain(o, r, k, lag)
             \/ \E max \in Attempts, due \in Delays \cup {None} : Prepare(o, r, k, max, due, lag)
  BY <1>1, BeginStep, BeginAgainStep, PrepareStep
<1>2. CASE \E kinds \in SUBSET Kinds, skipped \in SUBSET Ops, lag \in Lags : Claim(kinds, skipped, lag)
  BY <1>2, ClaimStep
<1>3. CASE \E o \in Ops : \E g \in grants[o] : Fenced(o, g) \/ Forget(o, g)
  BY <1>3, FencedStep, ForgetStep
<1>4. CASE \E o \in Ops, outcome \in {"failed", "succeeded"} : Resolve(o, outcome)
  BY <1>4, ResolveStep
<1>5. CASE \E o \in Ops, lag \in Lags : Cancel(o, lag) \/ Observe(o, lag)
  BY <1>5, CancelStep, ObserveStep
<1>6. CASE Tick
  BY <1>6, TickStep
<1> QED BY <1>1, <1>2, <1>3, <1>4, <1>5, <1>6 DEF Next

----------------------------------------------------------------------------
(* The invariant. *)

\* The invariant holds initially
LEMMA InitIInv == Init => IInv
<1> SUFFICES ASSUME Init PROVE IInv OBVIOUS
<1>1. \A o \in Ops : op[o] = Blank /\ grants[o] = {} BY DEF Init
<1>2. /\ Blank.status = "absent" /\ Blank.locks = {} /\ Blank.applied = 0 /\ Blank.told = 0
      /\ Blank.attempts = 0 /\ Blank.max = 0 /\ Blank.declared = 0 /\ Blank.chunks = NoChunks
  BY DEF Blank
<1>3. RowInv(Blank) BY <1>2, BlankTyped, NothingStaged DEF RowInv, Live
<1>4. op \in [Ops -> Row] /\ grants \in [Ops -> SUBSET Grant] BY BlankTyped DEF Init
<1>5. LockExclusion /\ FileUnique /\ IdemUnique
  BY <1>1, <1>2 DEF LockExclusion, FileUnique, IdemUnique
<1>6. \A o \in Ops : GrantInv(op[o], grants[o]) BY <1>1 DEF GrantInv
<1> QED BY <1>1, <1>3, <1>4, <1>5, <1>6 DEF IInv

\* and is preserved by every step.
LEMMA NextIInv == IInv /\ [Next]_vars => IInv'
<1> SUFFICES ASSUME IInv, [Next]_vars PROVE IInv' OBVIOUS
<1>1. CASE Next BY <1>1, NextSteps, RowsFollow, RowCreated
<1>2. CASE UNCHANGED vars
  BY <1>2 DEF vars, IInv, LockExclusion, FileUnique, IdemUnique, OpKind
<1> QED BY <1>1, <1>2

(* The inductive invariant holds in every reachable state. *)
THEOREM Invariant == Spec => []IInv
BY InitIInv, NextIInv, PTL DEF Spec

----------------------------------------------------------------------------
(* The invariants the runs check. *)

(* The state keeps its type. *)
THEOREM TypeCorrect == Spec => []TypeOK
<1>1. IInv => TypeOK BY DEF IInv, TypeOK
<1> QED BY <1>1, Invariant, PTL

(* A run holds exactly the keys of its request while it is live, through   *)
(* every retry and expiry, and none when it is over.                       *)
THEOREM LocksAreHeldWhileLive == Spec => []LocksHeldWhileLive
<1>1. IInv => LocksHeldWhileLive BY DEF IInv, RowInv, LocksHeldWhileLive
<1> QED BY <1>1, Invariant, PTL

(* No two runs hold the same lock key. *)
THEOREM LocksExclude == Spec => []LockExclusion
<1>1. IInv => LockExclusion BY DEF IInv
<1> QED BY <1>1, Invariant, PTL

(* finalize ran once for a run that succeeded, onFailed once for one that  *)
(* failed, and neither for any other.                                      *)
THEOREM OwnerIsToldOnce == Spec => []OwnerToldOnce
<1>1. IInv => OwnerToldOnce BY DEF IInv, RowInv, OwnerToldOnce
<1> QED BY <1>1, Invariant, PTL

(* Nothing staged by an attempt that declared itself failed survives it.   *)
THEOREM StagingBelongsToThisTry == Spec => []StagingIsOfThisTry
<1>1. IInv => StagingIsOfThisTry BY DEF IInv, RowInv, StagingIsOfThisTry
<1> QED BY <1>1, Invariant, PTL

(* A run is claimed at most max_attempts times. *)
THEOREM AttemptsAreBounded == Spec => []AttemptsWithinMax
<1>1. IInv => AttemptsWithinMax BY DEF IInv, RowInv, AttemptsWithinMax
<1> QED BY <1>1, Invariant, PTL

(* One idempotency key of a kind names one run. *)
THEOREM IdempotencyKeyNamesOneRun == Spec => []OneRunPerIdempotencyKey
<1>1. IInv => OneRunPerIdempotencyKey BY DEF IInv, IdemUnique, OneRunPerIdempotencyKey, Used
<1> QED BY <1>1, Invariant, PTL

(* A file is applied by at most one run of a kind, although the hash of a  *)
(* failed run is released for the next one.                                *)
THEOREM FilesAreAppliedOnce == Spec => []FileAppliedOnce
<1>1. IInv => FileAppliedOnce
  <2> SUFFICES ASSUME IInv, NEW f \in {FileOf[r] : r \in Requests} \ {None},
                      NEW o \in Used, NEW p \in Used,
                      op[o].status = "succeeded", FileOf[op[o].request] = f,
                      op[p].status = "succeeded", FileOf[op[p].request] = f,
                      OpKind(o) = OpKind(p)
               PROVE  o = p
    BY DEF FileAppliedOnce
  <2>1. op[o].file = f /\ op[p].file = f BY DEF IInv, RowInv, Used
  <2> QED BY <2>1 DEF IInv, FileUnique, Used
<1> QED BY <1>1, Invariant, PTL

----------------------------------------------------------------------------
(* The action properties. *)

(* A token of an earlier attempt writes nothing. *)
THEOREM ZombiesAreFencedOut == Spec => FencedOut
<1>1. ASSUME IInv, NEW o \in Ops, NEW g \in grants[o], g.attempt < op[o].attempts, Fenced(o, g)
      PROVE  FALSE
  <2>1. op[o].status = "executing" /\ g.token = op[o].token
    BY <1>1 DEF Fenced, PutChunk, FinishFailed, FinishReconciling, FinishSucceeded,
                RejectExpired, FenceAdmits, FenceExpires
  <2>2. g.attempt = op[o].attempts BY <1>1, <2>1 DEF IInv, GrantInv
  <2>3. op[o].attempts \in Nat BY <1>1, FieldTypes DEF IInv
  <2> QED BY <1>1, <2>2, <2>3
<1>2. IInv => \A o \in Ops : \A g \in grants[o] :
                g.attempt < op[o].attempts /\ Fenced(o, g) => op' = op
  BY <1>1
<1> QED BY <1>2, Invariant, PTL DEF FencedOut

(* What is staged stays until the run is over or its holder gives up on    *)
(* the attempt.                                                            *)
THEOREM StagingIsKept == Spec => StagingKept
<1> DEFINE Kept == \A o \in Ops, s \in Slots : op[o].chunks[s] # None =>
                      \/ op'[o].chunks[s] = op[o].chunks[s]
                      \/ op'[o].status \in Terminal
                      \/ op'[o].declared = op[o].attempts
<1>1. ASSUME IInv, Next PROVE Kept
  <2>1. CASE RowsStep BY <2>1 DEF RowsStep, Follows
  <2>2. CASE \E c \in Ops : CreateStep(c)
    <3>1. PICK c \in Ops : CreateStep(c) BY <2>2
    <3>2. \A s \in Slots : op[c].chunks[s] = None
      BY <1>1, <3>1 DEF CreateStep, IInv, RowInv, Live
    <3> QED BY <3>1, <3>2 DEF CreateStep, Follows
  <2> QED BY <1>1, <2>1, <2>2, NextSteps
<1>2. IInv /\ [Next]_vars => [Kept]_vars BY <1>1
<1> QED BY <1>2, Invariant, PTL DEF StagingKept, Spec

(* A run that is over stays as it is, but for its file hash. *)
THEOREM OverIsOver == Spec => TerminalIsFinal
<1> DEFINE Final == \A o \in Ops : op[o].status \in Terminal =>
                       op'[o] = [op[o] EXCEPT !.file = op'[o].file]
<1>1. ASSUME IInv, Next PROVE Final
  <2>1. CASE RowsStep BY <2>1 DEF RowsStep, Follows
  <2>2. CASE \E c \in Ops : CreateStep(c)
    BY <2>2 DEF CreateStep, Follows, Terminal
  <2> QED BY <1>1, <2>1, <2>2, NextSteps
<1>2. IInv /\ [Next]_vars => [Final]_vars BY <1>1
<1> QED BY <1>2, Invariant, PTL DEF TerminalIsFinal, Spec

\* A lease that is not up yet is not up for any lag.
LEMMA LeaseNotUp ==
  ASSUME IInv, NEW o \in Ops, op[o].at > 0, NEW lag \in Lags
  PROVE  ~TimeIsUp(op[o], lag) /\ ExpireIfDue(op[o], lag) = op[o]
<1>1. op[o].at \in Int BY FieldTypes DEF IInv
<1>2. lag \in Int /\ lag >= 0 BY KernelAssumption DEF Lags
<1>3. ~TimeIsUp(op[o], lag) BY <1>1, <1>2 DEF TimeIsUp
<1> QED BY <1>3 DEF ExpireIfDue

(* Before its lease is up an executing run is taken from its holder only   *)
(* by a cancel or by a write that carries its token.                       *)
THEOREM LeasesProtect == Spec => LeaseProtectsHolder
<1> DEFINE Taken(o) == /\ op[o].status = "executing" /\ op[o].at > 0
                       /\ op'[o].token # op[o].token \/ op'[o].status # "executing"
           Allowed(o) == \/ op'[o].status = "cancelled"
                         \/ \E g \in grants[o] : g.token = op[o].token /\ Fenced(o, g)
<1>1. ASSUME IInv, Next, NEW o \in Ops, Taken(o) PROVE Allowed(o)
  <2>1. op \in [Ops -> Row] BY <1>1 DEF IInv
  <2>2. op'[o] # op[o] BY <1>1
  <2>3. \A lag \in Lags : ~TimeIsUp(op[o], lag) /\ ExpireIfDue(op[o], lag) = op[o]
    BY <1>1, LeaseNotUp
  <2>4. ASSUME NEW c \in Ops, NEW r \in Requests, NEW k \in IdemKeys \cup {None}, NEW lag \in Lags,
               \/ Begin(c, r, k, lag)
               \/ BeginAgain(c, r, k, lag)
               \/ \E max \in Attempts, due \in Delays \cup {None} : Prepare(c, r, k, max, due, lag)
        PROVE  FALSE
    <3>1. CASE Begin(c, r, k, lag)
      <4>1. c # o BY <1>1, <3>1 DEF Begin
      <4>2. o \notin WithFile(KindOf[r], FileOf[r])
        BY <1>1, <2>3, <3>1 DEF Begin, AllOver, Terminal
      <4> QED BY <2>2, <2>3, <3>1, <4>1, <4>2 DEF Begin
    <3>2. CASE BeginAgain(c, r, k, lag)
      BY <2>1, <2>2, <2>3, <3>2 DEF BeginAgain
    <3>3. CASE \E max \in Attempts, due \in Delays \cup {None} : Prepare(c, r, k, max, due, lag)
      <4>1. c # o BY <1>1, <3>3 DEF Prepare
      <4> QED BY <2>2, <2>3, <3>3, <4>1 DEF Prepare
    <3> QED BY <2>4, <3>1, <3>2, <3>3
  <2>5. ASSUME NEW kinds \in SUBSET Kinds, NEW skipped \in SUBSET Ops, NEW lag \in Lags,
               Claim(kinds, skipped, lag)
        PROVE  FALSE
    <3>1. o \notin Claimable(kinds, lag) BY <2>3 DEF Claimable
    <3> QED BY <2>2, <2>3, <2>5, <3>1 DEF Claim
  <2>6. ASSUME NEW c \in Ops, NEW g \in grants[c], Fenced(c, g) \/ Forget(c, g)
        PROVE  Allowed(o)
    <3>1. CASE Forget(c, g) BY <2>2, <3>1 DEF Forget
    <3>2. CASE Fenced(c, g) /\ c # o
      BY <2>1, <2>2, <3>2 DEF Fenced, PutChunk, FinishFailed, FinishReconciling,
                              FinishSucceeded, RejectExpired
    <3>3. CASE Fenced(c, g) /\ c = o
      <4>1. g.token = op[o].token
        BY <3>3 DEF Fenced, PutChunk, FinishFailed, FinishReconciling, FinishSucceeded,
                    RejectExpired, FenceAdmits, FenceExpires
      <4> QED BY <2>6, <3>3, <4>1
    <3> QED BY <2>6, <3>1, <3>2, <3>3
  <2>7. ASSUME NEW c \in Ops, NEW outcome, Resolve(c, outcome) PROVE FALSE
    BY <1>1, <2>1, <2>2, <2>7 DEF Resolve
  <2>8. ASSUME NEW c \in Ops, NEW lag \in Lags, Cancel(c, lag) \/ Observe(c, lag) PROVE Allowed(o)
    <3>1. CASE Observe(c, lag) BY <2>1, <2>2, <2>3, <3>1 DEF Observe
    <3>2. CASE Cancel(c, lag) /\ c # o BY <2>1, <2>2, <3>2 DEF Cancel
    <3>3. CASE Cancel(c, lag) /\ c = o
      <4>1. op'[o] = Close(op[o], "cancelled")
        BY <1>1, <2>1, <2>3, <3>3 DEF Cancel, Terminal
      <4>2. op[o] \in Row BY <2>1
      <4> QED BY <4>1, <4>2, CloseFields
    <3> QED BY <2>8, <3>1, <3>2, <3>3
  <2>9. ASSUME Tick PROVE FALSE
    <3>1. op'[o] = [op[o] EXCEPT !.at = Aged(@)] BY <1>1, <2>9 DEF Tick
    <3>2. op[o] \in Row BY <2>1
    <3>3. op'[o].token = op[o].token /\ op'[o].status = op[o].status BY <3>1, <3>2 DEF Row
    <3> QED BY <1>1, <3>3
  <2> HIDE DEF Allowed
  <2> QED BY <1>1, <2>4, <2>5, <2>6, <2>7, <2>8, <2>9 DEF Next
<1>2. IInv /\ [Next]_vars => [\A o \in Ops : Taken(o) => Allowed(o)]_vars BY <1>1
<1> QED BY <1>2, Invariant, PTL DEF LeaseProtectsHolder, Spec
============================================================================
