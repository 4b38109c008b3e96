-------------------------- MODULE PurchaseContract --------------------------
(***************************************************************************)
(* What the submission of one purchase order promises, without callers,    *)
(* transactions, timeouts or restarts: an order may be tried under several *)
(* keys, but the next try begins only when every former one is known to    *)
(* have failed; the supplier is asked once in a try, and only while the    *)
(* try is open; a try ends as the supplier's books say, and one that ends  *)
(* in success places the order in the same step.                           *)
(***************************************************************************)
CONSTANT Keys

VARIABLES
  order,   \* open, placed or gone
  try,     \* of each key: none, open, succeeded or failed
  books    \* what the supplier has under each key

vars == <<order, try, books>>

Init ==
  /\ order = "open"
  /\ try = [k \in Keys |-> "none"]
  /\ books = [k \in Keys |-> "none"]

Begin(k) ==
  /\ order = "open"
  /\ try[k] = "none"
  /\ \A j \in Keys : try[j] \in {"none", "failed"}
  /\ try' = [try EXCEPT ![k] = "open"]
  /\ UNCHANGED <<order, books>>

Ask(k) ==
  /\ try[k] = "open" /\ books[k] = "none"
  /\ books' = [books EXCEPT ![k] = "open"]
  /\ UNCHANGED <<order, try>>

Decide(k, verdict) ==
  /\ books[k] = "open"
  /\ books' = [books EXCEPT ![k] = verdict]
  /\ UNCHANGED <<order, try>>

Succeed(k) ==
  /\ try[k] = "open" /\ books[k] = "accepted"
  /\ order # "gone"
  /\ order' = "placed"
  /\ try' = [try EXCEPT ![k] = "succeeded"]
  /\ UNCHANGED books

Fail(k) ==
  /\ try[k] = "open" /\ books[k] \in {"none", "refused"}
  /\ try' = [try EXCEPT ![k] = "failed"]
  /\ UNCHANGED <<order, books>>

(* Somebody types in the number of an order that was placed elsewhere. *)
PlaceByHand ==
  /\ order = "open" /\ order' = "placed"
  /\ UNCHANGED <<try, books>>

(* An order is deleted with its tries, none of which is open or succeeded. *)
Withdraw ==
  /\ order = "open" /\ order' = "gone"
  /\ \A k \in Keys : try[k] \in {"none", "failed"}
  /\ try' = [k \in Keys |-> "none"]
  /\ UNCHANGED books

Next ==
  \/ \E k \in Keys : Begin(k) \/ Ask(k) \/ Succeed(k) \/ Fail(k)
  \/ \E k \in Keys, verdict \in {"accepted", "refused"} : Decide(k, verdict)
  \/ PlaceByHand \/ Withdraw

Spec == Init /\ [][Next]_vars

(* What the shop builds on: under at most one key the supplier may have    *)
(* taken the order or may still take it, and never when the order is gone. *)
Promise ==
  /\ \A j, k \in Keys : {books[j], books[k]} \subseteq {"open", "accepted"} => j = k
  /\ \A k \in Keys : books[k] \in {"open", "accepted"} => order # "gone"
=============================================================================
