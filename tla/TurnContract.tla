----------------------------- MODULE TurnContract ------------------------------
(***************************************************************************)
(* What the gateway control plane promises about the turns of an agent,    *)
(* whatever queues, requests and restarts lie between: what the API says   *)
(* of a turn (`told`) and what its provider does (`ran`).                  *)
(***************************************************************************)
CONSTANTS Turns, Conversations, ConversationOf

VARIABLES told, ran

Told == {"new", "starting", "live", "over"}
Ran == {"no", "yes", "done"}

Others(t) == {u \in Turns \ {t} : ConversationOf[u] = ConversationOf[t]}

Init ==
  /\ told = [t \in Turns |-> "new"]
  /\ ran = [t \in Turns |-> "no"]

(* At most one turn of a conversation is starting or live. *)
Ask(t) ==
  /\ told[t] = "new"
  /\ \A u \in Others(t) : told[u] \notin {"starting", "live"}
  /\ told' = [told EXCEPT ![t] = "starting"]
  /\ UNCHANGED ran

(* A turn runs once, if it was asked for, and alone in its conversation. *)
Begin(t) ==
  /\ told[t] # "new" /\ ran[t] = "no"
  /\ \A u \in Others(t) : ran[u] # "yes"
  /\ ran' = [ran EXCEPT ![t] = "yes"]
  /\ UNCHANGED told

End(turns) ==
  /\ \A t \in turns : ran[t] = "yes"
  /\ ran' = [t \in Turns |-> IF t \in turns THEN "done" ELSE ran[t]]
  /\ UNCHANGED told

(* A batch of news: turns become live that have run, starting ones may     *)
(* fail, but a live turn is over only when its provider is done.           *)
Learn(begun, over) ==
  /\ \A t \in begun : told[t] = "starting" /\ ran[t] # "no"
  /\ \A t \in over : told[t] = "starting" \/ (told[t] = "live" /\ ran[t] = "done")
  /\ told' = [t \in Turns |-> IF t \in over THEN "over" ELSE IF t \in begun THEN "live" ELSE told[t]]
  /\ UNCHANGED ran

(* Session or process lost: all of them at once. *)
Forget ==
  /\ told' = [t \in Turns |-> IF told[t] \in {"starting", "live"} THEN "over" ELSE told[t]]
  /\ UNCHANGED ran

Next ==
  \/ \E t \in Turns : Ask(t) \/ Begin(t)
  \/ \E turns \in SUBSET Turns : End(turns)
  \/ \E begun, over \in SUBSET Turns : Learn(begun, over)
  \/ Forget

Spec == Init /\ [][Next]_<<told, ran>>

(* What a conversation builds on: one of its turns at a time is reported   *)
(* as going on, one at a time runs, and what is reported live has run.     *)
Promise ==
  /\ \A t \in Turns, u \in Turns : u \in Others(t) =>
       /\ ~(told[t] \in {"starting", "live"} /\ told[u] \in {"starting", "live"})
       /\ ~(ran[t] = "yes" /\ ran[u] = "yes")
  /\ \A t \in Turns : told[t] = "live" => ran[t] # "no"
  /\ \A t \in Turns : ran[t] # "no" => told[t] # "new"
================================================================================
