-------------------------- MODULE MutationContract --------------------------
(***************************************************************************)
(* What an agent may rely on when it asks for a mutation, without tasks,   *)
(* flights, windows, sweeps or restarts: a request key stands for one      *)
(* request; its effect happens once at most, and only while the request is *)
(* open and allowed; an answer is final and says what happened.            *)
(***************************************************************************)
CONSTANTS Keys, Requests, None

VARIABLES
  stage,     \* of each key: none, open, succeeded or failed
  request,   \* what was asked for under it
  allowed,   \* no approval is needed, or it was given
  done       \* the effect has happened

vars == <<stage, request, allowed, done>>

Init ==
  /\ stage = [k \in Keys |-> "none"]
  /\ request = [k \in Keys |-> None]
  /\ allowed = [k \in Keys |-> FALSE]
  /\ done = [k \in Keys |-> FALSE]

Admit(k, q, free) ==
  /\ stage[k] = "none"
  /\ stage' = [stage EXCEPT ![k] = "open"]
  /\ request' = [request EXCEPT ![k] = q]
  /\ allowed' = [allowed EXCEPT ![k] = free]
  /\ UNCHANGED done

Allow(k) ==
  /\ stage[k] = "open" /\ ~done[k]
  /\ allowed' = [allowed EXCEPT ![k] = TRUE]
  /\ UNCHANGED <<stage, request, done>>

CarryOut(k) ==
  /\ stage[k] = "open" /\ allowed[k] /\ ~done[k]
  /\ done' = [done EXCEPT ![k] = TRUE]
  /\ UNCHANGED <<stage, request, allowed>>

(* Refused, expired, or proved by the owner not to have happened: all the  *)
(* same to the agent.                                                      *)
Answer(k, outcome) ==
  /\ stage[k] = "open"
  /\ done[k] <=> outcome = "succeeded"
  /\ stage' = [stage EXCEPT ![k] = outcome]
  /\ UNCHANGED <<request, allowed, done>>

Next ==
  \/ \E k \in Keys :
       \/ \E q \in Requests, free \in BOOLEAN : Admit(k, q, free)
       \/ Allow(k) \/ CarryOut(k)
       \/ \E outcome \in {"succeeded", "failed"} : Answer(k, outcome)

Spec == Init /\ [][Next]_vars

(* What the agent and the user build on: an effect was allowed, and an     *)
(* answer says whether there was one.                                      *)
Promise ==
  \A k \in Keys :
    /\ done[k] => stage[k] \in {"open", "succeeded"} /\ allowed[k]
    /\ stage[k] = "succeeded" => done[k]
=============================================================================
