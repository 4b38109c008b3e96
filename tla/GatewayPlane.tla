----------------------------- MODULE GatewayPlane ------------------------------
(***************************************************************************)
(* The API and the agent gateway together.                                 *)
(***************************************************************************)
EXTENDS GatewayControl, AgentGateway

(* A bound: commands of the users, crashes of the API and instances of the *)
(* gateway, together.                                                      *)
CONSTANT MaxInputs

ASSUME PlaneAssumption == MaxInputs \in Nat

vars == <<api, gateway, wire>>

Init == ControlInit /\ GatewayInit

(* The order of a batch is the order its commands were issued in. *)
IsNext(c) == c \in batch /\ \A d \in batch : no[c] <= no[d]

Users ==
  \/ \E t \in Turns : StartTurn(t) \/ StopTurn(t)
  \/ \E c \in Conversations : DeleteConversation(c)

Dispatch ==
  \/ \E c \in Commands : IsNext(c) /\ SkipApplied(c)
  \/ \E t \in Turns :
       /\ IsNext(Start(t))
       /\ RefuseStart(t) \/ Launch(t) \/ Launched(t) \/ LaunchFails(t) \/ StartDone(t)
  \/ \E t \in Turns :
       /\ IsNext(Interrupt(t))
       /\ RefuseInterrupt(t) \/ BeginInterrupt(t) \/ Interrupted(t) \/ InterruptFails(t)
  \/ \E d \in Conversations : IsNext(Delete(d)) /\ RemoveConversation(d)

Receive == Claim \/ Poll \/ PollWaitEnds \/ NoticeAbort \/ HandleBatch

Advance ==
  \/ SendPost(up) \/ SendPoll(up) \/ PollFails \/ TakePoll
  \/ Reset \/ ResetDone \/ PostAccepted \/ Recover(up) \/ GiveUp \/ Overflow
  \/ Dispatch

Spare == issued + crashes + Cardinality(used) < MaxInputs

ControlStep ==
  \/ Spare /\ Users
  \/ Receive \/ ApiStart
  \/ \E c \in Commands : Timeout(c)
  \/ Spare /\ ApiCrash

GatewayStep ==
  \/ Advance \/ CannotRead \/ Lose \/ Exit
  \/ \E t \in Turns : ProviderEnds(t)
  \/ \E g \in Gateways : Spare /\ GatewayStart(g)

Next == (ControlStep /\ UNCHANGED gateway) \/ (GatewayStep /\ UNCHANGED api)

Spec == Init /\ [][Next]_vars

(* Requests are received and loops go on; a crashed API is started again;  *)
(* an interrupted provider ends; a process that closes exits.  Nothing     *)
(* makes users act, processes fail, or a gateway start again.              *)
Fairness ==
  /\ WF_vars((Receive \/ ApiStart) /\ UNCHANGED gateway)
  /\ WF_vars((Advance \/ Exit) /\ UNCHANGED api)
  /\ \A t \in Turns : WF_vars(ProviderEnds(t) /\ run[t] = "stopping" /\ UNCHANGED api)

FairSpec == Spec /\ Fairness

--------------------------------------------------------------------------------

TypeOK == WireTypeOK /\ ControlTypeOK /\ GatewayTypeOK

(* The three maps of the API agree: a turn that has a stream has the       *)
(* authority and is the running turn of its conversation, unless the       *)
(* conversation was deleted under it, and no other turn has either.        *)
Aligned ==
  /\ \A c \in Conversations, t \in Turns :
       authority[c] = t <=> t \in streams /\ ConversationOf[t] = c
  /\ \A c \in Conversations :
       running[c] # None => running[c] \in streams /\ ConversationOf[running[c]] = c
  /\ \A t \in streams : running[ConversationOf[t]] = t \/ ConversationOf[t] \notin descriptors

(* No turn is waited for in vain: whatever the API keeps open within the   *)
(* session of the running gateway is still to be dispatched, or live       *)
(* there, or closed by an event the outbox holds.                          *)
Closing(t) == \E i \in DOMAIN outbox : outbox[i] \in {Ended(t), Terminal(t), Rejected(Start(t)), NotFound(Start(t))}

StartedTurnIsAccountedFor ==
  (me # None /\ session = me /\ phase # "closing") =>
    \A t \in streams : (Start(t) \in queue \ applied) \/ t \in active \/ Closing(t)

(* A command of this API process is dispatched only when no turn of a      *)
(* former one is left in the gateway.                                      *)
ForgottenBeforeNew ==
  (\E c \in batch : no[c] > since) => \A t \in active : no[Start(t)] > since

(* An event batch arrives exactly in turn: the API neither misses one nor  *)
(* is sent one it has applied.                                             *)
EventsInOrder ==
  (post.at = "sent" /\ session = me /\ cursor.gateway = me) => post.seq = cursor.seq + 1

(* A command is not delivered again once it was dispatched. *)
DispatchedOnce == [][\A c \in batch' \ batch : c \notin applied]_vars

ToldOf(t) ==
  IF no[Start(t)] = 0 THEN "new"
  ELSE IF t \notin streams THEN "over"
  ELSE IF Start(t) \in pending THEN "starting" ELSE "live"

RanOf(t) == IF run[t] = "none" THEN "no" ELSE IF run[t] = "over" THEN "done" ELSE "yes"

Contract ==
  INSTANCE TurnContract WITH
    told <- [t \in Turns |-> ToldOf(t)],
    ran  <- [t \in Turns |-> RanOf(t)]

ImplementsContract == Contract!Spec

(* A turn the API has forgotten in a crash does not run on. *)
ForgottenTurnsEnd ==
  \A t \in Turns : (run[t] \in {"running", "stopping"} /\ no[Start(t)] <= since) ~> (run[t] = "over")

(* gateway-command.queue.ts:172 "Only a terminal provider event closes     *)
(* active turn authority": within a session, the authority of a turn is    *)
(* not closed while its provider runs.                                     *)
OnlyTerminalClosesAuthority ==
  [][\A t \in streams \ streams' : session' = session => run[t] \notin {"running", "stopping"}]_vars
================================================================================
