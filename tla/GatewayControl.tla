---------------------------- MODULE GatewayControl -----------------------------
(***************************************************************************)
(* The API's side of the gateway control plane: the command queue, the     *)
(* response broker, the registry of active turns, the event handler, the   *)
(* readiness snapshot and the turns of ConversationService.  All of it is  *)
(* process memory: a crash of the API forgets it.                          *)
(*                                                                         *)
(* GatewayCommandQueue.turnsByCommand holds a turn exactly while the       *)
(* registry does, and is not kept a second time.                           *)
(***************************************************************************)
EXTENDS GatewayWire

CONSTANTS
  MaxStreams, MaxPending, MaxQueued  \* limits of the broker and the queue

ASSUME ControlAssumption == {MaxStreams, MaxPending, MaxQueued} \subseteq Nat

VARIABLES
  up,         \* is the API running?
  crashes,    \* how often it crashed
  issued,     \* how many commands were ever issued
  no,         \* the number each command was issued under, 0 before
  since,      \* the last number of the API processes before this one
  session,    \* GatewayCommandQueue.gatewayInstanceId and the registry's process
  held,       \* GatewayCommandQueue.pendingPoll: whose poll is held
  ready,      \* has GatewayReadinessService a snapshot?
  queue,      \* GatewayCommandQueue.commands, first in first out by `no`
  pending,    \* GatewayCommandResponseBroker.pending
  streams,    \* GatewayCommandResponseBroker.streams
  authority,  \* GatewayMcpRuntimeRegistry.activeTurnsByConversation
  running,    \* ConversationService.turns
  cursor      \* GatewayEventHandlerService: gatewayInstanceId and eventSeq

ledger == <<issued, no, since>>
live == <<queue, pending, streams, authority>>
api == <<up, crashes, ledger, session, held, ready, live, running, cursor>>

Nothing == [c \in Conversations |-> None]

ControlTypeOK ==
  /\ up \in BOOLEAN /\ ready \in BOOLEAN
  /\ crashes \in Nat /\ issued \in Nat /\ since \in Nat
  /\ no \in [Commands -> Nat]
  /\ session \in Gateways \cup {None} /\ held \in Gateways \cup {None}
  /\ queue \subseteq Commands /\ pending \subseteq Commands /\ streams \subseteq Turns
  /\ authority \in [Conversations -> Turns \cup {None}]
  /\ running \in [Conversations -> Turns \cup {None}]
  /\ cursor \in [gateway : Gateways \cup {None}, seq : Nat]

ControlInit ==
  /\ up = TRUE /\ crashes = 0 /\ issued = 0 /\ since = 0
  /\ no = [c \in Commands |-> 0]
  /\ session = None /\ held = None /\ ready = FALSE
  /\ queue = {} /\ pending = {} /\ streams = {}
  /\ authority = Nothing /\ running = Nothing
  /\ cursor = [gateway |-> None, seq |-> 0]

--------------------------------------------------------------------------------
(* Requests of users *)

(* Is the poll that is held still waited for? *)
Waiting == held # None /\ held = me /\ poll.at = "sent"

(* enqueue: the command goes to the end of the queue, and a held poll is   *)
(* answered with all of it.  An answer to a gateway that is gone is lost.  *)
Enqueue(c) ==
  /\ up /\ session # None
  /\ no[c] = 0
  /\ Cardinality(queue) < MaxQueued /\ Cardinality(pending) < MaxPending
  /\ issued' = issued + 1
  /\ no' = [no EXCEPT ![c] = issued']
  /\ queue' = queue \cup {c}
  /\ pending' = pending \cup {c}
  /\ held' = None
  /\ poll' = IF Waiting THEN Answered(queue', FALSE) ELSE poll

(* A refusal of the broker, the registry or the queue undoes what came     *)
(* before it, so a refused start changes nothing.                          *)
StartTurn(t) ==
  LET c == ConversationOf[t] IN
  /\ ready
  /\ running[c] = None /\ authority[c] = None
  /\ Cardinality(streams) < MaxStreams
  /\ Enqueue(Start(t))
  /\ streams' = streams \cup {t}
  /\ authority' = [authority EXCEPT ![c] = t]
  /\ running' = [running EXCEPT ![c] = t]
  /\ UNCHANGED <<up, crashes, since, session, ready, cursor, me, post>>

StopTurn(t) ==
  /\ running[ConversationOf[t]] = t
  /\ Enqueue(Interrupt(t))
  /\ UNCHANGED <<up, crashes, since, session, ready, streams, authority, running, cursor, me, post>>

DeleteConversation(c) ==
  /\ running[c] = None
  /\ Enqueue(Delete(c))
  /\ UNCHANGED <<up, crashes, since, session, ready, streams, authority, running, cursor, me, post>>

Without(assigned, turns) ==
  [c \in Conversations |-> IF assigned[c] \in turns THEN None ELSE assigned[c]]

\* Mutant: the pending request is dropped, but the turn keeps its authority.
TimeoutKeepingAuthority(c) ==
  LET failed == {t \in streams : Start(t) = c} IN
  /\ up /\ c \in pending
  /\ pending' = pending \ {c}
  /\ streams' = streams \ failed
  /\ running' = Without(running, failed)
  /\ UNCHANGED <<up, crashes, ledger, session, held, ready, queue, authority, cursor, wire>>

(* The broker gives up after thirty seconds.  A turn whose start failed is *)
(* closed; its command stays queued.                                       *)
Timeout(c) ==
  LET failed == {t \in streams : Start(t) = c} IN
  /\ up /\ c \in pending
  /\ pending' = pending \ {c}
  /\ streams' = streams \ failed
  /\ authority' = Without(authority, failed)
  /\ running' = Without(running, failed)
  /\ UNCHANGED <<up, crashes, ledger, session, held, ready, queue, cursor, wire>>

--------------------------------------------------------------------------------
(* Requests of the gateway *)

(* clearTransientState with broker.disconnect and readiness.clear *)
Clear ==
  /\ queue' = {} /\ pending' = {} /\ streams' = {}
  /\ authority' = Nothing
  /\ running' = Without(running, streams)
  /\ ready' = FALSE

(* A poll of another instance than the session's takes the session over    *)
(* and is answered at once; it forgets everything the former one left.     *)
Claim ==
  /\ up /\ poll.at = "sent" /\ session # me
  /\ Clear
  /\ session' = me
  /\ held' = None
  /\ poll' = Answered({}, TRUE)
  /\ UNCHANGED <<up, crashes, ledger, cursor, me, post>>

(* A poll of the session is answered with every command not yet            *)
(* acknowledged or rejected, or held while there is none.                  *)
Poll ==
  /\ up /\ poll.at = "sent" /\ session = me /\ held = None
  /\ IF queue = {} THEN held' = me /\ UNCHANGED poll
                   ELSE poll' = Answered(queue, FALSE) /\ UNCHANGED held
  /\ UNCHANGED <<up, crashes, ledger, session, ready, live, running, cursor, me, post>>

(* The long poll ends after twenty-five seconds. *)
PollWaitEnds ==
  /\ up /\ Waiting
  /\ held' = None
  /\ poll' = Answered(queue, FALSE)
  /\ UNCHANGED <<up, crashes, ledger, session, ready, live, running, cursor, me, post>>

(* The connection of a held poll closed: its session is over (disconnect). *)
NoticeAbort ==
  /\ up /\ held # None /\ ~Waiting
  /\ Clear
  /\ session' = None
  /\ held' = None
  /\ UNCHANGED <<up, crashes, ledger, cursor, wire>>

(* What a batch of events does.  Every effect is a removal, or the         *)
(* readiness, so the order within the batch does not matter.               *)
Acked(events) == {c \in Commands : Ack(c) \in events}
Refused(events) == {c \in Commands : Rejected(c) \in events \/ NotFound(c) \in events}
Closed(events) == {t \in Turns : Ended(t) \in events \/ Terminal(t) \in events}
Begun(events) == {t \in streams : Started(t) \in events}
GoneFor(events) == {d \in Conversations : Delete(d) \in pending /\ (Deleted(Delete(d)) \in events \/ NotFound(Delete(d)) \in events)}

Apply(events) ==
  LET over == Closed(events)
      failed == {t \in Turns : Start(t) \in Refused(events)} IN
  /\ queue' = queue \ (Acked(events) \cup Refused(events))
  /\ pending' = pending \ (Refused(events) \cup (Acked(events) \ (Starts \cup Deletes))
                             \cup {Start(t) : t \in Begun(events) \cup over}
                             \cup {Delete(d) : d \in GoneFor(events)})
  /\ streams' = streams \ (over \cup {t \in failed : Start(t) \in pending})
  /\ authority' = Without(authority, over \cup failed)
  /\ running' = [d \in Conversations |->
       IF d \in GoneFor(events) THEN None ELSE Without(running, streams \ streams')[d]]
  /\ ready' = (ready \/ Readiness \in events)

(* handle: the cursor of a gateway that is new to this API process starts  *)
(* at its first batch.  The reply of an accepted batch may be lost.        *)
HandleBatch ==
  LET last == IF cursor.gateway = me THEN cursor.seq ELSE post.seq - 1 IN
  /\ up /\ post.at = "sent"
  /\ IF session # me
       THEN /\ post' = Replied(IF session = None THEN "missing" ELSE "refused")
            /\ UNCHANGED <<live, running, ready, cursor>>
     ELSE IF post.seq > last + 1
       THEN /\ post' = Replied("refused")
            /\ cursor' = [gateway |-> me, seq |-> last]
            /\ UNCHANGED <<live, running, ready>>
     ELSE /\ post' \in {Replied("accepted"), Replied("refused")}
          /\ IF post.seq <= last
               THEN UNCHANGED <<live, running, ready>>
               ELSE Apply(post.events)
          /\ cursor' = [gateway |-> me, seq |-> IF post.seq <= last THEN last ELSE post.seq]
  /\ UNCHANGED <<up, crashes, ledger, session, held, me, poll>>

--------------------------------------------------------------------------------
(* The process *)

ApiCrash ==
  /\ up
  /\ up' = FALSE
  /\ crashes' = crashes + 1
  /\ since' = issued
  /\ session' = None /\ held' = None /\ ready' = FALSE
  /\ queue' = {} /\ pending' = {} /\ streams' = {}
  /\ authority' = Nothing /\ running' = Nothing
  /\ cursor' = [gateway |-> None, seq |-> 0]
  /\ poll' = IF poll.at = "sent" THEN FailedPoll ELSE poll
  /\ post' = IF post.at = "sent" THEN Replied("refused") ELSE post
  /\ UNCHANGED <<issued, no, me>>

ApiStart ==
  /\ ~up
  /\ up' = TRUE
  /\ UNCHANGED <<crashes, ledger, session, held, ready, live, running, cursor, wire>>
================================================================================
