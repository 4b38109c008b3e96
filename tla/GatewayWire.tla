------------------------------ MODULE GatewayWire ------------------------------
(***************************************************************************)
(* What the API and the native agent gateway say to each other            *)
(* (packages/shared/src/agent-runtime/control.ts): the commands a poll     *)
(* brings, the events a post carries, and the two requests themselves.     *)
(* Only the gateway sends requests; at most one poll and one post of it    *)
(* are under way.                                                          *)
(*                                                                         *)
(* Of the conversation.* commands there is conversation.delete; list,      *)
(* create, rename and the preferences go the same way and change nothing   *)
(* the turns depend on.  Every request of a user has a command of its own  *)
(* (randomUUID): as a bound, one start and one interrupt per turn and one  *)
(* delete per conversation.                                                *)
(***************************************************************************)
EXTENDS Naturals, FiniteSets, Sequences

CONSTANTS Conversations, Turns, ConversationOf, Gateways, None

ASSUME WireAssumption ==
  /\ ConversationOf \in [Turns -> Conversations]
  /\ None \notin Turns \cup Gateways
  /\ Turns \cap Conversations = {}

Start(t) == [kind |-> "turn.start", of |-> t]
Interrupt(t) == [kind |-> "turn.interrupt", of |-> t]
Delete(c) == [kind |-> "conversation.delete", of |-> c]

Starts == {Start(t) : t \in Turns}
Deletes == {Delete(c) : c \in Conversations}
Commands == Starts \cup {Interrupt(t) : t \in Turns} \cup Deletes

(* A terminal status travels twice: as the last turn.event ("ended") and   *)
(* as turn.terminal.                                                       *)
Ack(c) == [kind |-> "command.ack", of |-> c]
Rejected(c) == [kind |-> "command.rejected", of |-> c]
NotFound(c) == [kind |-> "command.rejected not_found", of |-> c]
Deleted(c) == [kind |-> "conversation.deleted", of |-> c]
Started(t) == [kind |-> "started", of |-> t]
Ended(t) == [kind |-> "ended", of |-> t]
Terminal(t) == [kind |-> "turn.terminal", of |-> t]
Readiness == [kind |-> "gateway.readiness", of |-> None]

Events ==
  {Ack(c) : c \in Commands} \cup {Rejected(c) : c \in Commands} \cup {NotFound(c) : c \in Commands}
    \cup {Deleted(c) : c \in Deletes}
    \cup {Started(t) : t \in Turns} \cup {Ended(t) : t \in Turns} \cup {Terminal(t) : t \in Turns}
    \cup {Readiness}

VARIABLES
  me,     \* the gateway instance that is running, or None
  poll,   \* its poll: what became of it and what it answered
  post    \* its post of events: what became of it and what it carries

wire == <<me, poll, post>>

NoPoll == [at |-> "none", commands |-> {}, fresh |-> FALSE]
SentPoll == [NoPoll EXCEPT !.at = "sent"]
FailedPoll == [NoPoll EXCEPT !.at = "failed"]
Answered(commands, fresh) == [at |-> "answered", commands |-> commands, fresh |-> fresh]

NoPost == [at |-> "none", seq |-> 0, events |-> {}]
Replied(reply) == [NoPost EXCEPT !.at = reply]

Polls == [at : {"none", "sent", "answered", "failed"}, commands : SUBSET Commands, fresh : BOOLEAN]
Posts == [at : {"none", "sent", "accepted", "missing", "refused"}, seq : Nat, events : SUBSET Events]

WireTypeOK ==
  /\ me \in Gateways \cup {None}
  /\ poll \in Polls
  /\ post \in Posts
================================================================================
