----------------------------- MODULE AgentGateway ------------------------------
(***************************************************************************)
(* The native agent gateway: the loop of its control session, the command  *)
(* dispatcher, the active turns, the event outbox and the providers' runs. *)
(* One process at a time; everything but the conversations is its memory.  *)
(*                                                                         *)
(* Assistant text is left out: it only fills the outbox and may overflow   *)
(* it at any time, which is one of the ways Lose ends the session.         *)
(***************************************************************************)
EXTENDS GatewayWire

CONSTANTS MaxActive, MaxBuffered, MaxPosted

ASSUME GatewayAssumption ==
  /\ MaxActive \in Nat /\ MaxPosted \in Nat \ {0}
  /\ MaxBuffered \in Nat \ {0, 1}

VARIABLES
  used,         \* the gateway instances started so far
  phase,        \* where the loop is
  claimed,      \* controlSessionClaimed
  recovered,    \* registrationRecoveryAttempted
  batch,        \* the commands of the last poll not dispatched yet
  step,         \* how far the dispatch of the first of them is
  active,       \* ActiveTurnRegistry.active
  applied,      \* GatewayCommandDispatcher.applied
  outbox,       \* GatewayEventOutbox.events
  inFlight,     \* how many of them the batch in flight carries
  seq,          \* GatewayEventOutbox.eventSeq
  run,          \* what the provider does for each turn
  descriptors   \* the conversations the descriptor store has

dispatching == <<batch, step, applied>>
buffer == <<outbox, inFlight, seq>>
loop == <<phase, claimed, recovered>>
gateway == <<used, loop, dispatching, active, buffer, run, descriptors>>

Phases == {"off", "loop", "posting", "recovering", "resetting", "dispatching", "closing"}
Runs == {"none", "running", "stopping", "over"}

GatewayTypeOK ==
  /\ used \subseteq Gateways
  /\ phase \in Phases
  /\ claimed \in BOOLEAN /\ recovered \in BOOLEAN
  /\ batch \subseteq Commands /\ applied \subseteq Commands
  /\ step \in {"none", "launching", "launched", "interrupting"}
  /\ active \subseteq Turns
  /\ outbox \in Seq(Events) /\ Len(outbox) <= MaxBuffered
  /\ inFlight \in 0..Len(outbox) /\ seq \in Nat \ {0}
  /\ run \in [Turns -> Runs]
  /\ descriptors \subseteq Conversations

GatewayInit ==
  /\ used = {} /\ phase = "off"
  /\ claimed = FALSE /\ recovered = FALSE
  /\ batch = {} /\ step = "none" /\ applied = {} /\ active = {}
  /\ outbox = <<>> /\ inFlight = 0 /\ seq = 1
  /\ run = [t \in Turns |-> "none"]
  /\ descriptors \in SUBSET Conversations
  /\ me = None /\ poll = NoPoll /\ post = NoPost

--------------------------------------------------------------------------------
(* The control session *)

GatewayStart(g) ==
  /\ phase = "off" /\ g \notin used
  /\ me' = g
  /\ used' = used \cup {g}
  /\ phase' = "loop"
  /\ UNCHANGED <<claimed, recovered, dispatching, active, buffer, run, descriptors, poll, post>>

\* Mutant: a batch is only sent when it is full.
MustFlushFull == claimed /\ Len(outbox) >= MaxPosted

(* Events go first: nothing is polled, and no answer of a poll is taken,   *)
(* while the outbox holds any.                                             *)
MustFlush == claimed /\ outbox # <<>>

(* The batch in flight is the same each time it is sent. *)
SendPost(reachable) ==
  /\ phase = "loop" /\ MustFlush
  /\ inFlight' = IF inFlight # 0 THEN inFlight
                 ELSE IF Len(outbox) < MaxPosted THEN Len(outbox) ELSE MaxPosted
  /\ post' = IF reachable
               THEN [at |-> "sent", seq |-> seq, events |-> {outbox[i] : i \in 1..inFlight'}]
               ELSE Replied("refused")
  /\ phase' = "posting"
  /\ UNCHANGED <<used, claimed, recovered, dispatching, active, outbox, seq, run, descriptors, me, poll>>

SendPoll(reachable) ==
  /\ phase = "loop" /\ ~MustFlush /\ poll.at = "none"
  /\ poll' = IF reachable THEN SentPoll ELSE FailedPoll
  /\ UNCHANGED <<gateway, me, post>>

(* An answer larger than 64 KiB is not read; the poll counts as failed. *)
CannotRead ==
  /\ poll.at = "answered" /\ poll.commands # {}
  /\ poll' = FailedPoll
  /\ UNCHANGED <<gateway, me, post>>

PollFails ==
  /\ phase = "loop" /\ ~MustFlush /\ poll.at = "failed"
  /\ poll' = NoPoll
  /\ UNCHANGED <<gateway, me, post>>

TakePoll ==
  /\ phase = "loop" /\ ~MustFlush
  /\ poll.at = "answered" /\ ~poll.fresh
  /\ poll' = NoPoll
  /\ claimed' = TRUE
  /\ batch' = poll.commands
  /\ phase' = IF batch' = {} THEN "loop" ELSE "dispatching"
  /\ UNCHANGED <<used, recovered, step, applied, active, buffer, run, descriptors, me, post>>

\* Mutant: the turns are forgotten, not stopped.
ResetForgetting ==
  /\ \/ phase = "loop" /\ ~MustFlush
     \/ phase = "recovering"
  /\ poll.at = "answered" /\ poll.fresh
  /\ poll' = NoPoll
  /\ phase' = "resetting"
  /\ active' = {}
  /\ UNCHANGED <<used, claimed, recovered, dispatching, buffer, run, descriptors, me, post>>

(* Every turn the gateway still has belonged to an API process that is     *)
(* gone: each is interrupted, and the loop waits for all their terminals.  *)
Reset ==
  /\ \/ phase = "loop" /\ ~MustFlush
     \/ phase = "recovering"
  /\ poll.at = "answered" /\ poll.fresh
  /\ poll' = NoPoll
  /\ phase' = "resetting"
  /\ run' = [t \in Turns |-> IF t \in active THEN "stopping" ELSE run[t]]
  /\ UNCHANGED <<used, claimed, recovered, dispatching, active, buffer, descriptors, me, post>>

\* Mutant: the limit is tested before the last of the events only.
EmitOverLimit(events) ==
  /\ Len(outbox) <= MaxBuffered
  /\ outbox' = outbox \o events
  /\ UNCHANGED <<inFlight, seq>>

(* The outbox gets the events if it has room for all of them. *)
Emit(events) ==
  /\ Len(outbox) + Len(events) <= MaxBuffered
  /\ outbox' = outbox \o events
  /\ UNCHANGED <<inFlight, seq>>

\* Mutant: the interrupts are sent, their terminals not waited for.
ResetDoneAtOnce ==
  /\ phase = "resetting"
  /\ Emit(<<Readiness>>)
  /\ claimed' = TRUE
  /\ phase' = "loop"
  /\ UNCHANGED <<used, recovered, dispatching, active, run, descriptors, wire>>

ResetDone ==
  /\ phase = "resetting" /\ active = {}
  /\ Emit(<<Readiness>>)
  /\ claimed' = TRUE
  /\ phase' = "loop"
  /\ UNCHANGED <<used, recovered, dispatching, active, run, descriptors, wire>>

\* Mutant: the sequence number stays with the batch that was accepted.
PostAcceptedUncounted ==
  /\ phase = "posting" /\ post.at = "accepted"
  /\ post' = NoPost
  /\ outbox' = SubSeq(outbox, inFlight + 1, Len(outbox))
  /\ inFlight' = 0
  /\ recovered' = FALSE
  /\ phase' = "loop"
  /\ UNCHANGED <<used, claimed, seq, dispatching, active, run, descriptors, me, poll>>

PostAccepted ==
  /\ phase = "posting" /\ post.at = "accepted"
  /\ post' = NoPost
  /\ outbox' = SubSeq(outbox, inFlight + 1, Len(outbox))
  /\ inFlight' = 0
  /\ seq' = seq + 1
  /\ recovered' = FALSE
  /\ phase' = "loop"
  /\ UNCHANGED <<used, claimed, dispatching, active, run, descriptors, me, poll>>

(* The API has no session: one fresh poll must register this gateway       *)
(* before the same batch is sent again.  A poll that was still under way   *)
(* is abandoned, with its answer.                                          *)
Recover(reachable) ==
  /\ phase = "posting" /\ post.at = "missing" /\ ~recovered
  /\ post' = NoPost
  /\ recovered' = TRUE
  /\ poll' = IF reachable THEN SentPoll ELSE FailedPoll
  /\ phase' = "recovering"
  /\ UNCHANGED <<used, claimed, dispatching, active, buffer, run, descriptors, me>>

--------------------------------------------------------------------------------
(* The dispatcher: c is the first command of the batch *)

IsLive(c) == \E t \in active : ConversationOf[t] = c

(* The command is done with: remembered, and answered with these events.   *)
Finish(c, events) ==
  /\ Emit(events)
  /\ applied' = applied \cup {c}
  /\ batch' = batch \ {c}
  /\ step' = "none"
  /\ phase' = IF batch' = {} THEN "loop" ELSE "dispatching"
  /\ UNCHANGED <<used, claimed, recovered, wire>>

At(c, s) == phase = "dispatching" /\ c \in batch /\ c \notin applied /\ step = s

SkipApplied(c) ==
  /\ phase = "dispatching" /\ c \in batch /\ c \in applied /\ step = "none"
  /\ Finish(c, <<>>)
  /\ UNCHANGED <<active, run, descriptors>>

RefuseStart(t) ==
  LET d == ConversationOf[t] IN
  /\ At(Start(t), "none")
  /\ \/ d \notin descriptors /\ Finish(Start(t), <<NotFound(Start(t))>>)
     \/ d \in descriptors /\ (IsLive(d) \/ Cardinality(active) >= MaxActive)
          /\ Finish(Start(t), <<Rejected(Start(t))>>)
  /\ UNCHANGED <<active, run, descriptors>>

\* Mutant: a conversation with a live turn may start another.
LaunchAnyway(t) ==
  /\ At(Start(t), "none")
  /\ ConversationOf[t] \in descriptors /\ Cardinality(active) < MaxActive
  /\ active' = active \cup {t}
  /\ step' = "launching"
  /\ UNCHANGED <<used, loop, batch, applied, buffer, run, descriptors, wire>>

Launch(t) ==
  LET d == ConversationOf[t] IN
  /\ At(Start(t), "none")
  /\ d \in descriptors /\ ~IsLive(d) /\ Cardinality(active) < MaxActive
  /\ active' = active \cup {t}
  /\ step' = "launching"
  /\ UNCHANGED <<used, loop, batch, applied, buffer, run, descriptors, wire>>

Launched(t) ==
  /\ At(Start(t), "launching")
  /\ Emit(<<Started(t)>>)
  /\ run' = [run EXCEPT ![t] = "running"]
  /\ step' = "launched"
  /\ UNCHANGED <<used, loop, batch, applied, active, descriptors, wire>>

\* Mutant: a start that failed is forgotten without a word.
LaunchFailsSilently(t) ==
  /\ At(Start(t), "launching")
  /\ Finish(Start(t), <<>>)
  /\ active' = active \ {t}
  /\ UNCHANGED <<run, descriptors>>

LaunchFails(t) ==
  /\ At(Start(t), "launching")
  /\ Finish(Start(t), <<Rejected(Start(t))>>)
  /\ active' = active \ {t}
  /\ UNCHANGED <<run, descriptors>>

StartDone(t) ==
  /\ At(Start(t), "launched")
  /\ Finish(Start(t), <<Ack(Start(t))>>)
  /\ UNCHANGED <<active, run, descriptors>>

RefuseInterrupt(t) ==
  LET c == Interrupt(t) IN
  /\ At(c, "none")
  /\ \/ ConversationOf[t] \notin descriptors /\ Finish(c, <<NotFound(c)>>)
     \/ ConversationOf[t] \in descriptors /\ t \notin active /\ Finish(c, <<Rejected(c)>>)
  /\ UNCHANGED <<active, run, descriptors>>

BeginInterrupt(t) ==
  /\ At(Interrupt(t), "none")
  /\ ConversationOf[t] \in descriptors /\ t \in active
  /\ step' = "interrupting"
  /\ UNCHANGED <<used, loop, batch, applied, active, buffer, run, descriptors, wire>>

(* An acknowledged interrupt keeps the turn active until its terminal.     *)
Interrupted(t) ==
  /\ At(Interrupt(t), "interrupting")
  /\ Finish(Interrupt(t), <<Ack(Interrupt(t))>>)
  /\ run' = [run EXCEPT ![t] = IF @ = "running" THEN "stopping" ELSE @]
  /\ UNCHANGED <<active, descriptors>>

InterruptFails(t) ==
  /\ At(Interrupt(t), "interrupting")
  /\ Finish(Interrupt(t), <<Rejected(Interrupt(t))>>)
  /\ UNCHANGED <<active, run, descriptors>>

RemoveConversation(d) ==
  LET c == Delete(d) IN
  /\ At(c, "none")
  /\ \/ d \notin descriptors /\ Finish(c, <<NotFound(c)>>) /\ UNCHANGED descriptors
     \/ d \in descriptors /\ Finish(c, <<Rejected(c)>>) /\ UNCHANGED descriptors
     \/ d \in descriptors /\ ~IsLive(d)
          /\ Finish(c, <<Deleted(c), Ack(c)>>) /\ descriptors' = descriptors \ {d}
  /\ UNCHANGED <<active, run>>

--------------------------------------------------------------------------------
(* The providers, and the end of the process *)

Working == phase \notin {"off", "closing"}

(* The terminal is retained before the turn is released. *)
ProviderEnds(t) ==
  /\ Working /\ t \in active /\ run[t] \in {"running", "stopping"}
  /\ Emit(<<Ended(t), Terminal(t)>>)
  /\ run' = [run EXCEPT ![t] = "over"]
  /\ active' = active \ {t}
  /\ UNCHANGED <<used, loop, dispatching, descriptors, wire>>

(* shutdown: requests under way are aborted, and nothing of the session    *)
(* is used again.                                                          *)
Close ==
  /\ phase' = "closing"
  /\ poll' = NoPoll /\ post' = NoPost
  /\ claimed' = FALSE /\ recovered' = FALSE
  /\ batch' = {} /\ step' = "none" /\ applied' = {} /\ active' = {}
  /\ outbox' = <<>> /\ inFlight' = 0 /\ seq' = 1
  /\ UNCHANGED <<used, run, descriptors, me>>

(* A signal, a fatal provider, or too much text for the outbox. *)
Lose == Working /\ Close

(* An event the outbox has no room for is a failure of the session. *)
Overflow ==
  /\ Working
  /\ Len(outbox) + 2 > MaxBuffered
  /\ active # {} \/ batch # {} \/ phase = "resetting"
  /\ Close

(* A post that failed, was refused or is missing a second time; a recovery *)
(* poll that did not register; an interrupt of a reset that failed, or a   *)
(* terminal of it that did not come within ten seconds.                    *)
GiveUp ==
  /\ \/ phase = "posting" /\ (post.at = "refused" \/ (post.at = "missing" /\ recovered))
     \/ phase = "recovering" /\ (poll.at = "failed" \/ (poll.at = "answered" /\ ~poll.fresh))
     \/ phase = "resetting"
  /\ Close

(* The process ends with its providers' process trees. *)
Exit ==
  /\ phase = "closing"
  /\ phase' = "off"
  /\ me' = None
  /\ run' = [t \in Turns |-> IF run[t] = "none" THEN "none" ELSE "over"]
  /\ UNCHANGED <<used, claimed, recovered, dispatching, active, buffer, descriptors, poll, post>>
================================================================================
