------------------------- MODULE GatewaySessionProofs --------------------------
(***************************************************************************)
(* What holds of the gateway control plane for any conversations, turns,   *)
(* gateway instances and limits: types and limits, sessions and requests,  *)
(* the order of the event batches and the numbers of the commands.         *)
(***************************************************************************)
EXTENDS GatewayPlane, TLAPS, SequenceTheorems

LEMMA CommandFacts ==
  /\ \A t \in Turns : Start(t) \in Commands /\ Interrupt(t) \in Commands /\ ConversationOf[t] \in Conversations
  /\ \A d \in Conversations : Delete(d) \in Commands
  /\ \A t, u \in Turns : Start(t) = Start(u) => t = u
  /\ \A t, u \in Turns : Start(t) # Interrupt(u)
  /\ \A t \in Turns, d \in Conversations : Start(t) # Delete(d) /\ Interrupt(t) # Delete(d)
  /\ \A d, e \in Conversations : Delete(d) = Delete(e) => d = e
  /\ \A c \in Commands : \/ \E t \in Turns : c = Start(t) \/ c = Interrupt(t)
                         \/ \E d \in Conversations : c = Delete(d)
BY WireAssumption DEF Commands, Starts, Deletes, Start, Interrupt, Delete

LEMMA EventFacts ==
  /\ \A c \in Commands : {Ack(c), Rejected(c), NotFound(c)} \subseteq Events
  /\ \A d \in Conversations : Deleted(Delete(d)) \in Events
  /\ \A t \in Turns : {Started(t), Ended(t), Terminal(t)} \subseteq Events
  /\ Readiness \in Events
<1>1. \A c \in Commands : Ack(c) \in Events /\ Rejected(c) \in Events /\ NotFound(c) \in Events
  BY DEF Events
<1>2. \A d \in Conversations : Deleted(Delete(d)) \in Events
  BY DEF Events, Deletes
<1>3. \A t \in Turns : Started(t) \in Events /\ Ended(t) \in Events /\ Terminal(t) \in Events
  BY DEF Events
<1>4. Readiness \in Events
  BY DEF Events
<1> QED  BY <1>1, <1>2, <1>3, <1>4

LEMMA EventsDiffer ==
  /\ \A c, d \in Commands :
       /\ Ack(c) = Ack(d) => c = d
       /\ Rejected(c) = Rejected(d) => c = d
       /\ NotFound(c) = NotFound(d) => c = d
       /\ Ack(c) # Rejected(d) /\ Ack(c) # NotFound(d) /\ Rejected(c) # NotFound(d)
       /\ Deleted(c) = Deleted(d) => c = d
       /\ Deleted(c) \notin {Ack(d), Rejected(d), NotFound(d)}
       /\ Readiness \notin {Ack(c), Rejected(c), NotFound(c), Deleted(c)}
  /\ \A t, u \in Turns :
       /\ Started(t) = Started(u) => t = u
       /\ Ended(t) = Ended(u) => t = u
       /\ Terminal(t) = Terminal(u) => t = u
       /\ Started(t) # Ended(u) /\ Started(t) # Terminal(u) /\ Ended(t) # Terminal(u)
       /\ Readiness \notin {Started(t), Ended(t), Terminal(t)}
  /\ \A t \in Turns, c \in Commands :
       /\ Started(t) \notin {Ack(c), Rejected(c), NotFound(c), Deleted(c)}
       /\ Ended(t) \notin {Ack(c), Rejected(c), NotFound(c), Deleted(c)}
       /\ Terminal(t) \notin {Ack(c), Rejected(c), NotFound(c), Deleted(c)}
<1>1. \A c, d \in Commands :
       /\ Ack(c) = Ack(d) => c = d
       /\ Rejected(c) = Rejected(d) => c = d
       /\ NotFound(c) = NotFound(d) => c = d
       /\ Deleted(c) = Deleted(d) => c = d
  BY DEF Ack, Rejected, NotFound, Deleted
<1>2. \A c, d \in Commands :
       /\ Ack(c) # Rejected(d) /\ Ack(c) # NotFound(d) /\ Rejected(c) # NotFound(d)
       /\ Deleted(c) \notin {Ack(d), Rejected(d), NotFound(d)}
  BY DEF Ack, Rejected, NotFound, Deleted
<1>3. \A c \in Commands : Readiness \notin {Ack(c), Rejected(c), NotFound(c), Deleted(c)}
  BY DEF Ack, Rejected, NotFound, Deleted, Readiness
<1>4. \A t, u \in Turns :
       /\ Started(t) = Started(u) => t = u
       /\ Ended(t) = Ended(u) => t = u
       /\ Terminal(t) = Terminal(u) => t = u
       /\ Started(t) # Ended(u) /\ Started(t) # Terminal(u) /\ Ended(t) # Terminal(u)
       /\ Readiness \notin {Started(t), Ended(t), Terminal(t)}
  BY DEF Started, Ended, Terminal, Readiness
<1>5. \A t \in Turns, c \in Commands :
       /\ Started(t) \notin {Ack(c), Rejected(c), NotFound(c), Deleted(c)}
       /\ Ended(t) \notin {Ack(c), Rejected(c), NotFound(c), Deleted(c)}
       /\ Terminal(t) \notin {Ack(c), Rejected(c), NotFound(c), Deleted(c)}
  BY DEF Ack, Rejected, NotFound, Deleted, Started, Ended, Terminal
<1> QED  BY <1>1, <1>2, <1>3, <1>4, <1>5

(* The events the outbox holds, and those it holds once the batch that was *)
(* accepted is taken off it.                                               *)
Kept == Range(outbox)
Due == {outbox[i] : i \in {j \in DOMAIN outbox : post.at = "accepted" => j > inFlight}}

LEMMA Ranges ==
  /\ Range(<<>>) = {}
  /\ \A e \in Events : <<e>> \in Seq(Events) /\ Len(<<e>>) = 1 /\ Range(<<e>>) = {e}
  /\ \A e, f \in Events : <<e, f>> \in Seq(Events) /\ Len(<<e, f>>) = 2 /\ Range(<<e, f>>) = {e, f}
  /\ <<>> \in Seq(Events) /\ Len(<<>>) = 0
BY DEF Range

LEMMA Concatenated ==
  ASSUME NEW r \in Seq(Events), NEW s \in Seq(Events)
  PROVE  /\ r \o s \in Seq(Events) /\ Len(r \o s) = Len(r) + Len(s)
         /\ \A i \in DOMAIN r : i \in DOMAIN (r \o s) /\ (r \o s)[i] = r[i]
         /\ \A i \in DOMAIN s : Len(r) + i \in DOMAIN (r \o s) /\ (r \o s)[Len(r) + i] = s[i]
         /\ \A i \in DOMAIN (r \o s) : i \in DOMAIN r \/ \E j \in DOMAIN s : i = Len(r) + j
<1>1. /\ r \o s \in Seq(Events) /\ Len(r \o s) = Len(r) + Len(s)
      /\ \A i \in 1..Len(r) + Len(s) : (r \o s)[i] = IF i <= Len(r) THEN r[i] ELSE s[i - Len(r)]
  BY ConcatProperties
<1>2. DOMAIN r = 1..Len(r) /\ DOMAIN s = 1..Len(s) /\ DOMAIN (r \o s) = 1..(Len(r) + Len(s))
  BY <1>1
<1>3. Len(r) \in Nat /\ Len(s) \in Nat
  OBVIOUS
<1>4. ASSUME NEW i \in DOMAIN (r \o s), i \notin DOMAIN r PROVE i - Len(r) \in DOMAIN s /\ i = Len(r) + (i - Len(r))
  BY <1>2, <1>3, <1>4
<1> QED  BY <1>1, <1>2, <1>3, <1>4

(* Events that are emitted are kept and due. *)
LEMMA Emits ==
  ASSUME TypeOK, NEW s \in Seq(Events), Emit(s), post' = post
  PROVE  /\ outbox' \in Seq(Events) /\ Len(outbox') <= MaxBuffered
         /\ inFlight' \in 0..Len(outbox') /\ seq' = seq /\ inFlight' = inFlight
         /\ \A i \in DOMAIN outbox : i \in DOMAIN outbox' /\ outbox'[i] = outbox[i]
         /\ Kept' = Kept \cup Range(s)
         /\ Due' = Due \cup Range(s)
<1>1. /\ outbox \in Seq(Events) /\ inFlight \in 0..Len(outbox) /\ MaxBuffered \in Nat
      /\ outbox' = outbox \o s /\ inFlight' = inFlight /\ seq' = seq /\ Len(outbox) + Len(s) <= MaxBuffered
  BY GatewayAssumption DEF TypeOK, GatewayTypeOK, Emit
<1>2. /\ outbox' \in Seq(Events) /\ Len(outbox') = Len(outbox) + Len(s)
      /\ \A i \in DOMAIN outbox : i \in DOMAIN outbox' /\ outbox'[i] = outbox[i]
      /\ \A i \in DOMAIN s : Len(outbox) + i \in DOMAIN outbox' /\ outbox'[Len(outbox) + i] = s[i]
      /\ \A i \in DOMAIN outbox' : i \in DOMAIN outbox \/ \E j \in DOMAIN s : i = Len(outbox) + j
  BY <1>1, Concatenated
<1>3. \A i \in DOMAIN s : Len(outbox) + i > inFlight
  BY <1>1
<1>4. Kept' = Kept \cup Range(s)
  <2>1. Kept' = {outbox'[i] : i \in DOMAIN outbox'} /\ Kept = {outbox[i] : i \in DOMAIN outbox} /\ Range(s) = {s[i] : i \in DOMAIN s}
    BY DEF Kept, Range
  <2>2. Kept' \subseteq Kept \cup Range(s)
    BY <1>2, <2>1
  <2>3. Kept \subseteq Kept'
    BY <1>2, <2>1
  <2>4. Range(s) \subseteq Kept'
    BY <1>2, <2>1
  <2> QED  BY <2>2, <2>3, <2>4
<1>5. Due' = Due \cup Range(s)
  <2> DEFINE D == {j \in DOMAIN outbox : post.at = "accepted" => j > inFlight}
             E == {j \in DOMAIN outbox' : post.at = "accepted" => j > inFlight}
  <2>1. Due' = {outbox'[i] : i \in E} /\ Due = {outbox[i] : i \in D} /\ Range(s) = {s[i] : i \in DOMAIN s}
    BY <1>1 DEF Due, Range
  <2>2. \A i \in E : i \in D \/ \E j \in DOMAIN s : i = Len(outbox) + j
    BY <1>2
  <2>3. \A i \in D : i \in E /\ outbox'[i] = outbox[i]
    BY <1>2
  <2>4. \A i \in DOMAIN s : Len(outbox) + i \in E
    BY <1>2, <1>3
  <2> HIDE DEF D, E
  <2>5. Due' \subseteq Due \cup Range(s)
    BY <1>2, <2>1, <2>2, <2>3
  <2>6. Due \subseteq Due'
    BY <2>1, <2>3
  <2>7. Range(s) \subseteq Due'
    BY <1>2, <2>1, <2>4
  <2> QED  BY <2>5, <2>6, <2>7
<1> QED  BY <1>1, <1>2, <1>4, <1>5

--------------------------------------------------------------------------------
(* Types *)

LEMMA WithoutTyped ==
  ASSUME NEW f \in [Conversations -> Turns \cup {None}], NEW S
  PROVE  Without(f, S) \in [Conversations -> Turns \cup {None}]
BY DEF Without

LEMMA RequestFacts ==
  /\ NoPoll \in Polls /\ NoPoll.at = "none" /\ NoPoll.commands = {} /\ ~NoPoll.fresh
  /\ SentPoll \in Polls /\ SentPoll.at = "sent" /\ SentPoll.commands = {} /\ ~SentPoll.fresh
  /\ FailedPoll \in Polls /\ FailedPoll.at = "failed" /\ FailedPoll.commands = {} /\ ~FailedPoll.fresh
  /\ \A S : S \subseteq Commands =>
       /\ Answered(S, TRUE) \in Polls /\ Answered(S, TRUE).at = "answered"
       /\ Answered(S, TRUE).commands = S /\ Answered(S, TRUE).fresh
       /\ Answered(S, FALSE) \in Polls /\ Answered(S, FALSE).at = "answered"
       /\ Answered(S, FALSE).commands = S /\ ~Answered(S, FALSE).fresh
  /\ NoPost \in Posts /\ NoPost.at = "none"
  /\ \A r \in {"accepted", "missing", "refused"} : Replied(r) \in Posts /\ Replied(r).at = r
  /\ \A p \in Polls : p.commands \subseteq Commands /\ p.fresh \in BOOLEAN
  /\ \A p \in Posts : p.seq \in Nat /\ p.events \subseteq Events
BY DEF Polls, Posts, NoPoll, SentPoll, FailedPoll, Answered, NoPost, Replied

LEMMA RequestTyped ==
  /\ \A S : poll \in Polls /\ S \subseteq Commands /\ poll' \in {poll, Answered(S, TRUE), Answered(S, FALSE), NoPoll, SentPoll, FailedPoll} => poll' \in Polls
  /\ post \in Posts /\ post' \in {post, NoPost, Replied("accepted"), Replied("missing"), Replied("refused")} => post' \in Posts
<1>1. ASSUME NEW S, poll \in Polls, S \subseteq Commands,
             poll' \in {poll, Answered(S, TRUE), Answered(S, FALSE), NoPoll, SentPoll, FailedPoll}
      PROVE  poll' \in Polls
  <2>1. Answered(S, TRUE) \in Polls /\ Answered(S, FALSE) \in Polls /\ NoPoll \in Polls /\ SentPoll \in Polls /\ FailedPoll \in Polls
    BY <1>1, RequestFacts
  <2> QED  BY ONLY <1>1, <2>1
<1>2. ASSUME post \in Posts, post' \in {post, NoPost, Replied("accepted"), Replied("missing"), Replied("refused")} PROVE post' \in Posts
  BY ONLY <1>2, RequestFacts
<1> QED  BY <1>1, <1>2

LEMMA NothingTyped == Nothing \in [Conversations -> Turns \cup {None}]
BY DEF Nothing

LEMMA ControlTyped ==
  ASSUME TypeOK, ControlStep, UNCHANGED gateway
  PROVE  WireTypeOK' /\ ControlTypeOK'
<1>0. poll \in Polls /\ post \in Posts
  BY DEF TypeOK, WireTypeOK
<1> USE DEF TypeOK, WireTypeOK, ControlTypeOK, ledger, live, api, wire
<1>e. ASSUME NEW c \in Commands, Enqueue(c)
      PROVE  /\ issued' \in Nat /\ no' \in [Commands -> Nat] /\ queue' \subseteq Commands /\ pending' \subseteq Commands
             /\ held' \in Gateways \cup {None}
             /\ poll' \in Polls
  <2>1. queue' \subseteq Commands /\ poll' \in {poll, Answered(queue', FALSE)}
    BY <1>e DEF Enqueue
  <2>2. poll' \in Polls
    BY ONLY <1>0, <2>1, RequestTyped
  <2>3. issued' \in Nat /\ no' \in [Commands -> Nat]
    BY <1>e DEF Enqueue
  <2> QED  BY <1>e, <2>1, <2>2, <2>3 DEF Enqueue
<1>1. ASSUME NEW t \in Turns, StartTurn(t) PROVE WireTypeOK' /\ ControlTypeOK'
  BY <1>1, <1>e, CommandFacts DEF StartTurn
<1>2. ASSUME NEW t \in Turns, StopTurn(t) PROVE WireTypeOK' /\ ControlTypeOK'
  BY <1>2, <1>e, CommandFacts DEF StopTurn
<1>3. ASSUME NEW d \in Conversations, DeleteConversation(d) PROVE WireTypeOK' /\ ControlTypeOK'
  BY <1>3, <1>e, CommandFacts DEF DeleteConversation
<1>4. CASE Claim
  <2>1. running' \in [Conversations -> Turns \cup {None}]
    BY <1>4, WithoutTyped DEF Claim, Clear
  <2>2. poll' \in Polls
    BY ONLY <1>4, RequestFacts DEF Claim
  <2> QED  BY <1>4, <2>1, <2>2, NothingTyped DEF Claim, Clear
<1>5. CASE Poll
  <2>1. queue \subseteq Commands /\ poll' \in {poll, Answered(queue, FALSE)} /\ held' \in Gateways \cup {None}
    BY <1>5 DEF Poll
  <2>2. poll' \in Polls
    BY ONLY <1>0, <2>1, RequestTyped
  <2> QED  BY <1>5, <2>1, <2>2 DEF Poll
<1>6. CASE PollWaitEnds
  <2>1. queue \subseteq Commands /\ poll' \in {poll, Answered(queue, FALSE)}
    BY <1>6 DEF PollWaitEnds
  <2>2. poll' \in Polls
    BY ONLY <1>0, <2>1, RequestTyped
  <2> QED  BY <1>6, <2>2 DEF PollWaitEnds
<1>7. CASE NoticeAbort
  BY <1>7, WithoutTyped, NothingTyped DEF NoticeAbort, Clear
<1>8. CASE HandleBatch
  <2>1. ASSUME Apply(post.events)
        PROVE  /\ queue' \subseteq Commands /\ pending' \subseteq Commands /\ streams' \subseteq Turns
               /\ authority' \in [Conversations -> Turns \cup {None}] /\ running' \in [Conversations -> Turns \cup {None}]
               /\ ready' \in BOOLEAN
    BY <2>1, WithoutTyped DEF Apply
  <2> DEFINE last == IF cursor.gateway = me THEN cursor.seq ELSE post.seq - 1
  <2>2. /\ post.seq \in Nat /\ last \in Int /\ (cursor.gateway = me => last \in Nat)
        /\ (cursor.gateway # me => ~(post.seq > last + 1) /\ ~(post.seq <= last))
    BY RequestFacts
  <2>3. cursor' = cursor \/ \E n \in Nat : cursor' = [gateway |-> me, seq |-> n]
    <3>1. CASE cursor' = [gateway |-> me, seq |-> last] /\ post.seq > last + 1
      BY <3>1, <2>2
    <3>2. CASE cursor' = [gateway |-> me, seq |-> IF post.seq <= last THEN last ELSE post.seq]
      BY <3>2, <2>2
    <3> HIDE DEF last
    <3> QED  BY <1>8, <3>1, <3>2 DEF HandleBatch, last
  <2>4. cursor' \in [gateway : Gateways \cup {None}, seq : Nat]
    BY <2>3
  <2> HIDE DEF last
  <2>5. post' \in {Replied("accepted"), Replied("missing"), Replied("refused")}
    BY <1>8 DEF HandleBatch
  <2>6. post' \in Posts
    BY ONLY <1>0, <2>5, RequestTyped
  <2>7. /\ queue' \subseteq Commands /\ pending' \subseteq Commands /\ streams' \subseteq Turns
        /\ authority' \in [Conversations -> Turns \cup {None}] /\ running' \in [Conversations -> Turns \cup {None}]
        /\ ready' \in BOOLEAN
    BY <1>8, <2>1 DEF HandleBatch
  <2> QED  BY <1>8, <2>4, <2>6, <2>7 DEF HandleBatch
<1>9. CASE ApiCrash
  <2>1. poll' \in {poll, FailedPoll} /\ post' \in {post, Replied("refused")}
    BY <1>9 DEF ApiCrash
  <2>2. poll' \in Polls /\ post' \in Posts
    BY ONLY <1>0, <2>1, RequestFacts
  <2>3. cursor' \in [gateway : Gateways \cup {None}, seq : Nat]
    BY <1>9 DEF ApiCrash
  <2>4. authority' \in [Conversations -> Turns \cup {None}] /\ running' \in [Conversations -> Turns \cup {None}]
    BY <1>9, NothingTyped DEF ApiCrash
  <2>5. crashes' \in Nat /\ since' \in Nat /\ issued' \in Nat /\ no' \in [Commands -> Nat] /\ me' \in Gateways \cup {None}
    BY <1>9 DEF ApiCrash
  <2>6. /\ up' \in BOOLEAN /\ ready' \in BOOLEAN /\ session' \in Gateways \cup {None} /\ held' \in Gateways \cup {None}
        /\ queue' \subseteq Commands /\ pending' \subseteq Commands /\ streams' \subseteq Turns
    BY <1>9 DEF ApiCrash
  <2> QED  BY <2>2, <2>3, <2>4, <2>5, <2>6
<1>10. CASE ApiStart
  BY <1>10 DEF ApiStart
<1>11. ASSUME NEW c \in Commands, Timeout(c) PROVE WireTypeOK' /\ ControlTypeOK'
  BY <1>11, WithoutTyped DEF Timeout
<1> HIDE DEF TypeOK, WireTypeOK, ControlTypeOK, ledger, live, api, wire
<1> QED  BY <1>1, <1>2, <1>3, <1>4, <1>5, <1>6, <1>7, <1>8, <1>9, <1>10, <1>11 DEF ControlStep, Users, Receive

LEMMA FinishTyped ==
  ASSUME TypeOK, NEW c \in Commands, NEW s \in Seq(Events), Finish(c, s)
  PROVE  /\ outbox' \in Seq(Events) /\ Len(outbox') <= MaxBuffered /\ inFlight' \in 0..Len(outbox') /\ seq' \in Nat \ {0}
         /\ applied' \subseteq Commands /\ batch' \subseteq Commands /\ phase' \in Phases
         /\ step' \in {"none", "launching", "launched", "interrupting"} /\ used' \subseteq Gateways
         /\ claimed' \in BOOLEAN /\ recovered' \in BOOLEAN
<1>1. Emit(s) /\ post' = post
  BY DEF Finish, wire
<1> QED  BY <1>1, Emits DEF TypeOK, GatewayTypeOK, Finish, Phases

LEMMA DispatchTyped ==
  ASSUME TypeOK, Dispatch
  PROVE  GatewayTypeOK'
<1> USE CommandFacts, EventFacts, Ranges DEF TypeOK, GatewayTypeOK, loop, buffer
<1>1. ASSUME NEW c \in Commands, SkipApplied(c) PROVE GatewayTypeOK'
  BY <1>1, FinishTyped DEF SkipApplied
<1>2. ASSUME NEW t \in Turns, RefuseStart(t) PROVE GatewayTypeOK'
  <2>1. Finish(Start(t), <<NotFound(Start(t))>>) \/ Finish(Start(t), <<Rejected(Start(t))>>)
    BY <1>2 DEF RefuseStart
  <2> QED  BY <1>2, <2>1, FinishTyped DEF RefuseStart
<1>3. ASSUME NEW t \in Turns, Launch(t) PROVE GatewayTypeOK'
  BY <1>3 DEF Launch
<1>4. ASSUME NEW t \in Turns, Launched(t) PROVE GatewayTypeOK'
  BY <1>4, Emits DEF Launched, wire, Runs
<1>5. ASSUME NEW t \in Turns, LaunchFails(t) PROVE GatewayTypeOK'
  BY <1>5, FinishTyped DEF LaunchFails
<1>6. ASSUME NEW t \in Turns, StartDone(t) PROVE GatewayTypeOK'
  BY <1>6, FinishTyped DEF StartDone
<1>7. ASSUME NEW t \in Turns, RefuseInterrupt(t) PROVE GatewayTypeOK'
  <2>1. Finish(Interrupt(t), <<NotFound(Interrupt(t))>>) \/ Finish(Interrupt(t), <<Rejected(Interrupt(t))>>)
    BY <1>7 DEF RefuseInterrupt
  <2> QED  BY <1>7, <2>1, FinishTyped DEF RefuseInterrupt
<1>8. ASSUME NEW t \in Turns, BeginInterrupt(t) PROVE GatewayTypeOK'
  BY <1>8 DEF BeginInterrupt
<1>9. ASSUME NEW t \in Turns, Interrupted(t) PROVE GatewayTypeOK'
  BY <1>9, FinishTyped DEF Interrupted, Runs
<1>10. ASSUME NEW t \in Turns, InterruptFails(t) PROVE GatewayTypeOK'
  BY <1>10, FinishTyped DEF InterruptFails
<1>11. ASSUME NEW d \in Conversations, RemoveConversation(d) PROVE GatewayTypeOK'
  <2>1. /\ \/ Finish(Delete(d), <<NotFound(Delete(d))>>) \/ Finish(Delete(d), <<Rejected(Delete(d))>>)
           \/ Finish(Delete(d), <<Deleted(Delete(d)), Ack(Delete(d))>>)
        /\ UNCHANGED <<active, run>> /\ descriptors' \subseteq descriptors
    BY <1>11 DEF RemoveConversation
  <2> QED  BY <2>1, FinishTyped
<1> QED  BY <1>1, <1>2, <1>3, <1>4, <1>5, <1>6, <1>7, <1>8, <1>9, <1>10, <1>11 DEF Dispatch

LEMMA CloseTyped == TypeOK /\ Close => WireTypeOK' /\ GatewayTypeOK'
<1> SUFFICES ASSUME TypeOK, Close PROVE WireTypeOK' /\ GatewayTypeOK'
  OBVIOUS
<1>1. WireTypeOK'
  BY RequestFacts DEF TypeOK, WireTypeOK, Close
<1>2. outbox' \in Seq(Events) /\ Len(outbox') = 0
  BY Ranges DEF Close
<1>3. inFlight' = 0 /\ seq' = 1 /\ phase' \in Phases /\ MaxBuffered \in Nat
  BY GatewayAssumption DEF Close, Phases
<1>4. /\ claimed' \in BOOLEAN /\ recovered' \in BOOLEAN /\ step' = "none"
      /\ batch' \subseteq Commands /\ applied' \subseteq Commands /\ active' \subseteq Turns
      /\ used' = used /\ run' = run /\ descriptors' = descriptors
  BY DEF Close
<1> QED  BY <1>1, <1>2, <1>3, <1>4 DEF TypeOK, GatewayTypeOK

LEMMA GatewayTyped ==
  ASSUME TypeOK, GatewayStep, UNCHANGED api
  PROVE  WireTypeOK' /\ GatewayTypeOK'
<1>0. poll \in Polls /\ post \in Posts
  BY DEF TypeOK, WireTypeOK
<1> USE DEF TypeOK, WireTypeOK, GatewayTypeOK, gateway, loop, dispatching, buffer, wire, Phases
<1>1. CASE SendPost(up)
  <2>1. inFlight' \in 0..Len(outbox)
    BY <1>1, GatewayAssumption DEF SendPost
  <2>2. \A i \in 1..inFlight' : outbox[i] \in Events
    BY <2>1
  <2>3. {outbox[i] : i \in 1..inFlight'} \subseteq Events
    BY <2>2
  <2>4. [at |-> "sent", seq |-> seq, events |-> {outbox[i] : i \in 1..inFlight'}] \in Posts
    BY <2>3 DEF Posts
  <2>5. post' \in Posts
    BY ONLY <1>1, <2>4, RequestFacts DEF SendPost
  <2> QED  BY <1>1, <2>1, <2>5 DEF SendPost
<1>2. CASE SendPoll(up)
  <2>1. poll' \in {SentPoll, FailedPoll}
    BY <1>2 DEF SendPoll
  <2>2. poll' \in Polls
    BY ONLY <2>1, RequestFacts
  <2> QED  BY <1>2, <2>2 DEF SendPoll
<1>3. CASE PollFails \/ CannotRead
  <2>1. poll' \in Polls
    BY ONLY <1>3, RequestFacts DEF PollFails, CannotRead
  <2> QED  BY <1>3, <2>1 DEF PollFails, CannotRead
<1>4. CASE TakePoll
  <2>1. poll' \in Polls /\ poll.commands \subseteq Commands
    BY ONLY <1>0, <1>4, RequestFacts DEF TakePoll
  <2> QED  BY <1>4, <2>1 DEF TakePoll
<1>5. CASE Reset
  <2>1. poll' \in Polls
    BY ONLY <1>5, RequestFacts DEF Reset
  <2> QED  BY <1>5, <2>1 DEF Reset, Runs
<1>6. CASE ResetDone
  <2>1. Emit(<<Readiness>>) /\ post' = post
    BY <1>6 DEF ResetDone
  <2> QED  BY <1>6, <2>1, Emits, EventFacts, Ranges DEF ResetDone
<1>7. CASE PostAccepted
  <2>1. outbox' \in Seq(Events) /\ Len(outbox') <= Len(outbox)
    BY <1>7, SubSeqProperties DEF PostAccepted
  <2>2. post' \in Posts
    BY ONLY <1>7, RequestFacts DEF PostAccepted
  <2>3. Len(outbox') <= MaxBuffered /\ inFlight' \in 0..Len(outbox') /\ seq' \in Nat \ {0}
    BY <1>7, <2>1, GatewayAssumption DEF PostAccepted
  <2> QED  BY <1>7, <2>1, <2>2, <2>3 DEF PostAccepted
<1>8. CASE Recover(up)
  <2>1. poll' \in {SentPoll, FailedPoll} /\ post' = NoPost
    BY <1>8 DEF Recover
  <2>2. poll' \in Polls /\ post' \in Posts
    BY ONLY <2>1, RequestFacts
  <2> QED  BY <1>8, <2>2 DEF Recover
<1>9. CASE GiveUp \/ Overflow \/ Lose
  BY <1>9, CloseTyped DEF GiveUp, Overflow, Lose
<1>10. CASE Exit
  BY <1>10 DEF Exit, Runs
<1>11. CASE Dispatch
  <2>1. UNCHANGED wire
    BY <1>11 DEF Dispatch, SkipApplied, RefuseStart, Launch, Launched, LaunchFails, StartDone, RefuseInterrupt,
         BeginInterrupt, Interrupted, InterruptFails, RemoveConversation, Finish
  <2> QED  BY <1>11, <2>1, DispatchTyped
<1>12. ASSUME NEW t \in Turns, ProviderEnds(t) PROVE WireTypeOK' /\ GatewayTypeOK'
  <2>1. Emit(<<Ended(t), Terminal(t)>>) /\ post' = post
    BY <1>12 DEF ProviderEnds
  <2> QED  BY <1>12, <2>1, Emits, EventFacts, Ranges DEF ProviderEnds, Runs
<1>13. ASSUME NEW g \in Gateways, GatewayStart(g) PROVE WireTypeOK' /\ GatewayTypeOK'
  BY <1>13 DEF GatewayStart
<1> HIDE DEF TypeOK, WireTypeOK, GatewayTypeOK, gateway, loop, dispatching, buffer, wire, Phases
<1> QED  BY <1>1, <1>2, <1>3, <1>4, <1>5, <1>6, <1>7, <1>8, <1>9, <1>10, <1>11, <1>12, <1>13 DEF GatewayStep, Advance

LEMMA TypeInit == Init => TypeOK
<1> SUFFICES ASSUME Init PROVE TypeOK
  OBVIOUS
<1>1. WireTypeOK
  BY RequestFacts DEF Init, GatewayInit, WireTypeOK
<1>2. /\ outbox \in Seq(Events) /\ Len(outbox) = 0 /\ inFlight = 0 /\ seq = 1 /\ phase \in Phases
      /\ MaxBuffered \in Nat /\ run \in [Turns -> Runs]
  BY Ranges, GatewayAssumption DEF Init, GatewayInit, Phases, Runs
<1>9. /\ used = {} /\ claimed \in BOOLEAN /\ recovered \in BOOLEAN /\ step = "none"
      /\ batch = {} /\ applied = {} /\ active = {} /\ descriptors \subseteq Conversations
  BY DEF Init, GatewayInit
<1>3. GatewayTypeOK
  BY ONLY <1>2, <1>9 DEF GatewayTypeOK
<1>4. cursor \in [gateway : Gateways \cup {None}, seq : Nat]
  BY DEF Init, ControlInit
<1>5. no \in [Commands -> Nat]
  BY DEF Init, ControlInit
<1>6. /\ up \in BOOLEAN /\ ready \in BOOLEAN /\ crashes \in Nat /\ issued \in Nat /\ since \in Nat
      /\ session = None /\ held = None /\ queue = {} /\ pending = {} /\ streams = {}
  BY DEF Init, ControlInit
<1>7. authority \in [Conversations -> Turns \cup {None}] /\ running \in [Conversations -> Turns \cup {None}]
  BY NothingTyped DEF Init, ControlInit
<1>8. ControlTypeOK
  BY <1>4, <1>5, <1>6, <1>7 DEF ControlTypeOK
<1> QED  BY <1>1, <1>3, <1>8 DEF TypeOK

LEMMA TypeNext == TypeOK /\ [Next]_vars => TypeOK'
<1> SUFFICES ASSUME TypeOK, [Next]_vars PROVE TypeOK'
  OBVIOUS
<1>1. UNCHANGED gateway /\ GatewayTypeOK => GatewayTypeOK'
  BY DEF gateway, loop, dispatching, buffer, GatewayTypeOK
<1>2. UNCHANGED api /\ ControlTypeOK => ControlTypeOK'
  BY DEF api, ledger, live, ControlTypeOK
<1>3. UNCHANGED wire /\ WireTypeOK => WireTypeOK'
  BY DEF wire, WireTypeOK
<1> QED  BY <1>1, <1>2, <1>3, ControlTyped, GatewayTyped DEF TypeOK, Next, vars

(* Every variable keeps to its type, and the outbox to its limit: an event *)
(* is emitted only when there is room for all that come with it.           *)
THEOREM TypeCorrect == Spec => []TypeOK
BY TypeInit, TypeNext, PTL DEF Spec

--------------------------------------------------------------------------------
(* Sessions *)

(* Instances are never used again, a request belongs to the one that runs, *)
(* and what the loop holds goes with the phase it is in.                   *)
Sessions ==
  /\ {me, session, held, cursor.gateway} \subseteq used \cup {None}
  /\ held # None => held = session
  /\ me = None <=> phase = "off"
  /\ ~Working => poll = NoPoll /\ post = NoPost /\ batch = {} /\ active = {} /\ applied = {} /\ outbox = <<>>
  /\ post.at # "none" <=> phase = "posting"
  /\ phase = "posting" => claimed
  /\ post.at = "sent" => post.seq = seq /\ post.events = {outbox[i] : i \in 1..inFlight}
  /\ batch # {} <=> phase = "dispatching"
  /\ phase = "dispatching" => poll = NoPoll
  /\ step # "none" => phase = "dispatching"
  /\ ~claimed => outbox = <<>> /\ active = {} /\ batch = {} /\ applied = {}

(* What every step of the dispatcher does. *)
LEMMA Dispatches ==
  ASSUME TypeOK, Dispatch
  PROVE  /\ phase = "dispatching" /\ phase' \in {"loop", "dispatching"} /\ (batch' # {} <=> phase' = "dispatching")
         /\ batch # {} /\ batch' \subseteq batch /\ (step' # "none" => batch' = batch)
         /\ applied \subseteq applied' /\ applied' \subseteq applied \cup (batch \ batch')
         /\ active' \subseteq Turns
         /\ UNCHANGED <<used, claimed, recovered, wire, inFlight, seq>>
         /\ \A i \in DOMAIN outbox : i \in DOMAIN outbox' /\ outbox'[i] = outbox[i]
<1> USE CommandFacts, EventFacts, Ranges DEF loop, buffer
<1> DEFINE G == /\ phase = "dispatching" /\ phase' \in {"loop", "dispatching"} /\ (batch' # {} <=> phase' = "dispatching")
                /\ batch # {} /\ batch' \subseteq batch /\ (step' # "none" => batch' = batch)
                /\ applied \subseteq applied' /\ applied' \subseteq applied \cup (batch \ batch')
                /\ UNCHANGED <<used, claimed, recovered, wire, inFlight, seq>>
                /\ \A i \in DOMAIN outbox : i \in DOMAIN outbox' /\ outbox'[i] = outbox[i]
<1>0. ASSUME NEW c \in batch, NEW s \in Seq(Events), Finish(c, s), phase = "dispatching" PROVE G
  <2>1. Emit(s) /\ post' = post
    BY <1>0 DEF Finish, wire
  <2> QED  BY <1>0, <2>1, Emits DEF Finish
<1>1. ASSUME NEW t \in Turns, Launch(t) \/ BeginInterrupt(t) PROVE G
  BY <1>1 DEF Launch, BeginInterrupt, At
<1>2. ASSUME NEW t \in Turns, Launched(t) PROVE G
  <2>1. Emit(<<Started(t)>>) /\ post' = post
    BY <1>2 DEF Launched, wire
  <2> QED  BY <1>2, <2>1, Emits DEF Launched, At
<1>3. Dispatch /\ ~G => \E c \in batch, s \in Seq(Events) : Finish(c, s) /\ phase = "dispatching"
  <2>1. ASSUME NEW c \in Commands, SkipApplied(c) PROVE \E d \in batch, s \in Seq(Events) : Finish(d, s) /\ phase = "dispatching"
    BY <2>1 DEF SkipApplied
  <2>2. ASSUME NEW t \in Turns, RefuseStart(t) \/ LaunchFails(t) \/ StartDone(t)
        PROVE \E d \in batch, s \in Seq(Events) : Finish(d, s) /\ phase = "dispatching"
    <3>1. phase = "dispatching" /\ Start(t) \in batch
      BY <2>2 DEF RefuseStart, LaunchFails, StartDone, At
    <3>2. \/ Finish(Start(t), <<NotFound(Start(t))>>) \/ Finish(Start(t), <<Rejected(Start(t))>>)
          \/ Finish(Start(t), <<Ack(Start(t))>>)
      BY <2>2 DEF RefuseStart, LaunchFails, StartDone
    <3> QED  BY <3>1, <3>2
  <2>3. ASSUME NEW t \in Turns, RefuseInterrupt(t) \/ Interrupted(t) \/ InterruptFails(t)
        PROVE \E d \in batch, s \in Seq(Events) : Finish(d, s) /\ phase = "dispatching"
    <3>1. phase = "dispatching" /\ Interrupt(t) \in batch
      BY <2>3 DEF RefuseInterrupt, Interrupted, InterruptFails, At
    <3>2. \/ Finish(Interrupt(t), <<NotFound(Interrupt(t))>>) \/ Finish(Interrupt(t), <<Rejected(Interrupt(t))>>)
          \/ Finish(Interrupt(t), <<Ack(Interrupt(t))>>)
      BY <2>3 DEF RefuseInterrupt, Interrupted, InterruptFails
    <3> QED  BY <3>1, <3>2
  <2>4. ASSUME NEW d \in Conversations, RemoveConversation(d)
        PROVE \E e \in batch, s \in Seq(Events) : Finish(e, s) /\ phase = "dispatching"
    <3>1. phase = "dispatching" /\ Delete(d) \in batch
      BY <2>4 DEF RemoveConversation, At
    <3>2. \/ Finish(Delete(d), <<NotFound(Delete(d))>>) \/ Finish(Delete(d), <<Rejected(Delete(d))>>)
          \/ Finish(Delete(d), <<Deleted(Delete(d)), Ack(Delete(d))>>)
      BY <2>4 DEF RemoveConversation
    <3> QED  BY <3>1, <3>2
  <2> HIDE DEF G
  <2> QED  BY <1>1, <1>2, <2>1, <2>2, <2>3, <2>4 DEF Dispatch
<1>4. active' \subseteq Turns
  BY DispatchTyped DEF GatewayTypeOK
<1> HIDE DEF G
<1>5. G
  BY <1>0, <1>3
<1> QED  BY <1>4, <1>5 DEF G

LEMMA SessionsControl ==
  ASSUME TypeOK, Sessions, ControlStep, UNCHANGED gateway
  PROVE  Sessions'
<1> USE DEF TypeOK, ledger, live, api, wire, gateway, loop, dispatching, buffer, Working
<1> DEFINE Same == /\ poll' \in {poll, Answered(queue', TRUE), Answered(queue', FALSE), FailedPoll, Answered({}, TRUE)}
                   /\ (poll.at # "sent" => poll' = poll)
                   /\ (post' = post \/ (post.at = "sent" /\ post'.at \in {"accepted", "missing", "refused"}))
                   /\ {session', held', cursor'.gateway} \subseteq {me, session, None, cursor.gateway, held}
                   /\ (held' # None => held' = session')
                   /\ UNCHANGED me
<1>1. Same => Sessions'
  <2> HAVE Same
  <2>1. {me, session, held, cursor.gateway}' \subseteq used' \cup {None}
    BY DEF Sessions
  <2>2. (held # None => held = session)'
    OBVIOUS
  <2>3. NoPoll.at # "sent" /\ NoPost.at # "sent"
    BY RequestFacts
  <2>4. /\ (me = None <=> phase = "off")'
        /\ (~Working => poll = NoPoll /\ post = NoPost /\ batch = {} /\ active = {} /\ applied = {} /\ outbox = <<>>)'
        /\ (batch # {} <=> phase = "dispatching")'
        /\ (phase = "dispatching" => poll = NoPoll)'
        /\ (step # "none" => phase = "dispatching")'
        /\ (~claimed => outbox = <<>> /\ active = {} /\ batch = {} /\ applied = {})'
    BY <2>3 DEF Sessions
  <2>5. (post.at # "none" <=> phase = "posting")' /\ (phase = "posting" => claimed)'
    BY DEF Sessions
  <2>6. (post.at = "sent" => post.seq = seq /\ post.events = {outbox[i] : i \in 1..inFlight})'
    BY DEF Sessions
  <2> QED  BY <2>1, <2>2, <2>4, <2>5, <2>6 DEF Sessions
<1>2. ASSUME NEW c \in Commands, Enqueue(c), UNCHANGED <<session, cursor, me, post>> PROVE Same
  BY <1>2 DEF Enqueue, Waiting
<1>3. ASSUME NEW t \in Turns, StartTurn(t) \/ StopTurn(t) PROVE Same
  <2>1. \E c \in Commands : Enqueue(c) /\ UNCHANGED <<session, cursor, me, post>>
    BY <1>3, CommandFacts DEF StartTurn, StopTurn
  <2> QED  BY <2>1, <1>2
<1>4. ASSUME NEW d \in Conversations, DeleteConversation(d) PROVE Same
  <2>1. \E c \in Commands : Enqueue(c) /\ UNCHANGED <<session, cursor, me, post>>
    BY <1>4, CommandFacts DEF DeleteConversation
  <2> QED  BY <2>1, <1>2
<1>5. ASSUME Claim PROVE Same
  BY <1>5 DEF Claim, Clear
<1>6. ASSUME Poll PROVE Same
  BY <1>6 DEF Poll, Sessions
<1>7. ASSUME PollWaitEnds PROVE Same
  BY <1>7 DEF PollWaitEnds, Waiting
<1>8. ASSUME NoticeAbort PROVE Same
  BY <1>8 DEF NoticeAbort
<1>9. ASSUME HandleBatch PROVE Same
  <2>1. post' \in {Replied("accepted"), Replied("missing"), Replied("refused")} /\ post.at = "sent"
    BY <1>9 DEF HandleBatch
  <2>2. post'.at \in {"accepted", "missing", "refused"}
    BY ONLY <2>1, RequestFacts
  <2>3. cursor' = cursor \/ cursor'.gateway = me
    BY <1>9 DEF HandleBatch
  <2> QED  BY <1>9, <2>1, <2>2, <2>3 DEF HandleBatch, Sessions
<1>10. ASSUME ApiCrash PROVE Same
  <2>1. post' = post \/ (post.at = "sent" /\ post' = Replied("refused"))
    BY <1>10 DEF ApiCrash
  <2>2. post' = post \/ (post.at = "sent" /\ post'.at \in {"accepted", "missing", "refused"})
    BY ONLY <2>1, RequestFacts
  <2>3. cursor'.gateway = None /\ session' = None /\ held' = None /\ poll' \in {poll, FailedPoll}
        /\ (poll.at # "sent" => poll' = poll) /\ me' = me
    BY <1>10 DEF ApiCrash
  <2> QED  BY <2>2, <2>3
<1>11. ASSUME ApiStart PROVE Same
  BY <1>11 DEF ApiStart, Sessions
<1>12. ASSUME NEW c \in Commands, Timeout(c) PROVE Same
  BY <1>12 DEF Timeout, Sessions
<1> HIDE DEF Same
<1> QED  BY <1>1, <1>3, <1>4, <1>5, <1>6, <1>7, <1>8, <1>9, <1>10, <1>11, <1>12 DEF ControlStep, Users, Receive

LEMMA SessionsGateway ==
  ASSUME TypeOK, Sessions, GatewayStep, UNCHANGED api
  PROVE  Sessions'
<1> USE DEF ledger, live, api, Working, loop, dispatching, buffer, wire, gateway
<1>0. /\ poll \in Polls /\ post \in Posts /\ me \in Gateways \cup {None} /\ NoPoll.at = "none" /\ NoPost.at = "none"
      /\ outbox \in Seq(Events) /\ inFlight \in 0..Len(outbox)
  BY RequestFacts DEF TypeOK, WireTypeOK, GatewayTypeOK
<1>1. CASE SendPost(up)
  <2>1. /\ post'.at # "none"
        /\ (post'.at = "sent" => post'.seq = seq' /\ post'.events = {outbox'[i] : i \in 1..inFlight'})
    <3>1. CASE post' = Replied("refused")
      BY <3>1, RequestFacts
    <3>2. CASE post' = [at |-> "sent", seq |-> seq, events |-> {outbox[i] : i \in 1..inFlight'}]
      BY <3>2, <1>1 DEF SendPost
    <3> QED  BY <1>1, <3>1, <3>2 DEF SendPost
  <2>2. /\ phase = "loop" /\ phase' = "posting" /\ claimed
        /\ UNCHANGED <<used, claimed, batch, step, applied, active, outbox, seq, me, poll, session, held, cursor>>
    BY <1>1 DEF SendPost, MustFlush
  <2> QED  BY <2>1, <2>2 DEF Sessions
<1>2. CASE SendPoll(up) \/ PollFails
  BY <1>2 DEF SendPoll, PollFails, Sessions
<1>3. CASE CannotRead
  BY <1>0, <1>3 DEF CannotRead, Sessions
<1>4. CASE TakePoll
  BY <1>0, <1>4 DEF TakePoll, Sessions, MustFlush
<1>5. CASE Reset
  BY <1>0, <1>5 DEF Reset, Sessions
<1>6. CASE ResetDone
  <2>1. Emit(<<Readiness>>) /\ post' = post
    BY <1>6 DEF ResetDone
  <2> QED  BY <1>0, <1>6, <2>1 DEF ResetDone, Emit, Sessions
<1>7. CASE PostAccepted
  <2>1. claimed /\ claimed' /\ ~(phase' = "dispatching") /\ phase' = "loop" /\ post'.at = "none"
    BY <1>0, <1>7 DEF PostAccepted, Sessions
  <2> QED  BY <1>0, <1>7, <2>1 DEF PostAccepted, Sessions
<1>8. CASE Recover(up)
  BY <1>0, <1>8 DEF Recover, Sessions
<1>9. CASE GiveUp \/ Overflow \/ Lose
  BY <1>0, <1>9 DEF GiveUp, Overflow, Lose, Close, Sessions
<1>10. CASE Exit
  BY <1>0, <1>10 DEF Exit, Sessions
<1>11. CASE Dispatch
  BY <1>0, <1>11, Dispatches DEF Sessions
<1>12. ASSUME NEW t \in Turns, ProviderEnds(t) PROVE Sessions'
  <2>1. Emit(<<Ended(t), Terminal(t)>>) /\ post' = post
    BY <1>12 DEF ProviderEnds
  <2>4. \A i \in DOMAIN outbox : outbox'[i] = outbox[i]
    BY <2>1, Emits, EventFacts, Ranges
  <2>2. \A i \in 1..inFlight : outbox'[i] = outbox[i]
    BY <1>0, <2>4
  <2>3. post'.at = "sent" => post'.seq = seq' /\ post'.events = {outbox'[i] : i \in 1..inFlight'}
    BY <2>1, <2>2 DEF Emit, Sessions
  <2> QED  BY <1>12, <2>3 DEF ProviderEnds, Sessions
<1>13. ASSUME NEW g \in Gateways, GatewayStart(g) PROVE Sessions'
  BY <1>0, <1>13, WireAssumption DEF GatewayStart, Sessions
<1> QED  BY <1>1, <1>2, <1>3, <1>4, <1>5, <1>6, <1>7, <1>8, <1>9, <1>10, <1>11, <1>12, <1>13 DEF GatewayStep, Advance

LEMMA SessionsNext == TypeOK /\ Sessions /\ [Next]_vars => Sessions'
<1>1. Sessions /\ UNCHANGED vars => Sessions'
  BY DEF vars, api, gateway, wire, loop, dispatching, buffer, Sessions, Working
<1> QED  BY <1>1, SessionsControl, SessionsGateway DEF Next

--------------------------------------------------------------------------------
(* A session needs a running API, a held poll of the running gateway is    *)
(* still waited for, and the answer that registers brings no commands.     *)
Requests ==
  /\ ~up => session = None
  /\ Working /\ held = me => poll.at = "sent"
  /\ poll.fresh => poll.commands = {}
  /\ phase = "resetting" => poll = NoPoll

LEMMA RequestsControl ==
  ASSUME TypeOK, Sessions, Requests, ControlStep, UNCHANGED gateway
  PROVE  Requests'
<1> USE DEF ledger, live, api, wire, gateway, loop, dispatching, buffer, Working
<1> DEFINE Same == /\ poll' \in {poll, Answered(queue', FALSE), Answered(queue, FALSE), FailedPoll, Answered({}, TRUE)}
                   /\ (poll.at # "sent" => poll' = poll)
                   /\ (session' = None \/ (up' /\ session' = me) \/ (up' = up /\ session' = session) \/ up')
                   /\ (held' = None \/ (poll' = poll /\ (held' = held \/ (held' = me /\ poll.at = "sent"))))
                   /\ UNCHANGED me
<1>0. queue \subseteq Commands /\ queue' \subseteq Commands /\ NoPoll.at # "sent"
  BY ControlTyped, RequestFacts DEF TypeOK, ControlTypeOK
<1>1. Same => Requests'
  <2> HAVE Same
  <2>1. poll'.fresh => poll'.commands = {}
    <3>1. poll' \in {poll, Answered(queue', FALSE), Answered(queue, FALSE), FailedPoll, Answered({}, TRUE)}
      OBVIOUS
    <3>2. ~Answered(queue', FALSE).fresh /\ ~Answered(queue, FALSE).fresh /\ ~FailedPoll.fresh /\ Answered({}, TRUE).commands = {}
      BY <1>0, RequestFacts
    <3> HIDE DEF Same
    <3> QED  BY <3>1, <3>2 DEF Requests
  <2>2. (~up => session = None)' /\ (Working /\ held = me => poll.at = "sent")' /\ (phase = "resetting" => poll = NoPoll)'
    BY <1>0 DEF Sessions, Requests
  <2> QED  BY <2>1, <2>2 DEF Requests
<1>2. ASSUME NEW c \in Commands, Enqueue(c), UNCHANGED <<up, session, me>> PROVE Same
  BY <1>2 DEF Enqueue, Waiting
<1>3. ASSUME NEW t \in Turns, StartTurn(t) \/ StopTurn(t) PROVE Same
  <2>1. \E c \in Commands : Enqueue(c) /\ UNCHANGED <<up, session, me>>
    BY <1>3, CommandFacts DEF StartTurn, StopTurn
  <2> QED  BY <2>1, <1>2
<1>4. ASSUME NEW d \in Conversations, DeleteConversation(d) PROVE Same
  <2>1. \E c \in Commands : Enqueue(c) /\ UNCHANGED <<up, session, me>>
    BY <1>4, CommandFacts DEF DeleteConversation
  <2> QED  BY <2>1, <1>2
<1>5. ASSUME Claim PROVE Same
  BY <1>5 DEF Claim, Clear
<1>6. ASSUME Poll PROVE Same
  BY <1>6 DEF Poll, Sessions
<1>7. ASSUME PollWaitEnds PROVE Same
  BY <1>7 DEF PollWaitEnds, Waiting
<1>8. ASSUME NoticeAbort PROVE Same
  BY <1>8 DEF NoticeAbort
<1>9. ASSUME HandleBatch PROVE Same
  BY <1>9 DEF HandleBatch
<1>10. ASSUME ApiCrash PROVE Same
  BY <1>10 DEF ApiCrash
<1>11. ASSUME ApiStart PROVE Same
  BY <1>11 DEF ApiStart
<1>12. ASSUME NEW c \in Commands, Timeout(c) PROVE Same
  BY <1>12 DEF Timeout
<1> HIDE DEF Same
<1> QED  BY <1>1, <1>3, <1>4, <1>5, <1>6, <1>7, <1>8, <1>9, <1>10, <1>11, <1>12 DEF ControlStep, Users, Receive

LEMMA RequestsGateway ==
  ASSUME TypeOK, Sessions, Requests, GatewayStep, UNCHANGED api
  PROVE  Requests'
<1> USE DEF ledger, live, api, Working, loop, dispatching, buffer, wire, gateway
<1>0. /\ NoPoll.at = "none" /\ ~NoPoll.fresh /\ SentPoll.at = "sent" /\ ~SentPoll.fresh /\ ~FailedPoll.fresh
      /\ (me = None <=> phase = "off") /\ (phase = "dispatching" => poll = NoPoll)
  BY RequestFacts DEF Sessions
<1>1. CASE SendPost(up)
  BY <1>1 DEF SendPost, Requests
<1>2. CASE SendPoll(up)
  <2>1. up \in BOOLEAN /\ held # me
    BY <1>0, <1>2 DEF SendPoll, Requests, TypeOK, ControlTypeOK
  <2> QED  BY <1>0, <1>2, <2>1 DEF SendPoll, Requests
<1>3. CASE PollFails \/ CannotRead \/ TakePoll \/ Reset
  BY <1>0, <1>3 DEF PollFails, CannotRead, TakePoll, Reset, Requests
<1>6. CASE ResetDone \/ PostAccepted
  BY <1>0, <1>6 DEF ResetDone, PostAccepted, Requests
<1>8. CASE Recover(up)
  <2>1. up \in BOOLEAN /\ (~up => held # me)
    BY <1>0, <1>8 DEF Recover, Requests, Sessions, TypeOK, ControlTypeOK
  <2> QED  BY <1>0, <1>8, <2>1 DEF Recover, Requests
<1>9. CASE GiveUp \/ Overflow \/ Lose
  BY <1>0, <1>9 DEF GiveUp, Overflow, Lose, Close, Requests
<1>10. CASE Exit
  BY <1>0, <1>10 DEF Exit, Requests
<1>11. CASE Dispatch
  BY <1>0, <1>11, Dispatches DEF Requests
<1>12. ASSUME NEW t \in Turns, ProviderEnds(t) PROVE Requests'
  BY <1>12 DEF ProviderEnds, Requests
<1>13. ASSUME NEW g \in Gateways, GatewayStart(g) PROVE Requests'
  BY <1>0, <1>13, WireAssumption DEF GatewayStart, Sessions, Requests
<1> QED  BY <1>1, <1>2, <1>3, <1>6, <1>8, <1>9, <1>10, <1>11, <1>12, <1>13 DEF GatewayStep, Advance

LEMMA RequestsNext == TypeOK /\ Sessions /\ Requests /\ [Next]_vars => Requests'
<1>1. Requests /\ UNCHANGED vars => Requests'
  BY DEF vars, api, gateway, wire, loop, Requests, Working
<1> QED  BY <1>1, RequestsControl, RequestsGateway DEF Next

--------------------------------------------------------------------------------
(* The cursor is one batch behind the outbox, or has its last batch, whose *)
(* answer is on the way or was lost.                                       *)
Counted ==
  Working /\ cursor.gateway = me =>
    \/ seq = cursor.seq + 1 /\ post.at # "accepted"
    \/ seq = cursor.seq /\ post.at \in {"accepted", "refused"}

LEMMA CountedNext ==
  ASSUME TypeOK, Sessions, Counted, [Next]_vars
  PROVE  Counted'
<1> USE DEF vars, ledger, live, api, Working, loop, dispatching, buffer, wire, gateway
<1>0. /\ post \in Posts /\ seq \in Nat /\ cursor.seq \in Nat /\ NoPost.at = "none"
      /\ (me = None <=> phase = "off") /\ (post.at # "none" <=> phase = "posting")
  BY RequestFacts DEF TypeOK, WireTypeOK, ControlTypeOK, GatewayTypeOK, Sessions
<1>1. CASE HandleBatch /\ UNCHANGED gateway
  <2>1. post.at = "sent" /\ post.seq = seq /\ post' \in {Replied("accepted"), Replied("missing"), Replied("refused")}
    BY <1>1 DEF HandleBatch, Sessions
  <2>2. post'.at \in {"accepted", "missing", "refused"}
    BY ONLY <2>1, RequestFacts
  <2>3. CASE session # me
    BY <1>1, <2>1, <2>2, <2>3, RequestFacts DEF HandleBatch, Counted
  <2>4. CASE session = me
    <3>1. CASE cursor.gateway = me
      <4>1. seq = cursor.seq + 1
        BY <1>0, <2>1, <3>1 DEF Counted
      <4>2. cursor'.gateway = me /\ cursor'.seq = seq /\ post' \in {Replied("accepted"), Replied("refused")}
        BY <1>0, <1>1, <2>1, <2>4, <3>1, <4>1 DEF HandleBatch
      <4> QED  BY <1>1, <4>2, RequestFacts DEF Counted
    <3>2. CASE cursor.gateway # me
      <4>1. cursor'.gateway = me /\ cursor'.seq = seq /\ post' \in {Replied("accepted"), Replied("refused")}
        BY <1>0, <1>1, <2>1, <2>4, <3>2 DEF HandleBatch
      <4> QED  BY <1>1, <4>1, RequestFacts DEF Counted
    <3> QED  BY <3>1, <3>2
  <2> QED  BY <2>3, <2>4
<1>2. CASE ApiCrash /\ UNCHANGED gateway
  <2>1. cursor'.gateway = None /\ me' = me
    BY <1>2 DEF ApiCrash
  <2> QED  BY <1>0, <1>2, <2>1 DEF Counted
<1>3. CASE ControlStep /\ ~HandleBatch /\ ~ApiCrash /\ UNCHANGED gateway
  <2>1. UNCHANGED <<cursor, post, me>>
    BY <1>3 DEF ControlStep, Users, Receive, StartTurn, StopTurn, DeleteConversation, Claim, Poll, PollWaitEnds,
         NoticeAbort, ApiStart, Timeout
  <2> QED  BY <1>3, <2>1 DEF Counted
<1>4. CASE SendPost(up) /\ UNCHANGED api
  <2>1. post'.at \in {"sent", "refused"}
    BY <1>4, RequestFacts DEF SendPost
  <2> QED  BY <1>0, <1>4, <2>1 DEF SendPost, Counted
<1>5. CASE PostAccepted /\ UNCHANGED api
  BY <1>0, <1>5 DEF PostAccepted, Counted
<1>6. CASE Recover(up) /\ UNCHANGED api
  BY <1>0, <1>6 DEF Recover, Counted
<1>7. CASE (GiveUp \/ Overflow \/ Lose \/ Exit) /\ UNCHANGED api
  BY <1>7 DEF GiveUp, Overflow, Lose, Close, Exit, Counted
<1>8. CASE Dispatch /\ UNCHANGED api
  BY <1>8, Dispatches DEF Counted
<1>9. CASE (SendPoll(up) \/ PollFails \/ CannotRead \/ TakePoll \/ Reset) /\ UNCHANGED api
  BY <1>9 DEF SendPoll, PollFails, CannotRead, TakePoll, Reset, Counted
<1>10. CASE ResetDone /\ UNCHANGED api
  BY <1>10 DEF ResetDone, Emit, Counted
<1>11. ASSUME NEW t \in Turns, ProviderEnds(t), UNCHANGED api PROVE Counted'
  BY <1>11 DEF ProviderEnds, Emit, Counted
<1>12. ASSUME NEW g \in Gateways, GatewayStart(g), UNCHANGED api PROVE Counted'
  BY <1>12, WireAssumption DEF GatewayStart, Sessions, Counted
<1>13. CASE UNCHANGED vars
  BY <1>13 DEF Counted
<1> QED  BY <1>1, <1>2, <1>3, <1>4, <1>5, <1>6, <1>7, <1>8, <1>9, <1>10, <1>11, <1>12, <1>13 DEF Next, GatewayStep, Advance

--------------------------------------------------------------------------------
(* Commands and their numbers *)

(* Every command that is about has a number of its own. *)
Numbers ==
  /\ since <= issued
  /\ \A c \in Commands : no[c] <= issued
  /\ \A c, d \in Commands : no[c] = no[d] /\ no[c] # 0 => c = d
  /\ \A c \in queue \cup pending \cup batch \cup poll.commands \cup applied : no[c] # 0
  /\ \A t \in Turns : t \in streams \cup active \/ run[t] # "none" => no[Start(t)] # 0

(* A step of the API issues a command, or only takes away and hands on. *)
LEMMA ControlFrames ==
  ASSUME TypeOK, ControlStep, UNCHANGED gateway
  PROVE  /\ UNCHANGED <<me, gateway>>
         /\ \/ \E c \in Commands :
                 /\ Enqueue(c) /\ UNCHANGED <<since, session, cursor, post>>
                 /\ \/ \E t \in Turns : c = Start(t) /\ StartTurn(t)
                    \/ UNCHANGED <<streams, authority, running>> /\ c \notin Starts
            \/ /\ UNCHANGED <<issued, no>> /\ since' \in {since, issued}
               /\ queue' \subseteq queue /\ pending' \subseteq pending /\ streams' \subseteq streams
               /\ poll' \in {poll, Answered(queue, FALSE), FailedPoll, Answered({}, TRUE)}
<1> USE DEF ledger, live, wire
<1> DEFINE E == \E c \in Commands :
                 /\ Enqueue(c) /\ UNCHANGED <<since, session, cursor, post>>
                 /\ \/ \E t \in Turns : c = Start(t) /\ StartTurn(t)
                    \/ UNCHANGED <<streams, authority, running>> /\ c \notin Starts
           H == /\ UNCHANGED <<issued, no>> /\ since' \in {since, issued}
                /\ queue' \subseteq queue /\ pending' \subseteq pending /\ streams' \subseteq streams
                /\ poll' \in {poll, Answered(queue, FALSE), FailedPoll, Answered({}, TRUE)}
<1>1. ASSUME NEW t \in Turns, StartTurn(t) \/ StopTurn(t) PROVE E /\ UNCHANGED me
  <2>1. Start(t) \in Commands /\ Interrupt(t) \in Commands /\ Interrupt(t) \notin Starts
    BY CommandFacts DEF Starts
  <2> QED  BY <1>1, <2>1 DEF StartTurn, StopTurn
<1>2. ASSUME NEW d \in Conversations, DeleteConversation(d) PROVE E /\ UNCHANGED me
  <2>1. Delete(d) \in Commands /\ Delete(d) \notin Starts
    BY CommandFacts DEF Starts
  <2> QED  BY <1>2, <2>1 DEF DeleteConversation
<1>3. ASSUME Claim PROVE H /\ UNCHANGED me
  BY <1>3 DEF Claim, Clear
<1>4. ASSUME Poll PROVE H /\ UNCHANGED me
  BY <1>4 DEF Poll
<1>5. ASSUME PollWaitEnds PROVE H /\ UNCHANGED me
  BY <1>5 DEF PollWaitEnds
<1>6. ASSUME NoticeAbort PROVE H /\ UNCHANGED me
  BY <1>6 DEF NoticeAbort, Clear
<1>7. ASSUME HandleBatch PROVE H /\ UNCHANGED me
  BY <1>7 DEF HandleBatch, Apply
<1>8. ASSUME ApiCrash PROVE H /\ UNCHANGED me
  BY <1>8 DEF ApiCrash
<1>9. ASSUME ApiStart PROVE H /\ UNCHANGED me
  BY <1>9 DEF ApiStart
<1>10. ASSUME NEW c \in Commands, Timeout(c) PROVE H /\ UNCHANGED me
  BY <1>10 DEF Timeout
<1> HIDE DEF E, H
<1>11. (E \/ H) /\ UNCHANGED me
  BY <1>1, <1>2, <1>3, <1>4, <1>5, <1>6, <1>7, <1>8, <1>9, <1>10 DEF ControlStep, Users, Receive
<1> QED  BY <1>11 DEF E, H

(* A step of the gateway takes over what was answered or dispatches what it *)
(* has; a turn that began stays so, and a conversation that is gone also.   *)
LEMMA GatewayFrames ==
  ASSUME TypeOK, GatewayStep, UNCHANGED api
  PROVE  /\ batch' \subseteq batch \cup poll.commands
         /\ poll'.commands \subseteq poll.commands
         /\ applied' \subseteq applied \cup batch
         /\ \A t \in active' : t \in active \/ Start(t) \in batch
         /\ \A t \in Turns : /\ run[t] # "none" => run'[t] # "none"
                             /\ run'[t] # "none" => run[t] # "none" \/ t \in active \/ Start(t) \in batch
         /\ descriptors' \subseteq descriptors
         /\ UNCHANGED api
<1> USE DEF loop, dispatching, buffer, wire, gateway
<1>0. /\ NoPoll.commands = {} /\ SentPoll.commands = {} /\ FailedPoll.commands = {}
      /\ run \in [Turns -> Runs] /\ poll.commands \subseteq Commands
  BY RequestFacts DEF TypeOK, WireTypeOK, GatewayTypeOK
<1> DEFINE G == /\ batch' \subseteq batch \cup poll.commands
                /\ poll'.commands \subseteq poll.commands
                /\ applied' \subseteq applied \cup batch
                /\ \A t \in active' : t \in active \/ Start(t) \in batch
                /\ \A t \in Turns : /\ run[t] # "none" => run'[t] # "none"
                                    /\ run'[t] # "none" => run[t] # "none" \/ t \in active \/ Start(t) \in batch
                /\ descriptors' \subseteq descriptors
<1>1. ASSUME SendPost(up) \/ SendPoll(up) \/ PollFails \/ CannotRead \/ TakePoll \/ Recover(up) PROVE G
  BY <1>0, <1>1 DEF SendPost, SendPoll, PollFails, CannotRead, TakePoll, Recover
<1>2. ASSUME Reset PROVE G
  <2>1. \A t \in Turns : run'[t] # "none" => run[t] # "none" \/ t \in active
    BY <1>2 DEF Reset
  <2>2. \A t \in Turns : run[t] # "none" => run'[t] # "none"
    BY <1>2 DEF Reset
  <2>3. poll' = NoPoll /\ UNCHANGED <<batch, applied, active, descriptors>>
    BY <1>2 DEF Reset
  <2> QED  BY <1>0, <2>1, <2>2, <2>3
<1>3. ASSUME ResetDone \/ PostAccepted PROVE G
  BY <1>0, <1>3 DEF ResetDone, PostAccepted
<1>4. ASSUME GiveUp \/ Overflow \/ Lose PROVE G
  BY <1>0, <1>4 DEF GiveUp, Overflow, Lose, Close
<1>5. ASSUME Exit PROVE G
  BY <1>0, <1>5 DEF Exit
<1>6. ASSUME NEW t \in Turns, ProviderEnds(t) PROVE G
  BY <1>0, <1>6 DEF ProviderEnds
<1>7. ASSUME NEW g \in Gateways, GatewayStart(g) PROVE G
  BY <1>0, <1>7 DEF GatewayStart
<1>8. ASSUME Dispatch PROVE G
  <2>1. /\ batch' \subseteq batch /\ applied' \subseteq applied \cup batch /\ poll' = poll
    BY <1>8, Dispatches
  <2>2. /\ \A t \in active' : t \in active \/ Start(t) \in batch
        /\ \A t \in Turns : /\ run[t] # "none" => run'[t] # "none"
                            /\ run'[t] # "none" => run[t] # "none" \/ t \in active \/ Start(t) \in batch
        /\ descriptors' \subseteq descriptors
    <3> DEFINE R == /\ \A t \in active' : t \in active \/ Start(t) \in batch
                    /\ \A t \in Turns : /\ run[t] # "none" => run'[t] # "none"
                                        /\ run'[t] # "none" => run[t] # "none" \/ t \in active \/ Start(t) \in batch
                    /\ descriptors' \subseteq descriptors
    <3>1. ASSUME NEW c \in Commands, SkipApplied(c) PROVE R
      BY <3>1 DEF SkipApplied
    <3>2. ASSUME NEW t \in Turns, RefuseStart(t) \/ Launch(t) \/ LaunchFails(t) \/ StartDone(t) PROVE R
      BY <3>2 DEF RefuseStart, Launch, LaunchFails, StartDone, At
    <3>3. ASSUME NEW t \in Turns, Launched(t) PROVE R
      BY <1>0, <3>3 DEF Launched, At
    <3>4. ASSUME NEW t \in Turns, RefuseInterrupt(t) \/ BeginInterrupt(t) \/ InterruptFails(t) PROVE R
      BY <3>4 DEF RefuseInterrupt, BeginInterrupt, InterruptFails
    <3>5. ASSUME NEW t \in Turns, Interrupted(t) PROVE R
      BY <1>0, <3>5 DEF Interrupted
    <3>6. ASSUME NEW d \in Conversations, RemoveConversation(d) PROVE R
      BY <3>6 DEF RemoveConversation
    <3> HIDE DEF R
    <3>7. R
      BY <1>8, <3>1, <3>2, <3>3, <3>4, <3>5, <3>6 DEF Dispatch
    <3> QED  BY <3>7 DEF R
  <2> QED  BY <2>1, <2>2
<1> HIDE DEF G
<1>9. G
  BY <1>1, <1>2, <1>3, <1>4, <1>5, <1>6, <1>7, <1>8 DEF GatewayStep, Advance
<1> QED  BY <1>9 DEF G

LEMMA NumbersNext ==
  ASSUME TypeOK, TypeOK', Sessions, Numbers, [Next]_vars
  PROVE  Numbers'
<1>0. /\ no \in [Commands -> Nat] /\ issued \in Nat /\ since \in Nat /\ poll.commands \subseteq Commands
      /\ queue \subseteq Commands /\ pending \subseteq Commands /\ batch \subseteq Commands /\ applied \subseteq Commands
      /\ streams \subseteq Turns /\ active \subseteq Turns /\ (poll.at = "sent" => poll.commands = poll.commands)
  BY RequestFacts DEF TypeOK, WireTypeOK, ControlTypeOK, GatewayTypeOK
<1>1. CASE ControlStep /\ UNCHANGED gateway
  <2>0. UNCHANGED <<batch, applied, active, run>>
    BY <1>1 DEF gateway, dispatching
  <2>1. ASSUME NEW c \in Commands, Enqueue(c), since' = since,
               (\E t \in Turns : c = Start(t) /\ StartTurn(t)) \/ UNCHANGED streams
        PROVE  Numbers'
    <3>1. /\ no' \in [Commands -> Nat] /\ issued' = issued + 1 /\ no'[c] = issued + 1 /\ no[c] = 0
          /\ \A d \in Commands : d # c => no'[d] = no[d]
          /\ queue' = queue \cup {c} /\ pending' = pending \cup {c} /\ poll' \in {poll, Answered(queue', FALSE)}
      BY <1>0, <2>1 DEF Enqueue
    <3>2. poll'.commands \subseteq poll.commands \cup queue'
      <4>1. queue' \subseteq Commands
        BY <1>0, <3>1
      <4>2. Answered(queue', FALSE).commands = queue'
        BY <4>1, RequestFacts
      <4> QED  BY <3>1, <4>2
    <3>3. streams' \subseteq streams \cup {t \in Turns : c = Start(t)}
      BY <2>1 DEF StartTurn
    <3>4. (since <= issued)' /\ (\A d \in Commands : no[d] <= issued)'
          /\ (\A d, e \in Commands : no[d] = no[e] /\ no[d] # 0 => d = e)'
      BY <1>0, <2>1, <3>1 DEF Numbers
    <3>5. (\A d \in queue \cup pending \cup batch \cup poll.commands \cup applied : no[d] # 0)'
      BY <1>0, <2>0, <3>1, <3>2 DEF Numbers
    <3>6. (\A t \in Turns : t \in streams \cup active \/ run[t] # "none" => no[Start(t)] # 0)'
      BY <1>0, <2>0, <3>1, <3>3, CommandFacts DEF Numbers
    <3> QED  BY <3>4, <3>5, <3>6 DEF Numbers
  <2>2. ASSUME UNCHANGED <<issued, no>>, since' \in {since, issued},
               queue' \subseteq queue, pending' \subseteq pending, streams' \subseteq streams,
               poll' \in {poll, Answered(queue, FALSE), FailedPoll, Answered({}, TRUE)}
        PROVE  Numbers'
    <3>1. poll'.commands \subseteq poll.commands \cup queue
      <4>1. /\ Answered(queue, FALSE).commands = queue /\ FailedPoll.commands = {}
            /\ Answered({}, TRUE).commands = {}
        BY <1>0, RequestFacts
      <4> QED  BY <2>2, <4>1
    <3> QED  BY <1>0, <2>0, <2>2, <3>1 DEF Numbers
  <2> QED  BY <1>1, <2>1, <2>2, ControlFrames
<1>2. CASE GatewayStep /\ UNCHANGED api
  <2>1. UNCHANGED <<issued, no, since, queue, pending, streams>>
    BY <1>2 DEF api, ledger, live
  <2> QED  BY <1>0, <1>2, <2>1, GatewayFrames DEF Numbers
<1>3. CASE UNCHANGED vars
  BY <1>3 DEF vars, api, ledger, live, gateway, dispatching, wire, Numbers
<1> QED  BY <1>1, <1>2, <1>3 DEF Next

(* The dispatcher works on one command at a time. *)
LEMMA NextIsOne ==
  ASSUME TypeOK, Numbers, NEW c \in Commands, NEW d \in Commands, IsNext(c), IsNext(d)
  PROVE  c = d
<1>1. no[c] \in Nat /\ no[d] \in Nat /\ no[c] # 0
  BY DEF TypeOK, ControlTypeOK, Numbers, IsNext
<1>2. no[c] = no[d]
  BY <1>1 DEF IsNext
<1> QED  BY <1>1, <1>2 DEF Numbers

LEMMA NextStays ==
  ASSUME TypeOK, Numbers, ControlStep, UNCHANGED gateway
  PROVE  \A c \in Commands : IsNext(c)' <=> IsNext(c)
<1>1. \A c \in batch : no'[c] = no[c] /\ c \in Commands
  <2>1. ASSUME NEW d \in Commands, Enqueue(d) PROVE \A c \in batch : no'[c] = no[c]
    BY <2>1 DEF Enqueue, Numbers, TypeOK, ControlTypeOK, GatewayTypeOK
  <2> QED  BY <2>1, ControlFrames DEF TypeOK, GatewayTypeOK
<1>2. batch' = batch
  BY DEF gateway, dispatching
<1> QED  BY <1>1, <1>2 DEF IsNext
--------------------------------------------------------------------------------
(* The invariant of the sessions *)

SessionInv == TypeOK /\ Sessions /\ Requests /\ Counted /\ Numbers

LEMMA SessionInit == Init => SessionInv
<1> SUFFICES ASSUME Init PROVE SessionInv
  OBVIOUS
<1> USE DEF Init, GatewayInit
<1>1. /\ session = None /\ held = None /\ cursor.gateway = None /\ up = TRUE /\ issued = 0 /\ since = 0
      /\ no = [c \in Commands |-> 0] /\ queue = {} /\ pending = {} /\ streams = {}
  BY DEF ControlInit
<1>2. Sessions
  BY <1>1, RequestFacts DEF Sessions, Working
<1>3. Requests
  BY <1>1, RequestFacts DEF Requests, Working
<1>4. Counted
  BY DEF Counted, Working
<1>5. Numbers
  BY <1>1, RequestFacts DEF Numbers
<1> QED  BY <1>2, <1>3, <1>4, <1>5, TypeInit DEF SessionInv

LEMMA SessionNext == SessionInv /\ [Next]_vars => SessionInv'
BY TypeNext, SessionsNext, RequestsNext, CountedNext, NumbersNext DEF SessionInv

(* Of the sessions between gateway and API it holds in every reachable     *)
(* state that instances are not used again, that what is under way belongs *)
(* to the one that runs, and that cursor and outbox differ by at most the  *)
(* batch in flight, whatever replies were lost.                            *)
THEOREM SessionsAreKept == Spec => []SessionInv
BY SessionInit, SessionNext, PTL DEF Spec

(* Within a session every batch of events arrives exactly in turn: the     *)
(* handler sees neither a gap nor a batch it has applied, whatever replies *)
(* were lost and whichever side was started again.                         *)
THEOREM BatchesArriveInOrder == Spec => []EventsInOrder
<1>1. SessionInv => EventsInOrder
  <2> SUFFICES ASSUME SessionInv, post.at = "sent", session = me, cursor.gateway = me PROVE post.seq = cursor.seq + 1
    BY DEF EventsInOrder
  <2>1. Working /\ post.seq = seq
    BY DEF SessionInv, Sessions, Working
  <2> QED  BY <2>1 DEF SessionInv, Counted
<1> QED  BY <1>1, SessionsAreKept, PTL

================================================================================
