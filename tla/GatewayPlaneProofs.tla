--------------------------- MODULE GatewayPlaneProofs ---------------------------
(***************************************************************************)
(* What holds of the turns of an agent across the API and the gateway: the *)
(* three maps of the API, the dispatcher, the outbox and the providers.    *)
(***************************************************************************)
EXTENDS GatewaySessionProofs

--------------------------------------------------------------------------------
(* A start that is still to be dispatched has not been carried out. *)
Coming == batch \cup poll.commands \cup (IF session = me /\ Working THEN queue ELSE {})
Starting(t) == step \in {"launching", "launched"} /\ IsNext(Start(t))

Unstarted ==
  \A t \in Turns : Start(t) \in Coming \ applied => Starting(t) \/ (run[t] = "none" /\ t \notin active)

LEMMA ComingControl ==
  ASSUME TypeOK, Sessions, ControlStep, UNCHANGED gateway
  PROVE  \/ Coming' \subseteq Coming
         \/ \E c \in Commands : Enqueue(c) /\ Coming' \subseteq Coming \cup {c}
<1> USE DEF ledger, live, wire, gateway, dispatching, loop
<1>0. /\ NoPoll.at # "sent" /\ FailedPoll.commands = {} /\ Answered({}, TRUE).commands = {}
      /\ Answered(queue, FALSE).commands = queue /\ Answered(queue', FALSE).commands = queue'
  <2>1. queue \subseteq Commands /\ queue' \subseteq Commands
    BY ControlTyped DEF TypeOK, ControlTypeOK
  <2> QED  BY <2>1, RequestFacts
<1>1. UNCHANGED <<phase, batch, applied, me>> /\ (poll.at = "sent" => Working)
  BY <1>0, ControlFrames DEF Sessions
<1>2. ASSUME NEW c \in Commands, Enqueue(c), session' = session PROVE Coming' \subseteq Coming \cup {c}
  <2>1. queue' = queue \cup {c} /\ (poll' = poll \/ (poll' = Answered(queue', FALSE) /\ session = me /\ Working))
    BY <1>1, <1>2 DEF Enqueue, Waiting, Sessions
  <2> QED  BY <1>0, <1>1, <1>2, <2>1 DEF Coming, Working
<1>3. ASSUME UNCHANGED <<issued, no>>
      PROVE  Coming' \subseteq Coming
  <2>1. /\ (poll' \in {poll, FailedPoll, Answered({}, TRUE)} \/ (poll' = Answered(queue, FALSE) /\ session = me /\ Working))
        /\ (queue' = {} \/ (queue' \subseteq queue /\ (session' = session \/ session' = None)))
    <3> DEFINE R == /\ (poll' \in {poll, FailedPoll, Answered({}, TRUE)} \/ (poll' = Answered(queue, FALSE) /\ session = me /\ Working))
                    /\ (queue' = {} \/ (queue' \subseteq queue /\ (session' = session \/ session' = None)))
    <3>1. ASSUME NEW c \in Commands, Enqueue(c) PROVE FALSE
      BY <1>3, <3>1 DEF Enqueue, TypeOK, ControlTypeOK
    <3>2. ASSUME Claim \/ NoticeAbort \/ ApiCrash PROVE R
      BY <3>2 DEF Claim, NoticeAbort, ApiCrash, Clear
    <3>3. ASSUME Poll PROVE R
      BY <1>1, <3>3 DEF Poll
    <3>4. ASSUME PollWaitEnds PROVE R
      BY <1>1, <3>4 DEF PollWaitEnds, Waiting, Sessions
    <3>5. ASSUME HandleBatch PROVE R
      BY <3>5 DEF HandleBatch, Apply
    <3>6. ASSUME ApiStart \/ \E c \in Commands : Timeout(c) PROVE R
      BY <3>6 DEF ApiStart, Timeout
    <3>7. Users => \E c \in Commands : Enqueue(c)
      BY CommandFacts DEF Users, StartTurn, StopTurn, DeleteConversation
    <3> HIDE DEF R
    <3>8. R
      BY <3>1, <3>2, <3>3, <3>4, <3>5, <3>6, <3>7 DEF ControlStep, Receive
    <3> QED  BY <3>8 DEF R
  <2> QED  BY <1>0, <1>1, <2>1, WireAssumption DEF Coming, Working, Sessions
<1> QED  BY <1>2, <1>3, ControlFrames

LEMMA UnstartedNext ==
  ASSUME TypeOK, Sessions, Numbers, Unstarted, [Next]_vars
  PROVE  Unstarted'
<1> USE DEF ledger, live, api, loop, dispatching, buffer, wire, gateway
<1>0. /\ run \in [Turns -> Runs] /\ batch \subseteq Commands /\ poll.commands \subseteq Commands /\ applied \subseteq Commands
      /\ NoPoll.commands = {} /\ SentPoll.commands = {} /\ FailedPoll.commands = {} /\ NoPoll.at = "none"
  BY RequestFacts DEF TypeOK, WireTypeOK, GatewayTypeOK
<1>1. CASE ControlStep /\ UNCHANGED gateway
  <2>1. \A t \in Turns : Starting(t)' <=> Starting(t)
    BY <1>1, NextStays, CommandFacts DEF Starting
  <2>2. ASSUME NEW c \in Commands, Enqueue(c), NEW t \in Turns, c = Start(t) PROVE run[t] = "none" /\ t \notin active
    BY <2>2 DEF Enqueue, Numbers
  <2> QED  BY <1>1, <2>1, <2>2, ComingControl DEF Unstarted
<1>2. ASSUME Coming' \subseteq Coming, step \notin {"launching", "launched"}, UNCHANGED <<run, active, applied>> PROVE Unstarted'
  BY <1>2 DEF Unstarted, Starting
<1>3. CASE (SendPost(up) \/ SendPoll(up) \/ PollFails \/ CannotRead \/ TakePoll \/ Recover(up) \/ ResetDone \/ PostAccepted) /\ UNCHANGED api
  <2>1. phase # "dispatching" => step = "none" /\ batch = {}
    BY DEF Sessions
  <2>2. CASE CannotRead
    BY <1>0, <1>3, <2>2 DEF CannotRead, Coming, Working, Unstarted, Starting, IsNext
  <2>3. CASE SendPost(up) \/ SendPoll(up) \/ PollFails \/ Recover(up) \/ ResetDone \/ PostAccepted
    <3>1. Coming' \subseteq Coming /\ step = "none" /\ UNCHANGED <<run, active, applied>>
      BY <1>0, <1>3, <2>1, <2>3 DEF SendPost, SendPoll, PollFails, Recover, ResetDone, PostAccepted, Coming, Working
    <3> QED  BY <3>1, <1>2
  <2>4. CASE TakePoll
    <3>1. Coming' \subseteq Coming /\ step = "none" /\ UNCHANGED <<run, active, applied>>
      BY <1>0, <1>3, <2>1, <2>4 DEF TakePoll, Coming, Working
    <3> QED  BY <3>1, <1>2
  <2> QED  BY <1>3, <2>2, <2>3, <2>4
<1>4. CASE Reset /\ UNCHANGED api
  <2>1. Coming' \subseteq Coming /\ step = "none" /\ active' = active /\ applied' = applied
    BY <1>0, <1>4 DEF Reset, Coming, Working, Sessions
  <2>2. \A t \in Turns : t \notin active => run'[t] = run[t]
    BY <1>4 DEF Reset
  <2> QED  BY <2>1, <2>2 DEF Unstarted, Starting
<1>5. CASE (GiveUp \/ Overflow \/ Lose \/ Exit) /\ UNCHANGED api
  <2>1. Coming' = {}
    BY <1>0, <1>5 DEF GiveUp, Overflow, Lose, Close, Exit, Coming, Working, Sessions
  <2> QED  BY <2>1 DEF Unstarted
<1>6. ASSUME NEW t \in Turns, ProviderEnds(t), UNCHANGED api PROVE Unstarted'
  <2>1. Coming' = Coming /\ UNCHANGED <<applied, step, batch, no>> /\ t \in active /\ active' \subseteq active
    BY <1>6 DEF ProviderEnds, Coming, Working
  <2>2. \A u \in Turns : u # t => run'[u] = run[u]
    BY <1>0, <1>6 DEF ProviderEnds
  <2> QED  BY <2>1, <2>2 DEF Unstarted, Starting, IsNext
<1>7. ASSUME NEW g \in Gateways, GatewayStart(g), UNCHANGED api PROVE Unstarted'
  <2>1. Coming' = {}
    BY <1>0, <1>7, WireAssumption DEF GatewayStart, Coming, Working, Sessions
  <2> QED  BY <2>1 DEF Unstarted
<1>8. CASE Dispatch /\ UNCHANGED api
  <2>1. /\ Coming' \subseteq Coming /\ applied \subseteq applied' /\ phase = "dispatching"
    BY <1>8, Dispatches DEF Coming, Working
  <2>2. ASSUME NEW t \in Turns, IsNext(Start(t)), Launch(t) PROVE Unstarted'
    <3>1. /\ Starting(t)' /\ step = "none" /\ active' = active \cup {t}
          /\ UNCHANGED <<run, applied>>
      BY <1>8, <2>2 DEF Launch, At, Starting, IsNext
    <3> QED  BY <2>1, <3>1 DEF Unstarted, Starting
  <2>3. ASSUME NEW t \in Turns, IsNext(Start(t)), Launched(t) PROVE Unstarted'
    <3>1. \A u \in Turns : u # t => run'[u] = run[u]
      BY <1>0, <2>3 DEF Launched
    <3>2. Starting(t)' /\ UNCHANGED <<active, applied, batch, no>>
      BY <1>8, <2>3 DEF Launched, Starting, IsNext
    <3> QED  BY <2>1, <2>3, <3>1, <3>2, NextIsOne, CommandFacts DEF Unstarted, Starting
  <2>4. ASSUME NEW t \in Turns, BeginInterrupt(t) PROVE Unstarted'
    BY <2>1, <2>4 DEF BeginInterrupt, At, Unstarted, Starting
  <2>5. ASSUME NEW c \in Commands, IsNext(c), c \in applied', active' \subseteq active,
               \A u \in Turns : run[u] = "none" => run'[u] = "none"
        PROVE  Unstarted'
    BY <2>1, <2>5, NextIsOne, CommandFacts DEF Unstarted, Starting
  <2>6. ASSUME NEW c \in Commands, IsNext(c), SkipApplied(c) PROVE Unstarted'
    BY <2>5, <2>6 DEF SkipApplied, Finish
  <2>7. ASSUME NEW t \in Turns, IsNext(Start(t)), RefuseStart(t) \/ LaunchFails(t) \/ StartDone(t) PROVE Unstarted'
    BY <2>5, <2>7, CommandFacts DEF RefuseStart, LaunchFails, StartDone, Finish
  <2>8. ASSUME NEW t \in Turns, IsNext(Interrupt(t)), RefuseInterrupt(t) \/ InterruptFails(t) PROVE Unstarted'
    BY <2>5, <2>8, CommandFacts DEF RefuseInterrupt, InterruptFails, Finish
  <2>9. ASSUME NEW t \in Turns, IsNext(Interrupt(t)), Interrupted(t) PROVE Unstarted'
    <3>1. Interrupt(t) \in applied' /\ active' = active /\ \A u \in Turns : run[u] = "none" => run'[u] = "none"
      BY <1>0, <2>9 DEF Interrupted, Finish
    <3> QED  BY <2>5, <2>9, <3>1, CommandFacts
  <2>10. ASSUME NEW d \in Conversations, IsNext(Delete(d)), RemoveConversation(d) PROVE Unstarted'
    BY <2>5, <2>10, CommandFacts DEF RemoveConversation, Finish
  <2> QED  BY <1>8, <2>2, <2>3, <2>4, <2>6, <2>7, <2>8, <2>9, <2>10 DEF Dispatch
<1>9. CASE UNCHANGED vars
  BY <1>9 DEF vars, Unstarted, Coming, Working, Starting, IsNext
<1> QED  BY <1>1, <1>3, <1>4, <1>5, <1>6, <1>7, <1>8, <1>9 DEF Next, GatewayStep, Advance

--------------------------------------------------------------------------------
(* How far the dispatcher is with a start, against what the provider does, *)
(* and a conversation has one active turn.                                 *)
Alive(t) == run[t] \in {"running", "stopping"}

Dispatching ==
  /\ \A t \in Turns : step = "launching" /\ IsNext(Start(t)) => t \in active /\ run[t] = "none"
  /\ \A t \in Turns : step = "launched" /\ IsNext(Start(t)) => run[t] # "none"
  /\ \A c \in Commands : step # "none" /\ IsNext(c) => c \notin applied
  /\ \A t \in active : Alive(t) \/ (step = "launching" /\ IsNext(Start(t)))
  /\ \A t \in Turns : Alive(t) => phase # "off" /\ (phase # "closing" => t \in active)
  /\ \A t, u \in active : ConversationOf[t] = ConversationOf[u] => t = u

LEMMA DispatchingDispatch ==
  ASSUME TypeOK, Sessions, Numbers, Unstarted, Dispatching, Dispatch, UNCHANGED api
  PROVE  Dispatching'
<1> USE DEF ledger, live, api, loop, buffer
<1>0. /\ run \in [Turns -> Runs] /\ active \subseteq Turns /\ phase = "dispatching" /\ phase' \in {"loop", "dispatching"}
      /\ batch \subseteq Commands /\ no' = no
  BY Dispatches DEF TypeOK, GatewayTypeOK
<1>1. ASSUME step' = "none", active' \subseteq active, \A u \in active' : Alive(u),
             \A u \in Turns : (Alive(u)' <=> Alive(u)) /\ (Alive(u) => u \in active')
      PROVE  Dispatching'
  BY <1>0, <1>1 DEF Dispatching
<1>2. ASSUME step = "none" \/ step \in {"launched", "interrupting"} PROVE \A u \in active : Alive(u)
  BY <1>2 DEF Dispatching
<1>3. \A u \in Turns : Alive(u) => u \in active
  BY <1>0 DEF Dispatching
<1>4. ASSUME NEW c \in Commands, SkipApplied(c) PROVE Dispatching'
  BY <1>0, <1>1, <1>2, <1>3, <1>4 DEF SkipApplied, Finish, Alive
<1>5. ASSUME NEW t \in Turns, RefuseStart(t) PROVE Dispatching'
  BY <1>0, <1>1, <1>2, <1>3, <1>5 DEF RefuseStart, At, Finish, Alive
<1>6. ASSUME NEW t \in Turns, IsNext(Start(t)), Launch(t) PROVE Dispatching'
  <2>1. /\ step = "none" /\ step' = "launching" /\ active' = active \cup {t} /\ ~IsLive(ConversationOf[t])
        /\ Start(t) \notin applied /\ Start(t) \in batch /\ UNCHANGED <<run, applied, batch, phase, no>>
    BY <1>0, <1>6 DEF Launch, At
  <2>2. run[t] = "none" /\ t \notin active
    BY <2>1 DEF Unstarted, Coming, Starting
  <2>3. \A c \in Commands : IsNext(c)' => c = Start(t)
    BY <1>0, <1>6, <2>1, NextIsOne, CommandFacts DEF IsNext
  <2>4. IsNext(Start(t))'
    BY <1>6, <2>1 DEF IsNext
  <2>5. \A u \in active : ConversationOf[u] # ConversationOf[t]
    BY <2>1 DEF IsLive
  <2>6. (\A u, v \in active : ConversationOf[u] = ConversationOf[v] => u = v)'
    BY <2>1, <2>5 DEF Dispatching
  <2>7. (\A u \in active : Alive(u) \/ (step = "launching" /\ IsNext(Start(u))))'
    BY <1>2, <2>1, <2>4 DEF Alive
  <2>8. \A c \in Commands : IsNext(c)' => c \notin applied'
    BY <2>1, <2>3
  <2>9. \A u \in Turns : IsNext(Start(u))' => u = t
    BY <2>3, CommandFacts
  <2> QED  BY <1>0, <1>3, <2>1, <2>2, <2>6, <2>7, <2>8, <2>9 DEF Dispatching, Alive
<1>7. ASSUME NEW t \in Turns, IsNext(Start(t)), Launched(t) PROVE Dispatching'
  <2>1. /\ step = "launching" /\ step' = "launched" /\ run' = [run EXCEPT ![t] = "running"]
        /\ Start(t) \notin applied /\ UNCHANGED <<active, applied, batch, phase, no>>
    BY <1>0, <1>7 DEF Launched, At
  <2>2. \A c \in Commands : IsNext(c)' => c = Start(t)
    BY <1>7, <2>1, NextIsOne, CommandFacts DEF IsNext
  <2>3. t \in active
    BY <1>7, <2>1 DEF Dispatching
  <2>4. \A u \in active : u # t => Alive(u)
    BY <1>0, <1>7, <2>1, NextIsOne, CommandFacts DEF Dispatching
  <2>5. run'[t] = "running" /\ \A u \in Turns : u # t => run'[u] = run[u]
    BY <1>0, <2>1
  <2>6. \A u \in Turns : IsNext(Start(u))' => u = t
    BY <2>2, CommandFacts
  <2> QED  BY <1>0, <1>3, <2>1, <2>2, <2>3, <2>4, <2>5, <2>6 DEF Dispatching, Alive
<1>8. ASSUME NEW t \in Turns, IsNext(Start(t)), LaunchFails(t) PROVE Dispatching'
  <2>1. step = "launching" /\ step' = "none" /\ active' = active \ {t} /\ run' = run
    BY <1>8 DEF LaunchFails, At, Finish
  <2>2. run[t] = "none"
    BY <1>8, <2>1 DEF Dispatching
  <2>3. \A u \in active' : Alive(u)
    BY <1>0, <1>8, <2>1, NextIsOne, CommandFacts DEF Dispatching
  <2> QED  BY <1>1, <1>3, <2>1, <2>2, <2>3 DEF Alive
<1>9. ASSUME NEW t \in Turns, StartDone(t) PROVE Dispatching'
  BY <1>0, <1>1, <1>2, <1>3, <1>9 DEF StartDone, At, Finish, Alive
<1>10. ASSUME NEW t \in Turns, RefuseInterrupt(t) \/ InterruptFails(t) PROVE Dispatching'
  BY <1>0, <1>1, <1>2, <1>3, <1>10 DEF RefuseInterrupt, InterruptFails, At, Finish, Alive
<1>11. ASSUME NEW t \in Turns, IsNext(Interrupt(t)), BeginInterrupt(t) PROVE Dispatching'
  <2>1. /\ step = "none" /\ step' = "interrupting" /\ Interrupt(t) \notin applied
        /\ UNCHANGED <<run, active, applied, batch, phase, no>>
    BY <1>0, <1>11 DEF BeginInterrupt, At
  <2>2. \A c \in Commands : IsNext(c)' => c = Interrupt(t)
    BY <1>11, <2>1, NextIsOne, CommandFacts DEF IsNext
  <2> QED  BY <1>0, <1>2, <2>1, <2>2 DEF Dispatching, Alive
<1>12. ASSUME NEW t \in Turns, Interrupted(t) PROVE Dispatching'
  <2>1. /\ step = "interrupting" /\ step' = "none" /\ active' = active
        /\ run' = [run EXCEPT ![t] = IF @ = "running" THEN "stopping" ELSE @]
    BY <1>12 DEF Interrupted, At, Finish
  <2>2. \A u \in Turns : Alive(u)' <=> Alive(u)
    BY <1>0, <2>1 DEF Alive
  <2> QED  BY <1>0, <1>1, <1>2, <1>3, <2>1, <2>2
<1>13. ASSUME NEW d \in Conversations, RemoveConversation(d) PROVE Dispatching'
  <2>1. step = "none" /\ step' = "none" /\ UNCHANGED <<active, run>>
    BY <1>13 DEF RemoveConversation, At, Finish
  <2> QED  BY <1>0, <1>1, <1>2, <1>3, <2>1 DEF Alive
<1> QED  BY <1>4, <1>5, <1>6, <1>7, <1>8, <1>9, <1>10, <1>11, <1>12, <1>13 DEF Dispatch

LEMMA DispatchingNext ==
  ASSUME TypeOK, Sessions, Numbers, Unstarted, Dispatching, [Next]_vars
  PROVE  Dispatching'
<1> USE DEF ledger, live, api, loop, dispatching, buffer, wire, gateway
<1>0. /\ run \in [Turns -> Runs] /\ active \subseteq Turns
      /\ (phase # "dispatching" => batch = {} /\ step = "none")
      /\ (~Working => active = {})
  BY DEF TypeOK, GatewayTypeOK, Sessions
<1>1. CASE ControlStep /\ UNCHANGED gateway
  <2>1. UNCHANGED <<step, active, run, phase, applied>> /\ ControlStep
    BY <1>1
  <2>2. \A c \in Commands : IsNext(c)' <=> IsNext(c)
    BY ONLY <1>1, NextStays, TypeOK, Numbers
  <2>3. \A t \in Turns : Start(t) \in Commands
    BY CommandFacts
  <2>4. \A t \in Turns : (Alive(t)' <=> Alive(t)) /\ (IsNext(Start(t))' <=> IsNext(Start(t)))
    BY <2>1, <2>2, <2>3 DEF Alive
  <2>5. (\A t \in active : Alive(t) \/ (step = "launching" /\ IsNext(Start(t))))'
    BY <1>0, <2>1, <2>4 DEF Dispatching
  <2>6. /\ (\A t \in Turns : step = "launching" /\ IsNext(Start(t)) => t \in active /\ run[t] = "none")'
        /\ (\A t \in Turns : step = "launched" /\ IsNext(Start(t)) => run[t] # "none")'
        /\ (\A c \in Commands : step # "none" /\ IsNext(c) => c \notin applied)'
    BY <2>1, <2>2, <2>4 DEF Dispatching
  <2>7. /\ (\A t \in Turns : Alive(t) => phase # "off" /\ (phase # "closing" => t \in active))'
        /\ (\A t, u \in active : ConversationOf[t] = ConversationOf[u] => t = u)'
    BY <2>1, <2>4 DEF Dispatching
  <2> QED  BY <2>5, <2>6, <2>7 DEF Dispatching
<1>2. ASSUME phase # "dispatching", phase' # "off", phase' = "closing" => active' = {},
             step' = "none", active' \subseteq active,
             \A u \in Turns : (Alive(u)' => Alive(u)) /\ (u \in active' => Alive(u)'),
             \A u \in Turns : phase' # "closing" /\ Alive(u)' => phase # "closing" /\ (u \in active => u \in active')
      PROVE  Dispatching'
  BY <1>0, <1>2 DEF Dispatching
<1>3. phase # "dispatching" => \A u \in active : Alive(u)
  BY <1>0 DEF Dispatching
<1>4. CASE (SendPost(up) \/ SendPoll(up) \/ PollFails \/ TakePoll \/ Recover(up) \/ ResetDone \/ PostAccepted) /\ UNCHANGED api
  <2>1. /\ phase \notin {"dispatching", "off", "closing"} /\ phase' \notin {"off", "closing"}
        /\ UNCHANGED <<run, active, step>>
    BY <1>4 DEF SendPost, SendPoll, PollFails, TakePoll, Recover, ResetDone, PostAccepted
  <2> QED  BY <1>0, <1>2, <1>3, <2>1 DEF Alive
<1>5. CASE CannotRead /\ UNCHANGED api
  BY <1>5 DEF CannotRead, Dispatching, Alive, IsNext
<1>6. CASE Reset /\ UNCHANGED api
  <2>1. /\ phase \notin {"dispatching", "off", "closing"} /\ phase' \notin {"off", "closing"}
        /\ UNCHANGED <<active, step>>
    BY <1>6 DEF Reset
  <2>2. \A u \in Turns : Alive(u)' <=> Alive(u)
    BY <1>0, <1>3, <1>6, <2>1 DEF Reset, Alive
  <2> QED  BY <1>0, <1>2, <1>3, <2>1, <2>2
<1>7. CASE (GiveUp \/ Overflow \/ Lose) /\ UNCHANGED api
  <2>1. phase \notin {"off", "closing"} /\ phase' = "closing" /\ step' = "none" /\ active' = {} /\ batch' = {} /\ run' = run
    BY <1>7 DEF GiveUp, Overflow, Lose, Close, Working
  <2> QED  BY <2>1 DEF Dispatching, Alive
<1>8. CASE Exit /\ UNCHANGED api
  <2>1. /\ active' = {} /\ step' = "none"
        /\ \A u \in Turns : ~Alive(u)'
    BY <1>0, <1>8 DEF Exit, Working, Alive
  <2> QED  BY <2>1 DEF Dispatching
<1>9. ASSUME NEW t \in Turns, ProviderEnds(t), UNCHANGED api PROVE Dispatching'
  <2>1. /\ t \in active /\ Alive(t) /\ active' = active \ {t} /\ run'[t] = "over"
        /\ \A u \in Turns : u # t => run'[u] = run[u]
        /\ phase \notin {"off", "closing"} /\ UNCHANGED <<phase, step, batch, applied, no>>
    BY <1>0, <1>9 DEF ProviderEnds, Alive, Working
  <2>2. \A c \in Commands : IsNext(c)' <=> IsNext(c)
    BY <2>1 DEF IsNext
  <2> QED  BY <1>0, <2>1, <2>2, CommandFacts DEF Dispatching, Alive
<1>10. ASSUME NEW g \in Gateways, GatewayStart(g), UNCHANGED api PROVE Dispatching'
  BY <1>0, <1>10 DEF GatewayStart, Dispatching, Alive, Working
<1>11. CASE Dispatch /\ UNCHANGED api
  BY <1>11, DispatchingDispatch
<1>12. CASE UNCHANGED vars
  BY <1>12 DEF vars, Dispatching, Alive, IsNext
<1> QED  BY <1>1, <1>4, <1>5, <1>6, <1>7, <1>8, <1>9, <1>10, <1>11, <1>12 DEF Next, GatewayStep, Advance

--------------------------------------------------------------------------------
(* The outbox *)

(* An accepted batch leaves what is due. *)
LEMMA Posted ==
  ASSUME TypeOK, PostAccepted
  PROVE  Kept' = Due /\ Due' = Due /\ Due \subseteq Kept
<1>1. /\ outbox \in Seq(Events) /\ inFlight \in 0..Len(outbox) /\ post.at = "accepted" /\ post'.at = "none"
      /\ outbox' = SubSeq(outbox, inFlight + 1, Len(outbox))
  BY RequestFacts DEF TypeOK, GatewayTypeOK, PostAccepted
<1>2. /\ outbox' \in Seq(Events) /\ Len(outbox') = Len(outbox) - inFlight
      /\ \A i \in 1..Len(outbox') : outbox'[i] = outbox[inFlight + i]
  BY <1>1, SubSeqProperties
<1> DEFINE D == {j \in DOMAIN outbox : j > inFlight}
<1>3. Due = {outbox[i] : i \in D} /\ Kept' = {outbox'[i] : i \in DOMAIN outbox'} /\ Due' = {outbox'[i] : i \in DOMAIN outbox'}
      /\ Kept = {outbox[i] : i \in DOMAIN outbox}
  BY <1>1 DEF Due, Kept, Range
<1>4. \A i \in DOMAIN outbox' : inFlight + i \in D /\ outbox'[i] = outbox[inFlight + i]
  BY <1>1, <1>2
<1>5. \A i \in D : i \in DOMAIN outbox /\ i - inFlight \in DOMAIN outbox' /\ outbox'[i - inFlight] = outbox[i]
  BY <1>1, <1>2
<1> HIDE DEF D
<1>6. Kept' \subseteq Due
  BY <1>3, <1>4
<1>7. Due \subseteq Kept'
  BY <1>3, <1>5
<1>8. Due \subseteq Kept
  BY <1>3, <1>5
<1> QED  BY <1>3, <1>6, <1>7, <1>8

(* What is kept and not due was in the batch that was accepted. *)
LEMMA KeptOrPosted ==
  ASSUME TypeOK, Sessions
  PROVE  /\ Due \subseteq Kept
         /\ post.at # "accepted" => Due = Kept
         /\ post.at = "sent" => post.events \subseteq Kept
         /\ post.at = "sent" /\ post'.at = "accepted" /\ UNCHANGED <<outbox, inFlight>> => Kept \subseteq post.events \cup Due'
<1>1. /\ outbox \in Seq(Events) /\ inFlight \in 0..Len(outbox)
      /\ Kept = {outbox[i] : i \in DOMAIN outbox}
  BY DEF TypeOK, GatewayTypeOK, Kept, Range
<1>2. Due \subseteq Kept /\ (post.at # "accepted" => Due = Kept)
  BY <1>1 DEF Due
<1>3. \A i \in 1..inFlight : i \in DOMAIN outbox
  BY <1>1
<1>4. post.at = "sent" => post.events \subseteq Kept
  BY <1>1, <1>3 DEF Sessions
<1>5. ASSUME post.at = "sent", post'.at = "accepted", UNCHANGED <<outbox, inFlight>>
      PROVE  Kept \subseteq post.events \cup Due'
  <2>1. post.events = {outbox[i] : i \in 1..inFlight}
    BY <1>5 DEF Sessions
  <2>2. Due' = {outbox[i] : i \in {j \in DOMAIN outbox : j > inFlight}}
    BY <1>5 DEF Due
  <2>3. \A i \in DOMAIN outbox : i \in 1..inFlight \/ i > inFlight
    BY <1>1
  <2> QED  BY <1>1, <2>1, <2>2, <2>3
<1> QED  BY <1>2, <1>4, <1>5

(* What the end of a command leaves. *)
LEMMA Finishes ==
  ASSUME TypeOK, NEW c \in Commands, NEW s \in Seq(Events), Finish(c, s)
  PROVE  /\ Kept' = Kept \cup Range(s) /\ Due' = Due \cup Range(s)
         /\ applied' = applied \cup {c} /\ batch' = batch \ {c} /\ step' = "none" /\ UNCHANGED wire
  BY Emits DEF Finish, wire

LEMMA FinishesWith ==
  ASSUME TypeOK, NEW c \in Commands, NEW e \in Events, Finish(c, <<e>>)
  PROVE  /\ Kept' = Kept \cup {e} /\ Due' = Due \cup {e}
         /\ applied' = applied \cup {c} /\ batch' = batch \ {c} /\ step' = "none" /\ UNCHANGED wire
  BY Finishes, Ranges

LEMMA FinishesWithTwo ==
  ASSUME TypeOK, NEW c \in Commands, NEW e \in Events, NEW f \in Events, Finish(c, <<e, f>>)
  PROVE  /\ Kept' = Kept \cup {e, f} /\ Due' = Due \cup {e, f}
         /\ applied' = applied \cup {c} /\ batch' = batch \ {c} /\ step' = "none" /\ UNCHANGED wire
<1>1. PICK s \in Seq(Events) : s = <<e, f>> /\ Range(s) = {e, f}
  BY Ranges
<1>2. Finish(c, s)
  BY <1>1
<1>3. /\ Kept' = Kept \cup Range(s) /\ Due' = Due \cup Range(s)
      /\ applied' = applied \cup {c} /\ batch' = batch \ {c} /\ step' = "none" /\ UNCHANGED wire
  BY ONLY TypeOK, <1>2, Finishes
<1> QED  BY ONLY <1>1, <1>3

LEMMA FinishesQuietly ==
  ASSUME TypeOK, NEW c \in Commands, Finish(c, <<>>)
  PROVE  /\ Kept' = Kept /\ Due' = Due
         /\ applied' = applied \cup {c} /\ batch' = batch \ {c} /\ step' = "none" /\ UNCHANGED wire
<1>1. <<>> \in Seq(Events) /\ Range(<<>>) = {}
  BY Ranges
<1>2. Kept' = Kept \cup Range(<<>>) /\ Due' = Due \cup Range(<<>>)
  BY <1>1, Finishes
<1> QED  BY <1>1, <1>2, Finishes

--------------------------------------------------------------------------------
(* What an event in the outbox says is so. *)
Answers(c) == {Ack(c), Rejected(c), NotFound(c)}

Truthful ==
  /\ \A c \in Commands : Answers(c) \cap Kept # {} => c \in applied
  /\ \A t \in Turns : Started(t) \in Kept => run[t] # "none"
  /\ \A t \in Turns : Ended(t) \in Kept \/ Terminal(t) \in Kept => run[t] = "over"
  /\ \A t \in Turns : Rejected(Start(t)) \in Kept \/ NotFound(Start(t)) \in Kept => run[t] = "none" /\ t \notin active
  /\ \A d \in Conversations : Deleted(Delete(d)) \in Kept \/ NotFound(Delete(d)) \in Kept => d \notin descriptors

LEMMA StaysTruthful ==
  ASSUME Truthful, Kept' \subseteq Kept, applied \subseteq applied', descriptors' \subseteq descriptors,
         \A t \in Turns : /\ run[t] # "none" => run'[t] # "none"
                          /\ run[t] = "over" => run'[t] = "over"
                          /\ run[t] = "none" /\ t \notin active => \/ run'[t] = "none" /\ t \notin active'
                                                                   \/ Start(t) \in Commands \ applied
  PROVE  Truthful'
<1>1. \A t \in Turns : Rejected(Start(t)) \in Kept \/ NotFound(Start(t)) \in Kept => Start(t) \in applied
  BY CommandFacts DEF Truthful, Answers
<1>2. (\A c \in Commands : Answers(c) \cap Kept # {} => c \in applied)'
  BY DEF Truthful, Answers
<1>3. (\A t \in Turns : Rejected(Start(t)) \in Kept \/ NotFound(Start(t)) \in Kept => run[t] = "none" /\ t \notin active)'
  BY <1>1 DEF Truthful
<1> QED  BY <1>2, <1>3 DEF Truthful

(* An answer to c, said of a command that is applied with it. *)
LEMMA AnswersTruthfully ==
  ASSUME Truthful, NEW c \in Commands, NEW N \in SUBSET Answers(c), Kept' \subseteq Kept \cup N,
         applied' = applied \cup {c}, active' \subseteq active, run' = run, descriptors' = descriptors,
         \A t \in Turns : c = Start(t) /\ N # {Ack(c)} => run[t] = "none" /\ t \notin active',
         \A d \in Conversations : c = Delete(d) /\ NotFound(c) \in N => d \notin descriptors
  PROVE  Truthful'
<1>1. ASSUME NEW d \in Commands, Answers(d) \cap Kept' # {} PROVE d \in applied'
  <2>1. Answers(d) \cap Kept # {} \/ Answers(d) \cap Answers(c) # {}
    BY <1>1
  <2>2. Answers(d) \cap Answers(c) # {} => d = c
    BY EventsDiffer DEF Answers
  <2> QED  BY <2>1, <2>2 DEF Truthful
<1>2. \A t \in Turns : Started(t) \notin N /\ Ended(t) \notin N /\ Terminal(t) \notin N
  BY EventsDiffer DEF Answers
<1>3. ASSUME NEW t \in Turns, Rejected(Start(t)) \in Kept' \/ NotFound(Start(t)) \in Kept' PROVE run'[t] = "none" /\ t \notin active'
  <2>1. CASE Rejected(Start(t)) \in Kept \/ NotFound(Start(t)) \in Kept
    BY <2>1 DEF Truthful
  <2>2. CASE Rejected(Start(t)) \in N \/ NotFound(Start(t)) \in N
    <3>1. Start(t) \in Commands /\ Start(t) = c
      BY <2>2, CommandFacts, EventsDiffer DEF Answers
    <3>2. N # {Ack(c)}
      BY <2>2, <3>1, EventsDiffer
    <3> QED  BY <3>1, <3>2
  <2> QED  BY <1>3, <2>1, <2>2
<1>4. ASSUME NEW d \in Conversations, Deleted(Delete(d)) \in Kept' \/ NotFound(Delete(d)) \in Kept' PROVE d \notin descriptors'
  <2>1. CASE Deleted(Delete(d)) \in Kept \/ NotFound(Delete(d)) \in Kept
    BY <2>1 DEF Truthful
  <2>2. CASE Deleted(Delete(d)) \in N \/ NotFound(Delete(d)) \in N
    BY <2>2, CommandFacts, EventsDiffer DEF Answers
  <2> QED  BY <1>4, <2>1, <2>2
<1> QED  BY <1>1, <1>2, <1>3, <1>4 DEF Truthful

LEMMA TruthfulDispatch ==
  ASSUME TypeOK, Sessions, Numbers, Unstarted, Dispatching, Truthful, Dispatch
  PROVE  Truthful'
<1> USE CommandFacts, EventFacts, Ranges DEF loop, buffer
<1>0. run \in [Turns -> Runs] /\ batch \subseteq Commands /\ phase = "dispatching"
  BY Dispatches DEF TypeOK, GatewayTypeOK
<1>1. ASSUME NEW c \in Commands, SkipApplied(c) PROVE Truthful'
  <2>1. Kept' = Kept /\ applied \subseteq applied' /\ UNCHANGED <<active, run, descriptors>>
    BY <1>1, FinishesQuietly DEF SkipApplied
  <2> QED  BY <2>1, StaysTruthful
<1>2. ASSUME NEW t \in Turns, RefuseStart(t) PROVE Truthful'
  <2>1. run[t] = "none" /\ t \notin active /\ UNCHANGED <<active, run, descriptors>>
    BY <1>2 DEF RefuseStart, At, Unstarted, Coming, Starting
  <2>2. Finish(Start(t), <<NotFound(Start(t))>>) \/ Finish(Start(t), <<Rejected(Start(t))>>)
    BY <1>2 DEF RefuseStart
  <2>3. applied' = applied \cup {Start(t)} /\ \E e \in Answers(Start(t)) : Kept' = Kept \cup {e}
    <3>1. CASE Finish(Start(t), <<NotFound(Start(t))>>)
      BY <3>1, FinishesWith DEF Answers
    <3>2. CASE Finish(Start(t), <<Rejected(Start(t))>>)
      BY <3>2, FinishesWith DEF Answers
    <3> QED  BY <2>2, <3>1, <3>2
  <2>4. PICK e \in Answers(Start(t)) : Kept' = Kept \cup {e}
    BY <2>3
  <2> QED  BY <2>1, <2>3, <2>4, AnswersTruthfully
<1>3. ASSUME NEW t \in Turns, Launch(t) PROVE Truthful'
  <2>1. Start(t) \notin applied /\ active' = active \cup {t} /\ Kept' = Kept /\ UNCHANGED <<applied, run, descriptors>>
    BY <1>3 DEF Launch, At, Kept
  <2> QED  BY <2>1, StaysTruthful
<1>4. ASSUME NEW t \in Turns, IsNext(Start(t)), Launched(t) PROVE Truthful'
  <2>1. /\ Start(t) \notin applied /\ run[t] = "none" /\ run'[t] = "running"
        /\ (\A u \in Turns : u # t => run'[u] = run[u]) /\ UNCHANGED <<applied, active, descriptors>>
    BY <1>0, <1>4 DEF Launched, At, Dispatching
  <2>2. Emit(<<Started(t)>>) /\ post' = post
    BY <1>4 DEF Launched, wire
  <2>3. Kept' = Kept \cup {Started(t)}
    BY <2>2, Emits
  <2>4. \A c \in Commands : Answers(c) \cap Kept' = Answers(c) \cap Kept
    BY <2>3, EventsDiffer DEF Answers
  <2>5. \A u \in Turns : /\ Rejected(Start(u)) \in Kept' <=> Rejected(Start(u)) \in Kept
                         /\ NotFound(Start(u)) \in Kept' <=> NotFound(Start(u)) \in Kept
                         /\ Started(u) \in Kept' => u = t \/ Started(u) \in Kept
                         /\ Ended(u) \in Kept' <=> Ended(u) \in Kept
                         /\ Terminal(u) \in Kept' <=> Terminal(u) \in Kept
    BY <2>3, EventsDiffer
  <2>6. \A d \in Conversations : /\ Deleted(Delete(d)) \in Kept' <=> Deleted(Delete(d)) \in Kept
                                 /\ NotFound(Delete(d)) \in Kept' <=> NotFound(Delete(d)) \in Kept
    BY <2>3, EventsDiffer
  <2>7. Rejected(Start(t)) \notin Kept /\ NotFound(Start(t)) \notin Kept /\ Ended(t) \notin Kept /\ Terminal(t) \notin Kept
    BY <2>1 DEF Truthful, Answers
  <2>8. (\A c \in Commands : Answers(c) \cap Kept # {} => c \in applied)'
    BY <2>1, <2>4 DEF Truthful, Answers
  <2>9. (\A u \in Turns : Started(u) \in Kept => run[u] # "none")'
    BY <2>1, <2>5 DEF Truthful
  <2>10. (\A u \in Turns : Ended(u) \in Kept \/ Terminal(u) \in Kept => run[u] = "over")'
    BY <2>1, <2>5, <2>7 DEF Truthful
  <2>11. (\A u \in Turns : Rejected(Start(u)) \in Kept \/ NotFound(Start(u)) \in Kept => run[u] = "none" /\ u \notin active)'
    BY <2>1, <2>5, <2>7 DEF Truthful
  <2>12. (\A d \in Conversations : Deleted(Delete(d)) \in Kept \/ NotFound(Delete(d)) \in Kept => d \notin descriptors)'
    BY <2>1, <2>6 DEF Truthful
  <2> QED  BY <2>8, <2>9, <2>10, <2>11, <2>12 DEF Truthful
<1>5. ASSUME NEW t \in Turns, IsNext(Start(t)), LaunchFails(t) PROVE Truthful'
  <2>1. run[t] = "none" /\ active' = active \ {t} /\ UNCHANGED <<run, descriptors>>
    BY <1>5 DEF LaunchFails, At, Dispatching
  <2>2. applied' = applied \cup {Start(t)} /\ Kept' = Kept \cup {Rejected(Start(t))}
    BY <1>5, FinishesWith DEF LaunchFails
  <2>3. {Rejected(Start(t))} \in SUBSET Answers(Start(t))
    BY DEF Answers
  <2> QED  BY <2>1, <2>2, <2>3, AnswersTruthfully
<1>6. ASSUME NEW t \in Turns, StartDone(t) PROVE Truthful'
  <2>1. applied' = applied \cup {Start(t)} /\ Kept' = Kept \cup {Ack(Start(t))} /\ UNCHANGED <<active, run, descriptors>>
    BY <1>6, FinishesWith DEF StartDone
  <2>2. {Ack(Start(t))} \in SUBSET Answers(Start(t))
    BY DEF Answers
  <2>3. \A d \in Conversations : Start(t) # Delete(d)
    OBVIOUS
  <2> QED  BY ONLY <2>1, <2>2, <2>3, CommandFacts, Truthful, AnswersTruthfully
<1>7. ASSUME NEW t \in Turns, RefuseInterrupt(t) \/ InterruptFails(t) PROVE Truthful'
  <2>1. UNCHANGED <<active, run, descriptors>>
    BY <1>7 DEF RefuseInterrupt, InterruptFails
  <2>2. Finish(Interrupt(t), <<NotFound(Interrupt(t))>>) \/ Finish(Interrupt(t), <<Rejected(Interrupt(t))>>)
    BY <1>7 DEF RefuseInterrupt, InterruptFails
  <2>3. applied' = applied \cup {Interrupt(t)} /\ \E e \in Answers(Interrupt(t)) : Kept' = Kept \cup {e}
    <3>1. CASE Finish(Interrupt(t), <<NotFound(Interrupt(t))>>)
      BY <3>1, FinishesWith DEF Answers
    <3>2. CASE Finish(Interrupt(t), <<Rejected(Interrupt(t))>>)
      BY <3>2, FinishesWith DEF Answers
    <3> QED  BY <2>2, <3>1, <3>2
  <2>4. PICK e \in Answers(Interrupt(t)) : Kept' = Kept \cup {e}
    BY <2>3
  <2> QED  BY <2>1, <2>3, <2>4, AnswersTruthfully
<1>8. ASSUME NEW t \in Turns, BeginInterrupt(t) PROVE Truthful'
  BY <1>8, StaysTruthful DEF BeginInterrupt, Kept
<1>9. ASSUME NEW t \in Turns, Interrupted(t) PROVE Truthful'
  <2>1. applied' = applied \cup {Interrupt(t)} /\ Kept' = Kept \cup {Ack(Interrupt(t))} /\ UNCHANGED <<active, descriptors>>
    BY <1>9, FinishesWith DEF Interrupted
  <2>2. \A u \in Turns : (run'[u] = "none" <=> run[u] = "none") /\ (run[u] = "over" => run'[u] = "over")
    BY <1>0, <1>9 DEF Interrupted
  <2>3. \A c \in Commands : Answers(c) \cap Kept' # {} => c = Interrupt(t) \/ Answers(c) \cap Kept # {}
    BY <2>1, EventsDiffer DEF Answers
  <2>4. \A u \in Turns : /\ Rejected(Start(u)) \in Kept' <=> Rejected(Start(u)) \in Kept
                         /\ NotFound(Start(u)) \in Kept' <=> NotFound(Start(u)) \in Kept
                         /\ Started(u) \in Kept' <=> Started(u) \in Kept
                         /\ Ended(u) \in Kept' <=> Ended(u) \in Kept
                         /\ Terminal(u) \in Kept' <=> Terminal(u) \in Kept
    BY <2>1, EventsDiffer
  <2>5. \A d \in Conversations : /\ Deleted(Delete(d)) \in Kept' <=> Deleted(Delete(d)) \in Kept
                                 /\ NotFound(Delete(d)) \in Kept' <=> NotFound(Delete(d)) \in Kept
    BY <2>1, EventsDiffer
  <2> QED  BY <2>1, <2>2, <2>3, <2>4, <2>5 DEF Truthful
<1>10. ASSUME NEW d \in Conversations, RemoveConversation(d) PROVE Truthful'
  <2> DEFINE c == Delete(d)
  <2>1. UNCHANGED <<active, run>> /\ c \in Commands
    BY <1>10 DEF RemoveConversation
  <2>2. CASE d \notin descriptors /\ Finish(c, <<NotFound(c)>>) /\ UNCHANGED descriptors
    <3>1. applied' = applied \cup {c} /\ Kept' = Kept \cup {NotFound(c)} /\ {NotFound(c)} \in SUBSET Answers(c)
      BY <2>1, <2>2, FinishesWith DEF Answers
    <3> QED  BY <2>1, <2>2, <3>1, AnswersTruthfully
  <2>3. CASE d \in descriptors /\ Finish(c, <<Rejected(c)>>) /\ UNCHANGED descriptors
    <3>1. applied' = applied \cup {c} /\ Kept' = Kept \cup {Rejected(c)} /\ {Rejected(c)} \in SUBSET Answers(c)
      BY <2>1, <2>3, FinishesWith DEF Answers
    <3> QED  BY <2>1, <2>3, <3>1, AnswersTruthfully, EventsDiffer
  <2>4. CASE Finish(c, <<Deleted(c), Ack(c)>>) /\ descriptors' = descriptors \ {d}
    <3>1. applied' = applied \cup {c} /\ Kept' = Kept \cup {Deleted(c), Ack(c)}
      BY <2>1, <2>4, FinishesWithTwo
    <3>2. \A e \in Commands : Answers(e) \cap Kept' # {} => e = c \/ Answers(e) \cap Kept # {}
      BY <2>1, <3>1, EventsDiffer DEF Answers
    <3>3. \A u \in Turns : /\ Rejected(Start(u)) \in Kept' <=> Rejected(Start(u)) \in Kept
                           /\ NotFound(Start(u)) \in Kept' <=> NotFound(Start(u)) \in Kept
                           /\ Started(u) \in Kept' <=> Started(u) \in Kept
                           /\ Ended(u) \in Kept' <=> Ended(u) \in Kept
                           /\ Terminal(u) \in Kept' <=> Terminal(u) \in Kept
      BY <2>1, <3>1, EventsDiffer
    <3>4. \A b \in Conversations : /\ Deleted(Delete(b)) \in Kept' => b = d \/ Deleted(Delete(b)) \in Kept
                                   /\ NotFound(Delete(b)) \in Kept' <=> NotFound(Delete(b)) \in Kept
      BY <2>1, <3>1, EventsDiffer
    <3> QED  BY <2>1, <2>4, <3>1, <3>2, <3>3, <3>4 DEF Truthful
  <2> QED  BY <1>10, <2>2, <2>3, <2>4 DEF RemoveConversation
<1> QED  BY <1>1, <1>2, <1>3, <1>4, <1>5, <1>6, <1>7, <1>8, <1>9, <1>10 DEF Dispatch

LEMMA TruthfulNext ==
  ASSUME TypeOK, Sessions, Numbers, Unstarted, Dispatching, Truthful, [Next]_vars
  PROVE  Truthful'
<1> USE DEF ledger, live, api, loop, dispatching, buffer, wire, gateway
<1>0. /\ run \in [Turns -> Runs] /\ active \subseteq Turns
      /\ (phase # "dispatching" => step = "none")
      /\ (~Working => outbox = <<>>)
  BY DEF TypeOK, GatewayTypeOK, Sessions
<1>1. CASE ControlStep /\ UNCHANGED gateway
  <2>1. UNCHANGED <<Kept, applied, active, run, descriptors>>
    BY <1>1 DEF Kept
  <2> QED  BY <2>1, StaysTruthful
<1>2. CASE (SendPost(up) \/ SendPoll(up) \/ PollFails \/ CannotRead \/ TakePoll \/ Recover(up)) /\ UNCHANGED api
  <2>1. UNCHANGED <<Kept, applied, active, run, descriptors>>
    BY <1>2 DEF SendPost, SendPoll, PollFails, CannotRead, TakePoll, Recover, Kept
  <2> QED  BY <2>1, StaysTruthful
<1>3. CASE PostAccepted
  <2>1. Kept' \subseteq Kept
    BY <1>3, Posted
  <2> QED  BY <1>3, <2>1, StaysTruthful DEF PostAccepted
<1>4. CASE Reset
  <2>1. Kept' = Kept /\ UNCHANGED <<applied, active, descriptors>>
    BY <1>4 DEF Reset, Kept
  <2>2. \A t \in active : Alive(t)
    BY <1>0, <1>4 DEF Reset, Dispatching
  <2>3. \A t \in Turns : /\ run[t] # "none" => run'[t] # "none"
                         /\ run[t] = "over" => run'[t] = "over"
                         /\ t \notin active => run'[t] = run[t]
    BY <1>4, <2>2 DEF Reset, Alive
  <2> QED  BY <2>1, <2>3, StaysTruthful
<1>5. CASE ResetDone
  <2>1. Emit(<<Readiness>>) /\ post' = post /\ UNCHANGED <<applied, active, run, descriptors>>
    BY <1>5 DEF ResetDone
  <2>2. Kept' = Kept \cup {Readiness}
    BY <2>1, Emits, EventFacts, Ranges
  <2>3. \A c \in Commands : Answers(c) \cap Kept' = Answers(c) \cap Kept
    BY <2>2, EventsDiffer DEF Answers
  <2>4. \A t \in Turns : /\ Rejected(Start(t)) \in Kept' <=> Rejected(Start(t)) \in Kept
                         /\ NotFound(Start(t)) \in Kept' <=> NotFound(Start(t)) \in Kept
                         /\ Started(t) \in Kept' <=> Started(t) \in Kept
                         /\ Ended(t) \in Kept' <=> Ended(t) \in Kept
                         /\ Terminal(t) \in Kept' <=> Terminal(t) \in Kept
    BY <2>2, EventsDiffer, CommandFacts
  <2>5. \A d \in Conversations : /\ Deleted(Delete(d)) \in Kept' <=> Deleted(Delete(d)) \in Kept
                                 /\ NotFound(Delete(d)) \in Kept' <=> NotFound(Delete(d)) \in Kept
    BY <2>2, EventsDiffer, CommandFacts
  <2> QED  BY <2>1, <2>3, <2>4, <2>5 DEF Truthful
<1>6. CASE GiveUp \/ Overflow \/ Lose \/ Exit
  <2>1. outbox' = <<>>
    BY <1>0, <1>6 DEF GiveUp, Overflow, Lose, Close, Exit, Working
  <2>2. Kept' = {}
    BY <2>1, Ranges DEF Kept
  <2> QED  BY <2>2 DEF Truthful
<1>7. ASSUME NEW t \in Turns, ProviderEnds(t) PROVE Truthful'
  <2>1. /\ Emit(<<Ended(t), Terminal(t)>>) /\ post' = post /\ UNCHANGED <<applied, descriptors>>
        /\ t \in active /\ active' = active \ {t} /\ run'[t] = "over" /\ \A u \in Turns : u # t => run'[u] = run[u]
    BY <1>0, <1>7 DEF ProviderEnds
  <2>2. Kept' = Kept \cup {Ended(t), Terminal(t)}
    BY <2>1, Emits, EventFacts, Ranges
  <2>3. \A c \in Commands : Answers(c) \cap Kept' = Answers(c) \cap Kept
    BY <2>2, EventsDiffer DEF Answers
  <2>4. \A u \in Turns : /\ Rejected(Start(u)) \in Kept' <=> Rejected(Start(u)) \in Kept
                         /\ NotFound(Start(u)) \in Kept' <=> NotFound(Start(u)) \in Kept
                         /\ Started(u) \in Kept' <=> Started(u) \in Kept
                         /\ Ended(u) \in Kept' => u = t \/ Ended(u) \in Kept
                         /\ Terminal(u) \in Kept' => u = t \/ Terminal(u) \in Kept
    BY <2>2, EventsDiffer, CommandFacts
  <2>5. \A d \in Conversations : /\ Deleted(Delete(d)) \in Kept' <=> Deleted(Delete(d)) \in Kept
                                 /\ NotFound(Delete(d)) \in Kept' <=> NotFound(Delete(d)) \in Kept
    BY <2>2, EventsDiffer, CommandFacts
  <2>6. (\A u \in Turns : Started(u) \in Kept => run[u] # "none")'
        /\ (\A u \in Turns : Ended(u) \in Kept \/ Terminal(u) \in Kept => run[u] = "over")'
    BY <2>1, <2>4 DEF Truthful
  <2>7. (\A u \in Turns : Rejected(Start(u)) \in Kept \/ NotFound(Start(u)) \in Kept => run[u] = "none" /\ u \notin active)'
    BY <2>1, <2>4 DEF Truthful
  <2> QED  BY <2>1, <2>3, <2>5, <2>6, <2>7 DEF Truthful
<1>8. ASSUME NEW g \in Gateways, GatewayStart(g) PROVE Truthful'
  BY <1>8, StaysTruthful DEF GatewayStart, Kept
<1>9. CASE UNCHANGED vars
  <2>1. UNCHANGED <<Kept, applied, active, run, descriptors>>
    BY <1>9 DEF Kept, vars
  <2> QED  BY <2>1, StaysTruthful
<1> QED  BY <1>1, <1>2, <1>3, <1>4, <1>5, <1>6, <1>7, <1>8, <1>9, TruthfulDispatch DEF Next, GatewayStep, Advance

--------------------------------------------------------------------------------
(* A stream whose start is no longer pending belongs to a turn that began. *)
LiveTurnsBegan == \A t \in streams : Start(t) \notin pending => run[t] # "none"

(* No news of a start that failed can be news of a turn that began. *)
LEMMA FailedWerePending ==
  ASSUME Sessions, TypeOK, Truthful, LiveTurnsBegan, post.at = "sent",
         NEW t \in streams, Start(t) \in Refused(post.events)
  PROVE  Start(t) \in pending /\ run[t] = "none" /\ t \notin active
<1>1. t \in Turns /\ Start(t) \in Commands
  BY CommandFacts DEF TypeOK, ControlTypeOK
<1>2. Rejected(Start(t)) \in Kept \/ NotFound(Start(t)) \in Kept
  BY KeptOrPosted DEF Refused
<1> QED  BY <1>1, <1>2 DEF Truthful, LiveTurnsBegan

LEMMA LiveTurnsBeganNext ==
  ASSUME TypeOK, Sessions, Truthful, LiveTurnsBegan, [Next]_vars
  PROVE  LiveTurnsBegan'
<1> USE DEF ledger, live
<1>1. CASE HandleBatch /\ UNCHANGED gateway
  <2>1. CASE UNCHANGED <<pending, streams>>
    BY <1>1, <2>1 DEF gateway, LiveTurnsBegan
  <2>2. CASE Apply(post.events) /\ post.at = "sent"
    <3>1. ASSUME NEW t \in streams', Start(t) \notin pending', Start(t) \in pending PROVE run[t] # "none"
      <4>1. t \in streams /\ t \in Turns /\ Start(t) \in Commands
        BY <2>2, <3>1, CommandFacts DEF Apply, TypeOK, ControlTypeOK
      <4>2. Start(t) \notin Refused(post.events) /\ t \notin Closed(post.events)
        BY <2>2, <3>1, <4>1 DEF Apply
      <4>3. t \in Begun(post.events)
        <5>1. Start(t) \notin Acked(post.events) \ (Starts \cup Deletes) /\ \A d \in Conversations : Start(t) # Delete(d)
          BY <4>1, CommandFacts DEF Starts
        <5>2. \E u \in Begun(post.events) \cup Closed(post.events) : Start(t) = Start(u)
          <6>1. pending' = pending \ (Refused(post.events) \cup (Acked(post.events) \ (Starts \cup Deletes))
                             \cup {Start(u) : u \in Begun(post.events) \cup Closed(post.events)}
                             \cup {Delete(d) : d \in GoneFor(post.events)})
            BY <2>2 DEF Apply
          <6>2. GoneFor(post.events) \subseteq Conversations
            BY DEF GoneFor
          <6> QED  BY <3>1, <4>2, <5>1, <6>1, <6>2
        <5>3. Begun(post.events) \cup Closed(post.events) \subseteq Turns
          BY DEF Begun, Closed, TypeOK, ControlTypeOK
        <5> QED  BY <4>1, <4>2, <5>2, <5>3, CommandFacts
      <4> QED  BY <2>2, <4>1, <4>3, KeptOrPosted DEF Begun, Truthful
    <3>2. streams' \subseteq streams
      BY <2>2 DEF Apply
    <3> QED  BY <1>1, <3>1, <3>2 DEF gateway, LiveTurnsBegan
  <2> QED  BY <1>1, <2>1, <2>2 DEF HandleBatch
<1>2. ASSUME NEW c \in Commands, Timeout(c), UNCHANGED gateway PROVE LiveTurnsBegan'
  BY <1>2 DEF Timeout, gateway, LiveTurnsBegan, TypeOK, ControlTypeOK
<1>3. CASE Users /\ UNCHANGED gateway
  <2>1. ASSUME NEW t \in Turns, StartTurn(t) PROVE LiveTurnsBegan'
    BY <1>3, <2>1 DEF StartTurn, Enqueue, gateway, LiveTurnsBegan
  <2>2. ASSUME NEW t \in Turns, StopTurn(t) PROVE LiveTurnsBegan'
    BY <1>3, <2>2 DEF StopTurn, Enqueue, gateway, LiveTurnsBegan
  <2>3. ASSUME NEW d \in Conversations, DeleteConversation(d) PROVE LiveTurnsBegan'
    BY <1>3, <2>3 DEF DeleteConversation, Enqueue, gateway, LiveTurnsBegan
  <2> QED  BY <1>3, <2>1, <2>2, <2>3 DEF Users
<1>4. CASE (Claim \/ NoticeAbort \/ ApiCrash) /\ UNCHANGED gateway
  <2>1. streams' = {}
    BY <1>4 DEF Claim, NoticeAbort, ApiCrash, Clear
  <2> QED  BY <2>1 DEF LiveTurnsBegan
<1>5. CASE (Poll \/ PollWaitEnds \/ ApiStart) /\ UNCHANGED gateway
  BY <1>5 DEF Poll, PollWaitEnds, ApiStart, gateway, LiveTurnsBegan
<1>6. CASE GatewayStep /\ UNCHANGED api
  <2>1. UNCHANGED <<streams, pending>>
    BY <1>6 DEF api
  <2> QED  BY <1>6, <2>1, GatewayFrames DEF LiveTurnsBegan, TypeOK, ControlTypeOK
<1>7. CASE UNCHANGED vars
  BY <1>7 DEF vars, api, gateway, LiveTurnsBegan
<1> QED  BY <1>1, <1>2, <1>3, <1>4, <1>5, <1>6, <1>7 DEF Next, ControlStep, Receive

--------------------------------------------------------------------------------
(* The three maps of the API *)

LEMMA AlignedApply ==
  ASSUME TypeOK, Sessions, Truthful, LiveTurnsBegan, Aligned, Apply(post.events), post.at = "sent", UNCHANGED descriptors
  PROVE  Aligned'
<1> DEFINE over == Closed(post.events)
           failed == {t \in Turns : Start(t) \in Refused(post.events)}
           gone == GoneFor(post.events)
<1>0. /\ authority \in [Conversations -> Turns \cup {None}] /\ running \in [Conversations -> Turns \cup {None}]
      /\ streams \subseteq Turns /\ None \notin Turns
  BY WireAssumption DEF TypeOK, ControlTypeOK
<1>1. streams' = streams \ (over \cup failed)
  <2>1. streams' = streams \ (over \cup {t \in failed : Start(t) \in pending})
    BY DEF Apply
  <2>2. \A t \in streams : t \in failed => Start(t) \in pending
    BY FailedWerePending
  <2> HIDE DEF failed, over
  <2> QED  BY <2>1, <2>2
<1>2. authority' = Without(authority, over \cup failed)
  BY DEF Apply
<1>3. running' = [d \in Conversations |-> IF d \in gone THEN None ELSE Without(running, streams \ streams')[d]]
  BY DEF Apply
<1>4. \A d \in gone : d \in Conversations /\ d \notin descriptors
  BY KeptOrPosted DEF GoneFor, Truthful
<1> HIDE DEF over, failed, gone
<1>5. ASSUME NEW c \in Conversations, NEW t \in Turns
      PROVE  authority'[c] = t <=> t \in streams' /\ ConversationOf[t] = c
  <2>1. authority'[c] = IF authority[c] \in over \cup failed THEN None ELSE authority[c]
    BY <1>2 DEF Without
  <2> QED  BY <1>0, <1>1, <2>1 DEF Aligned
<1>6. \A c \in Conversations : running'[c] = IF c \in gone \/ running[c] \in streams \ streams' THEN None ELSE running[c]
  BY <1>3 DEF Without
<1>7. ASSUME NEW c \in Conversations, running'[c] # None PROVE running'[c] \in streams' /\ ConversationOf[running'[c]] = c
  BY <1>6, <1>7 DEF Aligned
<1>8. ASSUME NEW t \in streams' PROVE running'[ConversationOf[t]] = t \/ ConversationOf[t] \notin descriptors'
  <2>1. t \in streams /\ ConversationOf[t] \in Conversations
    BY <1>0, <1>1, <1>8, CommandFacts
  <2> QED  BY <1>4, <1>6, <1>8, <2>1 DEF Aligned
<1> QED  BY <1>5, <1>7, <1>8 DEF Aligned

LEMMA AlignedControl ==
  ASSUME TypeOK, Sessions, Truthful, LiveTurnsBegan, Aligned, ControlStep, UNCHANGED gateway
  PROVE  Aligned'
<1> USE DEF ledger, live, gateway
<1>0. /\ authority \in [Conversations -> Turns \cup {None}] /\ running \in [Conversations -> Turns \cup {None}]
      /\ streams \subseteq Turns /\ None \notin Turns
  BY WireAssumption DEF TypeOK, ControlTypeOK
<1>1. ASSUME UNCHANGED <<streams, authority, running>> PROVE Aligned'
  BY <1>1 DEF Aligned
<1>2. ASSUME streams' = {}, authority' = Nothing, \A c \in Conversations : running'[c] = None PROVE Aligned'
  BY <1>0, <1>2 DEF Aligned, Nothing
<1>3. ASSUME NEW t \in Turns, StartTurn(t) PROVE Aligned'
  <2> DEFINE c == ConversationOf[t]
  <2>1. /\ c \in Conversations /\ running[c] = None /\ authority[c] = None /\ streams' = streams \cup {t}
        /\ authority' = [authority EXCEPT ![c] = t] /\ running' = [running EXCEPT ![c] = t]
    BY <1>3, CommandFacts DEF StartTurn
  <2>2. \A u \in streams : ConversationOf[u] # c /\ ConversationOf[u] \in Conversations
    BY <1>0, <2>1, CommandFacts DEF Aligned
  <2>3. authority'[c] = t /\ running'[c] = t /\ \A d \in Conversations : d # c => authority'[d] = authority[d] /\ running'[d] = running[d]
    BY <1>0, <2>1
  <2>4. ASSUME NEW d \in Conversations, NEW u \in Turns
        PROVE  authority'[d] = u <=> u \in streams' /\ ConversationOf[u] = d
    BY <1>0, <2>1, <2>2, <2>3 DEF Aligned
  <2>5. ASSUME NEW d \in Conversations, running'[d] # None PROVE running'[d] \in streams' /\ ConversationOf[running'[d]] = d
    BY <1>0, <2>1, <2>3, <2>5 DEF Aligned
  <2>6. ASSUME NEW u \in streams' PROVE running'[ConversationOf[u]] = u \/ ConversationOf[u] \notin descriptors'
    BY <2>1, <2>2, <2>3 DEF Aligned
  <2> QED  BY <2>4, <2>5, <2>6 DEF Aligned
<1>4. ASSUME NEW t \in Turns, StopTurn(t) PROVE Aligned'
  BY <1>1, <1>4 DEF StopTurn
<1>5. ASSUME NEW d \in Conversations, DeleteConversation(d) PROVE Aligned'
  BY <1>1, <1>5 DEF DeleteConversation
<1>6. CASE Claim \/ NoticeAbort
  <2>1. streams' = {} /\ authority' = Nothing /\ running' = Without(running, streams)
    BY <1>6 DEF Claim, NoticeAbort, Clear
  <2>2. \A c \in Conversations : running'[c] = None
    BY <1>0, <2>1 DEF Without, Aligned
  <2> QED  BY <1>2, <2>1, <2>2
<1>7. CASE ApiCrash
  BY <1>2, <1>7 DEF ApiCrash, Nothing
<1>8. CASE Poll \/ PollWaitEnds \/ ApiStart
  BY <1>1, <1>8 DEF Poll, PollWaitEnds, ApiStart
<1>9. ASSUME NEW c \in Commands, Timeout(c) PROVE Aligned'
  <2> DEFINE failed == {t \in streams : Start(t) = c}
  <2>1. streams' = streams \ failed /\ authority' = Without(authority, failed) /\ running' = Without(running, failed)
    BY <1>9 DEF Timeout
  <2>2. \A d \in Conversations : /\ authority'[d] = IF authority[d] \in failed THEN None ELSE authority[d]
                                 /\ running'[d] = IF running[d] \in failed THEN None ELSE running[d]
    BY <2>1 DEF Without
  <2> HIDE DEF failed
  <2>3. ASSUME NEW d \in Conversations, NEW u \in Turns
        PROVE  authority'[d] = u <=> u \in streams' /\ ConversationOf[u] = d
    BY <1>0, <2>1, <2>2 DEF Aligned
  <2>4. ASSUME NEW d \in Conversations, running'[d] # None PROVE running'[d] \in streams' /\ ConversationOf[running'[d]] = d
    BY <2>1, <2>2, <2>4 DEF Aligned
  <2>5. ASSUME NEW u \in streams' PROVE running'[ConversationOf[u]] = u \/ ConversationOf[u] \notin descriptors'
    <3>1. u \in streams /\ u \notin failed /\ ConversationOf[u] \in Conversations
      BY <1>0, <2>1, <2>5, CommandFacts
    <3> QED  BY <2>2, <3>1 DEF Aligned
  <2> QED  BY <2>3, <2>4, <2>5 DEF Aligned
<1>10. CASE HandleBatch
  <2>1. UNCHANGED <<streams, authority, running>> \/ (Apply(post.events) /\ post.at = "sent")
    BY <1>10 DEF HandleBatch
  <2> QED  BY <1>1, <2>1, AlignedApply
<1> QED  BY <1>3, <1>4, <1>5, <1>6, <1>7, <1>8, <1>9, <1>10 DEF ControlStep, Users, Receive

LEMMA AlignedNext ==
  ASSUME TypeOK, Sessions, Truthful, LiveTurnsBegan, Aligned, [Next]_vars
  PROVE  Aligned'
<1>1. CASE GatewayStep /\ UNCHANGED api
  BY <1>1, GatewayFrames DEF Aligned, api, live
<1>2. CASE UNCHANGED vars
  BY <1>2 DEF vars, api, live, gateway, Aligned
<1> QED  BY <1>1, <1>2, AlignedControl DEF Next

--------------------------------------------------------------------------------
(* What an API process gave the gateway, against what was there before it *)

Recent(c) == no[c] > since
Registering == (poll.at = "answered" /\ poll.fresh) \/ phase \in {"resetting", "recovering"} \/ post.at = "missing"

(* Until it has registered with an API process, the gateway holds nothing  *)
(* of it; from then on, nothing of a former one.                           *)
Separate ==
  /\ \A c \in queue : Recent(c)
  /\ Working /\ session # me => \A c \in batch \cup poll.commands : ~Recent(c)
  /\ Working /\ session = me /\ ~Registering =>
       (\A c \in batch \cup poll.commands : Recent(c)) /\ (\A t \in active : Recent(Start(t)))

LEMMA SeparateControl ==
  ASSUME TypeOK, TypeOK', Sessions, Requests, Numbers, Separate, ControlStep, UNCHANGED gateway
  PROVE  Separate'
<1> USE DEF ledger, live, wire, gateway, loop, dispatching
<1>0. /\ no \in [Commands -> Nat] /\ issued \in Nat /\ since \in Nat /\ no' \in [Commands -> Nat] /\ queue \subseteq Commands
      /\ queue' \subseteq Commands /\ poll.commands \subseteq Commands /\ batch \subseteq Commands /\ active \subseteq Turns
      /\ None \notin Gateways
  BY RequestFacts, WireAssumption DEF TypeOK, WireTypeOK, ControlTypeOK, GatewayTypeOK
<1>1. /\ UNCHANGED <<phase, batch, active, me>> /\ (Working' <=> Working)
      /\ (Working => me # None)
  BY ControlFrames DEF Working, Sessions
<1>2. /\ FailedPoll.commands = {} /\ ~FailedPoll.fresh /\ Answered(queue, FALSE).commands = queue /\ ~Answered(queue, FALSE).fresh
      /\ Answered(queue', FALSE).commands = queue' /\ ~Answered(queue', FALSE).fresh
      /\ Answered({}, TRUE).at = "answered" /\ Answered({}, TRUE).fresh
  BY <1>0, RequestFacts
<1>3. ASSUME NEW c \in Commands, Enqueue(c), session' = session, since' = since, post' = post PROVE Separate'
  <2>1. /\ issued' = issued + 1 /\ no'[c] > since /\ no[c] = 0 /\ queue' = queue \cup {c}
        /\ \A d \in Commands : d # c => no'[d] = no[d]
    BY <1>0, <1>3 DEF Enqueue, Numbers
  <2>2. /\ \A d \in queue \cup batch \cup poll.commands : d # c /\ (Recent(d)' <=> Recent(d))
        /\ \A t \in active : Start(t) # c /\ (Recent(Start(t))' <=> Recent(Start(t)))
    BY <1>0, <1>3, <2>1, CommandFacts DEF Numbers, Recent
  <2>3. \A d \in queue' : Recent(d)'
    BY <1>3, <2>1, <2>2 DEF Separate, Recent
  <2>4. CASE poll' = poll
    BY <1>1, <1>3, <2>2, <2>3, <2>4 DEF Separate, Registering
  <2>5. CASE poll' # poll
    <3>1. poll' = Answered(queue', FALSE) /\ session = me /\ poll.at = "sent"
      BY <1>3, <2>5 DEF Enqueue, Waiting, Sessions
    <3>2. poll'.commands = queue' /\ ~poll'.fresh
      BY <1>2, <3>1
    <3> QED  BY <1>1, <1>3, <2>2, <2>3, <3>1, <3>2 DEF Separate, Registering
  <2> QED  BY <2>4, <2>5
<1>4. CASE Users
  <2>1. \E c \in Commands : Enqueue(c) /\ UNCHANGED <<session, since, post>>
    BY <1>4, CommandFacts DEF Users, StartTurn, StopTurn, DeleteConversation
  <2> QED  BY <1>3, <2>1
<1>5. CASE Claim
  <2>1. queue' = {} /\ session' = me /\ poll' = Answered({}, TRUE)
    BY <1>5 DEF Claim, Clear
  <2>2. Registering'
    BY <1>2, <2>1 DEF Registering
  <2> QED  BY <1>1, <2>1, <2>2 DEF Separate
<1>6. CASE Poll \/ PollWaitEnds
  <2>1. /\ session = me /\ session' = me /\ poll.at = "sent" /\ UNCHANGED <<queue, no, since, post>>
        /\ (poll' = poll \/ poll' = Answered(queue, FALSE))
    BY <1>6 DEF Poll, PollWaitEnds, Waiting, Sessions
  <2>2. poll'.commands \subseteq poll.commands \cup queue
    BY <1>2, <2>1
  <2>3. Registering' => Registering
    BY <1>1, <1>2, <2>1 DEF Registering
  <2>4. Registering => Registering'
    BY <1>1, <2>1 DEF Registering
  <2> QED  BY <1>1, <2>1, <2>2, <2>3, <2>4 DEF Separate, Recent
<1>7. CASE NoticeAbort
  <2>1. queue' = {} /\ session' = None /\ held # None /\ ~Waiting /\ UNCHANGED <<poll, no, since>>
    BY <1>7 DEF NoticeAbort, Clear
  <2>2. Working => session # me
    BY <1>1, <2>1 DEF Sessions, Requests, Waiting
  <2> QED  BY <1>1, <2>1, <2>2 DEF Separate, Recent
<1>8. CASE HandleBatch
  <2>1. queue' \subseteq queue /\ UNCHANGED <<session, poll, no, since>> /\ post.at = "sent"
    BY <1>8 DEF HandleBatch, Apply
  <2> QED  BY <1>1, <2>1 DEF Separate, Recent, Registering
<1>9. CASE ApiCrash
  <2>1. queue' = {} /\ session' = None /\ since' = issued /\ no' = no /\ poll' \in {poll, FailedPoll}
    BY <1>9 DEF ApiCrash
  <2>2. \A c \in Commands : ~Recent(c)'
    BY <1>0, <2>1 DEF Recent, Numbers
  <2>3. poll'.commands \subseteq poll.commands
    BY <1>2, <2>1
  <2> QED  BY <1>0, <1>1, <2>1, <2>2, <2>3 DEF Separate
<1>10. CASE ApiStart \/ \E c \in Commands : Timeout(c)
  <2>1. UNCHANGED <<queue, session, poll, post, no, since>>
    BY <1>10 DEF ApiStart, Timeout
  <2> QED  BY <1>1, <2>1 DEF Separate, Recent, Registering
<1> QED  BY <1>4, <1>5, <1>6, <1>7, <1>8, <1>9, <1>10 DEF ControlStep, Receive

LEMMA SeparateGateway ==
  ASSUME TypeOK, Sessions, Requests, Numbers, Separate, GatewayStep, UNCHANGED api
  PROVE  Separate'
<1> USE DEF ledger, live, api, wire, gateway, loop, dispatching, buffer
<1>0. /\ UNCHANGED <<queue, session, no, since>>
      /\ batch' \subseteq batch \cup poll.commands /\ poll'.commands \subseteq poll.commands
      /\ \A t \in active' : t \in active \/ Start(t) \in batch
  BY GatewayFrames
<1>1. /\ NoPoll.commands = {} /\ NoPoll.at = "none" /\ SentPoll.at = "sent" /\ FailedPoll.at = "failed"
      /\ None \notin Gateways
  BY RequestFacts, WireAssumption
<1> DEFINE Idle == batch' = {} /\ poll'.commands = {} /\ active' = {}
           Same == me' = me /\ Working /\ (Registering' \/ ~Registering)
<1>2. Idle \/ Same \/ ~Working' => Separate'
  <2>1. CASE Idle
    BY <1>0, <2>1 DEF Separate, Recent
  <2>2. CASE Same
    BY <1>0, <2>2 DEF Separate, Recent
  <2>3. CASE ~Working'
    BY <1>0, <2>3 DEF Separate, Recent
  <2> QED  BY <2>1, <2>2, <2>3
<1>3. ASSUME SendPost(up) PROVE Same
  BY <1>3 DEF SendPost, Working, Registering, Sessions
<1>4. ASSUME SendPoll(up) \/ PollFails PROVE Same
  BY <1>1, <1>4 DEF SendPoll, PollFails, Working, Registering
<1>5. ASSUME CannotRead PROVE Same \/ ~Working'
  BY <1>1, <1>5 DEF CannotRead, Working, Registering, Requests
<1>6. ASSUME TakePoll PROVE Same
  BY <1>1, <1>6 DEF TakePoll, Working, Registering
<1>7. ASSUME Reset \/ Recover(up) PROVE Same
  BY <1>7 DEF Reset, Recover, Working, Registering
<1>8. ASSUME ResetDone PROVE Idle
  BY <1>1, <1>8 DEF ResetDone, Requests, Sessions
<1>9. ASSUME PostAccepted PROVE Same
  BY <1>9 DEF PostAccepted, Working, Registering
<1>10. ASSUME GiveUp \/ Overflow \/ Lose \/ Exit PROVE ~Working'
  BY <1>10 DEF GiveUp, Overflow, Lose, Close, Exit, Working
<1>11. ASSUME Dispatch PROVE Same
  BY <1>1, <1>11, Dispatches DEF Sessions, Working, Registering
<1>12. ASSUME NEW t \in Turns, ProviderEnds(t) PROVE Same
  BY <1>12 DEF ProviderEnds, Working, Registering
<1>13. ASSUME NEW g \in Gateways, GatewayStart(g) PROVE Idle
  BY <1>1, <1>13 DEF GatewayStart, Sessions, Working
<1> HIDE DEF Idle, Same
<1> QED  BY <1>2, <1>3, <1>4, <1>5, <1>6, <1>7, <1>8, <1>9, <1>10, <1>11, <1>12, <1>13 DEF GatewayStep, Advance

LEMMA SeparateNext ==
  ASSUME TypeOK, TypeOK', Sessions, Requests, Numbers, Separate, [Next]_vars
  PROVE  Separate'
<1>1. CASE UNCHANGED vars
  BY <1>1 DEF vars, api, ledger, live, gateway, loop, dispatching, wire, Separate, Recent, Registering, Working
<1> QED  BY <1>1, SeparateControl, SeparateGateway DEF Next

--------------------------------------------------------------------------------
(* Answers *)

Replies(c) == Ack(c) \in Due \/ Rejected(c) \in Due \/ NotFound(c) \in Due
Quiet == poll.at = "none" /\ post.at # "missing" /\ phase # "recovering"

(* A command that was dispatched and is still queued has its answer in the *)
(* outbox, and until that is posted no poll is under way.                  *)
AnsweredOnce ==
  /\ \A c \in poll.commands : c \notin applied
  /\ Working /\ session = me => \A c \in queue : c \in applied => Replies(c) /\ Quiet

LEMMA AnsweredHandle ==
  ASSUME TypeOK, Sessions, Counted, AnsweredOnce, HandleBatch, UNCHANGED gateway
  PROVE  AnsweredOnce'
<1> USE DEF ledger, live, wire, gateway, loop, dispatching, buffer
<1>1. /\ post.at = "sent" /\ UNCHANGED <<session, poll, me>> /\ queue' \subseteq queue
      /\ post' \in {Replied("accepted"), Replied("missing"), Replied("refused")}
  BY DEF HandleBatch, Apply
<1>2. post'.at \in {"accepted", "missing", "refused"}
  BY ONLY <1>1, RequestFacts
<1>3. ASSUME Working, session = me, NEW c \in queue', c \in applied PROVE Replies(c)' /\ Quiet'
  <2>1. Replies(c) /\ Quiet /\ c \in queue /\ c \in Commands
    BY <1>1, <1>3 DEF AnsweredOnce, TypeOK, ControlTypeOK
  <2>2. post' \in {Replied("accepted"), Replied("refused")}
    BY <1>3 DEF HandleBatch
  <2>3. post'.at \in {"accepted", "refused"}
    BY ONLY <2>2, RequestFacts
  <2>4. CASE post'.at = "refused"
    <3>1. Due' = Due
      BY <1>1, <2>4 DEF Due
    <3> QED  BY <1>1, <2>1, <2>3, <3>1 DEF Replies, Quiet
  <2>5. CASE post'.at = "accepted"
    <3>1. Apply(post.events)
      <4>1. cursor.gateway = me => post.seq > cursor.seq
        BY <1>1, <1>3 DEF Counted, Sessions, TypeOK, ControlTypeOK
      <4>2. cursor.gateway # me => post.seq > post.seq - 1
        BY RequestFacts DEF TypeOK, WireTypeOK
      <4>3. post' # Replied("refused")
        BY ONLY <2>5, RequestFacts
      <4>4. ~(post.seq <= IF cursor.gateway = me THEN cursor.seq ELSE post.seq - 1)
        BY <4>1, <4>2, RequestFacts DEF TypeOK, WireTypeOK, ControlTypeOK
      <4> QED  BY <1>3, <4>3, <4>4 DEF HandleBatch
    <3>2. Kept \subseteq post.events \cup Due' /\ Due \subseteq Kept
      BY <1>1, <2>5, KeptOrPosted
    <3>3. c \notin Acked(post.events) /\ c \notin Refused(post.events)
      BY <1>3, <3>1 DEF Apply
    <3>4. Ack(c) \notin post.events /\ Rejected(c) \notin post.events /\ NotFound(c) \notin post.events
      BY <2>1, <3>3 DEF Acked, Refused
    <3> QED  BY <1>1, <2>1, <2>5, <3>2, <3>4 DEF Replies, Quiet
  <2> QED  BY <2>3, <2>4, <2>5
<1> QED  BY <1>1, <1>3 DEF AnsweredOnce, Working

LEMMA AnsweredControl ==
  ASSUME TypeOK, TypeOK', Sessions, Counted, Numbers, AnsweredOnce, ControlStep, UNCHANGED gateway
  PROVE  AnsweredOnce'
<1> USE DEF ledger, live, wire, gateway, loop, dispatching, buffer
<1>0. /\ queue \subseteq Commands /\ queue' \subseteq Commands /\ UNCHANGED <<me, applied, phase>>
      /\ (Working' <=> Working) /\ (Working => me # None)
  BY ControlFrames DEF TypeOK, ControlTypeOK, Working, Sessions
<1>1. /\ FailedPoll.commands = {} /\ Answered({}, TRUE).commands = {}
      /\ Answered(queue, FALSE).commands = queue /\ Answered(queue', FALSE).commands = queue'
  BY <1>0, RequestFacts
<1>2. poll.at = "sent" => Working
  BY RequestFacts DEF Sessions
<1>3. ASSUME post' = post PROVE UNCHANGED <<Due>>
  BY <1>3 DEF Due
<1>4. ASSUME NEW c \in Commands, Enqueue(c), session' = session, post' = post PROVE AnsweredOnce'
  <2>1. c \notin applied /\ queue' = queue \cup {c} /\ poll' \in {poll, Answered(queue', FALSE)}
    BY <1>4 DEF Enqueue, Numbers
  <2>2. poll' # poll => poll' = Answered(queue', FALSE) /\ session = me /\ poll.at = "sent"
    BY <1>4 DEF Enqueue, Waiting, Sessions
  <2>3. poll' # poll => \A d \in queue : d \notin applied
    BY <1>2, <2>2 DEF AnsweredOnce, Quiet
  <2> QED  BY <1>0, <1>1, <1>3, <1>4, <2>1, <2>2, <2>3 DEF AnsweredOnce, Replies, Quiet
<1>5. CASE Users
  <2>1. \E c \in Commands : Enqueue(c) /\ UNCHANGED <<session, post>>
    BY <1>5, CommandFacts DEF Users, StartTurn, StopTurn, DeleteConversation
  <2> QED  BY <1>4, <2>1
<1>6. CASE Claim \/ NoticeAbort \/ ApiCrash
  <2>1. queue' = {} /\ poll' \in {poll, FailedPoll, Answered({}, TRUE)}
    BY <1>6 DEF Claim, NoticeAbort, ApiCrash, Clear
  <2> QED  BY <1>0, <1>1, <2>1 DEF AnsweredOnce
<1>7. CASE Poll \/ PollWaitEnds
  <2>1. /\ session = me /\ poll.at = "sent" /\ UNCHANGED <<queue, session, post>>
        /\ poll' \in {poll, Answered(queue, FALSE)}
    BY <1>7 DEF Poll, PollWaitEnds, Waiting, Sessions
  <2>2. \A d \in queue : d \notin applied
    BY <1>2, <2>1 DEF AnsweredOnce, Quiet
  <2> QED  BY <1>0, <1>1, <2>1, <2>2 DEF AnsweredOnce
<1>8. CASE ApiStart \/ \E c \in Commands : Timeout(c)
  <2>1. UNCHANGED <<queue, session, poll, post>>
    BY <1>8 DEF ApiStart, Timeout
  <2> QED  BY <1>0, <1>3, <2>1 DEF AnsweredOnce, Replies, Quiet
<1> QED  BY <1>5, <1>6, <1>7, <1>8, AnsweredHandle DEF ControlStep, Receive

(* The dispatcher answers what it does not skip. *)
LEMMA DispatchAnswers ==
  ASSUME TypeOK, Dispatch
  PROVE  Due \subseteq Due' /\ \A c \in applied' : c \in applied \/ Replies(c)'
<1> USE CommandFacts, EventFacts DEF loop, buffer
<1> DEFINE G == Due \subseteq Due' /\ \A c \in applied' : c \in applied \/ Replies(c)'
<1>0. ASSUME NEW c \in Commands, NEW e \in Answers(c), e \in Events, Finish(c, <<e>>) PROVE G
  <2>1. Due' = Due \cup {e} /\ applied' = applied \cup {c}
    BY <1>0, FinishesWith
  <2> QED  BY <2>1 DEF Answers, Replies
<1>1. ASSUME NEW c \in Commands, SkipApplied(c) PROVE G
  <2>1. Due' = Due /\ applied' = applied \cup {c} /\ c \in applied
    BY <1>1, FinishesQuietly DEF SkipApplied
  <2> QED  BY <2>1
<1>2. ASSUME NEW t \in Turns, RefuseStart(t) PROVE G
  <2>1. Finish(Start(t), <<NotFound(Start(t))>>) \/ Finish(Start(t), <<Rejected(Start(t))>>)
    BY <1>2 DEF RefuseStart
  <2> QED  BY <1>0, <2>1 DEF Answers
<1>3. ASSUME NEW t \in Turns, Launch(t) \/ BeginInterrupt(t) PROVE G
  BY <1>3 DEF Launch, BeginInterrupt, Due, wire
<1>4. ASSUME NEW t \in Turns, Launched(t) PROVE G
  <2>1. Emit(<<Started(t)>>) /\ post' = post /\ applied' = applied
    BY <1>4 DEF Launched, wire
  <2> QED  BY <2>1, Emits, Ranges
<1>5. ASSUME NEW t \in Turns, LaunchFails(t) \/ StartDone(t) PROVE G
  <2>1. Finish(Start(t), <<Rejected(Start(t))>>) \/ Finish(Start(t), <<Ack(Start(t))>>)
    BY <1>5 DEF LaunchFails, StartDone
  <2> QED  BY <1>0, <2>1 DEF Answers
<1>6. ASSUME NEW t \in Turns, RefuseInterrupt(t) \/ Interrupted(t) \/ InterruptFails(t) PROVE G
  <2>1. \/ Finish(Interrupt(t), <<NotFound(Interrupt(t))>>) \/ Finish(Interrupt(t), <<Rejected(Interrupt(t))>>)
        \/ Finish(Interrupt(t), <<Ack(Interrupt(t))>>)
    BY <1>6 DEF RefuseInterrupt, Interrupted, InterruptFails
  <2> QED  BY <1>0, <2>1 DEF Answers
<1>7. ASSUME NEW d \in Conversations, RemoveConversation(d) PROVE G
  <2> DEFINE c == Delete(d)
  <2>1. CASE Finish(c, <<NotFound(c)>>) \/ Finish(c, <<Rejected(c)>>)
    BY <1>0, <2>1 DEF Answers
  <2>2. CASE Finish(c, <<Deleted(c), Ack(c)>>)
    <3>1. Due' = Due \cup {Deleted(c), Ack(c)} /\ applied' = applied \cup {c}
      BY <2>2, FinishesWithTwo
    <3> QED  BY <3>1 DEF Replies
  <2> QED  BY <1>7, <2>1, <2>2 DEF RemoveConversation
<1> HIDE DEF G
<1>8. G
  BY <1>1, <1>2, <1>3, <1>4, <1>5, <1>6, <1>7 DEF Dispatch
<1> QED  BY <1>8 DEF G

LEMMA AnsweredGateway ==
  ASSUME TypeOK, Sessions, AnsweredOnce, GatewayStep, UNCHANGED api
  PROVE  AnsweredOnce'
<1> USE DEF ledger, live, api, wire, gateway, loop, dispatching, buffer
<1>0. /\ UNCHANGED <<queue, session>> /\ poll'.commands \subseteq poll.commands /\ NoPoll.at = "none" /\ NoPoll.commands = {}
      /\ SentPoll.commands = {} /\ FailedPoll.commands = {} /\ None \notin Gateways
  BY GatewayFrames, RequestFacts, WireAssumption
<1>1. ASSUME applied' = applied, Due \subseteq Due', Working, me' = me, Quiet => Quiet' PROVE AnsweredOnce'
  BY <1>0, <1>1 DEF AnsweredOnce, Replies
<1>2. ASSUME applied' = applied, Working, me' = me, Working /\ session = me => \A c \in queue : c \notin applied PROVE AnsweredOnce'
  BY <1>0, <1>2 DEF AnsweredOnce
<1>3. ASSUME ~Quiet PROVE Working /\ session = me => \A c \in queue : c \notin applied
  BY <1>3 DEF AnsweredOnce
<1>4. CASE SendPost(up)
  <2>1. post.at = "none" /\ post'.at \in {"sent", "refused"}
    BY <1>4, RequestFacts DEF SendPost, Sessions
  <2>2. Due' = Due
    BY <1>4, <2>1 DEF SendPost, Due
  <2> QED  BY <1>1, <1>4, <2>1, <2>2 DEF SendPost, Working, Quiet
<1>5. CASE SendPoll(up)
  <2>1. applied # {} => Due = {}
    BY <1>5 DEF SendPoll, MustFlush, Sessions, Due
  <2>2. Working /\ session = me => \A c \in queue : c \notin applied
    BY <2>1 DEF AnsweredOnce, Replies
  <2> QED  BY <1>2, <1>5, <2>2 DEF SendPoll, Working
<1>6. CASE (PollFails \/ CannotRead \/ TakePoll \/ Reset \/ Recover(up))
  <2>1. ~Quiet /\ applied' = applied /\ me' = me
    BY <1>6 DEF PollFails, CannotRead, TakePoll, Reset, Recover, Quiet
  <2>2. Working
    BY <1>0, <1>6 DEF PollFails, CannotRead, TakePoll, Reset, Recover, Working, Sessions
  <2> QED  BY <1>2, <1>3, <2>1, <2>2
<1>7. CASE ResetDone
  <2>1. Emit(<<Readiness>>) /\ post' = post
    BY <1>7 DEF ResetDone
  <2>2. Due \subseteq Due'
    BY <2>1, Emits, EventFacts, Ranges
  <2> QED  BY <1>1, <1>7, <2>2 DEF ResetDone, Working, Quiet
<1>8. CASE PostAccepted
  <2>1. Due' = Due
    BY <1>8, Posted
  <2>2. post'.at = "none"
    BY <1>8, RequestFacts DEF PostAccepted
  <2> QED  BY <1>1, <1>8, <2>1, <2>2 DEF PostAccepted, Working, Quiet
<1>9. CASE GiveUp \/ Overflow \/ Lose \/ Exit
  <2>1. ~Working' /\ poll'.commands = {}
    BY <1>0, <1>9 DEF GiveUp, Overflow, Lose, Close, Exit, Working, Sessions
  <2> QED  BY <2>1 DEF AnsweredOnce
<1>10. CASE Dispatch
  <2>1. UNCHANGED wire /\ phase = "dispatching" /\ phase' \in {"loop", "dispatching"}
    BY <1>10, Dispatches
  <2>2. Working /\ Quiet' /\ poll'.commands = {}
    BY <1>0, <2>1 DEF Working, Quiet, Sessions
  <2> QED  BY <1>0, <1>10, <2>1, <2>2, DispatchAnswers DEF AnsweredOnce, Replies
<1>11. ASSUME NEW t \in Turns, ProviderEnds(t) PROVE AnsweredOnce'
  <2>1. Emit(<<Ended(t), Terminal(t)>>) /\ post' = post
    BY <1>11 DEF ProviderEnds
  <2>2. Due \subseteq Due'
    BY <2>1, Emits, EventFacts, Ranges
  <2> QED  BY <1>1, <1>11, <2>2 DEF ProviderEnds, Quiet
<1>12. ASSUME NEW g \in Gateways, GatewayStart(g) PROVE AnsweredOnce'
  <2>1. session' # me' /\ poll'.commands = {}
    BY <1>0, <1>12 DEF GatewayStart, Sessions, Working
  <2> QED  BY <2>1 DEF AnsweredOnce
<1> QED  BY <1>4, <1>5, <1>6, <1>7, <1>8, <1>9, <1>10, <1>11, <1>12 DEF GatewayStep, Advance

LEMMA AnsweredNext ==
  ASSUME TypeOK, TypeOK', Sessions, Counted, Numbers, AnsweredOnce, [Next]_vars
  PROVE  AnsweredOnce'
<1>1. CASE UNCHANGED vars
  BY <1>1 DEF vars, api, live, gateway, loop, dispatching, buffer, wire, AnsweredOnce, Replies, Quiet, Due, Working
<1> QED  BY <1>1, AnsweredControl, AnsweredGateway DEF Next

--------------------------------------------------------------------------------
(* Streams *)

Closes(t) == Ended(t) \in Due \/ Terminal(t) \in Due \/ Rejected(Start(t)) \in Due \/ NotFound(Start(t)) \in Due
Awaited(t) == run[t] = "none" /\ Start(t) \in queue /\ Start(t) \notin applied

(* Every stream of the session awaits its start, or its turn is live, or   *)
(* the news that close it are due.                                         *)
Accounted ==
  Working /\ session = me => \A t \in streams : t \in active \/ Awaited(t) \/ Closes(t)

LEMMA AccountedHandle ==
  ASSUME TypeOK, Sessions, Counted, Truthful, LiveTurnsBegan, Accounted, HandleBatch, UNCHANGED gateway
  PROVE  Accounted'
<1> USE DEF ledger, live, wire, gateway, loop, dispatching, buffer
<1>1. post.at = "sent" /\ UNCHANGED <<session, me>> /\ streams' \subseteq streams
  BY DEF HandleBatch, Apply
<1>2. ASSUME Working, session = me, NEW t \in streams' PROVE t \in active' \/ Awaited(t)' \/ Closes(t)'
  <2>1. /\ t \in active \/ Awaited(t) \/ Closes(t)
        /\ t \in streams /\ t \in Turns /\ Start(t) \in Commands
    BY <1>1, <1>2, CommandFacts DEF Accounted, TypeOK, ControlTypeOK
  <2>2. post' \in {Replied("accepted"), Replied("refused")}
    BY <1>2 DEF HandleBatch
  <2>3. post'.at \in {"accepted", "refused"}
    BY ONLY <2>2, RequestFacts
  <2>4. ASSUME Awaited(t) PROVE Awaited(t)'
    <3>1. CASE queue' = queue
      BY <2>4, <3>1 DEF Awaited
    <3>2. CASE Apply(post.events)
      <4>1. Start(t) \notin applied
        BY <2>4 DEF Awaited
      <4>2. Ack(Start(t)) \notin Kept /\ Rejected(Start(t)) \notin Kept /\ NotFound(Start(t)) \notin Kept
        BY <2>1, <4>1 DEF Truthful, Answers
      <4>3. Start(t) \notin Acked(post.events) /\ Start(t) \notin Refused(post.events)
        BY <1>1, <4>2, KeptOrPosted DEF Acked, Refused
      <4> QED  BY <2>4, <3>2, <4>3 DEF Apply, Awaited
    <3> QED  BY <3>1, <3>2 DEF HandleBatch
  <2>5. ASSUME Closes(t), post'.at = "refused" PROVE Closes(t)'
    <3>1. Due' = Due
      BY <1>1, <2>5 DEF Due
    <3> QED  BY <2>5, <3>1 DEF Closes
  <2>6. ASSUME Closes(t), post'.at = "accepted" PROVE Closes(t)'
    <3>1. Apply(post.events)
      <4>1. cursor.gateway = me => post.seq > cursor.seq
        BY <1>1, <1>2 DEF Counted, Sessions, TypeOK, ControlTypeOK
      <4>2. post' # Replied("refused")
        BY ONLY <2>6, RequestFacts
      <4>3. ~(post.seq <= IF cursor.gateway = me THEN cursor.seq ELSE post.seq - 1)
        BY <4>1, RequestFacts DEF TypeOK, WireTypeOK, ControlTypeOK
      <4> QED  BY <1>2, <4>2, <4>3 DEF HandleBatch
    <3>2. Kept \subseteq post.events \cup Due' /\ Due \subseteq Kept
      BY <1>1, <2>6, KeptOrPosted
    <3>3. Ended(t) \notin post.events /\ Terminal(t) \notin post.events
      BY <1>2, <2>1, <3>1 DEF Apply, Closed
    <3>4. Start(t) \notin Refused(post.events)
      <4>1. Start(t) \in Refused(post.events) => Start(t) \in pending
        BY <1>1, <2>1, FailedWerePending
      <4> QED  BY <1>2, <2>1, <3>1, <4>1 DEF Apply
    <3>5. Rejected(Start(t)) \notin post.events /\ NotFound(Start(t)) \notin post.events
      BY <2>1, <3>4 DEF Refused
    <3> QED  BY <2>6, <3>2, <3>3, <3>5 DEF Closes
  <2> QED  BY <2>1, <2>3, <2>4, <2>5, <2>6
<1> QED  BY <1>1, <1>2 DEF Accounted, Working

LEMMA AccountedControl ==
  ASSUME TypeOK, Sessions, Counted, Numbers, Truthful, LiveTurnsBegan, Accounted, ControlStep, UNCHANGED gateway
  PROVE  Accounted'
<1> USE DEF ledger, live, wire, gateway, loop, dispatching, buffer
<1>0. UNCHANGED <<me, applied, phase, active, run>> /\ (Working' <=> Working)
  BY ControlFrames DEF Working
<1>1. ASSUME post' = post PROVE UNCHANGED <<Due>>
  BY <1>1 DEF Due
<1>2. ASSUME session' = session, post' = post, queue \subseteq queue', streams' \subseteq streams PROVE Accounted'
  BY <1>0, <1>1, <1>2 DEF Accounted, Awaited, Closes
<1>3. ASSUME NEW t \in Turns, StartTurn(t) PROVE Accounted'
  <2>1. /\ session' = session /\ post' = post /\ queue' = queue \cup {Start(t)} /\ streams' = streams \cup {t}
        /\ no[Start(t)] = 0
    BY <1>3 DEF StartTurn, Enqueue
  <2>2. Awaited(t)'
    BY <1>0, <1>3, <2>1, CommandFacts DEF Numbers, Awaited
  <2> QED  BY <1>0, <1>1, <2>1, <2>2 DEF Accounted, Awaited, Closes
<1>4. ASSUME NEW t \in Turns, StopTurn(t) PROVE Accounted'
  BY <1>2, <1>4 DEF StopTurn, Enqueue
<1>5. ASSUME NEW d \in Conversations, DeleteConversation(d) PROVE Accounted'
  BY <1>2, <1>5 DEF DeleteConversation, Enqueue
<1>6. CASE Claim \/ NoticeAbort \/ ApiCrash
  <2>1. streams' = {}
    BY <1>6 DEF Claim, NoticeAbort, ApiCrash, Clear
  <2> QED  BY <2>1 DEF Accounted
<1>7. CASE Poll \/ PollWaitEnds \/ ApiStart
  BY <1>2, <1>7 DEF Poll, PollWaitEnds, ApiStart
<1>8. ASSUME NEW c \in Commands, Timeout(c) PROVE Accounted'
  BY <1>2, <1>8 DEF Timeout
<1> QED  BY <1>3, <1>4, <1>5, <1>6, <1>7, <1>8, AccountedHandle DEF ControlStep, Users, Receive

LEMMA AccountedDispatch ==
  ASSUME TypeOK, Sessions, Numbers, Unstarted, Dispatching, Accounted, Dispatch, UNCHANGED api
  PROVE  Accounted'
<1> USE CommandFacts, EventFacts DEF ledger, live, api, loop, buffer
<1>0. /\ Due \subseteq Due' /\ UNCHANGED <<session, me, queue, streams>> /\ streams \subseteq Turns /\ Working
      /\ run \in [Turns -> Runs]
  BY DispatchAnswers, Dispatches DEF wire, TypeOK, ControlTypeOK, GatewayTypeOK, Working
<1>1. \A u \in Turns : Closes(u) => Closes(u)'
  BY <1>0 DEF Closes
<1> DEFINE Same(t) == /\ \A u \in Turns : u # t /\ u \in active => u \in active'
                      /\ \A u \in Turns : u # t /\ Awaited(u) => Awaited(u)'
<1>2. ASSUME NEW t \in Turns, Same(t), t \in active \/ Awaited(t) => t \in active' \/ Awaited(t)' \/ Closes(t)' PROVE Accounted'
  BY <1>0, <1>1, <1>2 DEF Accounted
<1>3. ASSUME active' = active, run' = run, NEW c \in Commands, applied' \subseteq applied \cup {c},
             \A u \in Turns : c # Start(u) \/ Start(u) \in applied PROVE Accounted'
  BY <1>0, <1>1, <1>3 DEF Accounted, Awaited
<1>4. ASSUME NEW c \in Commands, SkipApplied(c) PROVE Accounted'
  BY <1>3, <1>4 DEF SkipApplied, Finish
<1>5. ASSUME NEW t \in Turns, RefuseStart(t) PROVE Accounted'
  <2>1. Finish(Start(t), <<NotFound(Start(t))>>) \/ Finish(Start(t), <<Rejected(Start(t))>>)
    BY <1>5 DEF RefuseStart
  <2>2. /\ applied' = applied \cup {Start(t)}
        /\ Due' = Due \cup {NotFound(Start(t))} \/ Due' = Due \cup {Rejected(Start(t))}
    BY <2>1, FinishesWith
  <2>3. Closes(t)'
    BY <2>2 DEF Closes
  <2>4. Same(t)
    BY <1>0, <1>5, <2>2 DEF RefuseStart, Awaited
  <2> QED  BY <1>2, <2>3, <2>4
<1>6. ASSUME NEW t \in Turns, Launch(t) PROVE Accounted'
  BY <1>0, <1>1, <1>6 DEF Launch, Accounted, Awaited
<1>7. ASSUME NEW t \in Turns, IsNext(Start(t)), Launched(t) PROVE Accounted'
  <2>1. t \in active /\ active' = active /\ applied' = applied /\ run' = [run EXCEPT ![t] = "running"]
    BY <1>7 DEF Launched, At, Dispatching
  <2>2. Same(t)
    BY <1>0, <2>1 DEF Awaited
  <2> QED  BY <1>2, <2>1, <2>2
<1>8. ASSUME NEW t \in Turns, LaunchFails(t) PROVE Accounted'
  <2>1. Due' = Due \cup {Rejected(Start(t))} /\ applied' = applied \cup {Start(t)}
    BY <1>8, FinishesWith DEF LaunchFails
  <2>2. Closes(t)'
    BY <2>1 DEF Closes
  <2>3. Same(t)
    BY <1>0, <1>8, <2>1 DEF LaunchFails, Awaited
  <2> QED  BY <1>2, <2>2, <2>3
<1>9. ASSUME NEW t \in Turns, IsNext(Start(t)), StartDone(t) PROVE Accounted'
  <2>1. run[t] # "none" /\ active' = active /\ run' = run /\ applied' = applied \cup {Start(t)}
    BY <1>9 DEF StartDone, At, Dispatching, Finish
  <2>2. Same(t)
    BY <1>0, <2>1 DEF Awaited
  <2> QED  BY <1>2, <2>1, <2>2 DEF Awaited
<1>10. ASSUME NEW t \in Turns, RefuseInterrupt(t) \/ InterruptFails(t) PROVE Accounted'
  BY <1>3, <1>10 DEF RefuseInterrupt, InterruptFails, Finish
<1>11. ASSUME NEW t \in Turns, BeginInterrupt(t) PROVE Accounted'
  BY <1>3, <1>11 DEF BeginInterrupt
<1>12. ASSUME NEW t \in Turns, Interrupted(t) PROVE Accounted'
  <2>1. active' = active /\ applied' = applied \cup {Interrupt(t)} /\ run' = [run EXCEPT ![t] = IF @ = "running" THEN "stopping" ELSE @]
    BY <1>12 DEF Interrupted, Finish
  <2>2. \A u \in Turns : run[u] = "none" => run'[u] = "none"
    BY <1>0, <2>1
  <2>3. \A u \in Turns : Awaited(u) => Awaited(u)'
    BY <1>0, <2>1, <2>2 DEF Awaited
  <2> QED  BY <1>0, <1>1, <2>1, <2>3 DEF Accounted
<1>13. ASSUME NEW d \in Conversations, RemoveConversation(d) PROVE Accounted'
  BY <1>3, <1>13 DEF RemoveConversation, Finish
<1> QED  BY <1>4, <1>5, <1>6, <1>7, <1>8, <1>9, <1>10, <1>11, <1>12, <1>13 DEF Dispatch

LEMMA AccountedNext ==
  ASSUME TypeOK, Sessions, Counted, Numbers, Unstarted, Dispatching, Truthful, LiveTurnsBegan, Accounted, [Next]_vars
  PROVE  Accounted'
<1> USE DEF ledger, live, api, wire, gateway, loop, dispatching, buffer
<1>0. /\ streams \subseteq Turns /\ run \in [Turns -> Runs] /\ NoPost.at = "none" /\ None \notin Gateways
      /\ post.at = "none" <=> phase # "posting"
  BY RequestFacts, WireAssumption DEF TypeOK, ControlTypeOK, GatewayTypeOK, Sessions
<1>1. ASSUME UNCHANGED <<session, queue, streams, me, applied, active>>, Working, Due \subseteq Due',
             \A t \in Turns : run[t] = "none" /\ t \notin active => run'[t] = "none"
      PROVE  Accounted'
  BY <1>0, <1>1 DEF Accounted, Awaited, Closes
<1>2. CASE SendPost(up) /\ UNCHANGED api
  <2>1. post.at = "none" /\ post'.at \in {"sent", "refused"}
    BY <1>2, RequestFacts DEF SendPost, Sessions
  <2>2. Due' = Due
    BY <1>2, <2>1 DEF SendPost, Due
  <2> QED  BY <1>1, <1>2, <2>2 DEF SendPost, Working
<1>3. CASE (SendPoll(up) \/ PollFails \/ CannotRead \/ TakePoll \/ Reset) /\ UNCHANGED api
  <2>1. Due' = Due
    BY <1>3 DEF SendPoll, PollFails, CannotRead, TakePoll, Reset, Due
  <2>2. Working
    BY <1>3, RequestFacts DEF SendPoll, PollFails, CannotRead, TakePoll, Reset, Working, Sessions
  <2>3. \A t \in Turns : run[t] = "none" /\ t \notin active => run'[t] = "none"
    BY <1>3 DEF SendPoll, PollFails, CannotRead, TakePoll, Reset
  <2>4. UNCHANGED <<session, queue, streams, me, applied, active>>
    BY <1>3 DEF SendPoll, PollFails, CannotRead, TakePoll, Reset
  <2> QED  BY <1>1, <2>1, <2>2, <2>3, <2>4
<1>4. CASE Recover(up) /\ UNCHANGED api
  <2>1. Due' = Due
    BY <1>0, <1>4 DEF Recover, Due
  <2> QED  BY <1>1, <1>4, <2>1 DEF Recover, Working
<1>5. CASE ResetDone /\ UNCHANGED api
  <2>1. Emit(<<Readiness>>) /\ post' = post
    BY <1>5 DEF ResetDone
  <2>2. Due \subseteq Due'
    BY <2>1, Emits, EventFacts, Ranges
  <2> QED  BY <1>1, <1>5, <2>2 DEF ResetDone, Working
<1>6. CASE PostAccepted /\ UNCHANGED api
  <2>1. Due' = Due
    BY <1>6, Posted
  <2> QED  BY <1>1, <1>6, <2>1 DEF PostAccepted, Working
<1>7. CASE (GiveUp \/ Overflow \/ Lose \/ Exit) /\ UNCHANGED api
  BY <1>7 DEF GiveUp, Overflow, Lose, Close, Exit, Working, Accounted
<1>8. ASSUME NEW t \in Turns, ProviderEnds(t), UNCHANGED api PROVE Accounted'
  <2>1. Emit(<<Ended(t), Terminal(t)>>) /\ post' = post
    BY <1>8 DEF ProviderEnds
  <2>2. Due' = Due \cup {Ended(t), Terminal(t)}
    BY <2>1, Emits, EventFacts, Ranges
  <2>3. /\ UNCHANGED <<session, queue, streams, me, applied>> /\ Working /\ run[t] # "none"
        /\ active' = active \ {t} /\ \A u \in Turns : u # t => run'[u] = run[u]
    BY <1>0, <1>8 DEF ProviderEnds
  <2>4. Closes(t)' /\ \A u \in Turns : (Closes(u) => Closes(u)') /\ (Awaited(u) => Awaited(u)')
    BY <2>2, <2>3 DEF Closes, Awaited
  <2> QED  BY <1>0, <2>3, <2>4 DEF Accounted
<1>9. ASSUME NEW g \in Gateways, GatewayStart(g), UNCHANGED api PROVE Accounted'
  <2>1. session' # me'
    BY <1>0, <1>9 DEF GatewayStart, Sessions
  <2> QED  BY <2>1 DEF Accounted
<1>10. CASE UNCHANGED vars
  BY <1>10 DEF vars, Accounted, Awaited, Closes, Due, Working
<1> QED  BY <1>2, <1>3, <1>4, <1>5, <1>6, <1>7, <1>8, <1>9, <1>10, AccountedControl, AccountedDispatch DEF Next, GatewayStep, Advance

--------------------------------------------------------------------------------
(* The invariant of the turns *)

PlaneInv ==
  /\ SessionInv
  /\ Unstarted /\ Dispatching /\ Truthful /\ LiveTurnsBegan
  /\ Aligned /\ AnsweredOnce /\ Accounted /\ Separate

LEMMA PlaneInit == Init => PlaneInv
<1> SUFFICES ASSUME Init PROVE PlaneInv
  OBVIOUS
<1>0. SessionInv
  BY SessionInit
<1>1. /\ phase = "off" /\ batch = {} /\ step = "none" /\ active = {} /\ applied = {} /\ queue = {} /\ streams = {}
      /\ authority = Nothing /\ running = Nothing /\ poll.commands = {} /\ outbox = <<>>
      /\ \A t \in Turns : run[t] = "none"
  BY RequestFacts DEF Init, GatewayInit, ControlInit
<1>2. ~Working /\ Kept = {}
  BY <1>1, Ranges DEF Working, Kept
<1>3. Unstarted /\ Dispatching /\ LiveTurnsBegan
  BY <1>1, <1>2 DEF Unstarted, Coming, Dispatching, Alive, LiveTurnsBegan
<1>4. Truthful /\ AnsweredOnce /\ Accounted /\ Separate
  BY <1>1, <1>2 DEF Truthful, AnsweredOnce, Accounted, Separate
<1>5. Aligned
  BY <1>1, WireAssumption DEF Aligned, Nothing
<1> QED  BY <1>0, <1>3, <1>4, <1>5 DEF PlaneInv

LEMMA PlaneNext == PlaneInv /\ [Next]_vars => PlaneInv'
<1> SUFFICES ASSUME PlaneInv, [Next]_vars PROVE PlaneInv'
  OBVIOUS
<1>1. /\ TypeOK /\ Sessions /\ Requests /\ Counted /\ Numbers
      /\ Unstarted /\ Dispatching /\ Truthful /\ LiveTurnsBegan /\ Aligned /\ AnsweredOnce /\ Accounted /\ Separate
  BY DEF PlaneInv, SessionInv
<1>2. SessionInv' /\ TypeOK'
  BY SessionNext DEF PlaneInv, SessionInv
<1>3. Unstarted' /\ Dispatching' /\ Truthful'
  BY ONLY <1>1, [Next]_vars, UnstartedNext, DispatchingNext, TruthfulNext
<1>4. LiveTurnsBegan' /\ Aligned'
  BY ONLY <1>1, [Next]_vars, LiveTurnsBeganNext, AlignedNext
<1>5. AnsweredOnce' /\ Accounted' /\ Separate'
  BY ONLY <1>1, <1>2, [Next]_vars, AnsweredNext, AccountedNext, SeparateNext
<1> QED  BY <1>2, <1>3, <1>4, <1>5 DEF PlaneInv

(* Everything the theorems below rest on holds in every reachable state:   *)
(* how far a start is, what the outbox says, what has been answered, what  *)
(* is still owed to the API, and what belongs to a former process of it.   *)
THEOREM PlaneInvariant == Spec => []PlaneInv
BY PlaneInit, PlaneNext, PTL DEF Spec

(* A turn the API streams is the one with the authority and the running    *)
(* one of its conversation, whatever is answered late, twice or never.     *)
THEOREM TurnMapsAgree == Spec => []Aligned
<1>1. PlaneInv => Aligned
  BY DEF PlaneInv
<1> QED  BY <1>1, PlaneInvariant, PTL

(* Nothing the API keeps open in the session of the running gateway waits  *)
(* in vain: it is to be dispatched, or live, or its end is on the way.     *)
THEOREM NoStreamIsForgotten == Spec => []StartedTurnIsAccountedFor
<1>1. PlaneInv => StartedTurnIsAccountedFor
  <2> SUFFICES ASSUME PlaneInv, me # None, session = me, phase # "closing", NEW t \in streams
               PROVE  (Start(t) \in queue \ applied) \/ t \in active \/ Closing(t)
    BY DEF StartedTurnIsAccountedFor
  <2>1. Working /\ Due \subseteq Kept
    BY KeptOrPosted DEF PlaneInv, SessionInv, Sessions, Working
  <2>2. Closes(t) => Closing(t)
    BY <2>1 DEF Closes, Closing, Kept, Range
  <2> QED  BY <2>1, <2>2 DEF PlaneInv, Accounted, Awaited
<1> QED  BY <1>1, PlaneInvariant, PTL

(* The gateway works on a command of an API process only when it has       *)
(* stopped every turn of the processes before it.                          *)
THEOREM FormerTurnsAreStoppedFirst == Spec => []ForgottenBeforeNew
<1>1. PlaneInv => ForgottenBeforeNew
  <2> SUFFICES ASSUME PlaneInv, NEW c \in batch, no[c] > since, NEW t \in active PROVE no[Start(t)] > since
    BY DEF ForgottenBeforeNew
  <2>1. Working /\ ~Registering
    BY RequestFacts DEF PlaneInv, SessionInv, Sessions, Working, Registering
  <2>2. session = me
    BY <2>1 DEF PlaneInv, Separate, Recent
  <2> QED  BY <2>1, <2>2 DEF PlaneInv, Separate, Recent
<1> QED  BY <1>1, PlaneInvariant, PTL

(* A command that was dispatched is never delivered to the dispatcher      *)
(* again, though the API repeats it until it is acknowledged.              *)
THEOREM CommandsAreDispatchedOnce == Spec => DispatchedOnce
<1>1. PlaneInv /\ [Next]_vars => [\A c \in batch' \ batch : c \notin applied]_vars
  <2> SUFFICES ASSUME PlaneInv, Next, NEW c \in batch' \ batch PROVE c \notin applied
    OBVIOUS
  <2>1. CASE GatewayStep /\ UNCHANGED api
    BY <2>1, GatewayFrames DEF PlaneInv, SessionInv, AnsweredOnce
  <2>2. CASE ControlStep /\ UNCHANGED gateway
    BY <2>2 DEF gateway, dispatching
  <2> QED  BY <2>1, <2>2 DEF Next
<1> QED  BY <1>1, PlaneInvariant, PTL DEF Spec, DispatchedOnce

--------------------------------------------------------------------------------
(* The contract of the turns *)

LEMMA Images ==
  /\ \A t \in Turns : ToldOf(t) \in Contract!Told /\ RanOf(t) \in Contract!Ran
  /\ \A t \in Turns : (ToldOf(t) \in {"starting", "live"} <=> no[Start(t)] # 0 /\ t \in streams)
  /\ \A t \in Turns : (ToldOf(t) = "new" <=> no[Start(t)] = 0)
  /\ \A t \in Turns : (RanOf(t) = "no" <=> run[t] = "none") /\ (RanOf(t) = "done" <=> run[t] = "over")
BY DEF ToldOf, RanOf, Contract!Told, Contract!Ran

LEMMA AskMaps ==
  ASSUME PlaneInv, NEW t \in Turns, StartTurn(t), UNCHANGED gateway PROVE Contract!Ask(t)
<1>1. /\ no[Start(t)] = 0 /\ no \in [Commands -> Nat] /\ issued \in Nat /\ issued' = issued + 1
      /\ no' = [no EXCEPT ![Start(t)] = issued'] /\ streams' = streams \cup {t} /\ pending' = pending \cup {Start(t)}
      /\ authority[ConversationOf[t]] = None /\ streams \subseteq Turns
  BY DEF StartTurn, Enqueue, PlaneInv, SessionInv, TypeOK, ControlTypeOK
<1>2. ToldOf(t) = "new" /\ ToldOf(t)' = "starting"
  <2>1. no'[Start(t)] # 0
    BY <1>1, CommandFacts
  <2> QED  BY <1>1, <2>1 DEF ToldOf
<1>3. \A u \in Turns : u # t => ToldOf(u)' = ToldOf(u)
  BY <1>1, CommandFacts DEF ToldOf
<1>4. \A u \in Contract!Others(t) : ToldOf(u) \notin {"starting", "live"}
  <2>1. \A u \in Turns : ConversationOf[u] = ConversationOf[t] => u \notin streams
    BY <1>1, CommandFacts, WireAssumption DEF PlaneInv, Aligned
  <2> QED  BY <2>1, Images DEF Contract!Others
<1>5. \A u \in Turns : RanOf(u)' = RanOf(u)
  BY DEF RanOf, gateway
<1>6. \A u \in Contract!Others(t) : u \in Turns
  BY DEF Contract!Others
<1> QED  BY <1>2, <1>3, <1>4, <1>5, <1>6 DEF Contract!Ask

LEMMA BeginMaps ==
  ASSUME PlaneInv, NEW t \in Turns, IsNext(Start(t)), Launched(t), UNCHANGED api PROVE Contract!Begin(t)
<1>1. /\ run \in [Turns -> Runs] /\ run[t] = "none" /\ run' = [run EXCEPT ![t] = "running"]
      /\ t \in active /\ no[Start(t)] # 0 /\ phase = "dispatching"
  BY DEF Launched, At, PlaneInv, Dispatching, SessionInv, TypeOK, GatewayTypeOK, Numbers
<1>2. RanOf(t) = "no" /\ RanOf(t)' = "yes" /\ \A u \in Turns : u # t => RanOf(u)' = RanOf(u)
  BY <1>1 DEF RanOf
<1>3. \A u \in Contract!Others(t) : u \in Turns /\ RanOf(u) # "yes"
  <2>1. \A u \in Turns : u # t /\ ConversationOf[u] = ConversationOf[t] => ~Alive(u)
    BY <1>1 DEF PlaneInv, Dispatching
  <2> QED  BY <1>1, <2>1 DEF Contract!Others, RanOf, Alive, Runs
<1>4. ToldOf(t) # "new"
  BY <1>1, Images
<1>5. \A u \in Turns : ToldOf(u)' = ToldOf(u)
  BY DEF ToldOf, api, ledger, live
<1> QED  BY <1>2, <1>3, <1>4, <1>5 DEF Contract!Begin

(* Whatever else the gateway does only ends providers. *)
LEMMA EndMaps ==
  ASSUME PlaneInv, GatewayStep, UNCHANGED api, \A t \in Turns : ~(IsNext(Start(t)) /\ Launched(t))
  PROVE  Contract!Next
<1>1. run \in [Turns -> Runs] /\ \A t \in active : run[t] # "none" \/ step # "none"
  BY DEF PlaneInv, SessionInv, TypeOK, GatewayTypeOK, Dispatching, Alive
<1> DEFINE G == \A t \in Turns : /\ run'[t] = "none" <=> run[t] = "none"
                                 /\ run[t] = "over" => run'[t] = "over"
<1>2. ASSUME run' = run PROVE G
  BY <1>2
<1>3. ASSUME Reset PROVE G
  <2>1. \A t \in active : Alive(t)
    BY <1>3 DEF Reset, PlaneInv, SessionInv, Sessions, Dispatching
  <2> QED  BY <1>3, <2>1 DEF Reset, Alive
<1>4. ASSUME Exit PROVE G
  BY <1>4 DEF Exit
<1>5. ASSUME NEW t \in Turns, ProviderEnds(t) PROVE G
  BY <1>1, <1>5 DEF ProviderEnds
<1>6. ASSUME NEW t \in Turns, Interrupted(t) PROVE G
  BY <1>1, <1>6 DEF Interrupted
<1>7. ASSUME SendPost(up) \/ SendPoll(up) \/ PollFails \/ TakePoll \/ ResetDone \/ PostAccepted \/ Recover(up) \/ CannotRead PROVE G
  BY <1>2, <1>7 DEF SendPost, SendPoll, PollFails, TakePoll, ResetDone, PostAccepted, Recover, CannotRead, gateway
<1>8. ASSUME GiveUp \/ Overflow \/ Lose \/ \E g \in Gateways : GatewayStart(g) PROVE G
  BY <1>2, <1>8 DEF GiveUp, Overflow, Lose, Close, GatewayStart
<1>9. ASSUME Dispatch PROVE G
  <2> HIDE DEF G
  <2>1. \/ \E t \in Turns : IsNext(Start(t)) /\ Launched(t)
        \/ \E t \in Turns : Interrupted(t)
        \/ run' = run
    BY <1>9 DEF Dispatch, SkipApplied, RefuseStart, Launch, LaunchFails, StartDone, RefuseInterrupt, BeginInterrupt,
         InterruptFails, RemoveConversation
  <2> QED  BY <1>2, <1>6, <2>1
<1>10. G
  <2> HIDE DEF G
  <2> QED  BY <1>3, <1>4, <1>5, <1>7, <1>8, <1>9 DEF GatewayStep, Advance
<1>11. PICK turns \in SUBSET Turns : turns = {t \in Turns : RanOf(t) = "yes" /\ RanOf(t)' = "done"}
  OBVIOUS
<1>12. \A t \in Turns : RanOf(t)' = IF t \in turns THEN "done" ELSE RanOf(t)
  BY <1>10, <1>11 DEF RanOf
<1>13. \A t \in Turns : ToldOf(t)' = ToldOf(t)
  BY DEF ToldOf, api, ledger, live
<1>14. Contract!End(turns)
  BY <1>11, <1>12, <1>13 DEF Contract!End
<1> QED  BY <1>14 DEF Contract!Next

(* Whatever else the API does tells of turns that began or failed, or      *)
(* forgets all of them.                                                    *)
LEMMA LearnMaps ==
  ASSUME PlaneInv, PlaneInv', ControlStep, UNCHANGED gateway, \A t \in Turns : ~StartTurn(t)
  PROVE  Contract!Next
<1> USE DEF ledger, live
<1>0. /\ no \in [Commands -> Nat] /\ issued \in Nat /\ streams \subseteq Turns /\ streams' \subseteq Turns
      /\ \A t \in Turns : t \in streams => no[Start(t)] # 0
  BY DEF PlaneInv, SessionInv, TypeOK, ControlTypeOK, Numbers
<1>1. \A t \in Turns : RanOf(t)' = RanOf(t)
  BY DEF RanOf, gateway
<1>2. CASE Claim \/ NoticeAbort \/ ApiCrash
  <2>1. streams' = {} /\ no' = no
    BY <1>2 DEF Claim, NoticeAbort, ApiCrash, Clear
  <2>2. \A t \in Turns : ToldOf(t)' = IF ToldOf(t) \in {"starting", "live"} THEN "over" ELSE ToldOf(t)
    BY <1>0, <2>1 DEF ToldOf
  <2>3. Contract!Forget
    BY <1>1, <2>2 DEF Contract!Forget
  <2> QED  BY <2>3 DEF Contract!Next
<1>3. ASSUME \A t \in Turns : no'[Start(t)] = no[Start(t)], streams' \subseteq streams,
             \A t \in Turns : Start(t) \in pending' => Start(t) \in pending,
             \A t \in streams \ streams' : Start(t) \in pending \/ run[t] = "over"
      PROVE  Contract!Next
  <2>1. PICK begun, over \in SUBSET Turns :
            /\ begun = {t \in Turns : ToldOf(t) = "starting" /\ ToldOf(t)' = "live"}
            /\ over = {t \in Turns : ToldOf(t) \in {"starting", "live"} /\ ToldOf(t)' = "over"}
    OBVIOUS
  <2>2. ASSUME NEW t \in begun PROVE t \in Turns /\ ToldOf(t) = "starting" /\ RanOf(t) # "no"
    <3>1. t \in Turns /\ ToldOf(t) = "starting" /\ t \in streams' /\ Start(t) \notin pending'
      BY <2>1 DEF ToldOf
    <3>2. run'[t] # "none"
      BY <3>1 DEF PlaneInv, LiveTurnsBegan
    <3> QED  BY <3>1, <3>2 DEF gateway, RanOf
  <2>3. ASSUME NEW t \in over
        PROVE  t \in Turns /\ (ToldOf(t) = "starting" \/ (ToldOf(t) = "live" /\ RanOf(t) = "done"))
    <3>1. t \in Turns /\ t \in streams \ streams' /\ no[Start(t)] # 0
      BY <1>3, <2>1 DEF ToldOf
    <3> QED  BY <1>3, <3>1 DEF ToldOf, RanOf
  <2>4. \A t \in Turns : ToldOf(t)' = IF t \in over THEN "over" ELSE IF t \in begun THEN "live" ELSE ToldOf(t)
    BY <1>0, <1>3, <2>1 DEF ToldOf
  <2>5. Contract!Learn(begun, over)
    BY <1>1, <2>2, <2>3, <2>4 DEF Contract!Learn
  <2> QED  BY <2>5 DEF Contract!Next
<1>4. ASSUME NEW c \in Commands, c \notin Starts, Enqueue(c), streams' = streams PROVE Contract!Next
  <2>1. \A t \in Turns : Start(t) # c /\ Start(t) \in Commands
    BY <1>4, CommandFacts DEF Starts
  <2> QED  BY <1>0, <1>3, <1>4, <2>1 DEF Enqueue
<1>5. CASE Users
  <2>1. ASSUME NEW t \in Turns, StopTurn(t) PROVE Contract!Next
    <3>1. Enqueue(Interrupt(t)) /\ streams' = streams
      BY <2>1 DEF StopTurn
    <3>2. Interrupt(t) \in Commands /\ Interrupt(t) \notin Starts
      BY CommandFacts DEF Starts
    <3> QED  BY <1>4, <3>1, <3>2
  <2>2. ASSUME NEW d \in Conversations, DeleteConversation(d) PROVE Contract!Next
    <3>1. Enqueue(Delete(d)) /\ streams' = streams
      BY <2>2 DEF DeleteConversation
    <3>2. Delete(d) \in Commands /\ Delete(d) \notin Starts
      BY CommandFacts DEF Starts
    <3> QED  BY <1>4, <3>1, <3>2
  <2> QED  BY <1>5, <2>1, <2>2 DEF Users
<1>6. CASE Poll \/ PollWaitEnds \/ ApiStart
  BY <1>3, <1>6 DEF Poll, PollWaitEnds, ApiStart
<1>7. ASSUME NEW c \in Commands, Timeout(c) PROVE Contract!Next
  <2>1. /\ no' = no /\ streams' \subseteq streams /\ pending' \subseteq pending
        /\ \A t \in streams \ streams' : Start(t) \in pending
    BY <1>7 DEF Timeout
  <2> QED  BY <1>3, <2>1
<1>8. CASE HandleBatch
  <2>1. CASE UNCHANGED live
    <3>1. no' = no
      BY <1>8 DEF HandleBatch
    <3> QED  BY <1>3, <2>1, <3>1
  <2>2. CASE Apply(post.events) /\ post.at = "sent"
    <3>1. no' = no /\ streams' \subseteq streams /\ pending' \subseteq pending
      BY <1>8, <2>2 DEF HandleBatch, Apply
    <3>2. ASSUME NEW t \in streams \ streams', Start(t) \notin pending PROVE run[t] = "over"
      <4>1. t \in Closed(post.events) /\ t \in Turns
        BY <1>0, <2>2, <3>2 DEF Apply
      <4>2. Ended(t) \in Kept \/ Terminal(t) \in Kept
        BY <2>2, <4>1, KeptOrPosted DEF Closed, PlaneInv, SessionInv
      <4> QED  BY <4>1, <4>2 DEF PlaneInv, Truthful
    <3> QED  BY <1>3, <3>1, <3>2
  <2> QED  BY <1>8, <2>1, <2>2 DEF HandleBatch
<1> QED  BY <1>2, <1>5, <1>6, <1>7, <1>8 DEF ControlStep, Receive

(* The control plane keeps the contract of its turns: asked for once,      *)
(* alone in its conversation, and told over only when it is, unless all of *)
(* the session is lost.                                                    *)
THEOREM TurnContractIsImplemented == Spec => ImplementsContract
<1>1. Init => Contract!Init
  <2> SUFFICES ASSUME Init PROVE Contract!Init
    OBVIOUS
  <2>1. \A t \in Turns : ToldOf(t) = "new" /\ RanOf(t) = "no"
    BY CommandFacts DEF Init, ControlInit, GatewayInit, ToldOf, RanOf
  <2> QED  BY <2>1 DEF Contract!Init
<1>2. PlaneInv /\ PlaneInv' /\ Next => Contract!Next
  <2> SUFFICES ASSUME PlaneInv, PlaneInv', Next PROVE Contract!Next
    OBVIOUS
  <2>1. CASE ControlStep /\ UNCHANGED gateway
    <3>1. ASSUME NEW t \in Turns, StartTurn(t) PROVE Contract!Next
      BY <2>1, <3>1, AskMaps DEF Contract!Next
    <3> QED  BY <2>1, <3>1, LearnMaps
  <2>2. CASE GatewayStep /\ UNCHANGED api
    <3>1. ASSUME NEW t \in Turns, IsNext(Start(t)) /\ Launched(t) PROVE Contract!Next
      BY <2>2, <3>1, BeginMaps DEF Contract!Next
    <3> QED  BY <2>2, <3>1, EndMaps
  <2> QED  BY <2>1, <2>2 DEF Next
<1>3. UNCHANGED vars => UNCHANGED <<[t \in Turns |-> ToldOf(t)], [t \in Turns |-> RanOf(t)]>>
  BY DEF vars, api, ledger, live, gateway, ToldOf, RanOf
<1>4. PlaneInv /\ PlaneInv' /\ [Next]_vars => [Contract!Next]_<<[t \in Turns |-> ToldOf(t)], [t \in Turns |-> RanOf(t)]>>
  BY <1>2, <1>3
<1> QED  BY <1>1, <1>4, PlaneInvariant, PTL DEF Spec, ImplementsContract, Contract!Spec


(* The contract alone is enough for a conversation: whoever keeps it runs   *)
(* one turn at a time, and reports none live that never ran.                *)
THEOREM ContractIsEnough == ImplementsContract => []Contract!Promise
<1> DEFINE tr == <<[t \in Turns |-> ToldOf(t)], [t \in Turns |-> RanOf(t)]>>
<1>1. Contract!Init => Contract!Promise BY DEF Contract!Init, Contract!Promise
<1>2. Contract!Promise /\ [Contract!Next]_tr => Contract!Promise'
  <2> SUFFICES ASSUME Contract!Promise, Contract!Next \/ UNCHANGED tr PROVE Contract!Promise'
    OBVIOUS
  <2>1. ASSUME NEW t \in Turns, Contract!Ask(t) PROVE Contract!Promise'
    <3>1. \A u \in Turns : ToldOf(u)' = (IF u = t THEN "starting" ELSE ToldOf(u)) /\ RanOf(u)' = RanOf(u)
      BY <2>1 DEF Contract!Ask
    <3>2. ToldOf(t) = "new" /\ \A u \in Contract!Others(t) : ToldOf(u) \notin {"starting", "live"}
      BY <2>1 DEF Contract!Ask, Contract!Others
    <3> QED BY <3>1, <3>2 DEF Contract!Others, Contract!Promise
  <2>2. ASSUME NEW t \in Turns, Contract!Begin(t) PROVE Contract!Promise'
    <3>1. \A u \in Turns : RanOf(u)' = (IF u = t THEN "yes" ELSE RanOf(u)) /\ ToldOf(u)' = ToldOf(u)
      BY <2>2 DEF Contract!Begin
    <3>2. ToldOf(t) # "new" /\ RanOf(t) = "no" /\ \A u \in Contract!Others(t) : RanOf(u) # "yes"
      BY <2>2 DEF Contract!Begin, Contract!Others
    <3> QED BY <3>1, <3>2 DEF Contract!Others, Contract!Promise
  <2>3. ASSUME NEW turns \in SUBSET Turns, Contract!End(turns) PROVE Contract!Promise'
    <3>1. \A t \in Turns : /\ RanOf(t)' = (IF t \in turns THEN "done" ELSE RanOf(t))
                          /\ ToldOf(t)' = ToldOf(t)
      BY <2>3 DEF Contract!End
    <3>2. \A t \in turns : RanOf(t) = "yes" BY <2>3 DEF Contract!End
    <3> QED BY <3>1, <3>2 DEF Contract!Others, Contract!Promise
  <2>4. ASSUME NEW begun \in SUBSET Turns, NEW over \in SUBSET Turns, Contract!Learn(begun, over)
        PROVE  Contract!Promise'
    <3>1. \A t \in Turns : /\ ToldOf(t)' = (IF t \in over THEN "over" ELSE IF t \in begun THEN "live"
                                           ELSE ToldOf(t))
                          /\ RanOf(t)' = RanOf(t)
      BY <2>4 DEF Contract!Learn
    <3>2. \A t \in begun : ToldOf(t) = "starting" /\ RanOf(t) # "no"
      BY <2>4 DEF Contract!Learn
    <3>3. \A t \in over : ToldOf(t) \in {"starting", "live"} BY <2>4 DEF Contract!Learn
    <3> QED BY <3>1, <3>2, <3>3 DEF Contract!Others, Contract!Promise
  <2>5. CASE Contract!Forget BY <2>5 DEF Contract!Forget, Contract!Others, Contract!Promise
  <2>6. CASE UNCHANGED tr BY <2>6 DEF Contract!Others, Contract!Promise
  <2> QED BY <2>1, <2>2, <2>3, <2>4, <2>5, <2>6 DEF Contract!Next
<1> QED BY <1>1, <1>2, PTL DEF ImplementsContract, Contract!Spec
================================================================================
