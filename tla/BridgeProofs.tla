---------------------------- MODULE BridgeProofs ----------------------------
(***************************************************************************)
(* Proofs about BridgeMessages, for every set of messages, any number of   *)
(* copies and whatever may go wrong.                                       *)
(***************************************************************************)
EXTENDS BridgeMessages, TLAPS

-----------------------------------------------------------------------------
(* At most once                                                            *)

\* What marks are worth while they stay: a frame that has been forwarded is
\* marked, and it is the only one of its id.
Marks ==
  /\ \A f \in Frame : event[f] # "none" => Id(f) \in marked \cup forgotten
  /\ \A f, g \in Frame :
       f # g /\ Id(f) = Id(g) /\ event[f] # "none" /\ event[g] # "none"
         => Id(f) \in forgotten

\* The shape of event is all that the argument needs of TypeOK.
OnceInv == event \in [Frame -> EventState] /\ Marks

\* Initially nothing has been forwarded.
LEMMA OnceInit == Init => OnceInv
  BY DEF Init, OnceInv, Marks, EventState

\* A step that forwards no frame keeps Marks if each mark is still there or was.
LEMMA SameForwarded ==
  ASSUME OnceInv, event' \in [Frame -> EventState], text' = text,
         marked \cup forgotten \subseteq marked' \cup forgotten',
         forgotten \subseteq forgotten',
         \A f \in Frame : event'[f] # "none" => event[f] # "none"
  PROVE  OnceInv'
  BY DEF OnceInv, Marks, Id, MessageId

\* A frame that is forwarded has an id that is not marked: any other of that id
\* was forwarded under a mark that has been forgotten.
LEMMA OnceReceive == ASSUME OnceInv, NEW h \in Frame, ReceiveFrame(h) PROVE OnceInv'
  <1>1. text' = text /\ forgotten' = forgotten
    BY DEF ReceiveFrame
  <1>2. CASE Id(h) \in marked
    BY <1>1, <1>2, SameForwarded DEF ReceiveFrame, OnceInv
  <1>3. CASE Id(h) \notin marked
    <2>1. /\ marked' = marked \cup {Id(h)}
          /\ event' = [event EXCEPT ![h] = "posted"]
      BY <1>3 DEF ReceiveFrame
    <2>2. event' \in [Frame -> EventState]
      BY <2>1 DEF OnceInv, EventState
    <2>3. ASSUME NEW f \in Frame, event'[f] # "none"
          PROVE  Id(f) \in marked' \cup forgotten
      BY <2>1, <2>3 DEF OnceInv, Marks
    <2>4. ASSUME NEW f \in Frame, NEW g \in Frame, f # g, Id(f) = Id(g),
                 event'[f] # "none", event'[g] # "none"
          PROVE  Id(f) \in forgotten
      BY <1>3, <2>1, <2>4 DEF OnceInv, Marks
    <2> QED BY <1>1, <2>2, <2>3, <2>4 DEF OnceInv, Marks, Id, MessageId
  <1> QED BY <1>2, <1>3

\* The server and the network change only posts that were made.
LEMMA OnceServer ==
  ASSUME OnceInv, NEW h \in Frame, ServerTakes(h) \/ ServerEnds(h) \/ LoseRequest(h)
  PROVE  OnceInv'
  <1>1. /\ event' \in [Frame -> EventState]
        /\ text' = text /\ marked' = marked /\ forgotten' = forgotten
        /\ \A f \in Frame : event'[f] # "none" => event[f] # "none"
    BY DEF OnceInv, ServerTakes, ServerEnds, LoseRequest, EventState, Result
  <1> QED BY <1>1, SameForwarded

LEMMA OnceNext == OnceInv /\ [Next]_vars => OnceInv'
  <1> SUFFICES ASSUME OnceInv, [Next]_vars PROVE OnceInv'
    OBVIOUS
  <1>1. ASSUME NEW f \in Frame, ReceiveFrame(f) PROVE OnceInv'
    BY <1>1, OnceReceive
  <1>2. ASSUME NEW f \in Frame, Coroutine(f) PROVE OnceInv'
    <2>1. event' = event /\ text' = text /\ marked' = marked /\ forgotten' = forgotten
      BY <1>2 DEF Coroutine, ForwardReturns, ForwardRaises, SendReturns, SendRaises,
                  StartProjectRun, RunEnds
    <2> QED BY <2>1, SameForwarded DEF OnceInv
  <1>3. ASSUME NEW f \in Frame, ServerTakes(f) \/ ServerEnds(f) \/ LoseRequest(f)
        PROVE  OnceInv'
    BY <1>3, OnceServer
  <1>4. ASSUME NEW f \in Frame, Expire(Id(f)) PROVE OnceInv'
    BY <1>4, SameForwarded DEF Expire, OnceInv
  <1>5. CASE RestartBridge
    BY <1>5, SameForwarded DEF RestartBridge, OnceInv
  <1>6. CASE UNCHANGED vars
    BY <1>6, SameForwarded DEF vars, OnceInv
  <1> QED BY <1>1, <1>2, <1>3, <1>4, <1>5, <1>6 DEF Next

\* The server takes up one frame of a message, as long as its mark stays: seen
\* and mark come before the forward and no await between them (app.py).
THEOREM HandledOnceHolds == Spec => []HandledOnce
  <1>1. OnceInv => HandledOnce
    BY DEF OnceInv, Marks, HandledOnce, TakenUp
  <1> QED BY <1>1, OnceInit, OnceNext, PTL DEF Spec

-----------------------------------------------------------------------------
(* The second run comes after the first                                    *)

\* The event has started a project, and a reply there was has been sent.
Replied(f) == (event[f] = "start" /\ text[f] \in answered) \/ event[f] = "start_silent"

\* A coroutine that is going to run a project knows how the event ended.
RunInv ==
  /\ event \in [Frame -> EventState]
  /\ handler \in [Frame -> HandlerState]
  /\ run \in [Frame -> RunState]
  /\ \A f \in Frame :
       /\ event[f] # "none" => handler[f] # "none"
       /\ handler[f] \notin {"none", "done", "dead"} => event[f] # "none"
       /\ handler[f] = "start_reply" => event[f] = "start"
       /\ handler[f] = "starting" \/ run[f] # "none" => Replied(f)

LEMMA RunInit == Init => RunInv
  BY DEF Init, RunInv, Replied, EventState, HandlerState, RunState

\* A frame is received once, before anything is posted for it.
LEMMA RunReceive == ASSUME RunInv, NEW h \in Frame, ReceiveFrame(h) PROVE RunInv'
  <1>1. /\ event' \in [Frame -> EventState]
        /\ handler' \in [Frame -> HandlerState]
        /\ run' = run /\ answered' = answered /\ text' = text
    BY DEF ReceiveFrame, At, RunInv, EventState, HandlerState
  <1>2. ASSUME NEW f \in Frame, f # h
        PROVE  event'[f] = event[f] /\ handler'[f] = handler[f]
    BY <1>2 DEF ReceiveFrame, At, RunInv
  <1>3. /\ event[h] = "none" /\ run[h] = "none"
        /\ handler'[h] = "done" \/ (handler'[h] = "forwarding" /\ event'[h] # "none")
    BY DEF ReceiveFrame, At, RunInv, Replied
  <1> QED BY <1>1, <1>2, <1>3 DEF RunInv, Replied

\* The coroutine starts a run only where ForwardReturns and SendReturns lead it.
LEMMA RunCoroutine == ASSUME RunInv, NEW h \in Frame, Coroutine(h) PROVE RunInv'
  <1>1. CASE ForwardReturns(h)
    BY <1>1 DEF ForwardReturns, At, RunInv, Replied, HandlerState
  <1>2. CASE ForwardRaises(h)
    BY <1>2 DEF ForwardRaises, At, RunInv, Replied, HandlerState
  <1>3. CASE SendReturns(h)
    BY <1>3 DEF SendReturns, At, RunInv, Replied, HandlerState
  <1>4. CASE SendRaises(h)
    BY <1>4 DEF SendRaises, At, RunInv, Replied, HandlerState
  <1>5. CASE StartProjectRun(h)
    BY <1>5 DEF StartProjectRun, RunInv, Replied, RunState
  <1>6. CASE RunEnds(h)
    BY <1>6 DEF RunEnds, At, RunInv, Replied, HandlerState
  <1> QED BY <1>1, <1>2, <1>3, <1>4, <1>5, <1>6 DEF Coroutine

\* What the server has answered stays answered.
LEMMA RunServer ==
  ASSUME RunInv, NEW h \in Frame, ServerTakes(h) \/ ServerEnds(h) \/ LoseRequest(h)
  PROVE  RunInv'
  <1>1. CASE ServerTakes(h)
    BY <1>1 DEF ServerTakes, RunInv, Replied, EventState, RunState
  <1>2. CASE ServerEnds(h)
    BY <1>2 DEF ServerEnds, RunInv, Replied, EventState, RunState, Result
  <1>3. CASE LoseRequest(h)
    BY <1>3 DEF LoseRequest, RunInv, Replied, EventState, RunState
  <1> QED BY <1>1, <1>2, <1>3

LEMMA RunNext == RunInv /\ [Next]_vars => RunInv'
  <1> SUFFICES ASSUME RunInv, [Next]_vars PROVE RunInv'
    OBVIOUS
  <1>1. ASSUME NEW f \in Frame, ReceiveFrame(f) PROVE RunInv'
    BY <1>1, RunReceive
  <1>2. ASSUME NEW f \in Frame, Coroutine(f) PROVE RunInv'
    BY <1>2, RunCoroutine
  <1>3. ASSUME NEW f \in Frame, ServerTakes(f) \/ ServerEnds(f) \/ LoseRequest(f)
        PROVE  RunInv'
    BY <1>3, RunServer
  <1>4. ASSUME NEW f \in Frame, Expire(Id(f)) PROVE RunInv'
    BY <1>4 DEF Expire, RunInv, Replied
  <1>5. CASE RestartBridge
    BY <1>5 DEF RestartBridge, RunInv, Replied, HandlerState
  <1>6. CASE UNCHANGED vars
    BY <1>6 DEF vars, RunInv, Replied
  <1> QED BY <1>1, <1>2, <1>3, <1>4, <1>5, <1>6 DEF Next

\* The run that the bridge asks for comes after handle_message has ended and
\* after the reply, whatever times out, is lost, expires or is restarted.
THEOREM RunAfterReplyHolds == Spec => []RunAfterReply
  <1>1. RunInv => RunAfterReply
    BY DEF RunInv, Replied, RunAfterReply
  <1> QED BY <1>1, RunInit, RunNext, PTL DEF Spec

-----------------------------------------------------------------------------
(* Nobody is met with silence                                              *)

Heard(f) == text[f] \in answered \/ event[f] \in {"chat_silent", "start_silent"}

\* A frame of the id has been forwarded.
Forwarded(id) == \E g \in Frame : Id(g) = id /\ event[g] # "none"

\* A frame is dealt with by hearing its sender or as a copy of a forwarded one,
\* and every mark is that of a forwarded frame.
HeardInv ==
  /\ RunInv
  /\ text \in [Frame -> Text]
  /\ \A f \in Frame : handler[f] = "done" =>
       IF event[f] = "none" THEN Forwarded(Id(f)) ELSE Heard(f)
  /\ \A id \in marked : Forwarded(id)

LEMMA HeardInit == Init => HeardInv
  BY RunInit DEF Init, HeardInv

\* What has been forwarded stays so.
LEMMA ForwardedStays ==
  ASSUME text' = text, \A f \in Frame : event[f] # "none" => event'[f] # "none"
  PROVE  \A id : Forwarded(id) => Forwarded(id)'
  BY DEF Forwarded, Id, MessageId

LEMMA HeardReceive == ASSUME HeardInv, NEW h \in Frame, ReceiveFrame(h) PROVE HeardInv'
  <1>1. RunInv' /\ text' = text /\ answered' = answered
    BY RunReceive DEF HeardInv, ReceiveFrame
  <1>2. event[h] = "none"
    BY DEF ReceiveFrame, HeardInv, RunInv
  <1>3. CASE Id(h) \in marked
    BY <1>1, <1>2, <1>3 DEF ReceiveFrame, At, HeardInv, RunInv, Forwarded, Heard, Id, MessageId
  <1>4. CASE Id(h) \notin marked
    <2>1. /\ marked' = marked \cup {Id(h)}
          /\ event' = [event EXCEPT ![h] = "posted"]
          /\ handler' = [handler EXCEPT ![h] = "forwarding"]
      BY <1>4 DEF ReceiveFrame, At
    <2>2. \A id : Forwarded(id) => Forwarded(id)'
      BY <1>1, <2>1, ForwardedStays DEF HeardInv, RunInv
    <2>3. Forwarded(Id(h))'
      BY <1>1, <2>1 DEF Forwarded, Id, MessageId, HeardInv, RunInv
    <2>4. Id(h)' = Id(h) /\ \A f \in Frame : Id(f)' = Id(f)
      BY <1>1 DEF Id, MessageId
    <2>5. \A id \in marked' : Forwarded(id)'
      BY <2>1, <2>2, <2>3, <2>4 DEF HeardInv
    <2>6. ASSUME NEW f \in Frame, handler'[f] = "done"
          PROVE  IF event'[f] = "none" THEN Forwarded(Id(f))' ELSE Heard(f)'
      <3>1. f # h /\ handler[f] = "done" /\ event'[f] = event[f]
        BY <2>1, <2>6 DEF HeardInv, RunInv
      <3> QED BY <1>1, <2>2, <2>4, <3>1 DEF HeardInv, Heard
    <2> QED BY <1>1, <2>5, <2>6 DEF HeardInv
  <1> QED BY <1>3, <1>4

\* A coroutine that has forwarded its frame ends after a send, or where the
\* server had nothing to say.
LEMMA HeardCoroutine == ASSUME HeardInv, NEW h \in Frame, Coroutine(h) PROVE HeardInv'
  <1>1. RunInv' /\ text' = text /\ event' = event /\ marked' = marked
    BY RunCoroutine DEF HeardInv, Coroutine, ForwardReturns, ForwardRaises, SendReturns,
       SendRaises, StartProjectRun, RunEnds
  <1>2. \A id : Forwarded(id)' = Forwarded(id)
    BY <1>1 DEF Forwarded, Id, MessageId
  <1>3. ASSUME NEW f \in Frame, handler'[f] = "done", handler[f] # "done"
        PROVE  Heard(f)' /\ event[f] # "none"
    <2>1. f = h /\ handler[f] \notin {"none", "done", "dead"}
      BY <1>3 DEF Coroutine, ForwardReturns, ForwardRaises, SendReturns, SendRaises,
         StartProjectRun, RunEnds, At, HeardInv, RunInv
    <2>2. event[f] # "none"
      BY <2>1 DEF HeardInv, RunInv
    <2>3. CASE ForwardReturns(h)
      BY <1>1, <1>3, <2>1, <2>3 DEF ForwardReturns, At, HeardInv, RunInv, Heard
    <2>4. CASE SendReturns(h)
      BY <1>1, <2>1, <2>4 DEF SendReturns, HeardInv, RunInv, Heard
    <2>5. CASE RunEnds(h)
      BY <1>1, <2>1, <2>5 DEF RunEnds, HeardInv, RunInv, Replied, Heard
    <2>6. CASE ForwardRaises(h) \/ SendRaises(h) \/ StartProjectRun(h)
      BY <1>3, <2>1, <2>6 DEF ForwardRaises, SendRaises, StartProjectRun, At, HeardInv, RunInv
    <2> QED BY <2>2, <2>3, <2>4, <2>5, <2>6 DEF Coroutine
  <1>4. ASSUME NEW f \in Frame, Heard(f) PROVE Heard(f)'
    BY <1>1, <1>4 DEF Heard, Coroutine, ForwardReturns, ForwardRaises, SendReturns,
       SendRaises, StartProjectRun, RunEnds
  <1>5. \A f \in Frame : Id(f)' = Id(f)
    BY <1>1 DEF Id, MessageId
  <1> QED BY <1>1, <1>2, <1>3, <1>4, <1>5 DEF HeardInv

\* The server and the network move on posts, and nothing else.
LEMMA HeardServer ==
  ASSUME HeardInv, NEW h \in Frame, ServerTakes(h) \/ ServerEnds(h) \/ LoseRequest(h)
  PROVE  HeardInv'
  <1>1. /\ RunInv' /\ text' = text /\ marked' = marked /\ answered' = answered
        /\ handler' = handler
    BY RunServer DEF HeardInv, ServerTakes, ServerEnds, LoseRequest
  <1>2. ASSUME NEW f \in Frame
        PROVE  event'[f] = event[f] \/ (event[f] \in {"posted", "handling"} /\ event'[f] # "none")
    <2>1. CASE ServerTakes(h)
      BY <2>1 DEF ServerTakes, HeardInv, RunInv
    <2>2. CASE ServerEnds(h)
      BY <2>2 DEF ServerEnds, HeardInv, RunInv, Result
    <2>3. CASE LoseRequest(h)
      BY <2>3 DEF LoseRequest, HeardInv, RunInv
    <2> QED BY <2>1, <2>2, <2>3
  <1>3. \A id : Forwarded(id) => Forwarded(id)'
    BY <1>1, <1>2, ForwardedStays
  <1>4. \A f \in Frame : Id(f)' = Id(f)
    BY <1>1 DEF Id, MessageId
  <1>5. ASSUME NEW f \in Frame, handler'[f] = "done"
        PROVE  IF event'[f] = "none" THEN Forwarded(Id(f))' ELSE Heard(f)'
    BY <1>1, <1>2, <1>3, <1>4, <1>5 DEF HeardInv, Heard
  <1> QED BY <1>1, <1>3, <1>5 DEF HeardInv

LEMMA HeardNext == HeardInv /\ [Next]_vars => HeardInv'
  <1> SUFFICES ASSUME HeardInv, [Next]_vars PROVE HeardInv'
    OBVIOUS
  <1>1. ASSUME NEW f \in Frame, ReceiveFrame(f) PROVE HeardInv'
    BY <1>1, HeardReceive
  <1>2. ASSUME NEW f \in Frame, Coroutine(f) PROVE HeardInv'
    BY <1>2, HeardCoroutine
  <1>3. ASSUME NEW f \in Frame, ServerTakes(f) \/ ServerEnds(f) \/ LoseRequest(f)
        PROVE  HeardInv'
    BY <1>3, HeardServer
  <1>4. RunInv'
    BY RunNext DEF HeardInv
  <1>5. ASSUME NEW f \in Frame, Expire(Id(f)) PROVE HeardInv'
    BY <1>4, <1>5 DEF Expire, HeardInv, Forwarded, Heard, Id, MessageId
  <1>6. CASE RestartBridge
    BY <1>4, <1>6 DEF RestartBridge, HeardInv, Forwarded, Heard, Id, MessageId
  <1>7. CASE UNCHANGED vars
    BY <1>4, <1>7 DEF vars, HeardInv, Forwarded, Heard, Id, MessageId
  <1> QED BY <1>1, <1>2, <1>3, <1>5, <1>6, <1>7 DEF Next

\* When the frames of a message with an id have been dealt with, its sender has
\* been sent something, unless the server had nothing to say: every exception of
\* the forward ends in a send (app.py).
THEOREM NobodyIgnoredHolds == Spec => []NobodyIgnored
  <1>1. HeardInv => NobodyIgnored
    <2> SUFFICES ASSUME HeardInv, NEW m \in Text \ Unnamed, NEW f \in Frame, text[f] = m,
                        handler[f] # "none",
                        \A g \in Frame : text[g] = m /\ handler[g] # "none" =>
                                           handler[g] = "done"
                 PROVE  m \in answered \/ \E g \in Frame :
                          text[g] = m /\ handler[g] # "none"
                            /\ event[g] \in {"chat_silent", "start_silent"}
      BY DEF NobodyIgnored
    <2>1. PICK g \in Frame : text[g] = m /\ handler[g] = "done" /\ event[g] # "none"
      <3>1. CASE event[f] # "none"
        BY <3>1
      <3>2. CASE event[f] = "none"
        <4>1. Forwarded(m)
          BY <3>2 DEF HeardInv, Id, MessageId
        <4>2. PICK g \in Frame : Id(g) = m /\ event[g] # "none"
          BY <4>1 DEF Forwarded
        <4>3. text[g] = m
          BY <4>2, BridgeOK DEF Id, MessageId
        <4> QED BY <4>2, <4>3 DEF HeardInv, RunInv
      <3> QED BY <3>1, <3>2
    <2> QED BY <2>1 DEF HeardInv, Heard
  <1> QED BY <1>1, HeardInit, HeardNext, PTL DEF Spec

-----------------------------------------------------------------------------
(* Type correctness                                                        *)

LEMMA TypeInit == Init => TypeOK
  BY DEF Init, TypeOK, HandlerState, EventState, RunState

LEMMA TypeReceive == ASSUME TypeOK, NEW f \in Frame, ReceiveFrame(f) PROVE TypeOK'
  <1>1. Id(f) \in {MessageId(m) : m \in Text}
    BY DEF TypeOK, Id
  <1> QED BY <1>1 DEF ReceiveFrame, At, TypeOK, HandlerState, EventState

LEMMA TypeCoroutine == ASSUME TypeOK, NEW f \in Frame, Coroutine(f) PROVE TypeOK'
  <1> USE DEF At, TypeOK, HandlerState
  <1>1. CASE ForwardReturns(f)
    BY <1>1 DEF ForwardReturns
  <1>2. CASE ForwardRaises(f)
    BY <1>2 DEF ForwardRaises
  <1>3. CASE SendReturns(f)
    BY <1>3 DEF SendReturns
  <1>4. CASE SendRaises(f)
    BY <1>4 DEF SendRaises
  <1>5. CASE StartProjectRun(f)
    BY <1>5 DEF StartProjectRun, RunState
  <1>6. CASE RunEnds(f)
    BY <1>6 DEF RunEnds
  <1> QED BY <1>1, <1>2, <1>3, <1>4, <1>5, <1>6 DEF Coroutine

LEMMA TypeServer ==
  ASSUME TypeOK, NEW f \in Frame, ServerTakes(f) \/ ServerEnds(f) \/ LoseRequest(f)
  PROVE  TypeOK'
  BY DEF ServerTakes, ServerEnds, LoseRequest, TypeOK, EventState, RunState, Result

\* Frames, posts and marks keep their shape through every fault: in particular
\* a mark is always the id under which a frame is looked up (app.py).
THEOREM TypeOKHolds == Spec => []TypeOK
  <1>1. TypeOK /\ [Next]_vars => TypeOK'
    <2> SUFFICES ASSUME TypeOK, [Next]_vars PROVE TypeOK'
      OBVIOUS
    <2>1. ASSUME NEW f \in Frame, Expire(Id(f)) PROVE TypeOK'
      BY <2>1 DEF Expire, TypeOK
    <2>2. CASE RestartBridge
      BY <2>2 DEF RestartBridge, TypeOK, HandlerState
    <2>3. CASE UNCHANGED vars
      BY <2>3 DEF vars, TypeOK
    <2> QED BY <2>1, <2>2, <2>3, TypeReceive, TypeCoroutine, TypeServer DEF Next
  <1> QED BY <1>1, TypeInit, PTL DEF Spec
=============================================================================
