---------------------------- MODULE BridgeMessages ----------------------------
(***************************************************************************)
(* How a message of a WeCom user reaches the server: the WebSocket client  *)
(* (wecom_bot_bridge/client.py) hands each frame to handle_text_message    *)
(* (app.py), a coroutine of its own, which forwards it to the server       *)
(* (opc_client.py), sends the reply, and runs the project if the server    *)
(* has started one.  The server goes on with what the bridge gave up on.   *)
(*                                                                         *)
(* External, from how it is used: WeCom, which may hand over a frame more  *)
(* than once, and its send.  What a message does in the server is          *)
(* WechatMessageService; here it ends in one of a few ways.                *)
(***************************************************************************)
CONSTANTS Frame,    \* the frames that WeCom hands over
          Text,     \* the messages that users send
          Unnamed,  \* those that come in frames without an id
          Fault     \* what may go wrong in a run

FaultKind == {"timeout", "lost_request", "send", "restart", "expiry"}

ASSUME BridgeOK ==
  Unnamed \subseteq Text /\ Fault \subseteq FaultKind /\ "unknown" \notin Text

VARIABLES handler,   \* handle_text_message of each frame
          text,      \* the message of each frame that was handed over
          event,     \* its POST /wechat/events, in the network and the server
          run,       \* its POST /projects/{id}/run
          marked,    \* entries of the message deduplicator
          forgotten, \* history: ids whose entry was there and is not any more
          answered   \* history: messages whose sender has been sent something

vars == <<handler, text, event, run, marked, forgotten, answered>>

\* The message_id of a message; all those that have none share an id.
MessageId(m) == IF m \in Unnamed THEN "unknown" ELSE m

Id(f) == MessageId(text[f])

\* At "reply" .. "fallback" the coroutine awaits send_text.
HandlerState ==
  {"none", "forwarding", "reply", "start_reply", "detail", "fallback", "starting",
   "done", "dead"}

\* How the server ends a message: with a reply or an empty one, with a project
\* it has started or without, with a refusal to show (400, 401), or by raising.
Result == {"chat", "chat_silent", "start", "start_silent", "refused", "failed"}

EventState == {"none", "posted", "lost", "handling"} \cup Result

RunState == {"none", "posted", "lost", "running", "ended"}

Init ==
  /\ handler   = [f \in Frame |-> "none"]
  /\ text      \in [Frame -> Text]
  /\ event     = [f \in Frame |-> "none"]
  /\ run       = [f \in Frame |-> "none"]
  /\ marked    = {}
  /\ forgotten = {}
  /\ answered  = {}

\* The coroutine of f goes on at place.
At(f, place) == handler' = [handler EXCEPT ![f] = place]

-----------------------------------------------------------------------------
(* handle_text_message, in the bridge                                      *)

\* Variant with a fault: the message is marked when it has been forwarded.
ReceiveFrameUnmarked(f) ==
  /\ handler[f] = "none"
  /\ IF Id(f) \in marked
       THEN At(f, "done") /\ UNCHANGED event
       ELSE At(f, "forwarding") /\ event' = [event EXCEPT ![f] = "posted"]
  /\ UNCHANGED <<text, run, marked, forgotten, answered>>

\* Variant with a fault: only the lookup knows about the id of unnamed frames.
ReceiveFrameRawId(f) ==
  /\ handler[f] = "none"
  /\ IF Id(f) \in marked
       THEN At(f, "done") /\ UNCHANGED <<event, marked>>
       ELSE /\ marked' = marked \cup {text[f]}
            /\ At(f, "forwarding")
            /\ event' = [event EXCEPT ![f] = "posted"]
  /\ UNCHANGED <<text, run, forgotten, answered>>

\* WeCom hands f over: seen, mark and the post, with no await in between.
ReceiveFrame(f) ==
  /\ handler[f] = "none"
  /\ IF Id(f) \in marked
       THEN At(f, "done") /\ UNCHANGED <<event, marked>>
       ELSE /\ marked' = marked \cup {Id(f)}
            /\ At(f, "forwarding")
            /\ event' = [event EXCEPT ![f] = "posted"]
  /\ UNCHANGED <<text, run, forgotten, answered>>

\* The server answered: there is a reply to send, or none, and a project to run.
ForwardReturns(f) ==
  /\ handler[f] = "forwarding"
  /\ \/ event[f] = "chat"         /\ At(f, "reply")
     \/ event[f] = "chat_silent"  /\ At(f, "done")
     \/ event[f] = "start"        /\ At(f, "start_reply")
     \/ event[f] = "start_silent" /\ At(f, "starting")
     \/ event[f] = "refused"      /\ At(f, "detail")
  /\ UNCHANGED <<text, event, run, marked, forgotten, answered>>

\* Variant with a fault: the exception is swallowed.
ForwardRaisesSilently(f) ==
  /\ handler[f] = "forwarding"
  /\ event[f] \in {"failed", "lost"} \/ "timeout" \in Fault
  /\ At(f, "done")
  /\ UNCHANGED <<text, event, run, marked, forgotten, answered>>

\* A 5xx, no connection, or the timeout wherever the server is by then.
ForwardRaises(f) ==
  /\ handler[f] = "forwarding"
  /\ event[f] \in {"failed", "lost"} \/ "timeout" \in Fault
  /\ At(f, "fallback")
  /\ UNCHANGED <<text, event, run, marked, forgotten, answered>>

\* send_text returned.  Only after a reply to a start is the project run.
SendReturns(f) ==
  /\ handler[f] \in {"reply", "start_reply", "detail", "fallback"}
  /\ At(f, IF handler[f] = "start_reply" THEN "starting" ELSE "done")
  /\ answered' = answered \cup {text[f]}
  /\ UNCHANGED <<text, event, run, marked, forgotten>>

\* Variant with a fault: the project is run whether or not the send raised.
SendRaisesStarting(f) ==
  /\ handler[f] \in {"reply", "start_reply", "detail", "fallback"}
  /\ "send" \in Fault
  /\ At(f, "starting")
  /\ UNCHANGED <<text, event, run, marked, forgotten, answered>>

\* It raised after its retries, and so does the coroutine.
SendRaises(f) ==
  /\ handler[f] \in {"reply", "start_reply", "detail", "fallback"}
  /\ "send" \in Fault
  /\ At(f, "dead")
  /\ UNCHANGED <<text, event, run, marked, forgotten, answered>>

StartProjectRun(f) ==
  /\ handler[f] = "starting"
  /\ run[f] = "none"
  /\ run' = [run EXCEPT ![f] = "posted"]
  /\ UNCHANGED <<handler, text, event, marked, forgotten, answered>>

\* Variant with a fault: the run has no timeout.
RunEndsAnswered(f) ==
  /\ handler[f] = "starting"
  /\ run[f] \in {"ended", "lost"}
  /\ At(f, "done")
  /\ UNCHANGED <<text, event, run, marked, forgotten, answered>>

\* The run was answered, or raised; nobody catches it and nothing comes after.
RunEnds(f) ==
  /\ handler[f] = "starting"
  /\ run[f] # "none"
  /\ run[f] \in {"ended", "lost"} \/ "timeout" \in Fault
  /\ At(f, "done")
  /\ UNCHANGED <<text, event, run, marked, forgotten, answered>>

-----------------------------------------------------------------------------
(* The server and the network                                              *)

\* The server takes up a post, whether or not the bridge still waits for it.
ServerTakes(f) ==
  \/ /\ event[f] = "posted"
     /\ event' = [event EXCEPT ![f] = "handling"]
     /\ UNCHANGED <<handler, text, run, marked, forgotten, answered>>
  \/ /\ run[f] = "posted"
     /\ run' = [run EXCEPT ![f] = "running"]
     /\ UNCHANGED <<handler, text, event, marked, forgotten, answered>>

\* handle_message or run_project returned or raised.
ServerEnds(f) ==
  \/ /\ event[f] = "handling"
     /\ \E result \in Result : event' = [event EXCEPT ![f] = result]
     /\ UNCHANGED <<handler, text, run, marked, forgotten, answered>>
  \/ /\ run[f] = "running"
     /\ run' = [run EXCEPT ![f] = "ended"]
     /\ UNCHANGED <<handler, text, event, marked, forgotten, answered>>

LoseRequest(f) ==
  /\ "lost_request" \in Fault
  /\ \/ event[f] = "posted" /\ event' = [event EXCEPT ![f] = "lost"] /\ UNCHANGED run
     \/ run[f] = "posted" /\ run' = [run EXCEPT ![f] = "lost"] /\ UNCHANGED event
  /\ UNCHANGED <<handler, text, marked, forgotten, answered>>

\* 300 seconds have passed since id was marked.
Expire(id) ==
  /\ "expiry" \in Fault
  /\ id \in marked
  /\ marked' = marked \ {id}
  /\ forgotten' = forgotten \cup {id}
  /\ UNCHANGED <<handler, text, event, run, answered>>

\* The marks and the coroutines are gone; what was posted is not.
RestartBridge ==
  /\ "restart" \in Fault
  /\ marked' = {}
  /\ forgotten' = forgotten \cup marked
  /\ handler' = [f \in Frame |->
       IF handler[f] \in {"none", "done"} THEN handler[f] ELSE "dead"]
  /\ UNCHANGED <<text, event, run, answered>>

-----------------------------------------------------------------------------
\* What the coroutine of f does by itself.
Coroutine(f) ==
  \/ ForwardReturns(f) \/ ForwardRaises(f) \/ SendReturns(f) \/ SendRaises(f)
  \/ StartProjectRun(f) \/ RunEnds(f)

Next ==
  \/ \E f \in Frame : ReceiveFrame(f) \/ Coroutine(f)
  \/ \E f \in Frame : ServerTakes(f) \/ ServerEnds(f) \/ LoseRequest(f)
  \/ \E f \in Frame : Expire(Id(f))
  \/ RestartBridge

Spec == Init /\ [][Next]_vars

\* The bridge's event loop runs, and httpx and the WeCom client time out.
\* Nothing is assumed of the server: the tests it runs may not end.
FairSpec == Spec /\ \A f \in Frame : WF_vars(Coroutine(f))

-----------------------------------------------------------------------------
(* Properties                                                              *)

\* Every variable of the bridge is of its shape.
TypeOK ==
  /\ handler   \in [Frame -> HandlerState]
  /\ text      \in [Frame -> Text]
  /\ event     \in [Frame -> EventState]
  /\ run       \in [Frame -> RunState]
  /\ marked    \subseteq {MessageId(m) : m \in Text}
  /\ forgotten \subseteq {MessageId(m) : m \in Text}
  /\ answered  \subseteq Text

TakenUp(f) == event[f] \notin {"none", "posted", "lost"}

\* However often WeCom hands over a message, wherever the bridge gives up on it
\* and whatever is lost, the server takes it up once, as long as its mark has
\* not expired or gone with the process (app.py: seen and mark before the
\* forward).  Messages without an id are taken for one.
HandledOnce ==
  \A f, g \in Frame :
    f # g /\ Id(f) = Id(g) /\ TakenUp(f) /\ TakenUp(g) => Id(f) \in forgotten

\* The second run of a project, which the bridge asks for, never overlaps the
\* first, which the server does inside handle_message, even when the bridge
\* times out, restarts and is handed the message again; and a reply there was
\* has been sent by then.
RunAfterReply ==
  \A f \in Frame : run[f] # "none" =>
    \/ event[f] = "start" /\ text[f] \in answered
    \/ event[f] = "start_silent"

\* Nobody is met with silence: when the frames of a message with an id that were
\* handed over have been dealt with, its sender has been sent something, the
\* fallback if need be, unless the server had nothing to say.
NobodyIgnored ==
  \A m \in Text \ Unnamed :
    LET frames == {f \in Frame : text[f] = m /\ handler[f] # "none"} IN
    frames # {} /\ (\A f \in frames : handler[f] = "done") =>
      m \in answered \/ \E f \in frames : event[f] \in {"chat_silent", "start_silent"}

\* A frame that is being forwarded is dealt with in the end, whatever the server
\* is doing: the bridge gives up on its timeout, and so does the run.
MessageEnds ==
  \A f \in Frame : handler[f] = "forwarding" ~> handler[f] \in {"done", "dead"}
=============================================================================
