------------------------- MODULE NotificationDelivery -------------------------
(***************************************************************************)
(* How a notification of the workflow reaches a WeCom user: publish_event  *)
(* (notifications/publisher.py) posts it from a request thread of the      *)
(* server, with a timeout and retries; internal_notify of the bridge, an   *)
(* asyncio process of its own, runs one coroutine per post and awaits the  *)
(* WeCom client in it.  A post the publisher has given up on goes on in    *)
(* the bridge.                                                             *)
(*                                                                         *)
(* External, from how it is used: the network and the WeCom client.  An    *)
(* entry of the bridge's TtlDeduplicator lives for 300 s, longer than all  *)
(* the timeouts of one publish_event, so within one it is only lost with   *)
(* the process.                                                            *)
(***************************************************************************)
EXTENDS Naturals

CONSTANTS Event,     \* event ids: a fresh one for every publish_event
          MaxPosts,  \* max_retries of HttpNotificationPublisher
          MaxSends,  \* max_retries of WecomTextNotifier
          Fault      \* what may go wrong in a run

FaultKind == {"timeout", "lost_post", "lost_reply", "lost_ack", "restart"}

ASSUME LimitsOK ==
  MaxPosts \in Nat \ {0} /\ MaxSends \in Nat \ {0} /\ Fault \subseteq FaultKind

VARIABLES publish,   \* publish_event of each event
          attempt,   \* the post it is at
          post,      \* each post, in the network and in the bridge
          sends,     \* sends the coroutine of a post has begun
          marked,    \* entries of the notify deduplicator
          delivered, \* history: how often the user got the message
          disturbed  \* history: events that were given up on while the bridge was
                     \* at them, or whose acknowledgement or mark was lost

vars == <<publish, attempt, post, sends, marked, delivered, disturbed>>

Post == 1..MaxPosts

\* "error" is what the publisher sees as httpx.HTTPError.
PostState == {"none", "posted", "sending", "accepted", "rejected", "error"}

Init ==
  /\ publish   = [e \in Event |-> "new"]
  /\ attempt   = [e \in Event |-> 0]
  /\ post      = [e \in Event |-> [n \in Post |-> "none"]]
  /\ sends     = [e \in Event |-> [n \in Post |-> 0]]
  /\ marked    = {}
  /\ delivered = [e \in Event |-> 0]
  /\ disturbed = {}

-----------------------------------------------------------------------------
(* publish_event, in the server                                            *)

BeginPost(e, n) ==
  /\ attempt' = [attempt EXCEPT ![e] = n]
  /\ post'    = [post EXCEPT ![e][n] = "posted"]

PublishEvent(e) ==
  /\ publish[e] = "new"
  /\ publish' = [publish EXCEPT ![e] = "posting"]
  /\ BeginPost(e, 1)
  /\ UNCHANGED <<sends, marked, delivered, disturbed>>

\* A bridge that answers is believed: false is not tried again.
Answered(e) ==
  LET answer == post[e][attempt[e]] IN
  /\ publish[e] = "posting"
  /\ answer \in {"accepted", "rejected"}
  /\ publish' = [publish EXCEPT ![e] =
       IF answer = "accepted" THEN "published" ELSE "failed"]
  /\ UNCHANGED <<attempt, post, sends, marked, delivered, disturbed>>

\* Variant with a fault: the failure of the last post is not raised.
PostAgainOnly(e) ==
  /\ attempt[e] < MaxPosts
  /\ BeginPost(e, attempt[e] + 1)
  /\ UNCHANGED publish

\* The next post, with the same event id, or NotificationPublishError.
PostAgain(e) ==
  \/ /\ attempt[e] < MaxPosts
     /\ BeginPost(e, attempt[e] + 1)
     /\ UNCHANGED publish
  \/ /\ attempt[e] = MaxPosts
     /\ publish' = [publish EXCEPT ![e] = "failed"]
     /\ UNCHANGED <<attempt, post, disturbed>>

\* The post failed, or its timeout ran out wherever it is by then.
GiveUpPost(e) ==
  /\ publish[e] = "posting"
  /\ post[e][attempt[e]] = "error" \/ "timeout" \in Fault
  /\ PostAgain(e)
  /\ disturbed' = IF post[e][attempt[e]] \in {"posted", "sending"}
                    THEN disturbed \cup {e} ELSE disturbed
  /\ UNCHANGED <<sends, marked, delivered>>

-----------------------------------------------------------------------------
(* internal_notify, in the bridge                                          *)

\* Variant with a fault: the event is marked before it is sent.
ReceiveMarking(e, n) ==
  /\ post[e][n] = "posted"
  /\ post' = [post EXCEPT ![e][n] = IF e \in marked THEN "accepted" ELSE "sending"]
  /\ marked' = marked \cup {e}
  /\ UNCHANGED <<publish, attempt, sends, delivered, disturbed>>

\* seen, and no await before the first send.
Receive(e, n) ==
  /\ post[e][n] = "posted"
  /\ post' = [post EXCEPT ![e][n] = IF e \in marked THEN "accepted" ELSE "sending"]
  /\ UNCHANGED <<publish, attempt, sends, marked, delivered, disturbed>>

\* Variant with a fault: the event is not marked.
SendReturnsUnmarked(e, n) ==
  /\ post[e][n] = "sending"
  /\ delivered' = [delivered EXCEPT ![e] = @ + 1]
  /\ post' = [post EXCEPT ![e][n] = "accepted"]
  /\ UNCHANGED <<publish, attempt, sends, marked, disturbed>>

\* send_message returned: the event is marked before anything else can run.
SendReturns(e, n) ==
  /\ post[e][n] = "sending"
  /\ delivered' = [delivered EXCEPT ![e] = @ + 1]
  /\ marked' = marked \cup {e}
  /\ post' = [post EXCEPT ![e][n] = "accepted"]
  /\ UNCHANGED <<publish, attempt, sends, disturbed>>

\* Variant with a fault: the count of sends is not kept.
SendRaisesUncounted(e, n) ==
  /\ post[e][n] = "sending"
  /\ \/ UNCHANGED <<delivered, disturbed>>
     \/ /\ "lost_ack" \in Fault
        /\ delivered' = [delivered EXCEPT ![e] = @ + 1]
        /\ disturbed' = disturbed \cup {e}
  /\ UNCHANGED <<publish, attempt, post, sends, marked>>

\* send_message raised, perhaps after WeCom had taken the message.
SendRaises(e, n) ==
  /\ post[e][n] = "sending"
  /\ \/ UNCHANGED <<delivered, disturbed>>
     \/ /\ "lost_ack" \in Fault
        /\ delivered' = [delivered EXCEPT ![e] = @ + 1]
        /\ disturbed' = disturbed \cup {e}
  /\ IF sends[e][n] + 1 < MaxSends
       THEN sends' = [sends EXCEPT ![e][n] = @ + 1] /\ UNCHANGED post
       ELSE post' = [post EXCEPT ![e][n] = "rejected"] /\ UNCHANGED sends
  /\ UNCHANGED <<publish, attempt, marked>>

-----------------------------------------------------------------------------
(* The network, and a crash of the bridge                                  *)

LosePost(e, n) ==
  /\ \/ "lost_post" \in Fault /\ post[e][n] = "posted"
     \/ "lost_reply" \in Fault /\ post[e][n] \in {"accepted", "rejected"}
  /\ post' = [post EXCEPT ![e][n] = "error"]
  /\ UNCHANGED <<publish, attempt, sends, marked, delivered, disturbed>>

RestartBridge ==
  /\ "restart" \in Fault
  /\ marked' = {}
  /\ disturbed' = disturbed \cup marked
  /\ post' = [e \in Event |-> [n \in Post |->
       IF post[e][n] = "none" THEN "none" ELSE "error"]]
  /\ UNCHANGED <<publish, attempt, sends, delivered>>

-----------------------------------------------------------------------------
Deliver(e, n) == Receive(e, n) \/ SendReturns(e, n) \/ SendRaises(e, n)

Next ==
  \/ \E e \in Event : PublishEvent(e) \/ Answered(e) \/ GiveUpPost(e)
  \/ \E e \in Event, n \in Post : Deliver(e, n) \/ LosePost(e, n)
  \/ RestartBridge

Spec == Init /\ [][Next]_vars

\* The publisher's thread runs, and so does the bridge's event loop; the
\* WeCom client has a request timeout of its own.
FairSpec ==
  /\ Spec
  /\ \A e \in Event : WF_vars(Answered(e) \/ GiveUpPost(e))
  /\ \A e \in Event, n \in Post : WF_vars(Deliver(e, n))

-----------------------------------------------------------------------------
(* Properties                                                              *)

\* Every variable of the publisher and of the bridge is of its shape.
TypeOK ==
  /\ publish   \in [Event -> {"new", "posting", "published", "failed"}]
  /\ attempt   \in [Event -> 0..MaxPosts]
  /\ post      \in [Event -> [Post -> PostState]]
  /\ sends     \in [Event -> [Post -> Nat]]
  /\ marked    \subseteq Event
  /\ delivered \in [Event -> Nat]
  /\ disturbed \subseteq Event

\* A publish_event that returns has reached the user, even when the post that
\* was accepted found the event marked, or was one of several at work at once,
\* and the bridge restarted in between.
PublishedWasDelivered ==
  \A e \in Event : publish[e] = "published" => delivered[e] > 0

\* No fault repeats a message more often than the two retry loops multiply to.
RepeatsBounded == \A e \in Event : delivered[e] <= MaxPosts * MaxSends

\* What seen and mark do achieve: however often a message is posted, the user
\* gets it once if each post had been dealt with when the next was made, WeCom
\* acknowledged what it took, and the mark stayed.
DeliveredOnceInTurn == \A e \in Event \ disturbed : delivered[e] <= 1

\* The request thread that publishes gets on: the bridge accepts, rejects or
\* is given up on.
PublishEnds ==
  \A e \in Event : publish[e] = "posting" ~> publish[e] \in {"published", "failed"}

-----------------------------------------------------------------------------
\* The inductive invariant behind PublishedWasDelivered: an accepted post and a
\* marked event both stand for a message that was delivered.
DeliveryInv ==
  /\ TypeOK
  /\ \A e \in Event :
       /\ publish[e] # "new" => attempt[e] \in Post
       /\ e \in marked => delivered[e] > 0
       /\ \A n \in Post : post[e][n] = "accepted" => delivered[e] > 0
  /\ PublishedWasDelivered
=============================================================================
