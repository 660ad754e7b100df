-------------------------- MODULE NotificationProofs --------------------------
(***************************************************************************)
(* Proofs about NotificationDelivery: whatever is lost, slow or restarted, *)
(* a publish_event that returns has reached the user.                      *)
(***************************************************************************)
EXTENDS NotificationDelivery, FiniteSetTheorems, TLAPS

\* No event is published, posted or marked at the start.
LEMMA InitDelivery == Init => DeliveryInv
BY LimitsOK DEF Init, DeliveryInv, TypeOK, PostState, PublishedWasDelivered, Post

\* A new post keeps the invariant: it is not answered yet.
LEMMA PublishKeeps ==
  ASSUME DeliveryInv, NEW e \in Event, PublishEvent(e)
  PROVE  DeliveryInv'
BY LimitsOK DEF DeliveryInv, TypeOK, PostState, PublishedWasDelivered, Post,
  PublishEvent, BeginPost

\* The publisher returns on an accepted post, which stands for a delivery.
LEMMA AnsweredKeeps ==
  ASSUME DeliveryInv, NEW e \in Event, Answered(e)
  PROVE  DeliveryInv'
<1>1. attempt[e] \in Post
  BY DEF DeliveryInv, Answered
<1>2. publish[e] = "posting" /\ (publish'[e] = "published" => delivered[e] > 0)
  BY <1>1 DEF DeliveryInv, TypeOK, Answered
<1>3. TypeOK'
  BY DEF DeliveryInv, TypeOK, Answered
<1>4. PublishedWasDelivered'
  BY <1>2, <1>3 DEF DeliveryInv, TypeOK, PublishedWasDelivered, Answered
<1> QED
  BY <1>1, <1>3, <1>4 DEF DeliveryInv, TypeOK, Answered

\* The next post starts unanswered, and giving up publishes nothing.
LEMMA GiveUpKeeps ==
  ASSUME DeliveryInv, NEW e \in Event, GiveUpPost(e)
  PROVE  DeliveryInv'
<1>1. attempt[e] \in Post /\ publish[e] = "posting"
  BY DEF DeliveryInv, GiveUpPost
<1>2. disturbed' \subseteq Event
  BY DEF GiveUpPost, DeliveryInv, TypeOK
<1>3. CASE attempt[e] < MaxPosts /\ BeginPost(e, attempt[e] + 1) /\ UNCHANGED publish
  <2>1. attempt[e] + 1 \in Post
    BY <1>1, <1>3, LimitsOK DEF Post
  <2>2. /\ UNCHANGED <<publish, sends, marked, delivered>>
        /\ attempt' = [attempt EXCEPT ![e] = @ + 1]
        /\ post' = [post EXCEPT ![e][attempt[e] + 1] = "posted"]
    BY <1>3 DEF GiveUpPost, BeginPost
  <2>3. TypeOK'
    BY <1>2, <2>1, <2>2 DEF DeliveryInv, TypeOK, PostState, Post
  <2>4. \A f \in Event, k \in Post :
          post'[f][k] = "accepted" => post[f][k] = "accepted"
    BY <2>1, <2>2 DEF DeliveryInv, TypeOK
  <2>5. \A f \in Event : publish'[f] # "new" => attempt'[f] \in Post
    BY <2>1, <2>2 DEF DeliveryInv, TypeOK
  <2> QED
    BY <2>2, <2>3, <2>4, <2>5 DEF DeliveryInv, PublishedWasDelivered
<1>4. CASE attempt[e] = MaxPosts
  <2>1. publish' = [publish EXCEPT ![e] = "failed"]
          /\ UNCHANGED <<attempt, post, sends, marked, delivered>>
    BY <1>4, LimitsOK DEF GiveUpPost, PostAgain
  <2> QED
    BY <1>1, <1>2, <2>1 DEF DeliveryInv, TypeOK, PublishedWasDelivered
<1> QED
  BY <1>3, <1>4 DEF GiveUpPost, PostAgain

\* A post is accepted because its event is marked, or because the user has
\* just got the message; what it raises delivers at most more.
LEMMA DeliverKeeps ==
  ASSUME DeliveryInv, NEW e \in Event, NEW n \in Post, Deliver(e, n)
  PROVE  DeliveryInv'
<1>1. CASE Receive(e, n)
  BY <1>1 DEF DeliveryInv, TypeOK, PostState, PublishedWasDelivered, Receive
<1>2. CASE SendReturns(e, n)
  BY <1>2 DEF DeliveryInv, TypeOK, PostState, PublishedWasDelivered, SendReturns
<1>3. CASE SendRaises(e, n)
  <2>1. /\ UNCHANGED <<publish, attempt, marked>>
        /\ delivered' = delivered \/ delivered' = [delivered EXCEPT ![e] = @ + 1]
        /\ disturbed' = disturbed \/ disturbed' = disturbed \cup {e}
    BY <1>3 DEF SendRaises
  <2>2. delivered' \in [Event -> Nat]
          /\ \A f \in Event : delivered[f] > 0 => delivered'[f] > 0
    BY <2>1 DEF DeliveryInv, TypeOK
  <2>3. sends' \in [Event -> [Post -> Nat]]
    <3>1. CASE sends' = sends
      BY <3>1 DEF DeliveryInv, TypeOK
    <3>2. CASE sends' = [sends EXCEPT ![e][n] = @ + 1]
      BY <3>2 DEF DeliveryInv, TypeOK
    <3> QED
      BY <1>3, <3>1, <3>2 DEF SendRaises
  <2>4. /\ post' \in [Event -> [Post -> PostState]]
        /\ \A f \in Event, k \in Post :
             post'[f][k] = "accepted" => post[f][k] = "accepted"
    <3>1. CASE post' = post
      BY <3>1 DEF DeliveryInv, TypeOK
    <3>2. CASE post' = [post EXCEPT ![e][n] = "rejected"]
      BY <3>2 DEF DeliveryInv, TypeOK, PostState
    <3> QED
      BY <1>3, <3>1, <3>2 DEF SendRaises
  <2> QED
    BY <2>1, <2>2, <2>3, <2>4 DEF DeliveryInv, TypeOK, PublishedWasDelivered
<1> QED
  BY <1>1, <1>2, <1>3 DEF Deliver

\* What the network and a crash take away was never claimed to be kept.
LEMMA LossKeeps ==
  ASSUME DeliveryInv,
         RestartBridge \/ \E e \in Event, n \in Post : LosePost(e, n)
  PROVE  DeliveryInv'
<1>1. CASE RestartBridge
  BY <1>1 DEF DeliveryInv, TypeOK, PostState, PublishedWasDelivered, RestartBridge
<1>2. ASSUME NEW e \in Event, NEW n \in Post, LosePost(e, n)
      PROVE  DeliveryInv'
  BY <1>2 DEF DeliveryInv, TypeOK, PostState, PublishedWasDelivered, LosePost
<1> QED
  BY <1>1, <1>2

\* An event that is marked was delivered, and so was one whose post the bridge
\* accepted: this is inductive, for every set of events, limit and set of faults.
THEOREM DeliveryInvariant == Spec => []DeliveryInv
<1>1. DeliveryInv /\ [Next]_vars => DeliveryInv'
  <2> SUFFICES ASSUME DeliveryInv, [Next]_vars PROVE DeliveryInv'
    OBVIOUS
  <2>1. CASE UNCHANGED vars
    BY <2>1 DEF DeliveryInv, TypeOK, PublishedWasDelivered, vars
  <2>2. ASSUME NEW e \in Event, PublishEvent(e) \/ Answered(e) \/ GiveUpPost(e)
        PROVE  DeliveryInv'
    BY <2>2, PublishKeeps, AnsweredKeeps, GiveUpKeeps
  <2>3. ASSUME NEW e \in Event, NEW n \in Post, Deliver(e, n)
        PROVE  DeliveryInv'
    BY <2>3, DeliverKeeps
  <2> QED
    BY <2>1, <2>2, <2>3, LossKeeps DEF Next
<1> QED
  BY InitDelivery, <1>1, PTL DEF Spec

\* A publish_event that returns has reached the user, whatever posts were lost,
\* overtaken or repeated and however often the bridge restarted.
THEOREM PublishedWasDeliveredHolds == Spec => []PublishedWasDelivered
<1>1. DeliveryInv => PublishedWasDelivered
  BY DEF DeliveryInv
<1> QED
  BY DeliveryInvariant, <1>1, PTL

-----------------------------------------------------------------------------
(* Once, if posts take turns                                               *)

\* The post the bridge is at.
UnderWay(e, n) == post[e][n] \in {"posted", "sending"}

\* An event that was not disturbed has one post under way at most, the last one;
\* while that is sent the user has nothing yet, and a message he has is marked.
Turns ==
  \A e \in Event \ disturbed :
    /\ \A n \in Post : UnderWay(e, n) => n = attempt[e] /\ publish[e] # "new"
    /\ \A n \in Post : post[e][n] = "sending" => delivered[e] = 0
    /\ delivered[e] = 0 \/ (delivered[e] = 1 /\ e \in marked)

TurnInv == DeliveryInv /\ Turns

LEMMA InitTurns == Init => Turns
<1> SUFFICES ASSUME Init, NEW e \in Event
             PROVE  delivered[e] = 0 /\ \A n \in Post : post[e][n] = "none"
  BY DEF Turns, UnderWay
<1> QED
  BY DEF Init

\* The first post is made when there is none.
LEMMA PublishTurns ==
  ASSUME TurnInv, NEW e \in Event, PublishEvent(e)
  PROVE  Turns'
<1>1. 1 \in Post
  BY LimitsOK DEF Post
<1>2. /\ attempt' = [attempt EXCEPT ![e] = 1] /\ post' = [post EXCEPT ![e][1] = "posted"]
      /\ publish' = [publish EXCEPT ![e] = "posting"] /\ publish[e] = "new"
      /\ UNCHANGED <<marked, delivered, disturbed>>
  BY DEF PublishEvent, BeginPost
<1> QED
  BY <1>1, <1>2 DEF TurnInv, Turns, UnderWay, DeliveryInv, TypeOK

\* The next post is made when no other is under way, or the event is disturbed.
LEMMA GiveUpTurns ==
  ASSUME TurnInv, NEW e \in Event, GiveUpPost(e)
  PROVE  Turns'
<1>1. attempt[e] \in Post /\ publish[e] = "posting"
  BY DEF TurnInv, DeliveryInv, GiveUpPost
<1>2. /\ UNCHANGED <<marked, delivered>>
      /\ disturbed \subseteq disturbed'
      /\ UnderWay(e, attempt[e]) => e \in disturbed'
  BY DEF GiveUpPost, UnderWay
<1>3. ASSUME NEW f \in Event, f # e
      PROVE  publish'[f] = publish[f] /\ attempt'[f] = attempt[f] /\ post'[f] = post[f]
  BY <1>3 DEF GiveUpPost, PostAgain, BeginPost, TurnInv, DeliveryInv, TypeOK
<1>4. ASSUME e \notin disturbed'
      PROVE  \A n \in Post : ~ UnderWay(e, n)
  BY <1>1, <1>2, <1>4 DEF TurnInv, Turns
<1>5. publish'[e] # "new"
  BY <1>1 DEF GiveUpPost, PostAgain, TurnInv, DeliveryInv, TypeOK
<1>6. ASSUME NEW n \in Post, post'[e][n] # post[e][n]
      PROVE  post'[e][n] = "posted" /\ n = attempt'[e]
  BY <1>1, <1>6, LimitsOK DEF GiveUpPost, PostAgain, BeginPost, TurnInv, DeliveryInv, TypeOK, Post
<1>7. ASSUME NEW f \in Event \ disturbed'
      PROVE  /\ \A n \in Post : UnderWay(f, n)' => n = attempt'[f] /\ publish'[f] # "new"
             /\ \A n \in Post : post'[f][n] = "sending" => delivered'[f] = 0
             /\ delivered'[f] = 0 \/ (delivered'[f] = 1 /\ f \in marked')
  <2>1. CASE f = e
    BY <1>2, <1>4, <1>5, <1>6, <1>7, <2>1 DEF TurnInv, Turns, UnderWay
  <2>2. CASE f # e
    BY <1>2, <1>3, <1>7, <2>2 DEF TurnInv, Turns, UnderWay
  <2> QED
    BY <2>1, <2>2
<1> QED
  BY <1>7 DEF Turns

\* A post is sent only if the event is not marked, so the user has nothing yet.
LEMMA DeliverTurns ==
  ASSUME TurnInv, NEW e \in Event, NEW n \in Post, Deliver(e, n)
  PROVE  Turns'
<1>1. publish' = publish /\ attempt' = attempt
  BY DEF Deliver, Receive, SendReturns, SendRaises
<1>2. CASE Receive(e, n)
  BY <1>1, <1>2 DEF Receive, TurnInv, Turns, UnderWay, DeliveryInv, TypeOK
<1>3. CASE SendReturns(e, n)
  BY <1>1, <1>3 DEF SendReturns, TurnInv, Turns, UnderWay, DeliveryInv, TypeOK
<1>4. CASE SendRaises(e, n)
  <2>1. /\ marked' = marked /\ disturbed \subseteq disturbed'
        /\ \A f \in Event \ disturbed' : delivered'[f] = delivered[f]
    BY <1>4 DEF SendRaises, TurnInv, DeliveryInv, TypeOK
  <2>2. \A f \in Event, k \in Post : post'[f][k] = post[f][k] \/ post'[f][k] = "rejected"
    <3>1. CASE post' = post
      BY <3>1
    <3>2. CASE post' = [post EXCEPT ![e][n] = "rejected"]
      BY <3>2 DEF TurnInv, DeliveryInv, TypeOK
    <3> QED
      BY <1>4, <3>1, <3>2 DEF SendRaises
  <2> QED
    BY <1>1, <2>1, <2>2 DEF TurnInv, Turns, UnderWay
<1> QED
  BY <1>2, <1>3, <1>4 DEF Deliver

\* A post that is lost is not under way; a mark that is lost disturbs its event.
LEMMA LossTurns ==
  ASSUME TurnInv,
         RestartBridge \/ \E e \in Event, n \in Post : LosePost(e, n)
  PROVE  Turns'
<1>1. CASE RestartBridge
  BY <1>1 DEF RestartBridge, TurnInv, Turns, UnderWay
<1>2. ASSUME NEW e \in Event, NEW n \in Post, LosePost(e, n)
      PROVE  Turns'
  BY <1>2 DEF LosePost, TurnInv, Turns, UnderWay, DeliveryInv, TypeOK
<1> QED
  BY <1>1, <1>2

LEMMA TurnInvariant == Spec => []TurnInv
<1>1. TurnInv /\ [Next]_vars => Turns'
  <2> SUFFICES ASSUME TurnInv, [Next]_vars PROVE Turns'
    OBVIOUS
  <2>1. CASE UNCHANGED vars
    BY <2>1 DEF TurnInv, Turns, UnderWay, vars
  <2>2. ASSUME NEW e \in Event, Answered(e)
        PROVE  Turns'
    BY <2>2 DEF Answered, TurnInv, Turns, UnderWay, DeliveryInv, TypeOK
  <2>3. ASSUME NEW e \in Event, PublishEvent(e) \/ GiveUpPost(e)
        PROVE  Turns'
    BY <2>3, PublishTurns, GiveUpTurns
  <2>4. ASSUME NEW e \in Event, NEW n \in Post, Deliver(e, n)
        PROVE  Turns'
    BY <2>4, DeliverTurns
  <2> QED
    BY <2>1, <2>2, <2>3, <2>4, LossTurns DEF Next
<1> QED
  BY InitTurns, DeliveryInvariant, <1>1, PTL DEF Spec, TurnInv

\* The user gets a message once, unless its publisher gave up while the bridge
\* was at it, WeCom took it without an acknowledgement or the mark was lost.
THEOREM DeliveredOnceInTurnHolds == Spec => []DeliveredOnceInTurn
<1>1. TurnInv => DeliveredOnceInTurn
  <2> SUFFICES ASSUME TurnInv, NEW e \in Event \ disturbed PROVE delivered[e] <= 1
    BY DEF DeliveredOnceInTurn
  <2>1. delivered[e] \in {0, 1}
    BY DEF TurnInv, Turns
  <2> QED
    BY <2>1
<1> QED
  BY TurnInvariant, <1>1, PTL

-----------------------------------------------------------------------------
(* At most as often as the two retry loops allow                           *)

Ended(e, n) == post[e][n] \in {"accepted", "rejected", "error"}

\* The sends the coroutine of a post is through with, the last one included
\* when the post has ended; no delivery was made outside of them.
Used(e, n) == IF Ended(e, n) THEN sends[e][n] + 1 ELSE sends[e][n]

\* All sends an event may be given, and those it has had.
Slot == Post \X (1..MaxSends)
Slots(e) == {s \in Slot : s[2] <= Used(e, s[1])}

\* What bounds the deliveries: each had a send of its own, and a send that has
\* been used is not used again because no post is made twice.
SendsBound(e) ==
  /\ publish[e] = "new" => attempt[e] = 0
  /\ \A n \in Post : post[e][n] # "none" => n <= attempt[e]
  /\ \A n \in Post : sends[e][n] < MaxSends
  /\ delivered[e] <= Cardinality(Slots(e))

BoundInv == DeliveryInv /\ \A e \in Event : SendsBound(e)

LEMMA SlotsCounted ==
  /\ IsFiniteSet(Slot)
  /\ Cardinality(Slot) = MaxPosts * MaxSends
<1>1. IsFiniteSet(Post) /\ Cardinality(Post) = MaxPosts
  BY LimitsOK, FS_Interval DEF Post
<1>2. IsFiniteSet(1..MaxSends) /\ Cardinality(1..MaxSends) = MaxSends
  BY LimitsOK, FS_Interval
<1> QED
  BY <1>1, <1>2, FS_Product DEF Slot

LEMMA SlotsFinite ==
  ASSUME NEW e \in Event
  PROVE  /\ IsFiniteSet(Slots(e)) /\ Cardinality(Slots(e)) \in Nat
         /\ IsFiniteSet(Slots(e)') /\ Cardinality(Slots(e)') \in Nat
         /\ Cardinality(Slots(e)) <= MaxPosts * MaxSends
<1>1. Slots(e) \in SUBSET Slot /\ Slots(e)' \in SUBSET Slot
  BY DEF Slots
<1> QED
  BY <1>1, SlotsCounted, FS_Subset, FS_CardinalityType

LEMMA UsedIsNat ==
  ASSUME TypeOK, NEW e \in Event, NEW n \in Post
  PROVE  Used(e, n) \in Nat /\ sends[e][n] \in Nat /\ delivered[e] \in Nat
BY DEF TypeOK, Used

\* Sends that were used stay used, and nothing is delivered.
LEMMA NothingDelivered ==
  ASSUME TypeOK, TypeOK', NEW e \in Event, delivered[e] <= Cardinality(Slots(e)),
         delivered'[e] = delivered[e],
         \A n \in Post : Used(e, n) <= Used(e, n)'
  PROVE  delivered'[e] <= Cardinality(Slots(e)')
<1>1. \A n \in Post : Used(e, n) \in Nat /\ Used(e, n)' \in Nat
  BY DEF TypeOK, Used
<1>2. Slots(e) \in SUBSET (Slots(e)')
  BY <1>1 DEF Slots, Slot
<1>3. Cardinality(Slots(e)) <= Cardinality(Slots(e)')
  BY <1>2, SlotsFinite, FS_Subset
<1> QED
  BY <1>3, SlotsFinite, UsedIsNat DEF TypeOK

\* A delivery takes the send of its post that was next.
LEMMA OneDelivered ==
  ASSUME TypeOK, TypeOK', NEW e \in Event, NEW n \in Post,
         delivered[e] <= Cardinality(Slots(e)),
         delivered'[e] = delivered[e] + 1,
         Used(e, n) < MaxSends,
         Used(e, n)' = Used(e, n) + 1,
         \A k \in Post : Used(e, k) <= Used(e, k)'
  PROVE  delivered'[e] <= Cardinality(Slots(e)')
<1> DEFINE s == <<n, Used(e, n) + 1>>
<1>1. \A k \in Post : Used(e, k) \in Nat /\ Used(e, k)' \in Nat
  BY DEF TypeOK, Used
<1>2. s \in Slot
  BY <1>1, LimitsOK DEF Slot
<1>3. s \notin Slots(e) /\ s \in Slots(e)'
  BY <1>1, <1>2 DEF Slots
<1>4. Slots(e) \subseteq Slots(e)'
  BY <1>1 DEF Slots, Slot
<1> HIDE DEF s
<1>5. (Slots(e) \cup {s}) \in SUBSET (Slots(e)')
  BY <1>3, <1>4
<1>6. Cardinality(Slots(e) \cup {s}) = Cardinality(Slots(e)) + 1
  BY <1>3, SlotsFinite, FS_AddElement
<1>7. Cardinality(Slots(e)) + 1 <= Cardinality(Slots(e)')
  BY <1>5, <1>6, SlotsFinite, FS_Subset
<1> QED
  BY <1>7, SlotsFinite, UsedIsNat DEF TypeOK

LEMMA InitBound == Init => \A e \in Event : SendsBound(e)
<1> SUFFICES ASSUME Init, NEW e \in Event
             PROVE  SendsBound(e)
  OBVIOUS
<1>1. /\ attempt[e] = 0 /\ delivered[e] = 0
      /\ \A n \in Post : post[e][n] = "none" /\ sends[e][n] = 0
  BY DEF Init
<1> QED
  BY <1>1, SlotsFinite, LimitsOK DEF SendsBound

\* A new post uses no send: it has not been made before.
LEMMA PublisherBound ==
  ASSUME BoundInv, TypeOK', NEW e \in Event,
         PublishEvent(e) \/ Answered(e) \/ GiveUpPost(e),
         NEW f \in Event
  PROVE  SendsBound(f)'
<1>1. TypeOK /\ SendsBound(f) /\ SendsBound(e)
  BY DEF BoundInv, DeliveryInv
<1>2. sends' = sends /\ delivered' = delivered
  BY DEF PublishEvent, Answered, GiveUpPost
<1>3. publish[e] # "new" => attempt[e] \in Post
  BY DEF BoundInv, DeliveryInv
<1>4. \/ post' = post /\ attempt' = attempt
      \/ \E n \in Post : n > attempt[e] /\ BeginPost(e, n)
  <2>1. CASE PublishEvent(e)
    <3>1. attempt[e] = 0 /\ BeginPost(e, 1)
      BY <1>1, <2>1 DEF PublishEvent, SendsBound
    <3> QED
      BY <3>1, LimitsOK DEF Post
  <2>2. CASE Answered(e)
    BY <2>2 DEF Answered
  <2>3. CASE GiveUpPost(e)
    BY <1>3, <2>3, LimitsOK DEF GiveUpPost, PostAgain, Post
  <2> QED
    BY <2>1, <2>2, <2>3
<1>5. publish'[e] # "new" /\ (f # e => publish'[f] = publish[f])
  BY <1>1 DEF PublishEvent, Answered, GiveUpPost, PostAgain, TypeOK
<1> DEFINE Booked == /\ publish'[f] = "new" => attempt'[f] = 0
                     /\ \A k \in Post : post'[f][k] # "none" => k <= attempt'[f]
                     /\ \A k \in Post : Ended(f, k) => Ended(f, k)'
<1>6. Booked
  <2>1. CASE post' = post /\ attempt' = attempt
    BY <1>1, <1>5, <2>1 DEF SendsBound, Ended
  <2>2. ASSUME NEW n \in Post, n > attempt[e], BeginPost(e, n)
        PROVE  Booked
    <3>1. post[e][n] = "none"
      BY <1>1, <2>2 DEF SendsBound, TypeOK, Post
    <3>2. attempt' = [attempt EXCEPT ![e] = n] /\ post' = [post EXCEPT ![e][n] = "posted"]
      BY <2>2 DEF BeginPost
    <3>3. CASE f # e
      BY <1>1, <1>5, <3>2, <3>3 DEF SendsBound, Ended, TypeOK
    <3>4. CASE f = e
      <4>1. attempt'[e] = n /\ attempt[e] \in Nat /\ n \in Nat
        BY <1>1, <3>2 DEF TypeOK, Post
      <4>2. \A k \in Post : k # n => post'[e][k] = post[e][k]
        BY <1>1, <3>2 DEF TypeOK
      <4>3. \A k \in Post : k # n /\ post'[e][k] # "none" => k <= attempt[e]
        BY <1>1, <4>2 DEF SendsBound
      <4>4. \A k \in Post : post'[e][k] # "none" => k <= attempt'[e]
        BY <2>2, <4>1, <4>3 DEF Post
      <4> QED
        BY <1>5, <3>1, <3>4, <4>2, <4>4 DEF Ended
    <3> QED
      BY <3>3, <3>4
  <2> QED
    BY <1>4, <2>1, <2>2
<1>7. \A k \in Post : Used(f, k) <= Used(f, k)'
  BY <1>1, <1>2, <1>6 DEF Used, TypeOK
<1>8. delivered'[f] <= Cardinality(Slots(f)')
  BY <1>1, <1>2, <1>7, NothingDelivered DEF SendsBound
<1> QED
  BY <1>1, <1>2, <1>6, <1>8 DEF SendsBound

\* The bridge: a send that may have delivered is used.
LEMMA DeliverBound ==
  ASSUME BoundInv, TypeOK', NEW e \in Event, NEW n \in Post, Deliver(e, n),
         NEW f \in Event
  PROVE  SendsBound(f)'
<1>1. TypeOK /\ SendsBound(f) /\ SendsBound(e)
  BY DEF BoundInv, DeliveryInv
<1>2. publish' = publish /\ attempt' = attempt
  BY DEF Deliver, Receive, SendReturns, SendRaises
<1>3. post[e][n] \in {"posted", "sending"} /\ Used(e, n) = sends[e][n]
  BY DEF Deliver, Receive, SendReturns, SendRaises, Used, Ended
<1>4. ASSUME NEW g \in Event, NEW k \in Post, g # e \/ k # n
      PROVE  post'[g][k] = post[g][k] /\ sends'[g][k] = sends[g][k]
  <2>1. post' = post \/ \E x : post' = [post EXCEPT ![e][n] = x]
    BY DEF Deliver, Receive, SendReturns, SendRaises
  <2>2. sends' = sends \/ \E x : sends' = [sends EXCEPT ![e][n] = x]
    BY DEF Deliver, Receive, SendReturns, SendRaises
  <2> QED
    BY <1>1, <1>4, <2>1, <2>2 DEF TypeOK
<1>5. /\ sends'[e][n] < MaxSends
      /\ post'[e][n] # "none" => post[e][n] # "none"
      /\ \/ delivered' = delivered /\ sends[e][n] <= sends'[e][n]
         \/ /\ delivered'[e] = delivered[e] + 1
            /\ f # e => delivered'[f] = delivered[f]
            /\ Used(e, n)' = sends[e][n] + 1
  <2>1. sends[e][n] \in Nat /\ sends[e][n] < MaxSends
    BY <1>1 DEF SendsBound, TypeOK
  <2>2. CASE Receive(e, n)
    BY <1>3, <2>1, <2>2 DEF Receive
  <2>3. CASE SendReturns(e, n)
    BY <1>1, <1>3, <2>1, <2>3 DEF SendReturns, Used, Ended, TypeOK
  <2>4. CASE SendRaises(e, n)
    <3>1. CASE sends[e][n] + 1 < MaxSends
      BY <1>1, <1>3, <2>1, <2>4, <3>1 DEF SendRaises, Used, Ended, TypeOK
    <3>2. CASE ~ (sends[e][n] + 1 < MaxSends)
      BY <1>1, <1>3, <2>1, <2>4, <3>2 DEF SendRaises, Used, Ended, TypeOK
    <3> QED
      BY <3>1, <3>2
  <2> QED
    BY <2>2, <2>3, <2>4 DEF Deliver
<1>6. \A g \in Event, k \in Post : Used(g, k) <= Used(g, k)'
  <2>1. ASSUME NEW g \in Event, NEW k \in Post, g # e \/ k # n
        PROVE  Used(g, k) <= Used(g, k)'
    BY <1>1, <1>4, <2>1 DEF Used, Ended, TypeOK
  <2>2. Used(e, n) <= Used(e, n)'
    BY <1>1, <1>3, <1>5 DEF Used, TypeOK
  <2> QED
    BY <2>1, <2>2
<1>7. delivered'[f] <= Cardinality(Slots(f)')
  <2>1. CASE delivered'[f] = delivered[f]
    BY <1>1, <1>6, <2>1, NothingDelivered DEF SendsBound
  <2>2. CASE delivered'[f] # delivered[f]
    <3>1. f = e /\ delivered'[e] = delivered[e] + 1 /\ Used(e, n)' = Used(e, n) + 1
      BY <1>3, <1>5, <2>2
    <3>2. Used(e, n) < MaxSends
      BY <1>1, <1>3 DEF SendsBound
    <3> QED
      BY <1>1, <1>6, <3>1, <3>2, OneDelivered DEF SendsBound
  <2> QED
    BY <2>1, <2>2
<1> QED
  BY <1>1, <1>2, <1>4, <1>5, <1>7 DEF SendsBound

\* A post that is lost has ended.
LEMMA LossBound ==
  ASSUME BoundInv, TypeOK',
         RestartBridge \/ \E e \in Event, n \in Post : LosePost(e, n),
         NEW f \in Event
  PROVE  SendsBound(f)'
<1>1. TypeOK /\ SendsBound(f)
  BY DEF BoundInv, DeliveryInv
<1>2. UNCHANGED <<publish, attempt, sends, delivered>>
  BY DEF RestartBridge, LosePost
<1>3. \A k \in Post : /\ post'[f][k] # "none" => post[f][k] # "none"
                      /\ Ended(f, k) => Ended(f, k)'
  BY <1>1 DEF RestartBridge, LosePost, Ended, TypeOK
<1>4. \A k \in Post : Used(f, k) <= Used(f, k)'
  BY <1>1, <1>2, <1>3 DEF Used, TypeOK
<1>5. delivered'[f] <= Cardinality(Slots(f)')
  BY <1>1, <1>2, <1>4, NothingDelivered DEF SendsBound
<1> QED
  BY <1>1, <1>2, <1>3, <1>5 DEF SendsBound

\* However posts are lost, overtaken and repeated and sends are taken without
\* an acknowledgement, and however often the bridge restarts, the user gets a
\* message at most as often as posts and sends multiply to.
THEOREM RepeatsBoundedHolds == Spec => []RepeatsBounded
<1>1. Init => BoundInv
  BY InitDelivery, InitBound DEF BoundInv
<1>2. BoundInv /\ DeliveryInv' /\ [Next]_vars => BoundInv'
  <2> SUFFICES ASSUME BoundInv, DeliveryInv', [Next]_vars, NEW f \in Event
               PROVE  SendsBound(f)'
    BY DEF BoundInv
  <2> USE DEF DeliveryInv
  <2>1. CASE UNCHANGED vars
    BY <2>1 DEF BoundInv, SendsBound, Slots, Used, Ended, vars
  <2>2. ASSUME NEW e \in Event, PublishEvent(e) \/ Answered(e) \/ GiveUpPost(e)
        PROVE  SendsBound(f)'
    BY <2>2, PublisherBound
  <2>3. ASSUME NEW e \in Event, NEW n \in Post, Deliver(e, n)
        PROVE  SendsBound(f)'
    BY <2>3, DeliverBound
  <2> QED
    BY <2>1, <2>2, <2>3, LossBound DEF Next
<1>3. BoundInv => RepeatsBounded
  <2> SUFFICES ASSUME BoundInv, NEW e \in Event
               PROVE  delivered[e] <= MaxPosts * MaxSends
    BY DEF RepeatsBounded
  <2>1. delivered[e] \in Nat /\ delivered[e] <= Cardinality(Slots(e))
    BY DEF BoundInv, SendsBound, DeliveryInv, TypeOK
  <2> QED
    BY <2>1, SlotsFinite, LimitsOK
<1> QED
  BY <1>1, <1>2, <1>3, DeliveryInvariant, PTL DEF Spec
=============================================================================
