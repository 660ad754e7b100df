\* Every fault at once, with the retry limits of the code.
SPECIFICATION FairSpec
CONSTANTS
  Event = {e1}
  MaxPosts = 3
  MaxSends = 3
  Fault = {"timeout", "lost_post", "lost_reply", "lost_ack", "restart"}
INVARIANTS PublishedWasDelivered RepeatsBounded DeliveryInv DeliveredOnceInTurn
PROPERTIES PublishEnds
CHECK_DEADLOCK FALSE
