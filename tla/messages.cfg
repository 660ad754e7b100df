\* Two frames, of one message or of two, with ids or without, and every fault.
SPECIFICATION FairSpec
CONSTANTS
  Frame = {f1, f2}
  Text = {m1, m2, m3}
  Unnamed = {m2, m3}
  Fault = {"timeout", "lost_request", "send", "restart", "expiry"}
INVARIANTS TypeOK HandledOnce NobodyIgnored RunAfterReply
PROPERTIES MessageEnds
CHECK_DEADLOCK FALSE
