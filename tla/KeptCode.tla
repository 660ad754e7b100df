------------------------------ MODULE KeptCode ------------------------------
(***************************************************************************)
(* What the workflow promises about code, with nothing of how: what it     *)
(* offers for review has passed the tests, it is reviewed and finished as  *)
(* it was offered, and only taking it back ends that.                      *)
(***************************************************************************)
CONSTANTS Code, NoCode

VARIABLES stage,   \* how far the code that is kept has come
          kept,    \* the files the user has
          passed   \* the files of the last tests that passed

promise == <<stage, kept, passed>>

Init == stage = "nothing" /\ kept = NoCode /\ passed = NoCode

Offer ==
  /\ stage' = "tested"
  /\ kept' \in Code
  /\ passed' = kept'

Review == stage = "tested" /\ stage' = "reviewed" /\ UNCHANGED <<kept, passed>>

Finish == stage = "reviewed" /\ stage' = "done" /\ UNCHANGED <<kept, passed>>

\* What is there when nothing is offered is nobody's concern.
Withdraw == stage' = "nothing" /\ kept' = NoCode /\ passed' = NoCode

Next == Offer \/ Review \/ Finish \/ Withdraw

Spec == Init /\ [][Next]_promise
=============================================================================
