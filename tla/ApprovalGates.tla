---------------------------- MODULE ApprovalGates ----------------------------
(***************************************************************************)
(* What the workflow promises about approvals, with nothing of how: each   *)
(* project has an ordered set of gates; a gate is opened for review, and   *)
(* is passed, only when every gate before it has been passed; a project is *)
(* finished only when all of them have.  A project can be taken away (its  *)
(* reviews go with it) and a finished one can be taken up again.           *)
(***************************************************************************)
CONSTANTS Project, Gate,
          Before  \* the gates in front of each gate

VARIABLES open,     \* the gates each project has a review for
          passed,   \* the gates a human has let it through
          finished  \* whether the project is done

gates == <<open, passed, finished>>

Init ==
  /\ open     = [p \in Project |-> {}]
  /\ passed   = [p \in Project |-> {}]
  /\ finished = [p \in Project |-> FALSE]

Open(p, g) ==
  /\ Before[g] \subseteq passed[p]
  /\ open' = [open EXCEPT ![p] = @ \cup {g}]
  /\ UNCHANGED <<passed, finished>>

Pass(p, g) ==
  /\ Before[g] \subseteq passed[p]
  /\ passed' = [passed EXCEPT ![p] = @ \cup {g}]
  /\ UNCHANGED <<open, finished>>

FinishProject(p) ==
  /\ passed[p] = Gate
  /\ finished' = [finished EXCEPT ![p] = TRUE]
  /\ UNCHANGED <<open, passed>>

Reopen(p) ==
  /\ finished' = [finished EXCEPT ![p] = FALSE]
  /\ UNCHANGED <<open, passed>>

Withdraw(p) ==
  /\ open'     = [open EXCEPT ![p] = {}]
  /\ finished' = [finished EXCEPT ![p] = FALSE]
  /\ UNCHANGED passed

Next ==
  \E p \in Project :
    \/ \E g \in Gate : Open(p, g) \/ Pass(p, g)
    \/ FinishProject(p) \/ Reopen(p) \/ Withdraw(p)

Spec == Init /\ [][Next]_gates
=============================================================================
