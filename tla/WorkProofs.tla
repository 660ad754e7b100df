----------------------------- MODULE WorkProofs -----------------------------
(***************************************************************************)
(* Proofs about ProjectWork, for every set of files and contents: types,   *)
(* what code is kept, what a gate shows, what a chat turn may come to, and *)
(* that the work implements KeptCode.                                      *)
(***************************************************************************)
EXTENDS ProjectWork, TLAPS

-----------------------------------------------------------------------------
(* Operators                                                               *)

LEMMA OverwriteTyped ==
  ASSUME NEW old \in Code, NEW new \in Code
  PROVE  Overwrite(old, new) \in Code
  BY DEF Code, Overwrite

LEMMA NoCodeTyped == NoCode \in Code
  BY DEF Code, NoCode

\* An answer of the fallbacks is an answer a model could give.
LEMMA FallbacksAnswer ==
  ASSUME NEW question, NEW m
  PROVE  /\ FallbackRequirementTurn(question, m) \in Answer
         /\ FallbackPlanTurn(m) \in Answer
  BY DEF FallbackRequirementTurn, FallbackPlanTurn, FallbackRecommendation, Advise,
     Say, Ready, Nothing, Answer, Text, Update

LEMMA AnswersTyped ==
  ASSUME NEW m
  PROVE  /\ RequirementAnswer(m) \subseteq Answer
         /\ PlanAnswer(m) \subseteq Answer
  BY FallbacksAnswer DEF RequirementAnswer, PlanAnswer

\* Only the coder and the debugger can execute patch_applier.
LEMMA PatchersWrite ==
  ASSUME NEW label \in DOMAIN Worker, Executes(Worker[label], "patch_applier")
  PROVE  label \in {"coder", "debugger"}
  BY DEF Worker, Executes, Offered, Bound, Profile

-----------------------------------------------------------------------------
(* Type correctness                                                        *)

LEMMA InitTyped == Init => WorkTypeOK
  BY NoCodeTyped DEF Init, WorkTypeOK, GraphState, EmptyGraph, Job, Idle, Status, Worker, Turn

LEMMA DiscoveryTyped ==
  ASSUME WorkTypeOK, Run \/ RefreshDraft \/ PMRuns
  PROVE  WorkTypeOK'
<1>1. turn' \in Turn /\ UNCHANGED model
  BY DEF Run, RefreshDraft, PMRuns, Quiet, Turn
<1>2. CASE Run \/ RefreshDraft
  BY <1>1, <1>2, NoCodeTyped DEF Run, RefreshDraft, WorkTypeOK, Job, Call, Idle, Worker, Status
<1>3. CASE PMRuns
  BY <1>1, <1>3, NoCodeTyped
  DEF PMRuns, WorkTypeOK, GraphState, Job, Idle, Status, Gate
<1> QED BY <1>2, <1>3

LEMMA TookTyped ==
  ASSUME WorkTypeOK, NEW gate \in Gate, NEW m \in RequirementReply \cup PlanReply,
         NEW answer \in Answer, NEW outcome \in Outcome, Took(gate, m, answer, outcome)
  PROVE  turn' \in Turn
  BY DEF WorkTypeOK, GraphState, Took, Turn, Answer

LEMMA ApproveRequirementTyped ==
  ASSUME WorkTypeOK, ApproveRequirement
  PROVE  <<status, graph, advice>>' = <<status, graph, advice>> /\ job' \in Job
  BY NoCodeTyped DEF ApproveRequirement, Job, Call, Idle, Worker

LEMMA DiscussTyped ==
  ASSUME WorkTypeOK, status = "WAIT_HUMAN_REQUIREMENT", job = Idle,
         NEW decision, Discuss(decision)
  PROVE  /\ status' \in Status
         /\ graph' \in GraphState
         /\ advice' \in {"none", "current"}
         /\ job' \in Job
<1>1. graph' \in GraphState
  BY DEF Discuss, WorkTypeOK, GraphState, ModeAfter
<1>2. job' \in Job
  BY NoCodeTyped DEF Discuss, Job, Call, Idle, Worker
<1> QED BY <1>1, <1>2 DEF Discuss, WorkTypeOK, Status

LEMMA ChatRequirementTyped ==
  ASSUME WorkTypeOK, ChatRequirement
  PROVE  WorkTypeOK'
<1>1. PICK m \in RequirementReply : ConfirmRecommendation(m) \/ DecideRequirement(m)
  BY DEF ChatRequirement
<1>2. "WAIT_HUMAN_REQUIREMENT" \in Gate
  BY DEF Gate
<1>3. CASE ConfirmRecommendation(m)
  <2>1. Nothing \in Answer /\ "confirmed" \in Outcome
    BY DEF Nothing, Answer, Text, Update, Outcome
  <2>2. turn' \in Turn
    BY <1>2, <1>3, <2>1, TookTyped DEF ConfirmRecommendation
  <2> QED BY <1>3, <2>2, ApproveRequirementTyped DEF ConfirmRecommendation, ChatRequirement, WorkTypeOK
<1>4. CASE DecideRequirement(m)
  <2>1. PICK answer \in Answer :
          LET decision == RequirementTurn(graph.question, m, answer) IN
          /\ IF decision.ready THEN ApproveRequirement ELSE Discuss(decision)
          /\ Took("WAIT_HUMAN_REQUIREMENT", m, answer, OutcomeOf(decision))
    BY <1>4, AnswersTyped DEF DecideRequirement
  <2> DEFINE decision == RequirementTurn(graph.question, m, answer)
  <2>2. OutcomeOf(decision) \in Outcome
    BY DEF OutcomeOf, Outcome
  <2>3. turn' \in Turn
    BY <1>2, <2>1, <2>2, TookTyped
  <2>4. CASE decision.ready
    BY <2>1, <2>3, <2>4, ApproveRequirementTyped DEF ChatRequirement, WorkTypeOK
  <2>5. CASE ~decision.ready
    <3>1. Discuss(decision)
      BY <2>1, <2>5
    <3> QED BY <2>3, <3>1, DiscussTyped DEF ChatRequirement, WorkTypeOK
  <2> QED BY <2>4, <2>5
<1> QED BY <1>1, <1>3, <1>4

LEMMA ChatPlanTyped ==
  ASSUME WorkTypeOK, ChatPlan
  PROVE  WorkTypeOK'
<1>1. PICK m \in PlanReply, answer \in Answer :
        LET outcome == PlanOutcomeOf(PlanTurn(m, answer)) IN
        /\ CASE outcome = "approved" -> ApprovePlan
             [] outcome = "updated" /\ (model \/ graph.spec) -> job' = Call("replanner")
             [] OTHER -> UNCHANGED job
        /\ Took("WAIT_HUMAN_PLAN", m, answer, outcome)
  BY AnswersTyped DEF ChatPlan
<1> DEFINE outcome == PlanOutcomeOf(PlanTurn(m, answer))
<1>2. outcome \in Outcome
  BY DEF PlanOutcomeOf, Outcome
<1>3. turn' \in Turn
  BY <1>1, <1>2, TookTyped DEF Gate
<1>4. job' \in Job
  <2>1. job' \in {job, Idle, Call("coder"), Call("replanner")}
    BY <1>1 DEF ApprovePlan
  <2> QED BY <2>1, NoCodeTyped DEF WorkTypeOK, Job, Call, Idle, Worker
<1> QED BY <1>3, <1>4 DEF ChatPlan, WorkTypeOK

LEMMA FeedbackTyped ==
  ASSUME WorkTypeOK, TurnGate \/ PassGate
  PROVE  WorkTypeOK'
<1>1. turn' \in Turn /\ UNCHANGED model
  BY DEF TurnGate, PassGate, Quiet, Turn
<1>2. CASE TurnGate
  BY <1>1, <1>2 DEF TurnGate, Turned, WorkTypeOK, Status, Gate
<1>3. CASE PassGate
  BY <1>1, <1>3, NoCodeTyped DEF PassGate, WorkTypeOK, Job, Call, Idle, Worker
<1> QED BY <1>2, <1>3

LEMMA CallsTyped ==
  ASSUME WorkTypeOK,
         \/ ReplannerRuns \/ PlannerRuns \/ CoderRuns
         \/ RunTests \/ DebuggerRuns \/ ReviewerRuns
  PROVE  WorkTypeOK'
<1>1. turn' \in Turn /\ UNCHANGED model
  BY DEF ReplannerRuns, PlannerRuns, CoderRuns, RunTests, DebuggerRuns, ReviewerRuns, Quiet, Turn
<1>2. job.files \in Code /\ graph.code \in Code
  BY DEF WorkTypeOK, Job, GraphState
<1>3. CASE ReplannerRuns \/ PlannerRuns
  <2>1. graph' \in GraphState
    BY <1>3 DEF ReplannerRuns, PlannerRuns, WorkTypeOK, GraphState
  <2> QED BY <1>1, <1>3, <2>1, NoCodeTyped
      DEF ReplannerRuns, PlannerRuns, WorkTypeOK, Job, Idle, Status, Gate
<1>4. CASE CoderRuns
  <2>1. PICK files \in Code :
          job' = [at |-> "test", files |-> files] /\ disk' = Overwrite(disk, files)
    BY <1>2, <1>4 DEF CoderRuns
  <2>2. disk' \in Code
    BY <2>1, OverwriteTyped DEF WorkTypeOK
  <2> QED BY <1>1, <1>4, <2>1, <2>2 DEF CoderRuns, WorkTypeOK, Job
<1>5. CASE RunTests
  <2>1. CASE job' = [job EXCEPT !.at = "debugger"] /\ UNCHANGED <<status, graph, tested, reviewed>>
    BY <1>1, <1>5, <2>1 DEF RunTests, WorkTypeOK, Job, Worker
  <2>2. ASSUME NEW result \in TestResults(job.files) \ {"fixable"},
               graph' = [graph EXCEPT !.code = job.files],
               status' = StatusAfter[result],
               tested' = IF result = "passed" THEN job.files ELSE NoCode,
               reviewed' = NoCode,
               job' = Idle
        PROVE  WorkTypeOK'
    <3>1. status' \in Status
      BY <2>2 DEF TestResults, StatusAfter, Status, Gate
    <3>2. graph' \in GraphState
      BY <1>2, <2>2 DEF WorkTypeOK, GraphState
    <3> QED BY <1>1, <1>2, <1>5, <2>2, <3>1, <3>2, NoCodeTyped DEF RunTests, WorkTypeOK, Job, Idle
  <2> QED BY <1>5, <2>1, <2>2 DEF RunTests
<1>6. CASE DebuggerRuns
  <2>1. PICK patches \in Code :
          /\ job' = [at |-> "test", files |-> Overwrite(job.files, patches)]
          /\ disk' = Overwrite(disk, Debugged(patches))
    BY <1>2, <1>6 DEF DebuggerRuns
  <2>2. Overwrite(job.files, patches) \in Code
    BY <1>2, OverwriteTyped
  <2>3. disk' \in Code
    BY <2>1, <2>2, OverwriteTyped DEF Debugged, WorkTypeOK
  <2> QED BY <1>1, <1>6, <2>1, <2>2, <2>3 DEF DebuggerRuns, WorkTypeOK, Job
<1>7. CASE ReviewerRuns
  BY <1>1, <1>2, <1>7, NoCodeTyped DEF ReviewerRuns, WorkTypeOK, Job, Idle, Status, Gate
<1> QED BY <1>3, <1>4, <1>5, <1>6, <1>7

LEMMA BesideTyped ==
  ASSUME WorkTypeOK, AgentPatches \/ Raises \/ Restart
  PROVE  WorkTypeOK'
<1>1. turn' \in Turn /\ UNCHANGED model
  BY DEF AgentPatches, Raises, Restart, Quiet, Turn
<1>2. CASE AgentPatches
  <2>1. disk' \in Code
    BY <1>2, OverwriteTyped DEF AgentPatches, WorkTypeOK
  <2> QED BY <1>1, <1>2, <2>1 DEF AgentPatches, WorkTypeOK
<1>3. CASE Raises
  BY <1>1, <1>3, NoCodeTyped DEF Raises, WorkTypeOK, Job, Idle
<1>4. CASE Restart
  BY <1>1, <1>4, NoCodeTyped DEF Restart, WorkTypeOK, GraphState, EmptyGraph, Job, Idle
<1> QED BY <1>2, <1>3, <1>4

LEMMA StepTyped == WorkTypeOK /\ [Next]_vars => WorkTypeOK'
<1> SUFFICES ASSUME WorkTypeOK, [Next]_vars PROVE WorkTypeOK'
  OBVIOUS
<1>1. CASE Run \/ RefreshDraft \/ PMRuns
  BY <1>1, DiscoveryTyped
<1>2. CASE ChatRequirement \/ ChatPlan
  BY <1>2, ChatRequirementTyped, ChatPlanTyped
<1>3. CASE TurnGate \/ PassGate
  BY <1>3, FeedbackTyped
<1>4. CASE \/ ReplannerRuns \/ PlannerRuns \/ CoderRuns
           \/ RunTests \/ DebuggerRuns \/ ReviewerRuns
  BY <1>4, CallsTyped
<1>5. CASE AgentPatches \/ Raises \/ Restart
  BY <1>5, BesideTyped
<1>6. CASE UNCHANGED vars
  BY <1>6 DEF vars, WorkTypeOK
<1> QED BY <1>1, <1>2, <1>3, <1>4, <1>5, <1>6 DEF Next

\* Graph state, files, the call in progress and the chat turn keep their shape,
\* whatever agents answer and wherever a request is cut short.
THEOREM WorkTypeCorrect == Spec => []WorkTypeOK
  BY InitTyped, StepTyped, PTL DEF Spec
-----------------------------------------------------------------------------
(* The code that is kept.  KeptIsTested is inductive with three facts:     *)
(* which gate a call is made at, so that nobody who can write works past   *)
(* the plan gate; that code which is tested is on disk; and, for the       *)
(* confirmations, that the mode of a turn is set by a recommendation only. *)

AtItsGate ==
  /\ job.at \in {"coder", "test", "debugger", "replanner"} => status = "WAIT_HUMAN_PLAN"
  /\ job.at = "reviewer" => status = "WAIT_HUMAN_CODE"

TestedOnDisk == job.at = "test" => OnDisk(job.files)

ModeSetByAdvice == graph.mode => advice # "none"

WorkInv ==
  /\ AtItsGate /\ TestedOnDisk /\ ModeSetByAdvice
  /\ KeptIsTested /\ GateHasItsWork /\ ConfirmationIsOfAdvice

LEMMA InitWorkInv == Init => WorkInv
  BY DEF Init, WorkInv, AtItsGate, TestedOnDisk, ModeSetByAdvice, KeptIsTested,
     GateHasItsWork, ConfirmationIsOfAdvice, Idle, EmptyGraph, Gate, NoTurn

\* What is written last is on disk.
LEMMA OverwriteOnDisk ==
  ASSUME WorkTypeOK, NEW code \in Code, disk' = Overwrite(disk, code)
  PROVE  \A f \in File : code[f] # Absent => disk'[f] = code[f]
  BY DEF Overwrite

LEMMA DiscoveryWorkInv ==
  ASSUME WorkTypeOK, WorkInv, Run \/ RefreshDraft \/ PMRuns
  PROVE  WorkInv'
<1>1. turn'.outcome = "none"
  <2>1. turn' = NoTurn
    BY DEF Run, RefreshDraft, PMRuns, Quiet
  <2> QED BY <2>1 DEF NoTurn
<1>2. CASE Run
  BY <1>1, <1>2 DEF Run, WorkInv, AtItsGate, TestedOnDisk, ModeSetByAdvice, KeptIsTested,
     GateHasItsWork, ConfirmationIsOfAdvice, OnDisk, Call, Idle
<1>3. CASE RefreshDraft
  BY <1>1, <1>3 DEF RefreshDraft, WorkInv, AtItsGate, TestedOnDisk, ModeSetByAdvice,
     KeptIsTested, GateHasItsWork, ConfirmationIsOfAdvice, OnDisk, Idle, Gate
<1>4. CASE PMRuns
  <2>1. graph'.mode = graph.mode
    BY <1>4 DEF PMRuns, WorkTypeOK, GraphState
  <2> QED BY <1>1, <1>4, <2>1 DEF PMRuns, WorkInv, AtItsGate, TestedOnDisk,
      ModeSetByAdvice, KeptIsTested, GateHasItsWork, ConfirmationIsOfAdvice, Idle, Gate
<1> QED BY <1>2, <1>3, <1>4

LEMMA ChatRequirementWorkInv ==
  ASSUME WorkTypeOK, WorkInv, ChatRequirement
  PROVE  WorkInv'
<1>1. PICK m \in RequirementReply : ConfirmRecommendation(m) \/ DecideRequirement(m)
  BY DEF ChatRequirement
<1>2. CASE ConfirmRecommendation(m)
  <2>1. graph.mode /\ UNCHANGED <<status, graph, advice, disk, tested, reviewed>>
    BY <1>2 DEF ConfirmRecommendation, ApproveRequirement, ChatRequirement
  <2>2. job' \in {Idle, Call("planner")}
    BY <1>2 DEF ConfirmRecommendation, ApproveRequirement
  <2> QED BY <2>1, <2>2 DEF WorkInv, AtItsGate, TestedOnDisk, ModeSetByAdvice, KeptIsTested,
      GateHasItsWork, ConfirmationIsOfAdvice, OnDisk, Idle, Call
<1>3. CASE DecideRequirement(m)
  <2>1. PICK answer :
          LET decision == RequirementTurn(graph.question, m, answer) IN
          /\ IF decision.ready THEN ApproveRequirement ELSE Discuss(decision)
          /\ Took("WAIT_HUMAN_REQUIREMENT", m, answer, OutcomeOf(decision))
    BY <1>3 DEF DecideRequirement
  <2> DEFINE decision == RequirementTurn(graph.question, m, answer)
  <2>2. turn'.outcome # "confirmed"
    <3>1. OutcomeOf(decision) # "confirmed"
      BY DEF OutcomeOf
    <3> QED BY <2>1, <3>1 DEF Took
  <2>3. job' \in {Idle, Call("planner"), Call("pm")}
    BY <2>1 DEF ApproveRequirement, Discuss
  <2>4. status' \in {"WAIT_HUMAN_REQUIREMENT", "DISCOVERY"}
    BY <2>1 DEF ApproveRequirement, Discuss, ChatRequirement
  <2>5. ModeSetByAdvice'
    <3>1. CASE decision.ready
      BY <2>1, <3>1 DEF ApproveRequirement, WorkInv, ModeSetByAdvice
    <3>2. CASE ~decision.ready
      <4>1. Discuss(decision)
        BY <2>1, <3>2
      <4> HIDE DEF decision
      <4> QED BY <4>1 DEF Discuss, ModeAfter, ModeSetByAdvice, WorkTypeOK, GraphState
    <3> QED BY <3>1, <3>2
  <2> QED BY <2>2, <2>3, <2>4, <2>5 DEF WorkInv, AtItsGate, TestedOnDisk, KeptIsTested,
      GateHasItsWork, ConfirmationIsOfAdvice, Idle, Call, Gate
<1> QED BY <1>1, <1>2, <1>3

LEMMA ChatPlanWorkInv ==
  ASSUME WorkTypeOK, WorkInv, ChatPlan
  PROVE  WorkInv'
<1>1. PICK m, answer :
        LET outcome == PlanOutcomeOf(PlanTurn(m, answer)) IN
        /\ CASE outcome = "approved" -> ApprovePlan
             [] outcome = "updated" /\ (model \/ graph.spec) -> job' = Call("replanner")
             [] OTHER -> UNCHANGED job
        /\ Took("WAIT_HUMAN_PLAN", m, answer, outcome)
  BY DEF ChatPlan
<1>2. job' \in {Idle, Call("coder"), Call("replanner")}
  BY <1>1 DEF ApprovePlan, ChatPlan
<1>3. turn'.outcome # "confirmed"
  <2>1. PlanOutcomeOf(PlanTurn(m, answer)) # "confirmed"
    BY DEF PlanOutcomeOf
  <2> QED BY <1>1, <2>1 DEF Took
<1> QED BY <1>2, <1>3 DEF ChatPlan, WorkInv, AtItsGate, TestedOnDisk, ModeSetByAdvice,
    KeptIsTested, GateHasItsWork, ConfirmationIsOfAdvice, OnDisk, Idle, Call

LEMMA FeedbackWorkInv ==
  ASSUME WorkTypeOK, WorkInv, TurnGate \/ PassGate
  PROVE  WorkInv'
<1>1. turn'.outcome = "none"
  BY DEF TurnGate, PassGate, Quiet, NoTurn
<1>2. CASE TurnGate
  <2>1. status' \in Gate \cup {"DONE"} => status = "WAIT_HUMAN_FINAL" /\ status' = "DONE"
    BY <1>2 DEF TurnGate, Turned, Gate
  <2> QED BY <1>1, <1>2, <2>1 DEF TurnGate, WorkInv, AtItsGate, TestedOnDisk, ModeSetByAdvice,
      KeptIsTested, GateHasItsWork, ConfirmationIsOfAdvice, OnDisk, Idle, Gate
<1>3. CASE PassGate
  BY <1>1, <1>3 DEF PassGate, WorkInv, AtItsGate, TestedOnDisk, ModeSetByAdvice,
     KeptIsTested, GateHasItsWork, ConfirmationIsOfAdvice, OnDisk, Idle, Call
<1> QED BY <1>2, <1>3

LEMMA PlanningWorkInv ==
  ASSUME WorkTypeOK, WorkInv, ReplannerRuns \/ PlannerRuns
  PROVE  WorkInv'
<1>1. turn'.outcome = "none"
  BY DEF ReplannerRuns, PlannerRuns, Quiet, NoTurn
<1>2. graph'.plan /\ graph'.mode = graph.mode
  BY DEF ReplannerRuns, PlannerRuns, WorkTypeOK, GraphState
<1> QED BY <1>1, <1>2 DEF ReplannerRuns, PlannerRuns, WorkInv, AtItsGate, TestedOnDisk,
    ModeSetByAdvice, KeptIsTested, GateHasItsWork, ConfirmationIsOfAdvice, Idle

LEMMA CodingWorkInv ==
  ASSUME WorkTypeOK, WorkInv, CoderRuns \/ DebuggerRuns
  PROVE  WorkInv'
<1>1. turn'.outcome = "none"
  BY DEF CoderRuns, DebuggerRuns, Quiet, NoTurn
<1>2. status = "WAIT_HUMAN_PLAN" /\ UNCHANGED <<status, graph, advice>>
  BY DEF CoderRuns, DebuggerRuns, WorkInv, AtItsGate
<1>3. job'.at = "test" /\ TestedOnDisk'
  <2>1. CASE CoderRuns
    <3>1. PICK files \in Code :
            job' = [at |-> "test", files |-> files] /\ disk' = Overwrite(disk, files)
      BY <2>1 DEF CoderRuns, WorkTypeOK, GraphState
    <3> QED BY <3>1, OverwriteOnDisk DEF TestedOnDisk, OnDisk
  <2>2. CASE DebuggerRuns
    <3>1. PICK patches \in Code :
            /\ job' = [at |-> "test", files |-> Overwrite(job.files, patches)]
            /\ disk' = Overwrite(disk, Overwrite(job.files, patches))
      BY <2>2 DEF DebuggerRuns, Debugged, WorkTypeOK, Job
    <3>2. Overwrite(job.files, patches) \in Code
      BY OverwriteTyped DEF WorkTypeOK, Job
    <3> QED BY <3>1, <3>2, OverwriteOnDisk DEF TestedOnDisk, OnDisk
  <2> QED BY <2>1, <2>2
<1> QED BY <1>1, <1>2, <1>3 DEF WorkInv, AtItsGate, ModeSetByAdvice,
    KeptIsTested, GateHasItsWork, ConfirmationIsOfAdvice
LEMMA RunTestsWorkInv ==
  ASSUME WorkTypeOK, WorkInv, RunTests
  PROVE  WorkInv'
<1>1. turn'.outcome = "none"
  BY DEF RunTests, Quiet, NoTurn
<1>2. CASE job' = [job EXCEPT !.at = "debugger"] /\ UNCHANGED <<status, graph, tested, reviewed>>
  <2>1. job'.at = "debugger" /\ job.at = "test" /\ UNCHANGED <<status, graph, disk, advice>>
    BY <1>2 DEF RunTests, WorkTypeOK, Job
  <2>2. status = "WAIT_HUMAN_PLAN"
    BY <2>1 DEF WorkInv, AtItsGate
  <2> QED BY <1>1, <2>1, <2>2 DEF WorkInv, AtItsGate, TestedOnDisk, ModeSetByAdvice,
      KeptIsTested, GateHasItsWork, ConfirmationIsOfAdvice
<1>3. ASSUME NEW result \in TestResults(job.files) \ {"fixable"},
             graph' = [graph EXCEPT !.code = job.files],
             status' = StatusAfter[result],
             tested' = IF result = "passed" THEN job.files ELSE NoCode,
             reviewed' = NoCode,
             job' = Idle
      PROVE  WorkInv'
  <2>1. /\ graph'.code = job.files
        /\ graph'.mode = graph.mode
        /\ graph'.spec = graph.spec
        /\ graph'.plan = graph.plan
    BY <1>3 DEF WorkTypeOK, GraphState
  <2>2. UNCHANGED <<disk, advice>> /\ OnDisk(job.files) /\ (graph.spec => graph.plan)
    BY DEF RunTests, WorkInv, AtItsGate, TestedOnDisk, GateHasItsWork, Gate
  <2>3. KeptIsTested' /\ GateHasItsWork'
    <3>1. CASE result = "passed"
      <4>1. status' = "WAIT_HUMAN_CODE" /\ job.files # NoCode
        BY <1>3, <3>1 DEF StatusAfter, TestResults
      <4> QED BY <1>3, <2>1, <2>2, <3>1, <4>1 DEF KeptIsTested, GateHasItsWork, OnDisk
    <3>2. CASE result # "passed"
      <4>1. status' \in {"CODING", "FAILED"}
        BY <1>3, <3>2 DEF StatusAfter, TestResults
      <4> QED BY <4>1 DEF KeptIsTested, GateHasItsWork, Gate
    <3> QED BY <3>1, <3>2
  <2> QED BY <1>1, <1>3, <2>1, <2>2, <2>3 DEF WorkInv, AtItsGate, TestedOnDisk,
      ModeSetByAdvice, ConfirmationIsOfAdvice, Idle
<1> QED BY <1>2, <1>3 DEF RunTests

LEMMA ReviewerWorkInv ==
  ASSUME WorkTypeOK, WorkInv, ReviewerRuns
  PROVE  WorkInv'
<1>1. turn'.outcome = "none"
  BY DEF ReviewerRuns, Quiet, NoTurn
<1>2. status = "WAIT_HUMAN_CODE"
  BY DEF ReviewerRuns, WorkInv, AtItsGate
<1> QED BY <1>1, <1>2 DEF ReviewerRuns, WorkInv, AtItsGate, TestedOnDisk, ModeSetByAdvice,
    KeptIsTested, GateHasItsWork, ConfirmationIsOfAdvice, OnDisk, Idle, Gate

LEMMA BesideWorkInv ==
  ASSUME WorkTypeOK, WorkInv, AgentPatches \/ Raises \/ Restart
  PROVE  WorkInv'
<1>1. turn'.outcome = "none"
  BY DEF AgentPatches, Raises, Restart, Quiet, NoTurn
<1>2. CASE AgentPatches
  <2>1. job.at \in {"coder", "debugger"} /\ UNCHANGED <<status, graph, job, advice, tested, reviewed>>
    BY <1>2, PatchersWrite DEF AgentPatches
  <2>2. status = "WAIT_HUMAN_PLAN"
    BY <2>1 DEF WorkInv, AtItsGate
  <2> QED BY <1>1, <2>1, <2>2 DEF WorkInv, AtItsGate, TestedOnDisk, ModeSetByAdvice,
      KeptIsTested, GateHasItsWork, ConfirmationIsOfAdvice
<1>3. CASE Raises
  BY <1>1, <1>3 DEF Raises, WorkInv, AtItsGate, TestedOnDisk, ModeSetByAdvice, KeptIsTested,
     GateHasItsWork, ConfirmationIsOfAdvice, OnDisk, Idle
<1>4. CASE Restart
  BY <1>1, <1>4 DEF Restart, WorkInv, AtItsGate, TestedOnDisk, ModeSetByAdvice, KeptIsTested,
     GateHasItsWork, ConfirmationIsOfAdvice, EmptyGraph, Idle
<1> QED BY <1>2, <1>3, <1>4

LEMMA StepWorkInv == WorkTypeOK /\ WorkInv /\ [Next]_vars => WorkInv'
<1> SUFFICES ASSUME WorkTypeOK, WorkInv, [Next]_vars PROVE WorkInv'
  OBVIOUS
<1>1. CASE Run \/ RefreshDraft \/ PMRuns
  BY <1>1, DiscoveryWorkInv
<1>2. CASE ChatRequirement \/ ChatPlan
  BY <1>2, ChatRequirementWorkInv, ChatPlanWorkInv
<1>3. CASE TurnGate \/ PassGate
  BY <1>3, FeedbackWorkInv
<1>4. CASE ReplannerRuns \/ PlannerRuns
  BY <1>4, PlanningWorkInv
<1>5. CASE CoderRuns \/ DebuggerRuns
  BY <1>5, CodingWorkInv
<1>6. CASE RunTests \/ ReviewerRuns
  BY <1>6, RunTestsWorkInv, ReviewerWorkInv
<1>7. CASE AgentPatches \/ Raises \/ Restart
  BY <1>7, BesideWorkInv
<1>8. CASE UNCHANGED vars
  BY <1>8 DEF vars, WorkInv, AtItsGate, TestedOnDisk, ModeSetByAdvice, KeptIsTested,
     GateHasItsWork, ConfirmationIsOfAdvice, OnDisk
<1> QED BY <1>1, <1>2, <1>3, <1>4, <1>5, <1>6, <1>7, <1>8 DEF Next

LEMMA WorkInvHolds == Spec => [](WorkTypeOK /\ WorkInv)
<1>1. Init => WorkTypeOK /\ WorkInv
  BY InitTyped, InitWorkInv
<1>2. WorkTypeOK /\ WorkInv /\ [Next]_vars => (WorkTypeOK /\ WorkInv)'
  BY StepTyped, StepWorkInv
<1> QED BY <1>1, <1>2, PTL DEF Spec

\* The code a human reviews, passes and is left with is the code that passed the
\* tests, on disk as well, for any number of files, patches and attempts.
THEOREM KeptIsTestedHolds == Spec => []KeptIsTested
<1>1. WorkInv => KeptIsTested
  BY DEF WorkInv
<1> QED BY <1>1, WorkInvHolds, PTL

\* A late gate shows a plan and code unless the process was restarted.
THEOREM GateHasItsWorkHolds == Spec => []GateHasItsWork
<1>1. WorkInv => GateHasItsWork
  BY DEF WorkInv
<1> QED BY <1>1, WorkInvHolds, PTL

\* A confirmation that goes past the PM follows a recommendation.
THEOREM ConfirmationIsOfAdviceHolds == Spec => []ConfirmationIsOfAdvice
<1>1. WorkInv => ConfirmationIsOfAdvice
  BY DEF WorkInv
<1> QED BY <1>1, WorkInvHolds, PTL

-----------------------------------------------------------------------------
(* What a chat turn comes to, for every message and every answer           *)

LEMMA StrippedAnswer ==
  ASSUME NEW m, NEW answer \in Answer
  PROVE  /\ Stripped(m, answer) \in Answer
         /\ Stripped(m, answer).ready = answer.ready
         /\ Stripped(m, answer).update \in {"none", answer.update}
         /\ Stripped(m, answer).update = "none" /\ answer.update # "none" => "blank" \in m
  BY DEF Stripped, Answer, Update

\* An agent that advises something sound is seen to, and only an answer that
\* is ready approves.
LEMMA OutcomesOfRequirement ==
  /\ OutcomeOf(Advise("sound")) = "advised"
  /\ OutcomeOf(Say("sound")) = "replied"
  /\ \A decision \in Answer : ~decision.ready =>
       OutcomeOf(decision) \notin {"confirmed", "approved"}
  BY DEF OutcomeOf, Advise, Say, Nothing, Answer, Text, Update

LEMMA OutcomesOfPlan ==
  /\ \A text \in {"weak", "sound"} : PlanOutcomeOf(Advise(text)) = "advised"
  /\ \A decision \in Answer : ~decision.ready =>
       PlanOutcomeOf(decision) \notin {"confirmed", "approved"}
  BY DEF PlanOutcomeOf, Advise, Nothing, Answer, Text, Update

\* decide_requirement_turn displaces whatever the model says to a user who
\* delegates, and has nothing to propose that would ask back.
LEMMA RequirementDelegated ==
  ASSUME NEW question, NEW m, NEW answer \in Answer, "delegates" \in m, ~answer.ready
  PROVE  OutcomeOf(RequirementTurn(question, m, answer)) = "advised"
<1> DEFINE a == Stripped(m, answer)
           offered == IF a.recommendation # "none" THEN a.recommendation ELSE a.reply
<1>1. ~a.ready /\ offered \in Text
  BY StrippedAnswer DEF Answer
<1>2. RequirementTurn(question, m, answer) =
        Advise(IF WeakRecommendation(offered) THEN FallbackRecommendation ELSE offered)
  BY <1>1 DEF RequirementTurn, DelegatesTradeoff
<1>3. (IF WeakRecommendation(offered) THEN FallbackRecommendation ELSE offered) = "sound"
  BY <1>1 DEF Text, WeakRecommendation, FallbackRecommendation
<1> QED BY <1>2, <1>3, OutcomesOfRequirement

\* With a question open and the plan asked for, one of the first two branches
\* of the turn is taken.
LEMMA RequirementAsked ==
  ASSUME NEW m \in RequirementReply, NEW answer \in Answer,
         "meta" \in m, answer.update # "own"
  PROVE  OutcomeOf(RequirementTurn(TRUE, m, answer)) \notin {"confirmed", "approved", "updated"}
<1> DEFINE a == Stripped(m, answer)
<1>1. CASE "delegates" \in m /\ ~answer.ready
  BY <1>1, RequirementDelegated
<1>2. CASE ~("delegates" \in m /\ ~answer.ready)
  <2>1. a.ready = answer.ready /\ a.update \in {"none", "said", "meta"}
    BY StrippedAnswer DEF Answer, Update
  <2>2. MetaReply(m, a.update)
    BY <2>1 DEF MetaReply
  <2>3. RequirementTurn(TRUE, m, answer) = Say("sound")
    BY <1>2, <2>1, <2>2 DEF RequirementTurn, DelegatesTradeoff
  <2> QED BY <2>3, OutcomesOfRequirement
<1> QED BY <1>1, <1>2

\* A turn is ready only with an answer that is.
LEMMA RequirementReady ==
  ASSUME NEW question, NEW m, NEW answer \in Answer, ~answer.ready
  PROVE  /\ RequirementTurn(question, m, answer) \in Answer
         /\ ~RequirementTurn(question, m, answer).ready
<1> DEFINE a == Stripped(m, answer)
<1>1. a \in Answer /\ ~a.ready
  BY StrippedAnswer
<1>2. \A text \in Text : Advise(text) \in Answer /\ ~Advise(text).ready
  BY DEF Advise, Nothing, Answer, Update, Text
<1>3. Say("sound") \in Answer /\ ~Say("sound").ready
  BY DEF Say, Nothing, Answer, Update, Text
<1>4. [Nothing EXCEPT !.update = "said"] \in Answer /\ ~[Nothing EXCEPT !.update = "said"].ready
  BY DEF Nothing, Answer, Update, Text
<1>5. \A text \in Text : (IF WeakRecommendation(text) THEN FallbackRecommendation ELSE text) \in Text
  BY DEF Text, FallbackRecommendation
<1>6. (IF a.recommendation # "none" THEN a.recommendation ELSE a.reply) \in Text
  BY <1>1 DEF Answer
<1> DEFINE offered == IF a.recommendation # "none" THEN a.recommendation ELSE a.reply
           text == IF WeakRecommendation(offered) THEN FallbackRecommendation ELSE offered
<1>7. RequirementTurn(question, m, answer) =
        IF DelegatesTradeoff(m) /\ ~a.ready THEN Advise(text)
        ELSE IF question /\ MetaReply(m, a.update) THEN Say("sound")
        ELSE IF a.ready THEN [a EXCEPT !.recommendation = "none", !.update = "none"]
        ELSE IF a = Nothing /\ "blank" \notin m THEN [Nothing EXCEPT !.update = "said"]
        ELSE a
  BY DEF RequirementTurn
<1> HIDE DEF a
<1>8. text \in Text
  BY <1>5, <1>6
<1> HIDE DEF text
<1>9. RequirementTurn(question, m, answer)
        \in {Advise(text), Say("sound"), [Nothing EXCEPT !.update = "said"], a}
  BY <1>1, <1>7
<1> QED BY <1>1, <1>2, <1>3, <1>4, <1>8, <1>9

LEMMA PlanDelegated ==
  ASSUME NEW m, NEW answer \in Answer, "delegates" \in m, ~answer.ready
  PROVE  PlanOutcomeOf(PlanTurn(m, answer)) = "advised"
<1> DEFINE a == Stripped(m, answer)
           offered == IF a.recommendation # "none" THEN a.recommendation ELSE a.reply
<1>1. ~a.ready /\ offered \in Text
  BY StrippedAnswer DEF Answer
<1>2. PlanTurn(m, answer) = Advise(IF offered = "none" THEN "sound" ELSE offered)
  BY <1>1 DEF PlanTurn, DelegatesTradeoff
<1>3. (IF offered = "none" THEN "sound" ELSE offered) \in {"weak", "sound"}
  BY <1>1 DEF Text
<1> QED BY <1>2, <1>3, OutcomesOfPlan

LEMMA PlanReady ==
  ASSUME NEW m, NEW answer \in Answer, ~answer.ready
  PROVE  PlanOutcomeOf(PlanTurn(m, answer)) \notin {"confirmed", "approved"}
<1> DEFINE a == Stripped(m, answer)
<1>1. CASE "delegates" \in m
  BY <1>1, PlanDelegated
<1>2. CASE "delegates" \notin m
  <2>1. a \in Answer /\ ~a.ready
    BY StrippedAnswer
  <2>2. PlanTurn(m, answer) \in
          {[Nothing EXCEPT !.update = IF a.update = "none" THEN "said" ELSE a.update],
           Say("sound"), a}
    BY <1>2, <2>1 DEF PlanTurn, DelegatesTradeoff
  <2>3. /\ [Nothing EXCEPT !.update = IF a.update = "none" THEN "said" ELSE a.update] \in Answer
        /\ ~[Nothing EXCEPT !.update = IF a.update = "none" THEN "said" ELSE a.update].ready
    BY <2>1 DEF Nothing, Answer, Update, Text
  <2>4. Say("sound") \in Answer /\ ~Say("sound").ready
    BY DEF Say, Nothing, Answer, Update, Text
  <2> HIDE DEF a
  <2> QED BY <2>1, <2>2, <2>3, <2>4, OutcomesOfPlan
<1> QED BY <1>1, <1>2

\* Without a model an answer is ready because the message confirms.
LEMMA FallbackReady ==
  ASSUME NEW question, NEW m, "confirms" \notin m
  PROVE  ~FallbackRequirementTurn(question, m).ready /\ ~FallbackPlanTurn(m).ready
  BY DEF FallbackRequirementTurn, FallbackPlanTurn, NaturalConfirmation, Advise, Say, Nothing

-----------------------------------------------------------------------------
(* The three promises about a chat turn                                    *)

TurnKept == DelegationIsAnswered /\ QuestionStaysOpen /\ ChatApprovalsConfirmed

LEMMA NoTurnKept ==
  ASSUME turn' = NoTurn
  PROVE  TurnKept'
  BY DEF NoTurn, TurnKept, DelegationIsAnswered, QuestionStaysOpen, ChatApprovalsConfirmed, Gate

LEMMA ChatRequirementKept ==
  ASSUME WorkTypeOK, ChatRequirement
  PROVE  TurnKept'
<1>1. PICK m \in RequirementReply : ConfirmRecommendation(m) \/ DecideRequirement(m)
  BY DEF ChatRequirement
<1>2. CASE ConfirmRecommendation(m)
  <2>1. m = {"exact", "confirms"}
    BY <1>2 DEF ConfirmRecommendation, ExactConfirmation, RequirementReply
  <2>2. turn'.message = m /\ turn'.outcome = "confirmed"
    BY <1>2 DEF ConfirmRecommendation, Took
  <2> QED BY <2>1, <2>2 DEF TurnKept, DelegationIsAnswered, QuestionStaysOpen,
      ChatApprovalsConfirmed
<1>3. CASE DecideRequirement(m)
  <2>1. PICK answer \in RequirementAnswer(m) :
          Took("WAIT_HUMAN_REQUIREMENT", m, answer,
               OutcomeOf(RequirementTurn(graph.question, m, answer)))
    BY <1>3 DEF DecideRequirement
  <2>2. answer \in Answer /\ graph.question \in BOOLEAN
    BY AnswersTyped DEF WorkTypeOK, GraphState
  <2>3. /\ turn'.message = m /\ turn'.ready = answer.ready
        /\ turn'.own <=> answer.update = "own"
        /\ turn'.question = graph.question
        /\ turn'.outcome = OutcomeOf(RequirementTurn(graph.question, m, answer))
    BY <2>1 DEF Took
  <2>4. DelegationIsAnswered'
    BY <2>2, <2>3, RequirementDelegated DEF DelegationIsAnswered
  <2>5. QuestionStaysOpen'
    BY <2>2, <2>3, RequirementAsked DEF QuestionStaysOpen
  <2>6. ChatApprovalsConfirmed'
    <3> SUFFICES ASSUME ~model, "confirms" \notin m
                 PROVE  turn'.outcome \notin {"confirmed", "approved"}
      BY <2>3 DEF ChatApprovalsConfirmed, ChatRequirement
    <3>1. ~answer.ready
      BY <2>1, FallbackReady DEF RequirementAnswer
    <3> QED BY <2>2, <2>3, <3>1, RequirementReady, OutcomesOfRequirement
  <2> QED BY <2>4, <2>5, <2>6 DEF TurnKept
<1> QED BY <1>1, <1>2, <1>3

LEMMA ChatPlanKept ==
  ASSUME WorkTypeOK, ChatPlan
  PROVE  TurnKept'
<1>0. PICK m \in PlanReply : \E answer \in PlanAnswer(m) :
        Took("WAIT_HUMAN_PLAN", m, answer, PlanOutcomeOf(PlanTurn(m, answer)))
  BY DEF ChatPlan
<1>1. PICK answer \in PlanAnswer(m) :
        Took("WAIT_HUMAN_PLAN", m, answer, PlanOutcomeOf(PlanTurn(m, answer)))
  BY <1>0
<1>2. answer \in Answer
  BY AnswersTyped
<1>3. /\ turn'.gate = "WAIT_HUMAN_PLAN" /\ turn'.message = m /\ turn'.ready = answer.ready
      /\ turn'.outcome = PlanOutcomeOf(PlanTurn(m, answer))
  BY <1>1 DEF Took
<1>4. DelegationIsAnswered'
  BY <1>2, <1>3, PlanDelegated DEF DelegationIsAnswered
<1>5. QuestionStaysOpen'
  BY <1>3 DEF QuestionStaysOpen
<1>6. ChatApprovalsConfirmed'
  <2> SUFFICES ASSUME ~model, "confirms" \notin m
               PROVE  turn'.outcome \notin {"confirmed", "approved"}
    BY <1>3 DEF ChatApprovalsConfirmed, ChatPlan
  <2>1. ~answer.ready
    BY <1>1, FallbackReady DEF PlanAnswer
  <2> QED BY <1>2, <1>3, <2>1, PlanReady
<1> QED BY <1>4, <1>5, <1>6 DEF TurnKept

LEMMA TurnStep == WorkTypeOK /\ TurnKept /\ [Next]_vars => TurnKept'
<1> SUFFICES ASSUME WorkTypeOK, TurnKept, [Next]_vars PROVE TurnKept'
  OBVIOUS
<1>1. CASE ChatRequirement \/ ChatPlan
  BY <1>1, ChatRequirementKept, ChatPlanKept
<1>2. CASE UNCHANGED vars
  BY <1>2 DEF vars, TurnKept, DelegationIsAnswered, QuestionStaysOpen, ChatApprovalsConfirmed
<1>3. CASE Next /\ ~ChatRequirement /\ ~ChatPlan
  <2>1. turn' = NoTurn
    BY <1>3 DEF Next, Run, RefreshDraft, PMRuns, ReplannerRuns, TurnGate, PassGate,
       PlannerRuns, CoderRuns, RunTests, DebuggerRuns, ReviewerRuns, AgentPatches,
       Raises, Restart, Quiet
  <2> QED BY <2>1, NoTurnKept
<1> QED BY <1>1, <1>2, <1>3

LEMMA TurnsKept == Spec => []TurnKept
<1>1. Init => TurnKept
  BY DEF Init, NoTurn, TurnKept, DelegationIsAnswered, QuestionStaysOpen,
     ChatApprovalsConfirmed, Gate
<1> QED BY <1>1, InitTyped, StepTyped, TurnStep, PTL DEF Spec

\* At either gate, with a model that answers anything and without one, who
\* delegates the decision is given a proposal unless the answer is ready.
THEOREM DelegationIsAnsweredHolds == Spec => []DelegationIsAnswered
<1>1. TurnKept => DelegationIsAnswered
  BY DEF TurnKept
<1> QED BY <1>1, TurnsKept, PTL

\* decide_requirement_turn neither passes the gate nor changes the requirement
\* for a user who asks for the plan while a question is open.
THEOREM QuestionStaysOpenHolds == Spec => []QuestionStaysOpen
<1>1. TurnKept => QuestionStaysOpen
  BY DEF TurnKept
<1> QED BY <1>1, TurnsKept, PTL

\* The fallbacks of PM and planner pass a gate for a confirmation only, and so
\* does the service for a bare one.
THEOREM ChatApprovalsConfirmedHolds == Spec => []ChatApprovalsConfirmed
<1>1. TurnKept => ChatApprovalsConfirmed
  BY DEF TurnKept
<1> QED BY <1>1, TurnsKept, PTL

-----------------------------------------------------------------------------
(* Tools                                                                   *)

\* ToolRegistry.execute with the tables of profiles.py and of the policy file:
\* whichever call is in progress, only the coder and the debugger, who run with
\* leave to write, have a tool with side effects executed.
THEOREM WriteNeedsLeaveHolds == Spec => []WriteNeedsLeave
<1>1. ASSUME NEW agent \in Agent, NEW tool \in SideEffect, Executes(agent, tool)
      PROVE  agent \in WriteAllowed
  BY <1>1 DEF Agent, SideEffect, Executes, Offered, Bound, Profile, WriteAllowed
<1>2. \A label \in DOMAIN Worker : Worker[label] \in Agent
  BY DEF Worker, Agent, Profile
<1>3. WriteNeedsLeave
  BY <1>1, <1>2 DEF WriteNeedsLeave
<1> QED BY <1>3, PTL

-----------------------------------------------------------------------------
(* Refinement of KeptCode                                                  *)

LEMMA InitPromise == Init => Promise!Init
  BY DEF Init, Promise!Init, Stage, EmptyGraph

LEMMA Unseen ==
  ASSUME UNCHANGED <<status, graph, disk, tested>>
  PROVE  UNCHANGED Promise!promise
  BY DEF Promise!promise, Stage, Kept

LEMMA Withdrawn ==
  ASSUME Stage' = "nothing"
  PROVE  Promise!Next
  BY DEF Promise!Next, Promise!Withdraw

LEMMA StageAtGates ==
  ASSUME status' \notin {"WAIT_HUMAN_CODE", "WAIT_HUMAN_FINAL", "DONE"}
  PROVE  Stage' = "nothing"
  BY DEF Stage

LEMMA OfferStep ==
  ASSUME WorkTypeOK, WorkTypeOK', WorkInv', RunTests
  PROVE  Promise!Next \/ UNCHANGED Promise!promise
<1>1. CASE Stage' = "nothing"
  BY <1>1, Withdrawn
<1>2. CASE status' = status /\ graph' = graph /\ tested' = tested
  BY <1>2, Unseen DEF RunTests
<1>3. CASE status' = "WAIT_HUMAN_CODE" /\ Stage' # "nothing"
  <2>1. graph'.code # NoCode /\ Stage' = "tested"
    BY <1>3 DEF Stage
  <2>2. tested' = graph'.code /\ OnDisk(graph.code)'
    BY <1>3, <2>1 DEF WorkInv, KeptIsTested
  <2>3. Kept' = graph'.code
    BY <2>2 DEF WorkTypeOK, GraphState, Code, OnDisk, Kept
  <2>4. graph'.code \in Code
    BY DEF WorkTypeOK, GraphState
  <2>5. Promise!Offer
    BY <2>1, <2>2, <2>3, <2>4 DEF Promise!Offer
  <2> QED BY <2>5 DEF Promise!Next
<1>4. \/ status' = status /\ graph' = graph /\ tested' = tested
      \/ status' \in {"WAIT_HUMAN_CODE", "CODING", "FAILED"}
  BY DEF RunTests, TestResults, StatusAfter
<1> QED BY <1>1, <1>2, <1>3, <1>4, StageAtGates

LEMMA ReviewStep ==
  ASSUME WorkInv, ReviewerRuns
  PROVE  Promise!Next
<1>1. status = "WAIT_HUMAN_CODE" /\ status' = "WAIT_HUMAN_FINAL" /\ UNCHANGED <<graph, disk, tested>>
  BY DEF ReviewerRuns, WorkInv, AtItsGate
<1>2. CASE graph.code = NoCode
  BY <1>1, <1>2, Withdrawn DEF Stage
<1>3. CASE graph.code # NoCode
  <2>1. Promise!Review
    BY <1>1, <1>3 DEF Promise!Review, Stage, Kept
  <2> QED BY <2>1 DEF Promise!Next
<1> QED BY <1>2, <1>3

LEMMA FinishStep ==
  ASSUME TurnGate
  PROVE  Promise!Next
<1>1. UNCHANGED <<graph, disk, tested>>
  BY DEF TurnGate
<1>2. CASE status = "WAIT_HUMAN_FINAL" /\ status' = "DONE"
  <2>1. CASE graph.code = NoCode
    BY <1>1, <2>1, Withdrawn DEF Stage
  <2>2. CASE graph.code # NoCode
    <3>1. Promise!Finish
      BY <1>1, <1>2, <2>2 DEF Promise!Finish, Stage, Kept
    <3> QED BY <3>1 DEF Promise!Next
  <2> QED BY <2>1, <2>2
<1>3. CASE status' \notin {"WAIT_HUMAN_CODE", "WAIT_HUMAN_FINAL", "DONE"}
  BY <1>3, StageAtGates, Withdrawn
<1> QED BY <1>2, <1>3 DEF TurnGate, Turned, Gate

LEMMA StepPromise ==
  WorkTypeOK /\ WorkTypeOK' /\ WorkInv /\ WorkInv' /\ [Next]_vars
    => [Promise!Next]_Promise!promise
<1> SUFFICES ASSUME WorkTypeOK, WorkTypeOK', WorkInv, WorkInv', [Next]_vars
             PROVE  Promise!Next \/ UNCHANGED Promise!promise
  OBVIOUS
<1>1. CASE Run \/ PassGate \/ ChatPlan \/ Raises \/ UNCHANGED vars
  BY <1>1, Unseen DEF Run, PassGate, ChatPlan, Raises, vars
<1>2. CASE RefreshDraft \/ PMRuns \/ PlannerRuns \/ ReplannerRuns
  <2>1. status' \in {"DISCOVERY", "WAIT_HUMAN_REQUIREMENT", "WAIT_HUMAN_PLAN"}
    BY <1>2 DEF RefreshDraft, PMRuns, PlannerRuns, ReplannerRuns
  <2> QED BY <2>1, StageAtGates, Withdrawn
<1>3. CASE ChatRequirement
  <2>1. status' \in {"DISCOVERY", "WAIT_HUMAN_REQUIREMENT"}
    BY <1>3 DEF ChatRequirement, ConfirmRecommendation, DecideRequirement,
       ApproveRequirement, Discuss
  <2> QED BY <2>1, StageAtGates, Withdrawn
<1>4. CASE CoderRuns \/ DebuggerRuns \/ AgentPatches
  <2>1. job.at \in {"coder", "debugger"} /\ status' = status
    BY <1>4, PatchersWrite DEF CoderRuns, DebuggerRuns, AgentPatches
  <2> QED BY <2>1, StageAtGates, Withdrawn DEF WorkInv, AtItsGate
<1>5. CASE RunTests
  BY <1>5, OfferStep
<1>6. CASE ReviewerRuns
  BY <1>6, ReviewStep
<1>7. CASE TurnGate
  BY <1>7, FinishStep
<1>8. CASE Restart
  <2>1. Stage' = "nothing"
    BY <1>8 DEF Restart, Stage, EmptyGraph
  <2> QED BY <2>1, Withdrawn
<1> QED BY <1>1, <1>2, <1>3, <1>4, <1>5, <1>6, <1>7, <1>8 DEF Next

\* From the code gate to the end the files stay as they were tested, and they are
\* reviewed before they are done.
THEOREM ImplementsPromiseHolds == Spec => ImplementsPromise
  BY InitPromise, StepPromise, WorkInvHolds, PTL DEF Spec, ImplementsPromise, Promise!Spec
=============================================================================
