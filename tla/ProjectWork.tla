---------------------------- MODULE ProjectWork ----------------------------
(***************************************************************************)
(* The work inside the requests of one project, with its data: what the    *)
(* agents of agents/ make of a message, a plan and the files, what is      *)
(* tested, written to disk and reviewed, and what the graph state keeps.   *)
(*                                                                         *)
(* WorkflowService interleaves the requests and reduces their data to      *)
(* whether a value is there; here the requests of the project come one     *)
(* after the other and the end of one - graph state, checkpoint, status -  *)
(* is one step.  The steps between are the calls of agents and sandbox,    *)
(* which may raise, and the process may crash at any of them.              *)
(***************************************************************************)
EXTENDS AgentTurns, AgentTools

CONSTANTS File, Content,  \* paths of the project, and texts they may hold
          Absent          \* no such file

ASSUME AbsentIsNoContent == Absent \notin Content

VARIABLES model,     \* whether the agents have a language model
          status,    \* TaskStatus of the project row
          graph,     \* the graph state of the project, in memory
          disk,      \* the files under the project's code directory
          job,       \* the call the running request is at, and its code_files
          advice,    \* history: whether a recommendation stands at this gate
          tested,    \* history: the code of the graph state, if it passed
          reviewed,  \* history: the code the reviewer was given
          turn       \* history: the chat turn just taken

vars == <<model, status, graph, disk, job, advice, tested, reviewed, turn>>

-----------------------------------------------------------------------------
Code == [File -> Content \cup {Absent}]

NoCode == [f \in File |-> Absent]

\* dict.update, and the files of a directory after others are written to it.
Overwrite(old, new) ==
  [f \in File |-> IF new[f] # Absent THEN new[f] ELSE old[f]]

\* Every file of code is on the disk as it is in code.
OnDisk(code) == \A f \in File : code[f] # Absent => disk[f] = code[f]

\* A requirement is there or not, with an open question or none; mode is
\* 'awaiting_recommendation_confirmation'.
GraphState == [spec : BOOLEAN, question : BOOLEAN, mode : BOOLEAN,
               plan : BOOLEAN, code : Code]

EmptyGraph == [spec |-> FALSE, question |-> FALSE, mode |-> FALSE,
               plan |-> FALSE, code |-> NoCode]

\* The waiting statuses are those with a review gate.  TESTING and REVIEW are
\* statuses no request stores.
Gate == {"WAIT_HUMAN_REQUIREMENT", "WAIT_HUMAN_PLAN", "WAIT_HUMAN_CODE", "WAIT_HUMAN_FINAL"}
Status == Gate \cup {"DISCOVERY", "PLANNING", "CODING", "DEBUGGING", "DONE", "FAILED", "CANCELLED"}

EarlyStatus == {"DISCOVERY", "WAIT_HUMAN_REQUIREMENT", "PLANNING", "WAIT_HUMAN_PLAN"}

\* Who works at each point of a request; the sandbox is no agent.
Worker == [pm |-> "pm", planner |-> "planner", replanner |-> "planner",
           coder |-> "coder", debugger |-> "debugger", reviewer |-> "reviewer"]

Job == [at : DOMAIN Worker \cup {"idle", "test"}, files : Code]

Idle == [at |-> "idle", files |-> NoCode]
Call(label) == [Idle EXCEPT !.at = label]

\* A chat turn: the message, whether a question was open, whether the answer
\* of the agent was ready or had a text of its own for an update, what came of it.
Outcome == {"confirmed", "approved", "advised", "suggested", "replied", "updated"}
NoTurn == [gate |-> "none", message |-> {}, question |-> FALSE,
           ready |-> FALSE, own |-> FALSE, outcome |-> "none"]
Turn == [gate : Gate, message : RequirementReply \cup PlanReply, question : BOOLEAN,
         ready : BOOLEAN, own : BOOLEAN, outcome : Outcome] \cup {NoTurn}

Quiet == turn' = NoTurn /\ UNCHANGED model

Init ==
  /\ model \in BOOLEAN
  /\ status = "DISCOVERY"
  /\ graph = EmptyGraph
  /\ disk = NoCode
  /\ job = Idle
  /\ advice = "none"
  /\ tested = NoCode
  /\ reviewed = NoCode
  /\ turn = NoTurn

-----------------------------------------------------------------------------
(* Discovery: POST /projects/{id}/run, the director's drafts, PMAgent.run  *)

Run ==
  /\ job = Idle
  /\ job' = Call("pm")
  /\ Quiet
  /\ UNCHANGED <<status, graph, disk, advice, tested, reviewed>>

\* A new draft throws an early project back; nothing runs before the next run.
RefreshDraft ==
  /\ job = Idle
  /\ status \in EarlyStatus
  /\ status' = "DISCOVERY"
  /\ Quiet
  /\ UNCHANGED <<graph, disk, job, advice, tested, reviewed>>

\* Without a model the PM has no question.  The code, and the mode of the last
\* turn, stay what they were.
PMRuns ==
  /\ job.at = "pm"
  /\ \E question \in (IF model THEN BOOLEAN ELSE {FALSE}) :
       graph' = [graph EXCEPT !.spec = TRUE, !.question = question, !.plan = FALSE]
  /\ status' = "WAIT_HUMAN_REQUIREMENT"
  /\ job' = Idle
  /\ advice' = IF advice = "none" THEN "none" ELSE "outdated"
  /\ Quiet
  /\ UNCHANGED <<disk, tested, reviewed>>

-----------------------------------------------------------------------------
(* A chat turn at the requirement gate: continue_requirement_discovery     *)

Took(gate, m, answer, outcome) ==
  turn' = [gate |-> gate, message |-> m, question |-> graph.question,
           ready |-> answer.ready, own |-> answer.update = "own", outcome |-> outcome]

\* apply_feedback finds the gate it is at; the planner needs a requirement.
ApproveRequirement ==
  /\ job' = IF graph.spec THEN Call("planner") ELSE Idle
  /\ UNCHANGED <<status, graph, advice>>

\* Variant with a fault: only a confirmation ends the waiting for one.
ModeAfterSticks(decision) == decision.recommendation # "none" \/ graph.mode

\* Every turn that does not recommend ends the waiting for a confirmation.
ModeAfter(decision) == decision.recommendation # "none"

\* What the workflow does with a decision that does not approve.
Discuss(decision) ==
  /\ graph' = [graph EXCEPT !.mode = ModeAfter(decision)]
  /\ advice' = IF decision.recommendation # "none" THEN "current" ELSE "none"
  /\ LET updates == decision.recommendation = "none" /\ decision.reply = "none"
                      /\ decision.update # "none"
     IN  /\ status' = IF updates THEN "DISCOVERY" ELSE status
         /\ job' = IF updates THEN Call("pm") ELSE Idle

\* What the user sees of it.  Only at the requirement gate is a recommendation
\* that asks back told from one that proposes something.
OutcomeOf(decision) ==
  CASE decision.ready -> "approved"
    [] ~decision.ready /\ decision.recommendation = "sound" -> "advised"
    [] ~decision.ready /\ decision.recommendation = "weak" -> "suggested"
    [] ~decision.ready /\ decision.recommendation = "none"
         /\ (decision.reply # "none" \/ decision.update = "none") -> "replied"
    [] OTHER -> "updated"

\* A bare confirmation of a recommendation is not shown to the PM.
ConfirmRecommendation(m) ==
  /\ graph.mode
  /\ ExactConfirmation(m)
  /\ ApproveRequirement
  /\ Took("WAIT_HUMAN_REQUIREMENT", m, Nothing, "confirmed")

\* The answers an agent may come to: any with a model, the fallback's without.
RequirementAnswer(m) ==
  IF model THEN Answer ELSE {FallbackRequirementTurn(graph.question, m)}

DecideRequirement(m) ==
  /\ ~(graph.mode /\ ExactConfirmation(m))
  /\ \E answer \in RequirementAnswer(m) :
       LET decision == RequirementTurn(graph.question, m, answer) IN
       /\ IF decision.ready THEN ApproveRequirement ELSE Discuss(decision)
       /\ Took("WAIT_HUMAN_REQUIREMENT", m, answer, OutcomeOf(decision))

ChatRequirement ==
  /\ job = Idle
  /\ status = "WAIT_HUMAN_REQUIREMENT"
  /\ \E m \in RequirementReply : ConfirmRecommendation(m) \/ DecideRequirement(m)
  /\ UNCHANGED <<model, disk, tested, reviewed>>

-----------------------------------------------------------------------------
(* A chat turn at the plan gate: continue_plan_review                      *)

\* The coder needs the plan: without one it raises a KeyError.
ApprovePlan == job' = IF graph.plan THEN Call("coder") ELSE Idle

PlanAnswer(m) == IF model THEN Answer ELSE {FallbackPlanTurn(m)}

\* Here an update is looked for before a reply.
PlanOutcomeOf(decision) ==
  CASE decision.ready -> "approved"
    [] ~decision.ready /\ decision.recommendation # "none" -> "advised"
    [] ~decision.ready /\ decision.recommendation = "none"
         /\ decision.update # "none" -> "updated"
    [] OTHER -> "replied"

\* Without a model the planner repeats the summary of the requirement, which a
\* graph state from before a crash does not have: it raises.
ChatPlan ==
  /\ job = Idle
  /\ status = "WAIT_HUMAN_PLAN"
  /\ \E m \in PlanReply : \E answer \in PlanAnswer(m) :
       LET outcome == PlanOutcomeOf(PlanTurn(m, answer)) IN
       /\ CASE outcome = "approved" -> ApprovePlan
            [] outcome = "updated" /\ (model \/ graph.spec) -> job' = Call("replanner")
            [] OTHER -> UNCHANGED job
       /\ Took("WAIT_HUMAN_PLAN", m, answer, outcome)
  /\ UNCHANGED <<model, status, graph, disk, advice, tested, reviewed>>

\* The plan of the merged requirement is put up at a new plan gate.
ReplannerRuns ==
  /\ job.at = "replanner"
  /\ graph' = [graph EXCEPT !.spec = TRUE, !.plan = TRUE]
  /\ status' = "WAIT_HUMAN_PLAN"
  /\ job' = Idle
  /\ Quiet
  /\ UNCHANGED <<disk, advice, tested, reviewed>>

-----------------------------------------------------------------------------
(* Feedback on the gate the project waits at: apply_feedback               *)

\* Variant with a fault: code that is approved is done.
TurnedSkipsReview ==
  [WAIT_HUMAN_REQUIREMENT |-> {"DISCOVERY", "CANCELLED"},
   WAIT_HUMAN_PLAN        |-> {"PLANNING", "CANCELLED"},
   WAIT_HUMAN_CODE        |-> {"PLANNING", "CODING", "DONE"},
   WAIT_HUMAN_FINAL       |-> {"DONE", "PLANNING", "DEBUGGING", "CODING", "CANCELLED"}]

\* What an answer that runs no agent makes of the project.
Turned ==
  [WAIT_HUMAN_REQUIREMENT |-> {"DISCOVERY", "CANCELLED"},
   WAIT_HUMAN_PLAN        |-> {"PLANNING", "CANCELLED"},
   WAIT_HUMAN_CODE        |-> {"PLANNING", "CODING"},
   WAIT_HUMAN_FINAL       |-> {"DONE", "PLANNING", "DEBUGGING", "CODING", "CANCELLED"}]

TurnGate ==
  /\ job = Idle
  /\ status \in Gate
  /\ status' \in Turned[status]
  /\ Quiet
  /\ UNCHANGED <<graph, disk, job, advice, tested, reviewed>>

PassGate ==
  /\ job = Idle
  /\ \/ status = "WAIT_HUMAN_REQUIREMENT" /\ graph.spec /\ job' = Call("planner")
     \/ status = "WAIT_HUMAN_PLAN" /\ graph.plan /\ job' = Call("coder")
     \/ status = "WAIT_HUMAN_CODE" /\ graph.plan /\ job' = Call("reviewer")
  /\ Quiet
  /\ UNCHANGED <<status, graph, disk, advice, tested, reviewed>>

PlannerRuns ==
  /\ job.at = "planner"
  /\ graph' = [graph EXCEPT !.plan = TRUE]
  /\ status' = "WAIT_HUMAN_PLAN"
  /\ job' = Idle
  /\ Quiet
  /\ UNCHANGED <<disk, advice, tested, reviewed>>

\* Without a model the coder hands back what it was given.  The files of its
\* answer are the code from here on, over what the directory already holds.
CoderRuns ==
  /\ job.at = "coder"
  /\ \E files \in (IF model THEN Code ELSE {graph.code}) :
       /\ job' = [at |-> "test", files |-> files]
       /\ disk' = Overwrite(disk, files)
  /\ Quiet
  /\ UNCHANGED <<status, graph, advice, tested, reviewed>>

\* Variant with a fault: a suite without tests is a suite that passes.
TestResultsAlways(code) == {"passed", "fixable", "static_check", "other"}

\* The sandbox writes the code into an empty directory of its own; pytest fails
\* where it finds no test.  A sandbox other than DockerSandbox may also find the
\* code not fit to be tested, or fail in a way of its own.
TestResults(code) ==
  IF code = NoCode THEN {"fixable"} ELSE {"passed", "fixable", "static_check", "other"}

\* Variant with a fault: code that is not fit to be tested waits for tests.
StatusAfterWaits ==
  [passed |-> "WAIT_HUMAN_CODE", static_check |-> "TESTING", other |-> "FAILED"]

StatusAfter ==
  [passed |-> "WAIT_HUMAN_CODE", static_check |-> "CODING", other |-> "FAILED"]

RunTests ==
  /\ job.at = "test"
  /\ \/ /\ job' = [job EXCEPT !.at = "debugger"]
        /\ UNCHANGED <<status, graph, tested, reviewed>>
     \/ \E result \in TestResults(job.files) \ {"fixable"} :
          /\ graph' = [graph EXCEPT !.code = job.files]
          /\ status' = StatusAfter[result]
          /\ tested' = IF result = "passed" THEN job.files ELSE NoCode
          /\ reviewed' = NoCode
          /\ job' = Idle
  /\ Quiet
  /\ UNCHANGED <<disk, advice>>

\* Variant with a fault: only the patches are written to disk.
DebuggedPatchesOnly(patches) == patches

\* The files written to disk after the debugger: all of them again.
Debugged(patches) == Overwrite(job.files, patches)

\* Without a model the debugger hands back what failed, for ever.
DebuggerRuns ==
  /\ job.at = "debugger"
  /\ \E patches \in (IF model THEN Code ELSE {job.files}) :
       /\ job' = [at |-> "test", files |-> Overwrite(job.files, patches)]
       /\ disk' = Overwrite(disk, Debugged(patches))
  /\ Quiet
  /\ UNCHANGED <<status, graph, advice, tested, reviewed>>

\* Whatever the reviewer says, the final gate is next.
ReviewerRuns ==
  /\ job.at = "reviewer"
  /\ reviewed' = graph.code
  /\ status' = "WAIT_HUMAN_FINAL"
  /\ job' = Idle
  /\ Quiet
  /\ UNCHANGED <<graph, disk, advice, tested>>

-----------------------------------------------------------------------------
(* Beside the calls                                                        *)

\* While an agent works, its model may apply patches of its own under any root
\* directory, that of the project among them.  No other tool leaves a trace.
AgentPatches ==
  /\ model
  /\ job.at \in DOMAIN Worker
  /\ Executes(Worker[job.at], "patch_applier")
  /\ \E patch \in Code : disk' = Overwrite(disk, patch)
  /\ Quiet
  /\ UNCHANGED <<status, graph, job, advice, tested, reviewed>>

\* An agent, or the sandbox, raises: the request ends with what it has done.
Raises ==
  /\ job # Idle
  /\ job' = Idle
  /\ Quiet
  /\ UNCHANGED <<status, graph, disk, advice, tested, reviewed>>

\* The graph state is in memory only.
Restart ==
  /\ graph' = EmptyGraph
  /\ job' = Idle
  /\ advice' = "none"
  /\ tested' = NoCode
  /\ reviewed' = NoCode
  /\ Quiet
  /\ UNCHANGED <<status, disk>>

Next ==
  \/ Run \/ RefreshDraft \/ PMRuns
  \/ ChatRequirement \/ ChatPlan \/ ReplannerRuns
  \/ TurnGate \/ PassGate
  \/ PlannerRuns \/ CoderRuns \/ RunTests \/ DebuggerRuns \/ ReviewerRuns
  \/ AgentPatches \/ Raises \/ Restart

Spec == Init /\ [][Next]_vars

-----------------------------------------------------------------------------
(* Properties                                                              *)

\* Type correctness: the graph state, the files and the call in progress keep
\* their shape through every request, failure and restart.
WorkTypeOK ==
  /\ model \in BOOLEAN
  /\ status \in Status
  /\ graph \in GraphState
  /\ disk \in Code
  /\ job \in Job
  /\ advice \in {"none", "current", "outdated"}
  /\ tested \in Code
  /\ reviewed \in Code
  /\ turn \in Turn

\* The code a human reviews at the code gate, passes at the final gate and is
\* left with is the code that passed the tests, file by file on disk, and from
\* the final gate on the code the reviewer saw - whatever agents wrote in
\* between, earlier attempts left behind or failures cut short
\* (_apply_plan_feedback, _apply_code_feedback).
KeptIsTested ==
  status \in {"WAIT_HUMAN_CODE", "WAIT_HUMAN_FINAL", "DONE"} /\ graph.code # NoCode =>
    /\ tested = graph.code
    /\ OnDisk(graph.code)
    /\ status # "WAIT_HUMAN_CODE" => reviewed = graph.code

\* A late gate shows a plan, and from the code gate on code, unless the process
\* was restarted since the requirement was made: passing it does not run into a
\* missing value or hand a human nothing to review, even where a coder drops
\* every file or a project is run again at any point (run_tests, _run_discovery).
GateHasItsWork ==
  graph.spec =>
    /\ status \in Gate \ {"WAIT_HUMAN_REQUIREMENT"} => graph.plan
    /\ status \in {"WAIT_HUMAN_CODE", "WAIT_HUMAN_FINAL", "DONE"} => graph.code # NoCode

\* An "ok" that goes past the PM confirms a recommendation: it was the last
\* thing said at this gate, or a discovery has been run since and left the mode
\* of the turn behind (continue_requirement_discovery).
ConfirmationIsOfAdvice == turn.outcome = "confirmed" => advice # "none"

\* A user who leaves the decision to the agent is given a proposal, never a
\* question back, and his words never become part of requirement or plan - with
\* and without a model, whatever it answers, unless it says it is ready
\* (decide_requirement_turn, decide_plan_turn).
DelegationIsAnswered ==
  turn.gate \in Gate /\ "delegates" \in turn.message /\ ~turn.ready =>
    turn.outcome = "advised"

\* A user who asks for the plan while a question is open is told so: neither is
\* the gate passed nor his question made a requirement, whatever the model
\* answers, unless it words an update of its own (decide_requirement_turn).
QuestionStaysOpen ==
  turn.gate = "WAIT_HUMAN_REQUIREMENT" /\ turn.question /\ "meta" \in turn.message
    /\ ~turn.own => turn.outcome \notin {"confirmed", "approved", "updated"}

\* Without a model a chat passes a gate by a confirmation only, never because
\* nothing else fits (_fallback_requirement_turn, _fallback_plan_turn).
ChatApprovalsConfirmed ==
  ~model /\ turn.outcome \in {"confirmed", "approved"} => "confirms" \in turn.message

\* No agent that runs without leave to write can execute a tool with side
\* effects; test_runner is one, though none of the write tags of the policy
\* covers it (ToolRegistry.execute).
WriteNeedsLeave ==
  job.at \in DOMAIN Worker =>
    \A tool \in SideEffect :
      Executes(Worker[job.at], tool) => Worker[job.at] \in WriteAllowed

-----------------------------------------------------------------------------
(* Refinement of KeptCode                                                  *)

Stage ==
  IF graph.code = NoCode THEN "nothing"
  ELSE CASE status = "WAIT_HUMAN_CODE"  -> "tested"
         [] status = "WAIT_HUMAN_FINAL" -> "reviewed"
         [] status = "DONE"             -> "done"
         [] OTHER                       -> "nothing"

\* The files of the code as the directory has them.
Kept == [f \in File |-> IF graph.code[f] # Absent THEN disk[f] ELSE Absent]

Promise == INSTANCE KeptCode WITH
  stage  <- Stage,
  kept   <- IF Stage = "nothing" THEN NoCode ELSE Kept,
  passed <- IF Stage = "nothing" THEN NoCode ELSE tested

\* The work on a project implements the promise: from the code gate to the end
\* the files on disk stay as they were tested, reviewed before they are done,
\* whatever agents and other requests do in between (apply_feedback).
ImplementsPromise == Promise!Spec
=============================================================================
