--------------------------- MODULE WorkflowService ---------------------------
(***************************************************************************)
(* graph/runtime.py: the service that moves a project through its review   *)
(* gates.  FastAPI runs the synchronous routes in a thread pool, so the    *)
(* requests of Thread interleave at every call they make to the manager,   *)
(* to the graph store and to an agent; one step of a request here is one   *)
(* such call (reads of rows that cannot change are joined with the step    *)
(* that follows them).                                                     *)
(*                                                                         *)
(* The graph store is langgraph's InMemorySaver: it is lost when the       *)
(* process restarts, the database and the files are not.                   *)
(*                                                                         *)
(* Agents and the sandbox are external: a call returns or raises, and what *)
(* it returns is reduced to whether a value is there.                      *)
(***************************************************************************)
EXTENDS WorkspaceManager

CONSTANTS Thread,      \* the threads of the pool
          MaxVersion,  \* bound: no request is accepted at this version
          Crashes      \* when the process may crash and restart

ASSUME BoundsOK == MaxVersion \in Nat /\ Crashes \in {"never", "between", "anywhere"}

VARIABLES graph,    \* langgraph state of each project
          pc,       \* where each thread is in its request
          req,      \* the locals of that request
          answers   \* history: the answers of humans the workflow acted on

vars == <<store, graph, pc, req, answers>>

-----------------------------------------------------------------------------
\* The actions of a feedback the handlers name; "other" is every other string
\* ('pause' and 'reject' among them: FeedbackRequest.action is a plain str).
Action == {"approve", "revise", "replan", "other"}

\* 'plan' is missing from a fresh state and None after a discovery.
GraphState == [spec : BOOLEAN, plan : {"missing", "none", "made"},
               code : BOOLEAN, review : BOOLEAN]

EmptyGraph == [spec |-> FALSE, plan |-> "missing", code |-> FALSE, review |-> FALSE]

FeedbackPc == {"check", "snapshot", "dispatch"}
CodingPc   == {"test", "debug"}
FlowPc     == {"create", "resolve", "flow"}
SyncPc     == {"sync", "write_memory"}
TurnPc     == {"stage", "requirement_turn", "turn_refresh", "plan_turn",
               "plan_revise", "revise_resolve", "revise_create", "revise_status"}
StartPc    == {"bind", "discovery", "invoke", "requirement_create"}
OtherPc    == {"idle", "refresh", "delete", "rmtree"}
Pc == FeedbackPc \cup CodingPc \cup FlowPc \cup SyncPc \cup TurnPc
        \cup StartPc \cup OtherPc

\* The locals of a request.  A field is Null before the request has read or
\* chosen it, and again when nothing reads it any more.  shown is the project
\* row the human saw when he answered: only a property reads it.
Request ==
  [project   : Project \cup {Null},
   cp        : Checkpoint \cup {Null},
   type      : CheckpointType \cup {Null},
   action    : Action \cup {Null},
   version   : Nat,
   shown     : [status : TaskStatus \cup {Null}, current : Checkpoint \cup {Null}],
   snap      : GraphState,
   outcome   : TaskStatus \cup {Null},
   next      : Checkpoint \cup {Null},
   decisions : SUBSET CheckpointType,
   listed    : SUBSET Checkpoint]

NoRequest ==
  [project |-> Null, cp |-> Null, type |-> Null, action |-> Null, version |-> 0,
   shown |-> [status |-> Null, current |-> Null], snap |-> EmptyGraph,
   outcome |-> Null, next |-> Null, decisions |-> {}, listed |-> {}]

\* Thread t goes on at label, with its locals r.
Goto(t, label, r) ==
  /\ pc'  = [pc EXCEPT ![t] = label]
  /\ req' = [req EXCEPT ![t] = r]

Finish(t) == Goto(t, "idle", NoRequest)

\* The request ends here (a reply, a 404, a 409 or a 500) and changes nothing.
GiveUp(t) == Finish(t) /\ UNCHANGED <<store, graph, answers>>

\* The gate a waiting status waits at, and the status a gate waits in.
WaitingFor == [requirement_review |-> "WAIT_HUMAN_REQUIREMENT",
               plan_review        |-> "WAIT_HUMAN_PLAN",
               code_review        |-> "WAIT_HUMAN_CODE",
               final_review       |-> "WAIT_HUMAN_FINAL"]

StageOwned == {"requirement_review", "plan_review"}

EarlyStatus == {"DISCOVERY", "WAIT_HUMAN_REQUIREMENT", "PLANNING", "WAIT_HUMAN_PLAN"}

Init ==
  /\ StoreInit
  /\ graph   = [p \in Project |-> EmptyGraph]
  /\ pc      = [t \in Thread |-> "idle"]
  /\ req     = [t \in Thread |-> NoRequest]
  /\ answers = [p \in Project |-> {}]

-----------------------------------------------------------------------------
(* Requests arrive                                                         *)

\* The entry of a request about p; the bound keeps the versions finite.
Accepts(t, p) == pc[t] = "idle" /\ Live(p) /\ projects[p].version < MaxVersion

\* POST /projects: the project is nobody's.
CreateProject(p) == InsertProject(p, Null) /\ UNCHANGED <<graph, pc, req, answers>>

\* A chat that is ready to start makes a project of its user, whatever project
\* the user is at work on.
ChatStartsProject(t, u, p) ==
  /\ pc[t] = "idle"
  /\ InsertProject(p, u)
  /\ Goto(t, "bind", [NoRequest EXCEPT !.project = p])
  /\ UNCHANGED <<graph, answers>>

RunProject(t, p) ==
  /\ Accepts(t, p)
  /\ Goto(t, "discovery", [NoRequest EXCEPT !.project = p])
  /\ UNCHANGED <<store, graph, answers>>

\* A client answers what it shows of p.  Versions only grow, so a version that
\* is already old when it is sent is refused for good: the one that matters is
\* the current one, which can grow old before the request is checked.  The
\* checkpoint, its type and the action are whatever the client sent; they are
\* chosen when the service first looks at them.
SubmitFeedback(t, p) ==
  /\ Accepts(t, p)
  /\ Goto(t, "check", [NoRequest EXCEPT
       !.project = p, !.version = projects[p].version,
       !.shown = [status |-> projects[p].status, current |-> projects[p].current]])
  /\ UNCHANGED <<store, graph, answers>>

\* A chat message while its user's active project waits at an early gate.  The
\* session was read when the message came in: p was active then and has an
\* owner since, and may have been switched away from.
StageFollowUp(t, p) ==
  /\ Accepts(t, p)
  /\ projects[p].owner \in User
  /\ \E type \in StageOwned :
       /\ projects[p].status = WaitingFor[type]
       /\ Goto(t, "stage", [NoRequest EXCEPT !.project = p, !.type = type])
  /\ UNCHANGED <<store, graph, answers>>

\* A new requirement draft from the director while the active project is early.
RefreshDraft(t, p) ==
  /\ Accepts(t, p)
  /\ projects[p].owner \in User
  /\ projects[p].status \in EarlyStatus
  /\ Goto(t, "refresh", [NoRequest EXCEPT !.project = p])
  /\ UNCHANGED <<store, graph, answers>>

\* The chat command finds the project among those its user owns; the method
\* lists the checkpoints it is going to delete.
DeleteProject(t, p) ==
  /\ pc[t] = "idle"
  /\ projects[p].owner \in User
  /\ Live(p)
  /\ Goto(t, "delete", [NoRequest EXCEPT !.project = p, !.listed = CheckpointsOf(p)])
  /\ UNCHANGED <<store, graph, answers>>

\* The chat commands that only touch the session of u.
SessionCommand(u) ==
  /\ \/ ResetChatSession(u)
     \/ \E p \in Project : projects[p].owner = u /\ SwitchActiveProject(u, p)
  /\ UNCHANGED <<graph, pc, req, answers>>

-----------------------------------------------------------------------------
(* A project is started: bind_active_project, start_project, _run_discovery *)

\* ActiveProjectExistsError leaves the new project to nobody's session.
BindProject(t) ==
  LET p == req[t].project IN
  /\ pc[t] = "bind"
  /\ \E u \in User :
       /\ projects[p].owner = u
       /\ \/ sessions[u] \notin {Null, p} /\ GiveUp(t)
          \/ /\ BindActiveProject(u, p)
             /\ Goto(t, "discovery", req[t])
             /\ UNCHANGED <<graph, answers>>

\* get_project, then graph.invoke loads the state it will write back.
DiscoveryReads(t) ==
  LET p == req[t].project IN
  /\ pc[t] = "discovery"
  /\ \/ ~Live(p) /\ GiveUp(t)
     \/ /\ Live(p)
        /\ Goto(t, "invoke", [req[t] EXCEPT !.snap = graph[p]])
        /\ UNCHANGED <<store, graph, answers>>

\* The discovery node ran: its output goes over the state invoke had loaded.
DiscoveryRuns(t) ==
  LET p == req[t].project IN
  /\ pc[t] = "invoke"
  /\ \/ GiveUp(t)
     \/ /\ graph' = [graph EXCEPT ![p] =
             [req[t].snap EXCEPT !.spec = TRUE, !.plan = "none"]]
        /\ Goto(t, "requirement_create", [NoRequest EXCEPT !.project = p])
        /\ UNCHANGED <<store, answers>>

RequirementCheckpoint(t) ==
  LET p == req[t].project IN
  /\ pc[t] = "requirement_create"
  /\ \/ ~Live(p) /\ GiveUp(t)
     \/ \E c \in Checkpoint :
          /\ CreateCheckpoint(p, c, "requirement_review")
          /\ Goto(t, "flow", [req[t] EXCEPT
                !.next = c, !.outcome = "WAIT_HUMAN_REQUIREMENT"])
          /\ UNCHANGED <<graph, answers>>

-----------------------------------------------------------------------------
(* apply_feedback                                                          *)

\* Variant with a fault: any pending checkpoint will do.
FeedbackMatchesAnyPending(p, version, c, type) ==
  /\ Live(p)
  /\ projects[p].version = version
  /\ checkpoints[c].project = p
  /\ checkpoints[c].status = "pending"
  /\ checkpoints[c].type = type

\* Variant with a fault: the type is taken from the request unchecked.
FeedbackMatchesAnyType(p, version, c, type) ==
  /\ Live(p)
  /\ projects[p].version = version
  /\ projects[p].current = c
  /\ checkpoints[c].status = "pending"

\* The checks of apply_feedback, on the rows of the project and of the
\* checkpoint.  Read together: what a request could do to the checkpoint
\* between the two reads only makes this one refuse.
FeedbackMatches(p, version, c, type) ==
  /\ Live(p)
  /\ projects[p].version = version
  /\ projects[p].current = c
  /\ checkpoints[c].status = "pending"
  /\ checkpoints[c].type = type

CheckFeedback(t) ==
  LET r == req[t] IN
  /\ pc[t] = "check"
  /\ \E c \in Checkpoint, type \in CheckpointType :
       /\ r.cp \in {Null, c} /\ r.type \in {Null, type}
       /\ \/ ~FeedbackMatches(r.project, r.version, c, type) /\ GiveUp(t)
          \/ /\ FeedbackMatches(r.project, r.version, c, type)
             /\ Goto(t, "snapshot", [r EXCEPT
                  !.cp = c, !.type = type, !.version = 0, !.shown = NoRequest.shown])
             /\ UNCHANGED <<store, graph, answers>>

ReadSnapshot(t) ==
  /\ pc[t] = "snapshot"
  /\ Goto(t, "dispatch", [req[t] EXCEPT !.snap = graph[req[t].project]])
  /\ UNCHANGED <<store, graph, answers>>

\* The answers that let a project go past a gate.
PassingAction ==
  [requirement_review |-> {"approve"}, plan_review  |-> {"approve"},
   code_review |-> {"approve", "other"}, final_review |-> {"approve"}]

\* The history of the passing answers the workflow acted on.
Record(r, action) ==
  answers' = IF action \in PassingAction[r.type]
               THEN [answers EXCEPT ![r.project] = @ \cup {<<r.type, action>>}]
               ELSE answers

\* The handler leaves a status and, at "create", a checkpoint to make.  Of the
\* locals only what names the request is still read.
Outcome(t, label, status) ==
  Goto(t, label, [NoRequest EXCEPT
    !.project = req[t].project, !.cp = req[t].cp, !.outcome = status])

\* Variant with a fault: a revision is planned instead of going to discovery.
RequirementFeedbackPlansRevision(t, action) ==
  /\ action \in {"approve", "revise"}
  /\ req[t].snap.spec
  /\ graph' = [graph EXCEPT ![req[t].project].plan = "made"]
  /\ Outcome(t, "create", "WAIT_HUMAN_PLAN")
  /\ UNCHANGED store

RequirementFeedback(t, action) ==
  LET p == req[t].project IN
  \/ /\ action = "approve"
     /\ req[t].snap.spec
     /\ graph' = [graph EXCEPT ![p].plan = "made"]
     /\ Outcome(t, "create", "WAIT_HUMAN_PLAN")
     /\ UNCHANGED store
  \/ /\ action = "revise"
     /\ Outcome(t, "resolve", "DISCOVERY")
     /\ UNCHANGED <<store, graph>>
  \/ /\ action \notin {"approve", "revise"}
     /\ Outcome(t, "resolve", "CANCELLED")
     /\ UNCHANGED <<store, graph>>

\* The coder runs on the plan of the snapshot and its files go to disk.
PlanFeedback(t, action) ==
  \/ /\ action = "approve"
     /\ req[t].snap.plan = "made"
     /\ PersistCodeFiles(req[t].project)
     /\ Outcome(t, "test", Null)
     /\ UNCHANGED graph
  \/ /\ action = "revise"
     /\ Outcome(t, "resolve", "PLANNING")
     /\ UNCHANGED <<store, graph>>
  \/ /\ action \notin {"approve", "revise"}
     /\ Outcome(t, "resolve", "CANCELLED")
     /\ UNCHANGED <<store, graph>>

\* Whatever is neither replan nor revise goes on to the reviewer.
CodeFeedback(t, action) ==
  LET p == req[t].project IN
  \/ /\ action = "replan"
     /\ Outcome(t, "resolve", "PLANNING")
     /\ UNCHANGED <<store, graph>>
  \/ /\ action = "revise"
     /\ Outcome(t, "resolve", "CODING")
     /\ UNCHANGED <<store, graph>>
  \/ /\ action \notin {"replan", "revise"}
     /\ req[t].snap.plan # "missing"
     /\ graph' = [graph EXCEPT ![p].review = TRUE]
     /\ Outcome(t, "create", "WAIT_HUMAN_FINAL")
     /\ UNCHANGED store

FinalFeedback(t, action) ==
  /\ \/ action = "approve" /\ Outcome(t, "resolve", "DONE")
     \/ /\ action = "revise"
        /\ \E status \in {"PLANNING", "DEBUGGING", "CODING"} : Outcome(t, "resolve", status)
     \/ action \notin {"approve", "revise"} /\ Outcome(t, "resolve", "CANCELLED")
  /\ UNCHANGED <<store, graph>>

Handle(t, type, action) ==
  \/ type = "requirement_review" /\ RequirementFeedback(t, action)
  \/ type = "plan_review"        /\ PlanFeedback(t, action)
  \/ type = "code_review"        /\ CodeFeedback(t, action)
  \/ type = "final_review"       /\ FinalFeedback(t, action)

\* The handler calls an agent, on values the snapshot may not hold: it raises.
MayRaise(type, action) ==
  \/ type \in {"requirement_review", "plan_review"} /\ action = "approve"
  \/ type = "code_review" /\ action \notin {"replan", "revise"}

Dispatch(t) ==
  LET r == req[t] IN
  /\ pc[t] = "dispatch"
  /\ \E action \in Action :
       /\ r.action \in {Null, action}
       /\ \/ MayRaise(r.type, action) /\ GiveUp(t)
          \/ Handle(t, r.type, action) /\ Record(r, action)

\* sandbox.run_tests raises, or returns: a runtime error or a failed assertion
\* goes to the debugger, however often; anything else ends the loop.
RunTests(t) ==
  LET p == req[t].project IN
  /\ pc[t] = "test"
  /\ \/ Finish(t) /\ UNCHANGED graph
     \/ Goto(t, "debug", req[t]) /\ UNCHANGED graph
     \/ /\ graph' = [graph EXCEPT ![p].code = TRUE]
        /\ \/ Outcome(t, "create", "WAIT_HUMAN_CODE")
           \/ \E status \in {"CODING", "FAILED"} : Outcome(t, "resolve", status)
  /\ UNCHANGED <<store, answers>>

Debug(t) ==
  /\ pc[t] = "debug"
  /\ \/ GiveUp(t)
     \/ /\ PersistCodeFiles(req[t].project)
        /\ Goto(t, "test", req[t])
        /\ UNCHANGED <<graph, answers>>

\* _create_checkpoint_for_task for the status the handler came to
NextCheckpoint(t) ==
  LET r == req[t] IN
  /\ pc[t] = "create"
  /\ \/ ~Live(r.project) /\ GiveUp(t)
     \/ \E c \in Checkpoint, type \in CheckpointType :
          /\ WaitingFor[type] = r.outcome
          /\ CreateCheckpoint(r.project, c, type)
          /\ Goto(t, "resolve", [r EXCEPT !.next = c])
          /\ UNCHANGED <<graph, answers>>

\* Variant with a fault: a checkpoint that is gone is waited for.
ResolveAnsweredWaits(t) ==
  /\ pc[t] = "resolve"
  /\ ResolveCheckpoint(req[t].cp)
  /\ Goto(t, "flow", [req[t] EXCEPT !.cp = Null])
  /\ UNCHANGED <<graph, answers>>

ResolveAnswered(t) ==
  LET r == req[t] IN
  /\ pc[t] = "resolve"
  /\ \/ ~Exists(r.cp) /\ GiveUp(t)
     \/ /\ ResolveCheckpoint(r.cp)
        /\ Goto(t, "flow", [r EXCEPT !.cp = Null])
        /\ UNCHANGED <<graph, answers>>

FlowState(t) ==
  LET r == req[t] IN
  /\ pc[t] = "flow"
  /\ \/ ~Live(r.project) /\ GiveUp(t)
     \/ /\ UpdateProjectFlowState(r.project, r.outcome, r.next)
        /\ Goto(t, "sync", [r EXCEPT !.next = Null])
        /\ UNCHANGED <<graph, answers>>

-----------------------------------------------------------------------------
(* _sync_project_memory                                                    *)

\* Variant with a fault: a plan is taken for an approved plan.
DecisionsFromPlan(g, status) ==
  {type \in CheckpointType :
     \/ type \in {"requirement_review", "plan_review"} /\ g.plan = "made"
     \/ type = "code_review"  /\ g.review
     \/ type = "final_review" /\ status = "DONE"}

\* The Decisions section, from the graph state and the status handed over.
Decisions(g, status) ==
  {type \in CheckpointType :
     \/ type = "requirement_review" /\ g.plan = "made"
     \/ type = "plan_review"        /\ g.code
     \/ type = "code_review"        /\ g.review
     \/ type = "final_review"       /\ status = "DONE"}

SyncReads(t) ==
  LET r == req[t]
      p == r.project
  IN
  /\ pc[t] = "sync"
  /\ \/ ~Live(p) /\ GiveUp(t)
     \/ /\ Live(p)
        /\ Goto(t, "write_memory", [r EXCEPT
             !.outcome = Null, !.decisions = Decisions(graph[p], r.outcome)])
        /\ UNCHANGED <<store, graph, answers>>

SyncWrites(t) ==
  /\ pc[t] = "write_memory"
  /\ WriteProjectMemory(req[t].project, req[t].decisions)
  /\ Finish(t)
  /\ UNCHANGED <<graph, answers>>

-----------------------------------------------------------------------------
(* Chat turns at the requirement and plan gates                            *)

\* The handler looks again before it hands the message to the service.
StageCheckpoint(t) ==
  LET r == req[t]
      p == r.project
      c == projects[p].current
      owned == /\ Live(p)
               /\ projects[p].status = WaitingFor[r.type]
               /\ c # Null
               /\ checkpoints[c].status = "pending"
               /\ checkpoints[c].type = r.type
      turn == IF r.type = "plan_review" THEN "plan_turn" ELSE "requirement_turn"
  IN
  /\ pc[t] = "stage"
  /\ \/ ~owned /\ GiveUp(t)
     \/ owned /\ Goto(t, turn, r) /\ UNCHANGED <<store, graph, answers>>

\* ready_to_advance: approve whatever checkpoint is current by now.
ApproveCurrent(t) ==
  LET r == req[t]
      p == r.project
      c == projects[p].current
  IN
  /\ Live(p)
  /\ c # Null
  /\ Exists(c)
  /\ Goto(t, "check", [NoRequest EXCEPT
       !.project = p, !.cp = c, !.type = checkpoints[c].type, !.action = "approve",
       !.version = projects[p].version,
       !.shown = [status |-> projects[p].status, current |-> c]])
  /\ UNCHANGED <<store, graph, answers>>

\* continue_requirement_discovery: the turn ends with a reply, approves, or
\* brings a new requirement.  turn_mode only biases which: every outcome is
\* possible in either mode.
RequirementTurn(t) ==
  /\ pc[t] = "requirement_turn"
  /\ \/ GiveUp(t)
     \/ ApproveCurrent(t)
     \/ /\ Live(req[t].project)
        /\ Goto(t, "turn_refresh", req[t])
        /\ UNCHANGED <<store, graph, answers>>

TurnRefresh(t) ==
  LET p == req[t].project IN
  /\ pc[t] = "turn_refresh"
  /\ \/ ~Live(p) /\ GiveUp(t)
     \/ /\ RefreshActiveProjectRequirement(p)
        /\ Goto(t, "discovery", [NoRequest EXCEPT !.project = p])
        /\ UNCHANGED <<graph, answers>>

\* continue_plan_review; cp is set when the checkpoint it read was pending.
PlanTurn(t) ==
  LET p == req[t].project
      c == projects[p].current
      pending == c # Null /\ checkpoints[c].status = "pending"
  IN
  /\ pc[t] = "plan_turn"
  /\ \/ GiveUp(t)
     \/ ApproveCurrent(t)
     \/ /\ Live(p)
        /\ Goto(t, "plan_revise", [req[t] EXCEPT !.cp = IF pending THEN c ELSE Null])
        /\ UNCHANGED <<store, graph, answers>>

PlanRevise(t) ==
  LET r == req[t] IN
  /\ pc[t] = "plan_revise"
  /\ \/ GiveUp(t)
     \/ /\ graph' = [graph EXCEPT ![r.project].spec = TRUE, ![r.project].plan = "made"]
        /\ Goto(t, IF r.cp = Null THEN "revise_create" ELSE "revise_resolve", r)
        /\ UNCHANGED <<store, answers>>

ReviseResolve(t) ==
  LET r == req[t] IN
  /\ pc[t] = "revise_resolve"
  /\ \/ ~Exists(r.cp) /\ GiveUp(t)
     \/ /\ ResolveCheckpoint(r.cp)
        /\ Goto(t, "revise_create", r)
        /\ UNCHANGED <<graph, answers>>

ReviseCreate(t) ==
  LET r == req[t] IN
  /\ pc[t] = "revise_create"
  /\ \/ ~Live(r.project) /\ GiveUp(t)
     \/ \E c \in Checkpoint :
          /\ CreateCheckpoint(r.project, c, "plan_review")
          /\ Goto(t, "revise_status", [NoRequest EXCEPT !.project = r.project])
          /\ UNCHANGED <<graph, answers>>

\* The project keeps its status; the memory is written with the one it has.
ReviseStatus(t) ==
  LET p == req[t].project IN
  /\ pc[t] = "revise_status"
  /\ \/ ~Live(p) /\ GiveUp(t)
     \/ /\ Live(p)
        /\ Goto(t, "sync", [req[t] EXCEPT !.outcome = projects[p].status])
        /\ UNCHANGED <<store, graph, answers>>

-----------------------------------------------------------------------------
(* The director's refresh, the end of a delete, and a crash                *)

Refresh(t) ==
  LET p == req[t].project IN
  /\ pc[t] = "refresh"
  /\ \/ ~Live(p) /\ GiveUp(t)
     \/ RefreshActiveProjectRequirement(p) /\ Finish(t) /\ UNCHANGED <<graph, answers>>

\* What the other requests make of the project after the list is as it is.
DeleteListed(t) ==
  LET r == req[t] IN
  /\ pc[t] = "delete"
  /\ DeleteRows(r.project, r.listed)
  /\ Goto(t, "rmtree", [NoRequest EXCEPT !.project = r.project])
  /\ UNCHANGED <<graph, answers>>

RemoveTree(t) ==
  /\ pc[t] = "rmtree"
  /\ RemoveProjectRoot(req[t].project)
  /\ Finish(t)
  /\ UNCHANGED <<graph, answers>>

\* The process dies and comes back: requests and graph states are gone.
Restart ==
  /\ Crashes # "never"
  /\ Crashes = "between" => \A t \in Thread : pc[t] = "idle"
  /\ graph' = [p \in Project |-> EmptyGraph]
  /\ pc'    = [t \in Thread |-> "idle"]
  /\ req'   = [t \in Thread |-> NoRequest]
  /\ UNCHANGED <<store, answers>>

-----------------------------------------------------------------------------
Arrive(t) ==
  \/ \E p \in Project :
       \/ RunProject(t, p) \/ SubmitFeedback(t, p) \/ DeleteProject(t, p)
       \/ StageFollowUp(t, p) \/ RefreshDraft(t, p)
  \/ \E u \in User, p \in Project : ChatStartsProject(t, u, p)

\* What a request does by itself, the test run apart.
Proceed(t) ==
  \/ BindProject(t)
  \/ DiscoveryReads(t) \/ DiscoveryRuns(t) \/ RequirementCheckpoint(t)
  \/ CheckFeedback(t) \/ ReadSnapshot(t) \/ Dispatch(t)
  \/ Debug(t) \/ NextCheckpoint(t) \/ ResolveAnswered(t) \/ FlowState(t)
  \/ SyncReads(t) \/ SyncWrites(t)
  \/ StageCheckpoint(t) \/ RequirementTurn(t) \/ TurnRefresh(t)
  \/ PlanTurn(t) \/ PlanRevise(t) \/ ReviseResolve(t) \/ ReviseCreate(t)
  \/ ReviseStatus(t)
  \/ Refresh(t) \/ DeleteListed(t) \/ RemoveTree(t)

Next ==
  \/ \E p \in Project : CreateProject(p)
  \/ \E u \in User : SessionCommand(u)
  \/ \E t \in Thread : Arrive(t) \/ Proceed(t) \/ RunTests(t)
  \/ Restart

Spec == Init /\ [][Next]_vars

\* A thread of the pool runs, and an agent call returns or raises (the LLM
\* client has timeouts).  run_tests has no timeout: nothing is assumed of it.
FairSpec == Spec /\ \A t \in Thread : WF_vars(Proceed(t))

-----------------------------------------------------------------------------
(* Properties                                                              *)

\* Every table, every graph state and every request is of its shape.
TypeOK ==
  /\ StoreTypeOK
  /\ graph   \in [Project -> GraphState]
  /\ pc      \in [Thread -> Pc]
  /\ req     \in [Thread -> Request]
  /\ answers \in [Project -> SUBSET (CheckpointType \X Action)]

\* The foreign key SQLite is never told of: whatever requests, deletes and
\* restarts interleave, the current checkpoint of a project is there and is its
\* own, though a request makes a checkpoint, goes through other calls and only
\* then sets it, and a delete lists the checkpoints before it removes them.
\* The other way round it may fail: a checkpoint made while a delete is under
\* way can be left behind by it.
ReferentialIntegrity ==
  \A p \in Project : Live(p) /\ projects[p].current # Null =>
    projects[p].current \in CheckpointsOf(p)

\* The gates a history of answers lets p past.
PassedIn(history, p) ==
  {type \in CheckpointType : \E a \in PassingAction[type] : <<type, a>> \in history[p]}

Passed(p) == PassedIn(answers, p)

\* The gates a project has to have passed before a gate is opened.
Before ==
  [requirement_review |-> {},
   plan_review  |-> {"requirement_review"},
   code_review  |-> {"requirement_review", "plan_review"},
   final_review |-> {"requirement_review", "plan_review", "code_review"}]

\* No gate is skipped: a checkpoint of a later gate exists, and a project is
\* done, only when a human let the project through every gate before.  Two
\* requests may both pass the checks of apply_feedback, work on stale graph
\* states and write in any order, and the project may be run again, refreshed
\* or deleted under them.
GatesInOrder ==
  /\ \A c \in Checkpoint : Exists(c) =>
        Before[checkpoints[c].type] \subseteq Passed(checkpoints[c].project)
  /\ \A p \in Project : Live(p) /\ projects[p].status = "DONE" =>
        Passed(p) = CheckpointType

\* The gates memory.md says were approved, and the next discovery reads back,
\* were passed, even when they are derived from a graph state an invoke has
\* overwritten with an older one.  Passed is less than approved: at the code
\* gate any answer but two passes (ApprovedMeansApproved).
MemoryTruthful == \A p \in Project : disk[p].decisions \subseteq Passed(p)

\* The version is a sound optimistic token: if a project still has the version
\* its card had when the human answered, it still shows what the card showed.
\* This is about requests that overlap, call by call.  Where methods of the
\* store overlap inside it holds only of projects on which none was overtaken
\* (StoreTransactions, VersionNamesOneState).
VersionToken ==
  \A t \in Thread :
    LET r == req[t] IN
    pc[t] = "check" /\ projects[r.project].version = r.version =>
      /\ projects[r.project].status = r.shown.status
      /\ projects[r.project].current = r.shown.current

-----------------------------------------------------------------------------
(* The inductive invariant behind the properties above: what the rows, the *)
(* graph states and every request in flight have already made sure of.     *)
(* Like VersionToken it takes each method of the store for one step.       *)

\* The locals a request has by the time it is at label.
WellFormed(label, r) ==
  /\ label # "idle" => r.project \in Project
  /\ label \in {"snapshot", "dispatch", "test", "debug", "create", "resolve",
               "revise_resolve"} => r.cp \in Checkpoint
  /\ label \in {"snapshot", "dispatch"} => r.type \in CheckpointType
  /\ label \in FlowPc => r.outcome \in TaskStatus

\* A graph state holds only what the gates passed so far account for.
Earned(g, passed) ==
  /\ g.plan = "made" => "requirement_review" \in passed
  /\ g.code => "plan_review" \in passed
  /\ g.review => "code_review" \in passed

\* A request at label works behind gates its project has passed.
Entitled(label, r, passed) ==
  /\ label \in {"snapshot", "dispatch"} => Before[r.type] \subseteq passed
  /\ label \in {"plan_turn", "plan_revise", "revise_resolve", "revise_create"} =>
        Before["plan_review"] \subseteq passed
  /\ label \in CodingPc => Before["code_review"] \subseteq passed
  /\ label = "create" => \A type \in CheckpointType :
        WaitingFor[type] = r.outcome => Before[type] \subseteq passed
  /\ label \in FlowPc \cup {"sync"} /\ r.outcome = "DONE" => passed = CheckpointType
  /\ label = "invoke" => Earned(r.snap, passed)
  /\ label = "write_memory" => r.decisions \subseteq passed

\* c was made for p, and is there as long as p is.
Names(c, p) ==
  /\ projects[p].life # "unborn"
  /\ checkpoints[c].status # "free"
  /\ checkpoints[c].project = p
  /\ Live(p) => Exists(c)

\* Rows name each other: existing checkpoints a project that was made, and
\* projects, like the requests about to make a checkpoint current, their own.
OwnedRows ==
  /\ \A c \in Checkpoint : Exists(c) =>
       /\ checkpoints[c].type \in CheckpointType
       /\ checkpoints[c].project \in Project
       /\ projects[checkpoints[c].project].life # "unborn"
  /\ \A p \in Project : projects[p].current # Null => Names(projects[p].current, p)

OwnedNext ==
  \A t \in Thread : pc[t] \in {"resolve", "flow"} /\ req[t].next # Null =>
    Names(req[t].next, req[t].project)

\* What the tables, the memory and the graph states claim has been passed.
Standing ==
  /\ GatesInOrder
  /\ MemoryTruthful
  /\ \A p \in Project : Earned(graph[p], Passed(p))

Working ==
  \A t \in Thread : pc[t] # "idle" =>
    Entitled(pc[t], req[t], Passed(req[t].project))

\* A version a request holds is no newer than the row it was read from.
Tokens ==
  \A t \in Thread :
    LET r == req[t] IN
    pc[t] = "check" =>
      /\ projects[r.project].life # "unborn"
      /\ r.version <= projects[r.project].version

IInv ==
  /\ TypeOK
  /\ \A t \in Thread : WellFormed(pc[t], req[t])
  /\ OwnedRows /\ OwnedNext
  /\ Standing /\ Working
  /\ Tokens /\ VersionToken

-----------------------------------------------------------------------------
(* Refinement of ApprovalGates                                             *)

\* What a delete leaves behind is not open: no feedback gets past Live(p).
OpenGates(p) == IF Live(p) THEN {checkpoints[c].type : c \in CheckpointsOf(p)} ELSE {}

Finished(p) == Live(p) /\ projects[p].status = "DONE"

Gates == INSTANCE ApprovalGates WITH
  Gate     <- CheckpointType,
  open     <- [p \in Project |-> OpenGates(p)],
  passed   <- [p \in Project |-> Passed(p)],
  finished <- [p \in Project |-> Finished(p)]

\* The service implements the abstract gates: reviews open and are passed in
\* order, and only a project with all of them passed is done.
ImplementsGates == Gates!Spec

-----------------------------------------------------------------------------
(* Requests that take turns: what they keep when no two about the same     *)
(* project are under way, with crashes between them or anywhere.           *)

\* No request is working on p.
Quiet(p) == \A t \in Thread : req[t].project # p

\* No two requests about one project are under way.
OneAtATime ==
  \A t, u \in Thread : t # u /\ pc[t] # "idle" => req[t].project # req[u].project

\* The process dies only while nothing is under way.
CrashBetween == Restart => \A t \in Thread : pc[t] = "idle"

CrashesBetween == [][CrashBetween]_vars

\* Requests about one project take turns, and crashes fall between requests.
InTurn == []OneAtATime /\ CrashesBetween

Awaits(status) == \E type \in CheckpointType : WaitingFor[type] = status

\* The current checkpoint of p is one that is waited for in status.
Waits(p, status) ==
  LET c == projects[p].current
  IN  /\ c # Null
      /\ checkpoints[c].status = "pending"
      /\ WaitingFor[checkpoints[c].type] = status

Settled(p) ==
  IF Awaits(projects[p].status) THEN Waits(p, projects[p].status)
                                ELSE projects[p].current = Null

\* Between requests, one at a time, status and checkpoint agree: a project
\* that waits for a human has a pending checkpoint of the gate it waits at,
\* any other has none.  An agent that fails in the middle of a request leaves
\* it so (test_requirement_approve_failure_keeps_pending_checkpoint).
SettledGate == \A p \in Project : Live(p) /\ Quiet(p) => Settled(p)

\* A deleted project leaves no row, no session bound to it and no file.
DeletedLeavesNothing ==
  \A p \in Project : projects[p].life = "deleted" /\ Quiet(p) =>
    /\ CheckpointsOf(p) = {}
    /\ \A u \in User : sessions[u] # p
    /\ disk[p] = NoDirectory

\* A superseded checkpoint never comes back: the current checkpoint of a
\* project changes only to one made in that very step.
CurrentIsNewest ==
  [][\A p \in Project :
       projects'[p].current \notin {Null, projects[p].current} =>
         checkpoints[projects'[p].current].status = "free"]_vars

\* A request at label, with locals r, has made p what it is.  Status and
\* checkpoint disagree only while it is between the calls that write them.
UnderWay(label, r) ==
  LET p == r.project
      c == projects[p].current
  IN
  /\ IF label = "rmtree" THEN projects[p].life = "deleted" /\ CheckpointsOf(p) = {}
                         ELSE Live(p)
  /\ label = "delete" => r.listed = CheckpointsOf(p)
  /\ label \notin {"rmtree", "resolve", "flow", "revise_create"} => Settled(p)
  /\ label = "stage" => r.type \in StageOwned
  /\ label \in {"snapshot", "dispatch", "test", "debug", "create"} => r.cp = c
  /\ label = "create" => Awaits(r.outcome)
  /\ label \in {"resolve", "flow"} =>
       IF Awaits(r.outcome) THEN r.next = c /\ Waits(p, r.outcome) ELSE r.next = Null
  /\ label = "resolve" => r.cp # r.next /\ Exists(r.cp) /\ checkpoints[r.cp].project = p
  /\ label \in {"plan_turn", "plan_revise", "revise_resolve", "revise_create"} =>
       projects[p].status = "WAIT_HUMAN_PLAN"
  /\ label \in {"plan_revise", "revise_resolve"} => r.cp = c

\* What nobody works on is settled, or deleted without a trace.
AtRest(p) ==
  /\ Live(p) => Settled(p)
  /\ projects[p].life = "deleted" => CheckpointsOf(p) = {} /\ disk[p] = NoDirectory

\* A session is bound to a project that is there: delete_project and the end of
\* a project unbind it, and nothing binds it again, as long as the request that
\* makes a project and binds it is alone with it.
BoundLives == \A u \in User : sessions[u] # Null => Live(sessions[u])

\* The inductive invariant behind SettledGate and DeletedLeavesNothing: every
\* request under way has left its project as its locals say, every other
\* project is at rest.
TurnsInv ==
  /\ \A t \in Thread : IF pc[t] = "idle" THEN req[t].project = Null
                                         ELSE UnderWay(pc[t], req[t])
  /\ \A p \in Project : Quiet(p) => AtRest(p)
  /\ BoundLives

\* What a request at label, with locals r, has in hand while nobody else is at
\* work on its project.
InHand(label, r) ==
  LET p == r.project
      c == projects[p].current
  IN
  label # "rmtree" =>
    /\ Live(p)
    /\ r.cp # Null => Names(r.cp, p)
    /\ label \in {"snapshot", "dispatch"} => r.cp = c /\ checkpoints[c].status = "pending"
    /\ label \in {"resolve", "flow"} => r.next \in {Null, c}

\* The inductive invariant behind what stands although requests are cut off in
\* the middle: feedback that passed the checks of apply_feedback is for the
\* current checkpoint until it is acted on, no request holds a checkpoint of
\* another project or an old one to make current, and sessions name projects
\* that are there.  It asks nothing of crashes, as HandInvHolds says.
HandInv ==
  /\ \A t \in Thread : IF pc[t] = "idle" THEN req[t].project = Null
                                         ELSE InHand(pc[t], req[t])
  /\ BoundLives

\* A request ends, whatever the others do, unless the tests it waits for never
\* end or never stop failing.
RequestsEnd ==
  \A t \in Thread : pc[t] # "idle" ~> pc[t] \in {"idle"} \cup CodingPc

-----------------------------------------------------------------------------
(* What the repository says and the code does not do                       *)

\* "Raised when feedback does not match the current pending checkpoint"
\* (FeedbackConflictError): feedback that is acted on does match it.
\* It does as long as requests about one project take turns.
ActedOnCurrent ==
  [][\A t \in Thread :
       pc[t] = "dispatch" /\ pc'[t] \in FlowPc \cup CodingPc =>
         /\ projects[req[t].project].current = req[t].cp
         /\ checkpoints[req[t].cp].status = "pending"]_vars

\* memory.md says "code_review approved" only when it was approved.
ApprovedMeansApproved ==
  \A p \in Project : \A type \in disk[p].decisions : <<type, "approve">> \in answers[p]
=============================================================================
