-------------------------- MODULE WorkflowRowProofs --------------------------
(***************************************************************************)
(* Type correctness and referential integrity of WorkflowService, for      *)
(* every set of projects, checkpoints, users and threads, every bound on   *)
(* versions, with and without restarts: one lemma per method of the        *)
(* manager, one per step.  Integrity needs more than the property: the     *)
(* locals of a request about to make a checkpoint current name a           *)
(* checkpoint of its own project, and no row names a project that was      *)
(* never made.                                                             *)
(***************************************************************************)
EXTENDS WorkflowService, TLAPS

-----------------------------------------------------------------------------
(* Each method of the manager keeps the tables of their shape              *)

LEMMA RowEdits ==
  ASSUME NEW row \in ProjectRow
  PROVE  /\ \A status \in TaskStatus : [row EXCEPT !.status = status] \in ProjectRow
         /\ \A c \in Checkpoint \cup {Null} : [row EXCEPT !.current = c] \in ProjectRow
         /\ [row EXCEPT !.version = @ + 1] \in ProjectRow
         /\ [row EXCEPT !.life = "deleted"] \in ProjectRow
         /\ \A u \in User : [row EXCEPT !.owner = u] \in ProjectRow
  BY DEF ProjectRow

LEMMA FlowEdit ==
  ASSUME NEW row \in ProjectRow, NEW status \in TaskStatus, NEW c \in Checkpoint \cup {Null}
  PROVE  /\ [row EXCEPT !.current = c, !.version = @ + 1] \in ProjectRow
         /\ [row EXCEPT !.status = status, !.current = c, !.version = @ + 1] \in ProjectRow
<1>1. [row EXCEPT !.status = status] \in ProjectRow
  BY RowEdits
<1>2. ASSUME NEW x \in ProjectRow PROVE [x EXCEPT !.current = c] \in ProjectRow
  BY RowEdits
<1>3. ASSUME NEW x \in ProjectRow PROVE [x EXCEPT !.version = @ + 1] \in ProjectRow
  BY RowEdits
<1>4. [row EXCEPT !.current = c, !.version = @ + 1] \in ProjectRow
  BY <1>2, <1>3
<1>5. [row EXCEPT !.status = status, !.current = c, !.version = @ + 1] \in ProjectRow
  BY <1>1, <1>2, <1>3
<1> QED BY <1>4, <1>5

LEMMA CheckpointEdits ==
  ASSUME NEW row \in CheckpointRow, NEW status \in {"resolved", "deleted"}
  PROVE  [row EXCEPT !.status = status] \in CheckpointRow
  BY DEF CheckpointRow

LEMMA InsertProjectTyped ==
  ASSUME StoreTypeOK, NEW p \in Project, NEW o \in User \cup {Null}, InsertProject(p, o)
  PROVE  StoreTypeOK'
<1>1. projects' \in [Project -> ProjectRow]
  BY DEF StoreTypeOK, InsertProject, ProjectRow, TaskStatus
<1>2. disk' \in [Project -> Directory]
  BY DEF StoreTypeOK, InsertProject, Directory
<1> QED BY <1>1, <1>2 DEF StoreTypeOK, InsertProject

LEMMA CreateCheckpointTyped ==
  ASSUME StoreTypeOK, NEW p \in Project, NEW c \in Checkpoint,
         NEW type \in CheckpointType, CreateCheckpoint(p, c, type)
  PROVE  StoreTypeOK'
<1>1. [projects[p] EXCEPT !.current = c, !.version = @ + 1] \in ProjectRow
  BY FlowEdit DEF StoreTypeOK, TaskStatus
<1>2. projects' \in [Project -> ProjectRow]
  BY <1>1 DEF StoreTypeOK, CreateCheckpoint
<1>3. checkpoints' \in [Checkpoint -> CheckpointRow]
  BY DEF StoreTypeOK, CreateCheckpoint, CheckpointRow
<1> QED BY <1>2, <1>3 DEF StoreTypeOK, CreateCheckpoint

LEMMA ResolveCheckpointTyped ==
  ASSUME StoreTypeOK, NEW c \in Checkpoint, ResolveCheckpoint(c)
  PROVE  StoreTypeOK'
  BY CheckpointEdits DEF StoreTypeOK, ResolveCheckpoint

LEMMA UpdateProjectFlowStateTyped ==
  ASSUME StoreTypeOK, NEW p \in Project, NEW status \in TaskStatus,
         NEW c \in Checkpoint \cup {Null}, UpdateProjectFlowState(p, status, c)
  PROVE  StoreTypeOK'
<1>1. [projects[p] EXCEPT !.status = status, !.current = c, !.version = @ + 1] \in ProjectRow
  BY FlowEdit DEF StoreTypeOK, TaskStatus
<1>2. projects' \in [Project -> ProjectRow]
  BY <1>1 DEF StoreTypeOK, UpdateProjectFlowState
<1>3. sessions' \in [User -> Project \cup {Null}]
  BY DEF StoreTypeOK, UpdateProjectFlowState, Unbound
<1> QED BY <1>2, <1>3 DEF StoreTypeOK, UpdateProjectFlowState

LEMMA RefreshTyped ==
  ASSUME StoreTypeOK, NEW p \in Project, RefreshActiveProjectRequirement(p)
  PROVE  StoreTypeOK'
<1>1. [projects[p] EXCEPT !.status = "DISCOVERY", !.current = Null, !.version = @ + 1]
        \in ProjectRow
  <2>1. "DISCOVERY" \in TaskStatus
    BY DEF TaskStatus
  <2>2. projects[p] \in ProjectRow
    BY DEF StoreTypeOK
  <2> QED BY <2>1, <2>2, FlowEdit
<1>2. projects' \in [Project -> ProjectRow]
  BY <1>1 DEF StoreTypeOK, RefreshActiveProjectRequirement
<1>3. checkpoints' \in [Checkpoint -> CheckpointRow]
  BY CheckpointEdits DEF StoreTypeOK, RefreshActiveProjectRequirement
<1> QED BY <1>2, <1>3 DEF StoreTypeOK, RefreshActiveProjectRequirement

LEMMA DeleteRowsTyped ==
  ASSUME StoreTypeOK, NEW p \in Project, NEW listed, DeleteRows(p, listed)
  PROVE  StoreTypeOK'
<1>1. projects' \in [Project -> ProjectRow]
  BY RowEdits DEF StoreTypeOK, DeleteRows
<1>2. checkpoints' \in [Checkpoint -> CheckpointRow]
  BY CheckpointEdits DEF StoreTypeOK, DeleteRows, Removed
<1>3. sessions' \in [User -> Project \cup {Null}]
  BY DEF StoreTypeOK, DeleteRows, Unbound
<1> QED BY <1>1, <1>2, <1>3 DEF StoreTypeOK, DeleteRows

LEMMA RemoveProjectRootTyped ==
  ASSUME StoreTypeOK, NEW p \in Project, RemoveProjectRoot(p)
  PROVE  StoreTypeOK'
<1>1. NoDirectory \in Directory
  BY DEF NoDirectory, Directory
<1> QED BY <1>1 DEF StoreTypeOK, RemoveProjectRoot

LEMMA PersistCodeFilesTyped ==
  ASSUME StoreTypeOK, NEW p \in Project, PersistCodeFiles(p)
  PROVE  StoreTypeOK'
<1>1. [disk[p] EXCEPT !.root = TRUE] \in Directory
  BY DEF StoreTypeOK, Directory
<1> QED BY <1>1 DEF StoreTypeOK, PersistCodeFiles

LEMMA WriteProjectMemoryTyped ==
  ASSUME StoreTypeOK, NEW p \in Project, NEW d \in SUBSET CheckpointType,
         WriteProjectMemory(p, d)
  PROVE  StoreTypeOK'
<1>1. [root |-> TRUE, decisions |-> d] \in Directory
  BY DEF Directory
<1> QED BY <1>1 DEF StoreTypeOK, WriteProjectMemory

LEMMA SessionTyped ==
  ASSUME StoreTypeOK, NEW u \in User,
         \/ ResetChatSession(u)
         \/ \E p \in Project : BindActiveProject(u, p) \/ SwitchActiveProject(u, p)
  PROVE  StoreTypeOK'
<1>1. CASE ResetChatSession(u)
  BY <1>1 DEF StoreTypeOK, ResetChatSession
<1>2. ASSUME NEW p \in Project, BindActiveProject(u, p) PROVE StoreTypeOK'
  BY <1>2, RowEdits DEF StoreTypeOK, BindActiveProject
<1>3. ASSUME NEW p \in Project, SwitchActiveProject(u, p) PROVE StoreTypeOK'
  BY <1>3, RowEdits DEF StoreTypeOK, SwitchActiveProject
<1> QED BY <1>1, <1>2, <1>3

-----------------------------------------------------------------------------
(* The threads: a step of t leaves every other thread where it is          *)

ThreadsTyped ==
  /\ pc  \in [Thread -> Pc]
  /\ req \in [Thread -> Request]
  /\ \A t \in Thread : WellFormed(pc[t], req[t])

LEMMA GotoTyped ==
  ASSUME ThreadsTyped, NEW t \in Thread, NEW label \in Pc, NEW r \in Request,
         WellFormed(label, r), Goto(t, label, r)
  PROVE  ThreadsTyped'
  BY DEF ThreadsTyped, Goto

LEMMA NoRequestTyped == NoRequest \in Request
  BY DEF NoRequest, Request, EmptyGraph, GraphState

LEMMA PcLabels ==
  /\ {"idle", "refresh", "delete", "rmtree"} \subseteq Pc
  /\ {"check", "snapshot", "dispatch"} \subseteq Pc
  /\ {"test", "debug"} \subseteq Pc
  /\ {"create", "resolve", "flow", "sync", "write_memory"} \subseteq Pc
  /\ {"stage", "requirement_turn", "turn_refresh", "plan_turn"} \subseteq Pc
  /\ {"plan_revise", "revise_resolve", "revise_create", "revise_status"} \subseteq Pc
  /\ {"bind", "discovery", "invoke", "requirement_create"} \subseteq Pc
  BY DEF Pc, FeedbackPc, CodingPc, FlowPc, SyncPc, TurnPc, StartPc, OtherPc

LEMMA FinishTyped ==
  ASSUME ThreadsTyped, NEW t \in Thread, Finish(t)
  PROVE  ThreadsTyped'
<1>1. WellFormed("idle", NoRequest)
  BY DEF WellFormed, FlowPc
<1> QED BY <1>1, GotoTyped, NoRequestTyped, PcLabels DEF Finish

\* A request that knows its project alone, as most do on the way.
LEMMA ProjectRequest ==
  ASSUME NEW p \in Project
  PROVE  [NoRequest EXCEPT !.project = p] \in Request
  BY NoRequestTyped DEF Request, NoRequest, EmptyGraph, GraphState

\* What a handler leaves behind for the rest of apply_feedback.
LEMMA OutcomeRequest ==
  ASSUME NEW p \in Project, NEW c \in Checkpoint, NEW s \in TaskStatus \cup {Null}
  PROVE  [NoRequest EXCEPT !.project = p, !.cp = c, !.outcome = s] \in Request
  BY NoRequestTyped DEF Request, NoRequest, EmptyGraph, GraphState

LEMMA CheckRequest ==
  ASSUME NEW p \in Project, NEW v \in Nat, NEW s \in TaskStatus, NEW c \in Checkpoint \cup {Null}
  PROVE  [NoRequest EXCEPT !.project = p, !.version = v,
            !.shown = [status |-> s, current |-> c]] \in Request
  BY NoRequestTyped DEF Request, NoRequest, EmptyGraph, GraphState

LEMMA RequestEdits ==
  ASSUME NEW r \in Request
  PROVE  /\ \A c \in Checkpoint \cup {Null} : [r EXCEPT !.cp = c] \in Request
         /\ \A c \in Checkpoint \cup {Null} : [r EXCEPT !.next = c] \in Request
         /\ \A g \in GraphState : [r EXCEPT !.snap = g] \in Request
         /\ \A s \in TaskStatus \cup {Null} : [r EXCEPT !.outcome = s] \in Request
         /\ \A d \in SUBSET CheckpointType : [r EXCEPT !.decisions = d] \in Request
         /\ \A type \in CheckpointType : [r EXCEPT !.type = type] \in Request
         /\ \A cs \in SUBSET Checkpoint : [r EXCEPT !.listed = cs] \in Request
<1>1. \A c \in Checkpoint \cup {Null} : [r EXCEPT !.cp = c] \in Request
  BY DEF Request
<1>2. \A c \in Checkpoint \cup {Null} : [r EXCEPT !.next = c] \in Request
  BY DEF Request
<1>3. \A g \in GraphState : [r EXCEPT !.snap = g] \in Request
  BY DEF Request
<1>4. \A s \in TaskStatus \cup {Null} : [r EXCEPT !.outcome = s] \in Request
  BY DEF Request
<1>5. \A d \in SUBSET CheckpointType : [r EXCEPT !.decisions = d] \in Request
  BY DEF Request
<1>6. \A type \in CheckpointType : [r EXCEPT !.type = type] \in Request
  BY DEF Request
<1>7. \A cs \in SUBSET Checkpoint : [r EXCEPT !.listed = cs] \in Request
  BY DEF Request
<1> QED BY <1>1, <1>2, <1>3, <1>4, <1>5, <1>6, <1>7

\* apply_feedback has matched checkpoint c, and has no more use for the version.
LEMMA MatchedRequest ==
  ASSUME NEW r \in Request, NEW c \in Checkpoint, NEW type \in CheckpointType
  PROVE  [r EXCEPT !.cp = c, !.type = type, !.version = 0, !.shown = NoRequest.shown]
           \in Request
<1>1. \A x \in Request : [x EXCEPT !.version = 0] \in Request
  BY DEF Request
<1>2. \A x \in Request : [x EXCEPT !.shown = NoRequest.shown] \in Request
  BY DEF Request, NoRequest
<1>3. \A x \in Request : [x EXCEPT !.cp = c] \in Request
  BY RequestEdits
<1>4. \A x \in Request : [x EXCEPT !.type = type] \in Request
  BY RequestEdits
<1> QED BY <1>1, <1>2, <1>3, <1>4

-----------------------------------------------------------------------------
(* Type correctness, one lemma per step                                    *)

Typed ==
  /\ StoreTypeOK
  /\ graph   \in [Project -> GraphState]
  /\ answers \in [Project -> SUBSET (CheckpointType \X Action)]
  /\ ThreadsTyped

LEMMA GiveUpTyped ==
  ASSUME Typed, NEW t \in Thread, GiveUp(t)
  PROVE  Typed'
  BY FinishTyped DEF Typed, GiveUp, store, StoreTypeOK

\* The project of a request that is under way.
LEMMA AtWork ==
  ASSUME Typed, NEW t \in Thread, pc[t] # "idle"
  PROVE  req[t].project \in Project
  BY DEF Typed, ThreadsTyped, WellFormed

\* A step of t to label, with locals and tables of their shape.
LEMMA Move ==
  ASSUME Typed, NEW t \in Thread, NEW label \in Pc, NEW r \in Request,
         WellFormed(label, r), Goto(t, label, r),
         StoreTypeOK', (graph \in [Project -> GraphState])',
         (answers \in [Project -> SUBSET (CheckpointType \X Action)])'
  PROVE  Typed'
  BY GotoTyped DEF Typed

\* The same for a step that leaves everything but the thread as it is.
LEMMA LocalMove ==
  ASSUME Typed, NEW t \in Thread, NEW label \in Pc, NEW r \in Request,
         WellFormed(label, r), Goto(t, label, r), UNCHANGED <<store, graph, answers>>
  PROVE  Typed'
<1>1. StoreTypeOK'
  BY DEF Typed, StoreTypeOK, store
<1>2. (graph \in [Project -> GraphState])'
  BY DEF Typed
<1>3. (answers \in [Project -> SUBSET (CheckpointType \X Action)])'
  BY DEF Typed
<1> QED BY <1>1, <1>2, <1>3, Move

\* A request that has only its project goes on to one of the labels where
\* that is all it needs.
LEMMA ProjectLabels ==
  ASSUME NEW p \in Project,
         NEW label \in {"bind", "discovery", "requirement_create", "refresh", "rmtree",
                        "revise_status", "turn_refresh", "check", "stage"}
  PROVE  /\ label \in Pc
         /\ WellFormed(label, [NoRequest EXCEPT !.project = p])
<1>1. label \in Pc
  BY PcLabels
<1>2. [NoRequest EXCEPT !.project = p].project = p
  BY DEF NoRequest
<1>3. WellFormed(label, [NoRequest EXCEPT !.project = p])
  BY <1>2 DEF WellFormed, FlowPc
<1> QED BY <1>1, <1>3

LEMMA InitTyped == Init => Typed
<1> SUFFICES ASSUME Init PROVE Typed
  OBVIOUS
<1>1. StoreTypeOK
  BY DEF Init, StoreInit, StoreTypeOK, ProjectRow, CheckpointRow, Directory,
         NoDirectory, TaskStatus
<1>2. graph \in [Project -> GraphState]
  BY DEF Init, EmptyGraph, GraphState
<1>3. WellFormed("idle", NoRequest)
  BY DEF WellFormed, FlowPc
<1>4. ThreadsTyped
  BY <1>3, NoRequestTyped, PcLabels DEF Init, ThreadsTyped
<1> QED BY <1>1, <1>2, <1>4 DEF Init, Typed

LEMMA CreateProjectTyped ==
  ASSUME Typed, NEW p \in Project, CreateProject(p)
  PROVE  Typed'
  BY InsertProjectTyped DEF Typed, CreateProject, ThreadsTyped

LEMMA SessionCommandTyped ==
  ASSUME Typed, NEW u \in User, SessionCommand(u)
  PROVE  Typed'
  BY SessionTyped DEF Typed, SessionCommand, ThreadsTyped

LEMMA RunProjectTyped ==
  ASSUME Typed, NEW t \in Thread, NEW p \in Project, RunProject(t, p)
  PROVE  Typed'
  BY ProjectLabels, ProjectRequest, LocalMove DEF RunProject

LEMMA SubmitFeedbackTyped ==
  ASSUME Typed, NEW t \in Thread, NEW p \in Project, SubmitFeedback(t, p)
  PROVE  Typed'
<1> DEFINE r == [NoRequest EXCEPT
       !.project = p, !.version = projects[p].version,
       !.shown = [status |-> projects[p].status, current |-> projects[p].current]]
<1>1. projects[p] \in ProjectRow
  BY DEF Typed, StoreTypeOK
<1>2. r \in Request
  <2>1. /\ projects[p].version \in Nat
        /\ projects[p].status \in TaskStatus
        /\ projects[p].current \in Checkpoint \cup {Null}
    BY <1>1 DEF ProjectRow
  <2> QED BY <2>1, CheckRequest
<1>3. WellFormed("check", r)
  BY DEF WellFormed, FlowPc, NoRequest
<1>4. Goto(t, "check", r) /\ UNCHANGED <<store, graph, answers>>
  BY DEF SubmitFeedback
<1> QED BY <1>2, <1>3, <1>4, LocalMove, PcLabels

LEMMA StageFollowUpTyped ==
  ASSUME Typed, NEW t \in Thread, NEW p \in Project, StageFollowUp(t, p)
  PROVE  Typed'
<1>2. PICK type \in StageOwned :
        Goto(t, "stage", [NoRequest EXCEPT !.project = p, !.type = type])
  BY DEF StageFollowUp
<1> DEFINE r == [NoRequest EXCEPT !.project = p, !.type = type]
<1>3. r \in Request
  <2>1. type \in CheckpointType
    BY DEF StageOwned, CheckpointType
  <2> QED BY <2>1, ProjectRequest, RequestEdits
<1>4. WellFormed("stage", r)
  BY DEF WellFormed, FlowPc, NoRequest
<1>5. Goto(t, "stage", r) /\ UNCHANGED <<store, graph, answers>>
  BY <1>2 DEF StageFollowUp
<1> QED BY <1>3, <1>4, <1>5, LocalMove, PcLabels

LEMMA RefreshDraftTyped ==
  ASSUME Typed, NEW t \in Thread, NEW p \in Project, RefreshDraft(t, p)
  PROVE  Typed'
BY ProjectLabels, ProjectRequest, LocalMove DEF RefreshDraft

LEMMA DeleteProjectTyped ==
  ASSUME Typed, NEW t \in Thread, NEW p \in Project, DeleteProject(t, p)
  PROVE  Typed'
<1> DEFINE r == [NoRequest EXCEPT !.project = p, !.listed = CheckpointsOf(p)]
<1>1. r \in Request
  <2>1. CheckpointsOf(p) \in SUBSET Checkpoint
    BY DEF CheckpointsOf
  <2> QED BY <2>1, ProjectRequest, RequestEdits
<1>2. WellFormed("delete", r)
  BY DEF WellFormed, FlowPc, NoRequest
<1>3. Goto(t, "delete", r) /\ UNCHANGED <<store, graph, answers>>
  BY DEF DeleteProject
<1> QED BY <1>1, <1>2, <1>3, LocalMove, PcLabels

\* A request that gives up or goes on with the locals it has, one edited.
LEMMA GraphKept ==
  ASSUME Typed, UNCHANGED <<graph, answers>>
  PROVE  /\ (graph \in [Project -> GraphState])'
         /\ (answers \in [Project -> SUBSET (CheckpointType \X Action)])'
  BY DEF Typed

LEMMA ChatStartsProjectTyped ==
  ASSUME Typed, NEW t \in Thread, NEW u \in User, NEW p \in Project,
         ChatStartsProject(t, u, p)
  PROVE  Typed'
<1>1. StoreTypeOK'
  BY InsertProjectTyped DEF Typed, ChatStartsProject
<1> QED BY <1>1, ProjectLabels, ProjectRequest, Move, GraphKept DEF ChatStartsProject

LEMMA BindProjectTyped ==
  ASSUME Typed, NEW t \in Thread, BindProject(t)
  PROVE  Typed'
<1> DEFINE r == req[t]
           p == r.project
<1>1. p \in Project /\ r \in Request
  BY AtWork DEF BindProject, Typed, ThreadsTyped
<1>2. CASE GiveUp(t)
  BY <1>2, GiveUpTyped
<1>3. ASSUME NEW u \in User, BindActiveProject(u, p), Goto(t, "discovery", r),
             UNCHANGED <<graph, answers>>
      PROVE  Typed'
  <2>1. StoreTypeOK'
    BY <1>1, <1>3, SessionTyped DEF Typed
  <2>2. WellFormed("discovery", r)
    BY <1>1 DEF WellFormed, FlowPc
  <2> QED BY <1>1, <1>3, <2>1, <2>2, Move, PcLabels, GraphKept
<1> QED BY <1>2, <1>3 DEF BindProject

LEMMA DiscoveryReadsTyped ==
  ASSUME Typed, NEW t \in Thread, DiscoveryReads(t)
  PROVE  Typed'
<1> DEFINE p == req[t].project
           r == [req[t] EXCEPT !.snap = graph[p]]
<1>1. p \in Project
  BY AtWork DEF DiscoveryReads
<1>2. CASE GiveUp(t)
  BY <1>2, GiveUpTyped
<1>3. CASE Goto(t, "invoke", r) /\ UNCHANGED <<store, graph, answers>>
  <2>1. req[t] \in Request /\ graph[p] \in GraphState
    BY <1>1 DEF Typed, ThreadsTyped
  <2>2. r \in Request
    BY <2>1, RequestEdits
  <2>3. WellFormed("invoke", r)
    BY <1>1, <2>1 DEF WellFormed, FlowPc, Request
  <2> QED BY <1>3, <2>2, <2>3, LocalMove, PcLabels
<1> QED BY <1>2, <1>3 DEF DiscoveryReads

LEMMA DiscoveryRunsTyped ==
  ASSUME Typed, NEW t \in Thread, DiscoveryRuns(t)
  PROVE  Typed'
<1> DEFINE p == req[t].project
           g == [req[t].snap EXCEPT !.spec = TRUE, !.plan = "none"]
<1>1. p \in Project /\ req[t] \in Request
  BY AtWork DEF DiscoveryRuns, Typed, ThreadsTyped
<1>2. CASE GiveUp(t)
  BY <1>2, GiveUpTyped
<1>3. CASE /\ graph' = [graph EXCEPT ![p] = g]
           /\ Goto(t, "requirement_create", [NoRequest EXCEPT !.project = p])
           /\ UNCHANGED <<store, answers>>
  <2>1. g \in GraphState
    BY <1>1 DEF Request, GraphState
  <2>2. (graph \in [Project -> GraphState])'
    BY <1>3, <2>1 DEF Typed
  <2>3. StoreTypeOK' /\ (answers \in [Project -> SUBSET (CheckpointType \X Action)])'
    BY <1>3 DEF Typed, StoreTypeOK, store
  <2> QED BY <1>1, <1>3, <2>2, <2>3, Move, ProjectLabels, ProjectRequest
<1> QED BY <1>2, <1>3 DEF DiscoveryRuns

LEMMA RequirementCheckpointTyped ==
  ASSUME Typed, NEW t \in Thread, RequirementCheckpoint(t)
  PROVE  Typed'
<1> DEFINE p == req[t].project
<1>1. p \in Project /\ req[t] \in Request
  BY AtWork DEF RequirementCheckpoint, Typed, ThreadsTyped
<1>2. CASE GiveUp(t)
  BY <1>2, GiveUpTyped
<1>3. ASSUME NEW c \in Checkpoint,
             CreateCheckpoint(p, c, "requirement_review"),
             Goto(t, "flow", [req[t] EXCEPT
                !.next = c, !.outcome = "WAIT_HUMAN_REQUIREMENT"]),
             UNCHANGED <<graph, answers>>
      PROVE  Typed'
  <2> DEFINE r == [req[t] EXCEPT !.next = c, !.outcome = "WAIT_HUMAN_REQUIREMENT"]
  <2>1. "WAIT_HUMAN_REQUIREMENT" \in TaskStatus /\ "requirement_review" \in CheckpointType
    BY DEF TaskStatus, CheckpointType
  <2>2. r \in Request
    BY <1>1, <2>1, RequestEdits
  <2>3. WellFormed("flow", r)
    BY <1>1, <2>1 DEF WellFormed, FlowPc, Request
  <2>4. StoreTypeOK'
    BY <1>1, <1>3, <2>1, CreateCheckpointTyped DEF Typed
  <2> QED BY <1>3, <2>2, <2>3, <2>4, Move, PcLabels, GraphKept
<1> QED BY <1>2, <1>3 DEF RequirementCheckpoint

LEMMA CheckFeedbackTyped ==
  ASSUME Typed, NEW t \in Thread, CheckFeedback(t)
  PROVE  Typed'
<1> DEFINE r == req[t]
<1>1. r.project \in Project /\ r \in Request
  BY AtWork DEF CheckFeedback, Typed, ThreadsTyped
<1>2. CASE GiveUp(t)
  BY <1>2, GiveUpTyped
<1>3. ASSUME NEW c \in Checkpoint, NEW type \in CheckpointType,
             Goto(t, "snapshot", [r EXCEPT
               !.cp = c, !.type = type, !.version = 0, !.shown = NoRequest.shown]),
             UNCHANGED <<store, graph, answers>>
      PROVE  Typed'
  <2> DEFINE n == [r EXCEPT
               !.cp = c, !.type = type, !.version = 0, !.shown = NoRequest.shown]
  <2>1. n \in Request
    BY <1>1, MatchedRequest
  <2>2. WellFormed("snapshot", n)
    BY <1>1 DEF WellFormed, FlowPc, Request
  <2> QED BY <1>3, <2>1, <2>2, LocalMove, PcLabels
<1> QED BY <1>2, <1>3 DEF CheckFeedback

LEMMA ReadSnapshotTyped ==
  ASSUME Typed, NEW t \in Thread, ReadSnapshot(t)
  PROVE  Typed'
<1> DEFINE r == [req[t] EXCEPT !.snap = graph[req[t].project]]
<1>1. req[t].project \in Project /\ req[t] \in Request
  BY AtWork DEF ReadSnapshot, Typed, ThreadsTyped
<1>2. graph[req[t].project] \in GraphState
  BY <1>1 DEF Typed
<1>3. r \in Request
  BY <1>1, <1>2, RequestEdits
<1>4. WellFormed("dispatch", r)
  <2>1. WellFormed("snapshot", req[t])
    BY DEF ReadSnapshot, Typed, ThreadsTyped
  <2> QED BY <1>1, <2>1 DEF WellFormed, FlowPc, Request
<1>5. Goto(t, "dispatch", r) /\ UNCHANGED <<store, graph, answers>>
  BY DEF ReadSnapshot
<1> QED BY <1>3, <1>4, <1>5, LocalMove, PcLabels

-----------------------------------------------------------------------------
(* Type correctness of the feedback handlers                               *)

LEMMA OutcomeTyped ==
  ASSUME Typed, NEW t \in Thread,
         req[t].project \in Project, req[t].cp \in Checkpoint,
         NEW label \in {"test", "create", "resolve"}, NEW s \in TaskStatus \cup {Null},
         label # "test" => s \in TaskStatus,
         Outcome(t, label, s),
         StoreTypeOK', (graph \in [Project -> GraphState])',
         (answers \in [Project -> SUBSET (CheckpointType \X Action)])'
  PROVE  Typed'
<1> DEFINE r == [NoRequest EXCEPT
       !.project = req[t].project, !.cp = req[t].cp, !.outcome = s]
<1>1. r \in Request
  BY OutcomeRequest
<1>2. WellFormed(label, r)
  BY DEF WellFormed, FlowPc, NoRequest
<1>3. Goto(t, label, r)
  BY DEF Outcome
<1>4. label \in Pc
  BY PcLabels
<1> QED BY <1>1, <1>2, <1>3, <1>4, Move

LEMMA StatusNames ==
  /\ {"DISCOVERY", "WAIT_HUMAN_REQUIREMENT", "PLANNING", "WAIT_HUMAN_PLAN"} \subseteq TaskStatus
  /\ {"CODING", "DEBUGGING", "WAIT_HUMAN_CODE", "WAIT_HUMAN_FINAL"} \subseteq TaskStatus
  /\ {"DONE", "CANCELLED", "FAILED"} \subseteq TaskStatus
  BY DEF TaskStatus

LEMMA PlanMade ==
  ASSUME Typed, NEW p \in Project
  PROVE  /\ [graph EXCEPT ![p].plan = "made"] \in [Project -> GraphState]
         /\ [graph EXCEPT ![p].code = TRUE] \in [Project -> GraphState]
         /\ [graph EXCEPT ![p].review = TRUE] \in [Project -> GraphState]
         /\ [graph EXCEPT ![p].spec = TRUE, ![p].plan = "made"] \in [Project -> GraphState]
<1>1. ASSUME NEW g \in [Project -> GraphState], NEW x \in {"spec", "code", "review"}
      PROVE  [g EXCEPT ![p][x] = TRUE] \in [Project -> GraphState]
  BY DEF GraphState
<1>2. ASSUME NEW g \in [Project -> GraphState]
      PROVE  [g EXCEPT ![p].plan = "made"] \in [Project -> GraphState]
  BY DEF GraphState
<1>3. ASSUME NEW g \in [Project -> GraphState]
      PROVE  [g EXCEPT ![p].spec = TRUE] \in [Project -> GraphState]
  BY DEF GraphState
<1> QED BY <1>1, <1>2, <1>3 DEF Typed

LEMMA HandleTyped ==
  ASSUME Typed, NEW t \in Thread, pc[t] = "dispatch",
         NEW action \in Action, Handle(t, req[t].type, action), Record(req[t], action)
  PROVE  Typed'
<1> DEFINE r == req[t]
           p == r.project
<1>1. /\ r \in Request
      /\ p \in Project
      /\ r.cp \in Checkpoint
      /\ r.type \in CheckpointType
  BY AtWork DEF Typed, ThreadsTyped, WellFormed
<1>2. (answers \in [Project -> SUBSET (CheckpointType \X Action)])'
  BY <1>1 DEF Typed, Record
<1>3. UNCHANGED store => StoreTypeOK'
  BY DEF Typed, StoreTypeOK, store
<1>4. UNCHANGED graph => (graph \in [Project -> GraphState])'
  BY DEF Typed
<1>5. ASSUME RequirementFeedback(t, action) PROVE Typed'
  <2>1. (graph \in [Project -> GraphState])'
    <3>1. UNCHANGED graph \/ graph' = [graph EXCEPT ![p].plan = "made"]
      BY <1>5 DEF RequirementFeedback
    <3>2. [graph EXCEPT ![p].plan = "made"] \in [Project -> GraphState]
      BY <1>1, PlanMade
    <3> QED BY <1>4, <3>1, <3>2
  <2>2. StoreTypeOK'
    BY <1>3, <1>5 DEF RequirementFeedback
  <2>3. \/ Outcome(t, "create", "WAIT_HUMAN_PLAN")
        \/ Outcome(t, "resolve", "DISCOVERY")
        \/ Outcome(t, "resolve", "CANCELLED")
    BY <1>5 DEF RequirementFeedback
  <2> QED BY <1>1, <1>2, <2>1, <2>2, <2>3, OutcomeTyped, StatusNames
<1>6. ASSUME PlanFeedback(t, action) PROVE Typed'
  <2>1. (graph \in [Project -> GraphState])'
    BY <1>4, <1>6 DEF PlanFeedback
  <2>2. StoreTypeOK'
    BY <1>1, <1>3, <1>6, PersistCodeFilesTyped DEF PlanFeedback, Typed
  <2>3. \/ Outcome(t, "test", Null)
        \/ Outcome(t, "resolve", "PLANNING")
        \/ Outcome(t, "resolve", "CANCELLED")
    BY <1>6 DEF PlanFeedback
  <2> QED BY <1>1, <1>2, <2>1, <2>2, <2>3, OutcomeTyped, StatusNames
<1>7. ASSUME CodeFeedback(t, action) PROVE Typed'
  <2>1. (graph \in [Project -> GraphState])'
    <3>1. UNCHANGED graph \/ graph' = [graph EXCEPT ![p].review = TRUE]
      BY <1>7 DEF CodeFeedback
    <3>2. [graph EXCEPT ![p].review = TRUE] \in [Project -> GraphState]
      BY <1>1, PlanMade
    <3> QED BY <1>4, <3>1, <3>2
  <2>2. StoreTypeOK'
    BY <1>3, <1>7 DEF CodeFeedback
  <2>3. \/ Outcome(t, "create", "WAIT_HUMAN_FINAL")
        \/ Outcome(t, "resolve", "PLANNING")
        \/ Outcome(t, "resolve", "CODING")
    BY <1>7 DEF CodeFeedback
  <2> QED BY <1>1, <1>2, <2>1, <2>2, <2>3, OutcomeTyped, StatusNames
<1>8. ASSUME FinalFeedback(t, action) PROVE Typed'
  <2>1. \E status \in {"DONE", "PLANNING", "DEBUGGING", "CODING", "CANCELLED"} :
          Outcome(t, "resolve", status)
    BY <1>8 DEF FinalFeedback
  <2>2. StoreTypeOK' /\ (graph \in [Project -> GraphState])'
    BY <1>3, <1>4, <1>8 DEF FinalFeedback
  <2> QED BY <1>1, <1>2, <2>1, <2>2, OutcomeTyped, StatusNames
<1> QED BY <1>5, <1>6, <1>7, <1>8 DEF Handle

LEMMA DispatchTyped ==
  ASSUME Typed, NEW t \in Thread, Dispatch(t)
  PROVE  Typed'
  BY GiveUpTyped, HandleTyped DEF Dispatch

LEMMA RunTestsTyped ==
  ASSUME Typed, NEW t \in Thread, RunTests(t)
  PROVE  Typed'
<1> DEFINE r == req[t]
           p == r.project
<1>1. /\ r \in Request
      /\ p \in Project
      /\ r.cp \in Checkpoint
      /\ pc[t] = "test"
  BY AtWork DEF RunTests, Typed, ThreadsTyped, WellFormed
<1>2. StoreTypeOK' /\ (answers \in [Project -> SUBSET (CheckpointType \X Action)])'
  BY DEF RunTests, Typed, StoreTypeOK, store
<1>3. CASE Finish(t) /\ UNCHANGED graph
  BY <1>2, <1>3, FinishTyped DEF Typed
<1>4. CASE Goto(t, "debug", r) /\ UNCHANGED graph
  <2>1. WellFormed("debug", r)
    BY <1>1 DEF WellFormed, FlowPc
  <2>2. (graph \in [Project -> GraphState])'
    BY <1>4 DEF Typed
  <2> QED BY <1>1, <1>2, <1>4, <2>1, <2>2, Move, PcLabels
<1>5. CASE /\ graph' = [graph EXCEPT ![p].code = TRUE]
           /\ \/ Outcome(t, "create", "WAIT_HUMAN_CODE")
              \/ \E status \in {"CODING", "FAILED"} : Outcome(t, "resolve", status)
  <2>1. (graph \in [Project -> GraphState])'
    BY <1>1, <1>5, PlanMade
  <2> QED BY <1>1, <1>2, <1>5, <2>1, OutcomeTyped, StatusNames
<1> QED BY <1>3, <1>4, <1>5 DEF RunTests

LEMMA DebugTyped ==
  ASSUME Typed, NEW t \in Thread, Debug(t)
  PROVE  Typed'
<1> DEFINE r == req[t]
<1>1. r \in Request /\ r.project \in Project /\ r.cp \in Checkpoint
  BY AtWork DEF Debug, Typed, ThreadsTyped, WellFormed
<1>2. CASE GiveUp(t)
  BY <1>2, GiveUpTyped
<1>3. CASE PersistCodeFiles(r.project) /\ Goto(t, "test", r) /\ UNCHANGED <<graph, answers>>
  <2>1. WellFormed("test", r)
    BY <1>1 DEF WellFormed, FlowPc
  <2>2. StoreTypeOK'
    BY <1>1, <1>3, PersistCodeFilesTyped DEF Typed
  <2> QED BY <1>1, <1>3, <2>1, <2>2, Move, PcLabels, GraphKept
<1> QED BY <1>2, <1>3 DEF Debug

LEMMA NextCheckpointTyped ==
  ASSUME Typed, NEW t \in Thread, NextCheckpoint(t)
  PROVE  Typed'
<1> DEFINE r == req[t]
<1>1. /\ r \in Request /\ r.project \in Project /\ r.cp \in Checkpoint
      /\ r.outcome \in TaskStatus
  BY AtWork DEF NextCheckpoint, Typed, ThreadsTyped, WellFormed, FlowPc
<1>2. CASE GiveUp(t)
  BY <1>2, GiveUpTyped
<1>3. ASSUME NEW c \in Checkpoint, NEW type \in CheckpointType,
             CreateCheckpoint(r.project, c, type),
             Goto(t, "resolve", [r EXCEPT !.next = c]),
             UNCHANGED <<graph, answers>>
      PROVE  Typed'
  <2> DEFINE n == [r EXCEPT !.next = c]
  <2>1. n \in Request
    BY <1>1, RequestEdits
  <2>2. WellFormed("resolve", n)
    BY <1>1 DEF WellFormed, FlowPc, Request
  <2>3. StoreTypeOK'
    BY <1>1, <1>3, CreateCheckpointTyped DEF Typed
  <2> QED BY <1>3, <2>1, <2>2, <2>3, Move, PcLabels, GraphKept
<1> QED BY <1>2, <1>3 DEF NextCheckpoint

LEMMA ResolveAnsweredTyped ==
  ASSUME Typed, NEW t \in Thread, ResolveAnswered(t)
  PROVE  Typed'
<1> DEFINE r == req[t]
           n == [r EXCEPT !.cp = Null]
<1>1. /\ r \in Request /\ r.project \in Project /\ r.cp \in Checkpoint
      /\ r.outcome \in TaskStatus
  BY AtWork DEF ResolveAnswered, Typed, ThreadsTyped, WellFormed, FlowPc
<1>2. CASE GiveUp(t)
  BY <1>2, GiveUpTyped
<1>3. CASE ResolveCheckpoint(r.cp) /\ Goto(t, "flow", n) /\ UNCHANGED <<graph, answers>>
  <2>1. n \in Request
    BY <1>1, RequestEdits
  <2>2. WellFormed("flow", n)
    BY <1>1 DEF WellFormed, FlowPc, Request
  <2>3. StoreTypeOK'
    BY <1>1, <1>3, ResolveCheckpointTyped DEF Typed
  <2> QED BY <1>3, <2>1, <2>2, <2>3, Move, PcLabels, GraphKept
<1> QED BY <1>2, <1>3 DEF ResolveAnswered

LEMMA FlowStateTyped ==
  ASSUME Typed, NEW t \in Thread, FlowState(t)
  PROVE  Typed'
<1> DEFINE r == req[t]
           n == [r EXCEPT !.next = Null]
<1>1. /\ r \in Request /\ r.project \in Project /\ r.outcome \in TaskStatus
  BY AtWork DEF FlowState, Typed, ThreadsTyped, WellFormed, FlowPc
<1>2. CASE GiveUp(t)
  BY <1>2, GiveUpTyped
<1>3. CASE /\ UpdateProjectFlowState(r.project, r.outcome, r.next)
           /\ Goto(t, "sync", n)
           /\ UNCHANGED <<graph, answers>>
  <2>1. n \in Request
    BY <1>1, RequestEdits
  <2>2. WellFormed("sync", n)
    BY <1>1 DEF WellFormed, FlowPc, Request
  <2>3. r.next \in Checkpoint \cup {Null}
    BY <1>1 DEF Request
  <2>4. StoreTypeOK'
    BY <1>1, <1>3, <2>3, UpdateProjectFlowStateTyped DEF Typed
  <2> QED BY <1>3, <2>1, <2>2, <2>4, Move, PcLabels, GraphKept
<1> QED BY <1>2, <1>3 DEF FlowState

-----------------------------------------------------------------------------
(* Type correctness of the memory, of chat turns and of the rest           *)

LEMMA SyncReadsTyped ==
  ASSUME Typed, NEW t \in Thread, SyncReads(t)
  PROVE  Typed'
<1> DEFINE r == req[t]
<1>1. r \in Request /\ r.project \in Project
  BY AtWork DEF SyncReads, Typed, ThreadsTyped
<1>2. CASE GiveUp(t)
  BY <1>2, GiveUpTyped
<1>3. ASSUME NEW d, d \in SUBSET CheckpointType,
             Goto(t, "write_memory", [r EXCEPT !.outcome = Null, !.decisions = d]),
             UNCHANGED <<store, graph, answers>>
      PROVE  Typed'
  <2> DEFINE n == [r EXCEPT !.outcome = Null, !.decisions = d]
  <2>1. n \in Request
    BY <1>1, <1>3, RequestEdits
  <2>2. WellFormed("write_memory", n)
    BY <1>1 DEF WellFormed, FlowPc, Request
  <2> QED BY <1>3, <2>1, <2>2, LocalMove, PcLabels
<1>4. \A g, s : Decisions(g, s) \in SUBSET CheckpointType
  BY DEF Decisions
<1> QED BY <1>2, <1>3, <1>4 DEF SyncReads

LEMMA SyncWritesTyped ==
  ASSUME Typed, NEW t \in Thread, SyncWrites(t)
  PROVE  Typed'
<1>1. req[t].project \in Project /\ req[t].decisions \in SUBSET CheckpointType
  BY AtWork DEF SyncWrites, Typed, ThreadsTyped, Request
<1>2. StoreTypeOK'
  BY <1>1, WriteProjectMemoryTyped DEF SyncWrites, Typed
<1> QED BY <1>2, FinishTyped, GraphKept DEF SyncWrites, Typed

LEMMA StageCheckpointTyped ==
  ASSUME Typed, NEW t \in Thread, StageCheckpoint(t)
  PROVE  Typed'
<1> DEFINE r == req[t]
<1>1. r \in Request /\ r.project \in Project
  BY AtWork DEF StageCheckpoint, Typed, ThreadsTyped
<1>2. CASE GiveUp(t)
  BY <1>2, GiveUpTyped
<1>3. ASSUME NEW label \in {"plan_turn", "requirement_turn"},
             Goto(t, label, r), UNCHANGED <<store, graph, answers>>
      PROVE  Typed'
  <2>1. WellFormed(label, r)
    BY <1>1 DEF WellFormed, FlowPc
  <2> QED BY <1>1, <1>3, <2>1, LocalMove, PcLabels
<1> QED BY <1>2, <1>3 DEF StageCheckpoint

LEMMA ApproveCurrentTyped ==
  ASSUME Typed, NEW t \in Thread, req[t].project \in Project, ApproveCurrent(t)
  PROVE  Typed'
<1> DEFINE p == req[t].project
           c == projects[p].current
           v == projects[p].version
           shown == [status |-> projects[p].status, current |-> c]
           r == [NoRequest EXCEPT
                  !.project = p, !.cp = c, !.type = checkpoints[c].type,
                  !.action = "approve", !.version = v, !.shown = shown]
<1>1. /\ projects[p].status \in TaskStatus
      /\ c \in Checkpoint
      /\ v \in Nat
      /\ checkpoints[c].type \in CheckpointType \cup {Null}
  BY DEF Typed, StoreTypeOK, ProjectRow, CheckpointRow, ApproveCurrent
<1>2. r \in Request
  <2>1. \A x \in Request : [x EXCEPT !.cp = c] \in Request
    BY <1>1, RequestEdits
  <2>2. \A x \in Request : [x EXCEPT !.type = checkpoints[c].type] \in Request
    BY <1>1 DEF Request
  <2>3. \A x \in Request : [x EXCEPT !.action = "approve"] \in Request
    BY DEF Request, Action
  <2>4. \A x \in Request : [x EXCEPT !.version = v] \in Request
    BY <1>1 DEF Request
  <2>5. \A x \in Request : [x EXCEPT !.shown = shown] \in Request
    BY <1>1 DEF Request
  <2>6. [NoRequest EXCEPT !.project = p] \in Request
    BY ProjectRequest
  <2> QED BY <2>1, <2>2, <2>3, <2>4, <2>5, <2>6
<1>3. WellFormed("check", r)
  BY DEF WellFormed, FlowPc, NoRequest
<1>4. Goto(t, "check", r) /\ UNCHANGED <<store, graph, answers>>
  BY DEF ApproveCurrent
<1> QED BY <1>2, <1>3, <1>4, LocalMove, PcLabels

LEMMA RequirementTurnTyped ==
  ASSUME Typed, NEW t \in Thread, RequirementTurn(t)
  PROVE  Typed'
<1>1. req[t] \in Request /\ req[t].project \in Project
  BY AtWork DEF RequirementTurn, Typed, ThreadsTyped
<1>2. CASE Goto(t, "turn_refresh", req[t]) /\ UNCHANGED <<store, graph, answers>>
  <2>1. WellFormed("turn_refresh", req[t])
    BY <1>1 DEF WellFormed, FlowPc
  <2> QED BY <1>1, <1>2, <2>1, LocalMove, PcLabels
<1> QED BY <1>1, <1>2, GiveUpTyped, ApproveCurrentTyped DEF RequirementTurn

LEMMA TurnRefreshTyped ==
  ASSUME Typed, NEW t \in Thread, TurnRefresh(t)
  PROVE  Typed'
<1> DEFINE p == req[t].project
<1>1. p \in Project
  BY AtWork DEF TurnRefresh
<1>2. CASE GiveUp(t)
  BY <1>2, GiveUpTyped
<1>3. CASE /\ RefreshActiveProjectRequirement(p)
           /\ Goto(t, "discovery", [NoRequest EXCEPT !.project = p])
           /\ UNCHANGED <<graph, answers>>
  <2>1. StoreTypeOK'
    BY <1>1, <1>3, RefreshTyped DEF Typed
  <2> QED BY <1>1, <1>3, <2>1, GraphKept, Move, ProjectLabels, ProjectRequest
<1> QED BY <1>2, <1>3 DEF TurnRefresh

LEMMA PlanTurnTyped ==
  ASSUME Typed, NEW t \in Thread, PlanTurn(t)
  PROVE  Typed'
<1> DEFINE p == req[t].project
           c == projects[p].current
<1>1. /\ req[t] \in Request /\ p \in Project
      /\ c \in Checkpoint \cup {Null}
  BY AtWork DEF PlanTurn, Typed, ThreadsTyped, StoreTypeOK, ProjectRow
<1>2. ASSUME NEW x \in Checkpoint \cup {Null},
             Goto(t, "plan_revise", [req[t] EXCEPT !.cp = x]),
             UNCHANGED <<store, graph, answers>>
      PROVE  Typed'
  <2> DEFINE n == [req[t] EXCEPT !.cp = x]
  <2>1. n \in Request
    BY <1>1, RequestEdits
  <2>2. WellFormed("plan_revise", n)
    BY <1>1 DEF WellFormed, FlowPc, Request
  <2> QED BY <1>2, <2>1, <2>2, LocalMove, PcLabels
<1> QED BY <1>1, <1>2, GiveUpTyped, ApproveCurrentTyped DEF PlanTurn

LEMMA PlanReviseTyped ==
  ASSUME Typed, NEW t \in Thread, PlanRevise(t)
  PROVE  Typed'
<1> DEFINE r == req[t]
           label == IF r.cp = Null THEN "revise_create" ELSE "revise_resolve"
<1>1. r \in Request /\ r.project \in Project
  BY AtWork DEF PlanRevise, Typed, ThreadsTyped
<1>2. CASE GiveUp(t)
  BY <1>2, GiveUpTyped
<1>3. CASE /\ graph' = [graph EXCEPT ![r.project].spec = TRUE, ![r.project].plan = "made"]
           /\ Goto(t, label, r)
           /\ UNCHANGED <<store, answers>>
  <2>1. (graph \in [Project -> GraphState])'
    BY <1>1, <1>3, PlanMade
  <2>2. StoreTypeOK' /\ (answers \in [Project -> SUBSET (CheckpointType \X Action)])'
    BY <1>3 DEF Typed, StoreTypeOK, store
  <2>3. WellFormed(label, r) /\ label \in Pc
    BY <1>1, PcLabels DEF WellFormed, FlowPc, Request
  <2>4. Goto(t, label, r)
    BY <1>3
  <2> QED BY <1>1, <2>1, <2>2, <2>3, <2>4, Move
<1> QED BY <1>2, <1>3 DEF PlanRevise

LEMMA ReviseResolveTyped ==
  ASSUME Typed, NEW t \in Thread, ReviseResolve(t)
  PROVE  Typed'
<1> DEFINE r == req[t]
<1>1. r \in Request /\ r.project \in Project /\ r.cp \in Checkpoint
  BY AtWork DEF ReviseResolve, Typed, ThreadsTyped, WellFormed
<1>2. CASE GiveUp(t)
  BY <1>2, GiveUpTyped
<1>3. CASE /\ ResolveCheckpoint(r.cp)
           /\ Goto(t, "revise_create", r)
           /\ UNCHANGED <<graph, answers>>
  <2>1. StoreTypeOK'
    BY <1>1, <1>3, ResolveCheckpointTyped DEF Typed
  <2>2. WellFormed("revise_create", r)
    BY <1>1 DEF WellFormed, FlowPc
  <2> QED BY <1>1, <1>3, <2>1, <2>2, Move, PcLabels, GraphKept
<1> QED BY <1>2, <1>3 DEF ReviseResolve

LEMMA ReviseCreateTyped ==
  ASSUME Typed, NEW t \in Thread, ReviseCreate(t)
  PROVE  Typed'
<1> DEFINE p == req[t].project
<1>1. p \in Project
  BY AtWork DEF ReviseCreate
<1>2. CASE GiveUp(t)
  BY <1>2, GiveUpTyped
<1>3. ASSUME NEW c \in Checkpoint, CreateCheckpoint(p, c, "plan_review"),
             Goto(t, "revise_status", [NoRequest EXCEPT !.project = p]),
             UNCHANGED <<graph, answers>>
      PROVE  Typed'
  <2>1. StoreTypeOK'
    <3>1. "plan_review" \in CheckpointType
      BY DEF CheckpointType
    <3> QED BY <1>1, <1>3, <3>1, CreateCheckpointTyped DEF Typed
  <2> QED BY <1>1, <1>3, <2>1, Move, ProjectLabels, ProjectRequest, GraphKept
<1> QED BY <1>2, <1>3 DEF ReviseCreate

LEMMA ReviseStatusTyped ==
  ASSUME Typed, NEW t \in Thread, ReviseStatus(t)
  PROVE  Typed'
<1> DEFINE r == req[t]
           n == [r EXCEPT !.outcome = projects[r.project].status]
<1>1. r \in Request /\ r.project \in Project
  BY AtWork DEF ReviseStatus, Typed, ThreadsTyped
<1>2. CASE GiveUp(t)
  BY <1>2, GiveUpTyped
<1>3. CASE Goto(t, "sync", n) /\ UNCHANGED <<store, graph, answers>>
  <2>1. projects[r.project].status \in TaskStatus
    BY <1>1 DEF Typed, StoreTypeOK, ProjectRow
  <2>2. n \in Request
    BY <1>1, <2>1, RequestEdits
  <2>3. WellFormed("sync", n)
    BY <1>1 DEF WellFormed, FlowPc, Request
  <2> QED BY <1>3, <2>2, <2>3, LocalMove, PcLabels
<1> QED BY <1>2, <1>3 DEF ReviseStatus

LEMMA RefreshStepTyped ==
  ASSUME Typed, NEW t \in Thread, Refresh(t)
  PROVE  Typed'
<1>1. req[t].project \in Project
  BY AtWork DEF Refresh
<1>2. CASE GiveUp(t)
  BY <1>2, GiveUpTyped
<1>3. CASE /\ RefreshActiveProjectRequirement(req[t].project)
           /\ Finish(t)
           /\ UNCHANGED <<graph, answers>>
  BY <1>1, <1>3, RefreshTyped, FinishTyped, GraphKept DEF Typed
<1> QED BY <1>2, <1>3 DEF Refresh

LEMMA DeleteListedTyped ==
  ASSUME Typed, NEW t \in Thread, DeleteListed(t)
  PROVE  Typed'
<1>1. req[t].project \in Project
  BY AtWork DEF DeleteListed
<1>2. StoreTypeOK'
  BY <1>1, DeleteRowsTyped DEF Typed, DeleteListed
<1>3. /\ (graph \in [Project -> GraphState])'
      /\ (answers \in [Project -> SUBSET (CheckpointType \X Action)])'
  BY DEF Typed, DeleteListed
<1> QED BY <1>1, <1>2, <1>3, ProjectLabels, ProjectRequest, Move DEF DeleteListed

LEMMA RemoveTreeTyped ==
  ASSUME Typed, NEW t \in Thread, RemoveTree(t)
  PROVE  Typed'
<1>1. req[t].project \in Project
  BY AtWork DEF RemoveTree
<1> QED BY <1>1, RemoveProjectRootTyped, FinishTyped, GraphKept DEF RemoveTree, Typed

LEMMA RestartTyped ==
  ASSUME Typed, Restart
  PROVE  Typed'
<1>1. StoreTypeOK' /\ (answers \in [Project -> SUBSET (CheckpointType \X Action)])'
  BY DEF Typed, Restart, StoreTypeOK, store
<1>2. (graph \in [Project -> GraphState])'
  BY DEF Restart, EmptyGraph, GraphState
<1>3. WellFormed("idle", NoRequest)
  BY DEF WellFormed, FlowPc
<1>4. ThreadsTyped'
  BY <1>3, NoRequestTyped, PcLabels DEF ThreadsTyped, Restart
<1> QED BY <1>1, <1>2, <1>4 DEF Typed

-----------------------------------------------------------------------------
LEMMA TypedStep == Typed /\ [Next]_vars => Typed'
<1> SUFFICES ASSUME Typed, [Next]_vars PROVE Typed'
  OBVIOUS
<1>1. ASSUME NEW p \in Project, CreateProject(p) PROVE Typed'
  BY <1>1, CreateProjectTyped
<1>2. ASSUME NEW u \in User, SessionCommand(u) PROVE Typed'
  BY <1>2, SessionCommandTyped
<1>3. ASSUME NEW t \in Thread, Arrive(t) PROVE Typed'
  BY <1>3, RunProjectTyped, SubmitFeedbackTyped, DeleteProjectTyped, StageFollowUpTyped,
     RefreshDraftTyped, ChatStartsProjectTyped DEF Arrive
<1>4. ASSUME NEW t \in Thread, Proceed(t) PROVE Typed'
  BY <1>4, BindProjectTyped, DiscoveryReadsTyped, DiscoveryRunsTyped, RequirementCheckpointTyped,
     CheckFeedbackTyped, ReadSnapshotTyped, DispatchTyped, DebugTyped,
     NextCheckpointTyped, ResolveAnsweredTyped, FlowStateTyped, SyncReadsTyped,
     SyncWritesTyped, StageCheckpointTyped, RequirementTurnTyped, TurnRefreshTyped,
     PlanTurnTyped, PlanReviseTyped, ReviseResolveTyped, ReviseCreateTyped,
     ReviseStatusTyped, RefreshStepTyped, DeleteListedTyped, RemoveTreeTyped DEF Proceed
<1>5. ASSUME NEW t \in Thread, RunTests(t) PROVE Typed'
  BY <1>5, RunTestsTyped
<1>6. CASE Restart
  BY <1>6, RestartTyped
<1>7. CASE UNCHANGED vars
  BY <1>7 DEF vars, store, Typed, StoreTypeOK, ThreadsTyped
<1> QED BY <1>1, <1>2, <1>3, <1>4, <1>5, <1>6, <1>7 DEF Next

\* Every table, graph state and request is of its shape in every reachable
\* state, for any number of projects, checkpoints, users and threads: the
\* tables of workspace/manager.py and the locals of graph/runtime.py.
THEOREM TypeCorrect == Spec => []TypeOK
<1>1. Typed => TypeOK
  BY DEF Typed, TypeOK, ThreadsTyped
<1> QED BY <1>1, InitTyped, TypedStep, PTL DEF Spec

-----------------------------------------------------------------------------
(* Referential integrity: each method keeps the rows that name each other  *)

\* A method keeps what was named, and names its own rows.
NamesKept ==
  /\ OwnedRows'
  /\ \A c \in Checkpoint, p \in Project : Names(c, p) => Names(c, p)'

LEMMA InsertProjectOwned ==
  ASSUME StoreTypeOK, OwnedRows, NEW p \in Project, NEW o \in User \cup {Null},
         InsertProject(p, o)
  PROVE  NamesKept
<1>1. \A q \in Project :
        /\ q # p => projects'[q].life = projects[q].life
        /\ projects[p].life = "unborn"
        /\ projects'[p].life = "live"
        /\ projects'[q].current = IF q = p THEN Null ELSE projects[q].current
  BY DEF StoreTypeOK, ProjectRow, InsertProject, Live
<1>2. UNCHANGED checkpoints
  BY DEF InsertProject
<1>3. \A d \in Checkpoint, q \in Project : Names(d, q) => Names(d, q)'
  BY <1>1, <1>2 DEF Names, Exists, Live
<1>4. OwnedRows'
  BY <1>1, <1>2 DEF StoreTypeOK, ProjectRow, OwnedRows, Exists, Names, Live
<1> QED BY <1>3, <1>4 DEF NamesKept

LEMMA CreateCheckpointOwned ==
  ASSUME StoreTypeOK, OwnedRows, NEW p \in Project, NEW c \in Checkpoint,
         NEW type \in CheckpointType, CreateCheckpoint(p, c, type)
  PROVE  NamesKept /\ Names(c, p)'
<1>1. Names(c, p)'
  BY DEF StoreTypeOK, CreateCheckpoint, Names, Live, Exists, ProjectRow
<1>2. \A d \in Checkpoint, q \in Project : Names(d, q) => Names(d, q)'
  BY DEF StoreTypeOK, ProjectRow, CheckpointRow, CreateCheckpoint, Names, Live, Exists
<1>3. OwnedRows'
  BY <1>1, <1>2 DEF StoreTypeOK, ProjectRow, CheckpointRow, CreateCheckpoint, Live, Exists,
     OwnedRows
<1> QED BY <1>1, <1>2, <1>3 DEF NamesKept

LEMMA ResolveCheckpointOwned ==
  ASSUME StoreTypeOK, OwnedRows, NEW c \in Checkpoint, ResolveCheckpoint(c)
  PROVE  NamesKept
<1>1. \A d \in Checkpoint, q \in Project : Names(d, q) => Names(d, q)'
  BY DEF StoreTypeOK, ProjectRow, CheckpointRow, ResolveCheckpoint, Names, Live, Exists
<1>2. OwnedRows'
  BY <1>1 DEF StoreTypeOK, ProjectRow, CheckpointRow, ResolveCheckpoint, Live, Exists,
     OwnedRows
<1> QED BY <1>1, <1>2 DEF NamesKept

LEMMA UpdateProjectFlowStateOwned ==
  ASSUME StoreTypeOK, OwnedRows, NEW p \in Project, NEW status \in TaskStatus,
         NEW c \in Checkpoint \cup {Null}, c # Null => Names(c, p),
         UpdateProjectFlowState(p, status, c)
  PROVE  NamesKept
<1>1. \A q \in Project :
        /\ projects'[q].life = projects[q].life
        /\ projects'[q].current = IF q = p THEN c ELSE projects[q].current
  BY DEF StoreTypeOK, ProjectRow, UpdateProjectFlowState, Live
<1>2. UNCHANGED checkpoints
  BY DEF UpdateProjectFlowState
<1>3. \A d \in Checkpoint, q \in Project : Names(d, q) => Names(d, q)'
  BY <1>1, <1>2 DEF Names, Exists, Live
<1>4. OwnedRows'
  BY <1>1, <1>2 DEF StoreTypeOK, ProjectRow, OwnedRows, Exists, Names, Live
<1> QED BY <1>3, <1>4 DEF NamesKept

LEMMA RefreshOwned ==
  ASSUME StoreTypeOK, OwnedRows, NEW p \in Project, RefreshActiveProjectRequirement(p)
  PROVE  NamesKept
<1>1. \A d \in Checkpoint :
        /\ checkpoints'[d].project = checkpoints[d].project
        /\ checkpoints'[d].type = checkpoints[d].type
        /\ Exists(d)' <=> Exists(d)
        /\ checkpoints'[d].status = "free" <=> checkpoints[d].status = "free"
  BY DEF StoreTypeOK, CheckpointRow, RefreshActiveProjectRequirement, Exists
<1>2. \A q \in Project :
        /\ projects'[q].life = projects[q].life
        /\ projects'[q].current \in {Null, projects[q].current}
  BY DEF StoreTypeOK, ProjectRow, RefreshActiveProjectRequirement, Live
<1>3. \A d \in Checkpoint, q \in Project : Names(d, q) => Names(d, q)'
  BY <1>1, <1>2 DEF Names, Live
<1>4. OwnedRows'
  BY <1>1, <1>2, <1>3 DEF StoreTypeOK, ProjectRow, OwnedRows, Names, Live
<1> QED BY <1>3, <1>4 DEF NamesKept

LEMMA DeleteRowsOwned ==
  ASSUME StoreTypeOK, OwnedRows, NEW p \in Project, NEW listed, DeleteRows(p, listed)
  PROVE  NamesKept
<1>1. \A d \in Checkpoint :
        /\ checkpoints'[d].project = checkpoints[d].project
        /\ checkpoints'[d].type = checkpoints[d].type
        /\ Exists(d)' => Exists(d)
        /\ Exists(d) /\ checkpoints[d].project # p => Exists(d)'
        /\ checkpoints[d].status # "free" => checkpoints'[d].status # "free"
  BY DEF StoreTypeOK, CheckpointRow, DeleteRows, Removed, CheckpointsOf, Exists
<1>2. \A q \in Project :
        /\ projects'[q].life = IF q = p THEN "deleted" ELSE projects[q].life
        /\ projects'[q].current = projects[q].current
  BY DEF StoreTypeOK, ProjectRow, DeleteRows, Live
<1>3. \A d \in Checkpoint, q \in Project : Names(d, q) => Names(d, q)'
  BY <1>1, <1>2 DEF Names, Live
<1>4. OwnedRows'
  BY <1>1, <1>2, <1>3 DEF StoreTypeOK, ProjectRow, OwnedRows, Names, Live
<1> QED BY <1>3, <1>4 DEF NamesKept

LEMMA SessionOwned ==
  ASSUME StoreTypeOK, OwnedRows, NEW u \in User,
         \/ ResetChatSession(u)
         \/ \E p \in Project : BindActiveProject(u, p) \/ SwitchActiveProject(u, p)
  PROVE  NamesKept
<1>1. \A q \in Project :
        /\ projects'[q].life = projects[q].life
        /\ projects'[q].current = projects[q].current
  BY DEF StoreTypeOK, ProjectRow, Live, ResetChatSession, BindActiveProject,
     SwitchActiveProject
<1>2. UNCHANGED checkpoints
  BY DEF ResetChatSession, BindActiveProject, SwitchActiveProject
<1>3. \A d \in Checkpoint, q \in Project : Names(d, q) => Names(d, q)'
  BY <1>1, <1>2 DEF Names, Exists, Live
<1>4. OwnedRows'
  BY <1>1, <1>2, <1>3 DEF StoreTypeOK, ProjectRow, OwnedRows, Exists, Names, Live
<1> QED BY <1>3, <1>4 DEF NamesKept

\* A step that writes neither table.
LEMMA SameRowsOwned ==
  ASSUME OwnedRows, UNCHANGED <<projects, checkpoints>>
  PROVE  NamesKept
  BY DEF OwnedRows, NamesKept, Names, Live, Exists

-----------------------------------------------------------------------------
(* Referential integrity: the steps                                        *)

Owned == OwnedRows /\ OwnedNext

LEMMA OwnedMove ==
  ASSUME Typed, Typed', OwnedNext, NamesKept, NEW t \in Thread, NEW label, NEW r,
         label \in {"resolve", "flow"} /\ r.next # Null => Names(r.next, r.project)',
         Goto(t, label, r)
  PROVE  Owned'
<1>1. ASSUME NEW x \in Thread, NEW c \in Checkpoint, NEW p \in Project,
             pc'[x] \in {"resolve", "flow"}, req'[x].next = c, req'[x].project = p
      PROVE  Names(c, p)'
  <2>1. CASE x = t
    <3>1. c # Null
      BY NullIsNothing
    <3>2. pc'[x] = label /\ req'[x] = r
      BY <2>1 DEF Goto, Typed, ThreadsTyped
    <3> QED BY <1>1, <3>1, <3>2
  <2>2. CASE x # t
    <3>1. pc'[x] = pc[x] /\ req'[x] = req[x]
      BY <2>2 DEF Goto, Typed, ThreadsTyped
    <3>2. c # Null
      BY NullIsNothing
    <3>3. Names(c, p)
      BY <1>1, <3>1, <3>2 DEF OwnedNext
    <3> QED BY <3>3 DEF NamesKept
  <2> QED BY <2>1, <2>2
<1>2. ASSUME NEW x \in Thread, pc'[x] \in {"resolve", "flow"}, req'[x].next # Null
      PROVE  req'[x].next \in Checkpoint /\ req'[x].project \in Project
  BY <1>2 DEF Typed, ThreadsTyped, WellFormed, Request
<1>3. OwnedNext'
  BY <1>1, <1>2 DEF OwnedNext, Names, Live, Exists
<1> QED BY <1>3 DEF Owned, NamesKept

\* Most steps of a thread lead to a label with nothing to make current.
LEMMA OwnedAway ==
  ASSUME Typed, Typed', OwnedNext, NamesKept, NEW t \in Thread, NEW r,
         NEW label \in Pc \ {"resolve", "flow"}, Goto(t, label, r)
  PROVE  Owned'
  BY OwnedMove

LEMMA OwnedGiveUp ==
  ASSUME Typed, Typed', Owned, NEW t \in Thread, GiveUp(t)
  PROVE  Owned'
<1>1. NamesKept
  BY SameRowsOwned DEF Owned, GiveUp, store
<1> QED BY <1>1, OwnedAway, PcLabels DEF Owned, GiveUp, Finish

LEMMA OwnedStill ==
  ASSUME Owned, NamesKept, Typed, UNCHANGED <<pc, req>>
  PROVE  Owned'
<1>1. ASSUME NEW x \in Thread, pc[x] \in {"resolve", "flow"}, req[x].next # Null
      PROVE  req[x].next \in Checkpoint /\ req[x].project \in Project
  BY <1>1 DEF Typed, ThreadsTyped, WellFormed, Request
<1>2. OwnedNext'
  BY <1>1 DEF Owned, OwnedNext, NamesKept, Names, Live, Exists
<1> QED BY <1>2 DEF Owned, NamesKept

LEMMA OwnedArrive ==
  ASSUME Typed, Typed', Owned, NEW t \in Thread, Arrive(t)
  PROVE  Owned'
<1>1. ASSUME UNCHANGED store PROVE NamesKept
  BY <1>1, SameRowsOwned DEF Owned, store
<1>2. ASSUME NEW p \in Project, DeleteProject(t, p)
      PROVE  Owned'
  <2>1. UNCHANGED store /\ \E r : Goto(t, "delete", r)
    BY <1>2 DEF DeleteProject
  <2> QED BY <1>1, <2>1, OwnedAway, PcLabels DEF Owned
<1>3. ASSUME NEW u \in User, NEW p \in Project, ChatStartsProject(t, u, p)
      PROVE  Owned'
  <2>1. NamesKept
    BY <1>3, InsertProjectOwned DEF Typed, Owned, ChatStartsProject
  <2> QED BY <1>3, <2>1, OwnedAway, PcLabels DEF Owned, ChatStartsProject
<1>4. ASSUME NEW p \in Project,
             RunProject(t, p) \/ SubmitFeedback(t, p)
      PROVE  Owned'
  BY <1>1, <1>4, OwnedAway, PcLabels DEF Owned, RunProject, SubmitFeedback
<1>5. ASSUME NEW p \in Project, StageFollowUp(t, p)
      PROVE  Owned'
  <2>1. UNCHANGED store /\ \E r : Goto(t, "stage", r)
    BY <1>5 DEF StageFollowUp
  <2> QED BY <1>1, <2>1, OwnedAway, PcLabels DEF Owned
<1>6. ASSUME NEW p \in Project, RefreshDraft(t, p)
      PROVE  Owned'
  <2>1. UNCHANGED store /\ \E r : Goto(t, "refresh", r)
    BY <1>6 DEF RefreshDraft
  <2> QED BY <1>1, <2>1, OwnedAway, PcLabels DEF Owned
<1> QED BY <1>2, <1>3, <1>4, <1>5, <1>6 DEF Arrive

LEMMA OwnedBind ==
  ASSUME Typed, Typed', Owned, NEW t \in Thread, BindProject(t)
  PROVE  Owned'
<1>1. req[t].project \in Project
  BY AtWork DEF BindProject
<1>2. ASSUME NEW u \in User, BindActiveProject(u, req[t].project),
             Goto(t, "discovery", req[t])
      PROVE  Owned'
  <2>1. NamesKept
    BY <1>1, <1>2, SessionOwned DEF Typed, Owned
  <2> QED BY <1>2, <2>1, OwnedAway, PcLabels DEF Owned
<1> QED BY <1>2, OwnedGiveUp DEF BindProject

\* The steps that touch no row and go where nothing is about to become current.
LEMMA OwnedLocal ==
  ASSUME Typed, Typed', Owned, NEW t \in Thread,
         \/ DiscoveryReads(t) \/ DiscoveryRuns(t) \/ CheckFeedback(t) \/ ReadSnapshot(t)
         \/ SyncReads(t) \/ StageCheckpoint(t) \/ RequirementTurn(t) \/ PlanTurn(t)
         \/ PlanRevise(t) \/ ReviseStatus(t)
  PROVE  Owned'
<1>1. UNCHANGED store
  BY DEF DiscoveryReads, DiscoveryRuns, CheckFeedback, ReadSnapshot, SyncReads,
     StageCheckpoint, RequirementTurn, PlanTurn, PlanRevise, ReviseStatus,
     ApproveCurrent, GiveUp
<1>2. NamesKept
  BY <1>1, SameRowsOwned DEF Owned, store
<1>3. \/ GiveUp(t)
      \/ \E label \in {"invoke", "requirement_create", "snapshot", "dispatch",
                       "write_memory", "plan_turn", "requirement_turn", "check",
                       "turn_refresh", "plan_revise", "revise_create", "revise_resolve",
                       "sync"} :
           \E r : Goto(t, label, r)
  <2>1. CASE DiscoveryReads(t)
    BY <2>1 DEF DiscoveryReads
  <2>2. CASE DiscoveryRuns(t)
    BY <2>2 DEF DiscoveryRuns
  <2>3. CASE CheckFeedback(t)
    BY <2>3 DEF CheckFeedback
  <2>4. CASE ReadSnapshot(t)
    BY <2>4 DEF ReadSnapshot
  <2>5. CASE SyncReads(t)
    BY <2>5 DEF SyncReads
  <2>6. CASE StageCheckpoint(t)
    BY <2>6 DEF StageCheckpoint
  <2>7. CASE RequirementTurn(t)
    BY <2>7 DEF RequirementTurn, ApproveCurrent
  <2>8. CASE PlanTurn(t)
    BY <2>8 DEF PlanTurn, ApproveCurrent
  <2>9. CASE PlanRevise(t)
    BY <2>9 DEF PlanRevise
  <2>10. CASE ReviseStatus(t)
    BY <2>10 DEF ReviseStatus
  <2> QED BY <2>1, <2>2, <2>3, <2>4, <2>5, <2>6, <2>7, <2>8, <2>9, <2>10
<1>4. ASSUME NEW label \in {"invoke", "requirement_create", "snapshot", "dispatch",
                       "write_memory", "plan_turn", "requirement_turn", "check",
                       "turn_refresh", "plan_revise", "revise_create", "revise_resolve",
                       "sync"},
             NEW r, Goto(t, label, r)
      PROVE  Owned'
  <2>1. label \in Pc \ {"resolve", "flow"}
    BY PcLabels
  <2> QED BY <1>2, <1>4, <2>1, OwnedAway DEF Owned
<1> QED BY <1>3, <1>4, OwnedGiveUp

\* The handlers leave the rows alone, and have no checkpoint made yet.
LEMMA OwnedHandlers ==
  ASSUME Typed, Typed', Owned, NEW t \in Thread, Dispatch(t) \/ RunTests(t) \/ Debug(t)
  PROVE  Owned'
<1>1. UNCHANGED <<projects, checkpoints>>
  BY DEF Dispatch, RunTests, Debug, Handle, RequirementFeedback, PlanFeedback, CodeFeedback,
     FinalFeedback, GiveUp, store, PersistCodeFiles
<1>2. NamesKept
  BY <1>1, SameRowsOwned DEF Owned
<1>3. \/ GiveUp(t) \/ Finish(t)
      \/ Goto(t, "debug", req[t]) \/ Goto(t, "test", req[t])
      \/ \E label \in {"test", "create", "resolve"} : \E s : Outcome(t, label, s)
  <2>1. CASE Dispatch(t)
    BY <2>1 DEF Dispatch, Handle, RequirementFeedback, PlanFeedback, CodeFeedback,
       FinalFeedback
  <2>2. CASE RunTests(t)
    BY <2>2 DEF RunTests
  <2>3. CASE Debug(t)
    BY <2>3 DEF Debug
  <2> QED BY <2>1, <2>2, <2>3
<1>4. ASSUME NEW label \in {"test", "create", "resolve"}, NEW s, Outcome(t, label, s)
      PROVE  Owned'
  <2> DEFINE r == [NoRequest EXCEPT
                     !.project = req[t].project, !.cp = req[t].cp, !.outcome = s]
  <2>1. r.next = Null
    BY DEF NoRequest
  <2>2. Goto(t, label, r)
    BY <1>4 DEF Outcome
  <2> QED BY <1>2, <2>1, <2>2, OwnedMove DEF Owned
<1> QED BY <1>2, <1>3, <1>4, OwnedAway, OwnedGiveUp, PcLabels DEF Owned, Finish

LEMMA OwnedCreate ==
  ASSUME Typed, Typed', Owned, NEW t \in Thread, NEW p \in Project, NEW c \in Checkpoint,
         NEW type \in CheckpointType, CreateCheckpoint(p, c, type),
         NEW label, NEW n, n.next \in {Null, c}, n.project = p, Goto(t, label, n)
  PROVE  Owned'
<1>1. NamesKept /\ Names(c, p)'
  BY CreateCheckpointOwned DEF Typed, Owned
<1>2. n.next # Null => Names(n.next, n.project)'
  BY <1>1
<1> QED BY <1>1, <1>2, OwnedMove DEF Owned

LEMMA OwnedCheckpointSteps ==
  ASSUME Typed, Typed', Owned, NEW t \in Thread,
         \/ RequirementCheckpoint(t) \/ NextCheckpoint(t) \/ ResolveAnswered(t)
         \/ FlowState(t) \/ ReviseResolve(t) \/ ReviseCreate(t)
  PROVE  Owned'
<1> DEFINE r == req[t]
           p == r.project
<1>1. r \in Request /\ p \in Project /\ StoreTypeOK
  BY AtWork DEF Typed, ThreadsTyped, RequirementCheckpoint, NextCheckpoint,
     ResolveAnswered, FlowState, ReviseResolve, ReviseCreate
<1>2. CASE GiveUp(t)
  BY <1>2, OwnedGiveUp
<1>3. CASE RequirementCheckpoint(t)
  <2>1. SUFFICES ASSUME NEW c \in Checkpoint, CreateCheckpoint(p, c, "requirement_review"),
                   Goto(t, "flow", [r EXCEPT !.next = c, !.outcome = "WAIT_HUMAN_REQUIREMENT"])
                 PROVE  Owned'
    BY <1>2, <1>3 DEF RequirementCheckpoint
  <2> DEFINE n == [r EXCEPT !.next = c, !.outcome = "WAIT_HUMAN_REQUIREMENT"]
  <2>2. n.next = c /\ n.project = p
    BY <1>1 DEF Request
  <2>3. "requirement_review" \in CheckpointType
    BY DEF CheckpointType
  <2>4. Goto(t, "flow", n)
    BY <2>1
  <2> HIDE DEF n
  <2> QED BY <1>1, <2>1, <2>2, <2>3, <2>4, OwnedCreate
<1>4. CASE NextCheckpoint(t)
  <2>1. SUFFICES ASSUME NEW c \in Checkpoint, NEW type \in CheckpointType,
                   CreateCheckpoint(p, c, type), Goto(t, "resolve", [r EXCEPT !.next = c])
                 PROVE  Owned'
    BY <1>2, <1>4 DEF NextCheckpoint
  <2> DEFINE n == [r EXCEPT !.next = c]
  <2>2. n.next = c /\ n.project = p
    BY <1>1 DEF Request
  <2>3. Goto(t, "resolve", n)
    BY <2>1
  <2> HIDE DEF n
  <2> QED BY <1>1, <2>1, <2>2, <2>3, OwnedCreate
<1>5. CASE ReviseCreate(t)
  <2>1. SUFFICES ASSUME NEW c \in Checkpoint, CreateCheckpoint(p, c, "plan_review"),
                   Goto(t, "revise_status", [NoRequest EXCEPT !.project = p])
                 PROVE  Owned'
    BY <1>2, <1>5 DEF ReviseCreate
  <2> DEFINE n == [NoRequest EXCEPT !.project = p]
  <2>2. n.next = Null /\ n.project = p
    BY DEF NoRequest
  <2>3. "plan_review" \in CheckpointType
    BY DEF CheckpointType
  <2>4. Goto(t, "revise_status", n)
    BY <2>1
  <2> HIDE DEF n
  <2> QED BY <1>1, <2>1, <2>2, <2>3, <2>4, OwnedCreate
<1>6. CASE ResolveAnswered(t)
  <2>1. SUFFICES ASSUME ResolveCheckpoint(r.cp), Goto(t, "flow", [r EXCEPT !.cp = Null])
                 PROVE  Owned'
    BY <1>2, <1>6 DEF ResolveAnswered
  <2> DEFINE n == [r EXCEPT !.cp = Null]
  <2>2. NamesKept
    <3>1. r.cp \in Checkpoint
      BY <1>6 DEF ResolveAnswered, Typed, ThreadsTyped, WellFormed
    <3> QED BY <1>1, <2>1, <3>1, ResolveCheckpointOwned DEF Owned
  <2>3. n.next = r.next /\ n.project = p
    BY <1>1 DEF Request
  <2>4. ASSUME NEW c \in Checkpoint, NEW q \in Project, r.next = c, p = q PROVE Names(c, q)'
    <3>1. Names(c, q)
      BY <1>6, <2>4, NullIsNothing DEF ResolveAnswered, Owned, OwnedNext
    <3> QED BY <2>2, <3>1 DEF NamesKept
  <2>5. ASSUME NEW x \in Checkpoint \cup {Null}, NEW q \in Project, r.next = x, p = q
        PROVE  Owned'
    <3>1. x # Null => Names(x, q)'
      BY <2>4, <2>5
    <3> QED BY <2>1, <2>2, <2>3, <2>5, <3>1, OwnedMove DEF Owned
  <2> QED BY <1>1, <2>5 DEF Request
<1>7. CASE FlowState(t)
  <2>1. SUFFICES ASSUME UpdateProjectFlowState(p, r.outcome, r.next),
                        Goto(t, "sync", [r EXCEPT !.next = Null])
                 PROVE  Owned'
    BY <1>2, <1>7 DEF FlowState
  <2>2. r.outcome \in TaskStatus /\ r.next \in Checkpoint \cup {Null}
    BY <1>1, <1>7 DEF FlowState, Typed, ThreadsTyped, WellFormed, FlowPc, Request
  <2>3. r.next # Null => Names(r.next, p)
    BY <1>7 DEF FlowState, Owned, OwnedNext
  <2>4. NamesKept
    BY <1>1, <2>1, <2>2, <2>3, UpdateProjectFlowStateOwned DEF Owned
  <2> QED BY <2>1, <2>4, OwnedAway, PcLabels DEF Owned
<1>8. CASE ReviseResolve(t)
  <2>1. SUFFICES ASSUME ResolveCheckpoint(r.cp), Goto(t, "revise_create", r)
                 PROVE  Owned'
    BY <1>2, <1>8 DEF ReviseResolve
  <2>2. NamesKept
    <3>1. r.cp \in Checkpoint
      BY <1>8 DEF ReviseResolve, Typed, ThreadsTyped, WellFormed
    <3> QED BY <1>1, <2>1, <3>1, ResolveCheckpointOwned DEF Owned
  <2> QED BY <2>1, <2>2, OwnedAway, PcLabels DEF Owned
<1> QED BY <1>3, <1>4, <1>5, <1>6, <1>7, <1>8

LEMMA OwnedOtherSteps ==
  ASSUME Typed, Typed', Owned, NEW t \in Thread,
         \/ TurnRefresh(t) \/ Refresh(t) \/ DeleteListed(t) \/ RemoveTree(t)
         \/ SyncWrites(t)
  PROVE  Owned'
<1>1. req[t].project \in Project /\ StoreTypeOK
  BY AtWork DEF Typed, TurnRefresh, Refresh, DeleteListed, RemoveTree, SyncWrites
<1>2. CASE GiveUp(t)
  BY <1>2, OwnedGiveUp
<1>3. CASE RefreshActiveProjectRequirement(req[t].project)
  <2>1. NamesKept
    BY <1>1, <1>3, RefreshOwned DEF Owned
  <2> QED BY <1>2, <2>1, OwnedAway, PcLabels
          DEF Owned, TurnRefresh, Refresh, DeleteListed, RemoveTree, SyncWrites, Finish
<1>4. CASE RemoveTree(t) \/ SyncWrites(t)
  <2>1. NamesKept
    BY <1>4, SameRowsOwned DEF Owned, RemoveTree, SyncWrites, RemoveProjectRoot,
       WriteProjectMemory
  <2> QED BY <1>4, <2>1, OwnedAway, PcLabels DEF Owned, RemoveTree, SyncWrites, Finish
<1>5. CASE DeleteListed(t)
  <2>1. NamesKept
    BY <1>1, <1>5, DeleteRowsOwned DEF Owned, DeleteListed
  <2> QED BY <1>5, <2>1, OwnedAway, PcLabels DEF Owned, DeleteListed
<1> QED BY <1>2, <1>3, <1>4, <1>5 DEF TurnRefresh, Refresh

LEMMA OwnedStep == Typed /\ Owned /\ [Next]_vars => Owned'
<1> SUFFICES ASSUME Typed, Owned, [Next]_vars PROVE Owned'
  OBVIOUS
<1> USE TypedStep
<1>1. ASSUME NEW p \in Project, CreateProject(p) PROVE Owned'
  BY <1>1, InsertProjectOwned, OwnedStill DEF Typed, Owned, CreateProject
<1>2. ASSUME NEW u \in User, SessionCommand(u) PROVE Owned'
  BY <1>2, SessionOwned, OwnedStill DEF Typed, Owned, SessionCommand
<1>3. ASSUME NEW t \in Thread, Arrive(t) PROVE Owned'
  BY <1>3, OwnedArrive
<1>4. ASSUME NEW t \in Thread, Proceed(t) PROVE Owned'
  BY <1>4, OwnedBind, OwnedLocal, OwnedHandlers, OwnedCheckpointSteps, OwnedOtherSteps DEF Proceed
<1>5. ASSUME NEW t \in Thread, RunTests(t) PROVE Owned'
  BY <1>5, OwnedHandlers
<1>6. CASE Restart
  <2>1. NamesKept
    BY <1>6, SameRowsOwned DEF Owned, Restart, store
  <2> QED BY <1>6, <2>1 DEF Restart, Owned, OwnedNext, NamesKept
<1>7. CASE UNCHANGED vars
  BY <1>7, SameRowsOwned, OwnedStill DEF Owned, vars, store
<1> QED BY <1>1, <1>2, <1>3, <1>4, <1>5, <1>6, <1>7 DEF Next

LEMMA InitOwned == Init => Owned
  BY DEF Init, StoreInit, Owned, OwnedRows, OwnedNext, Exists

\* Whatever requests, deletes and restarts interleave, call by call, the current
\* checkpoint that workspace/manager.py keeps for a project is a row of that
\* project, though deletes go by a list of checkpoints that may have grown since.
THEOREM ReferentialIntegrityHolds == Spec => []ReferentialIntegrity
<1>1. Typed /\ Owned => ReferentialIntegrity
  BY NullIsNothing DEF Owned, OwnedRows, Names, ReferentialIntegrity, CheckpointsOf, Typed,
     StoreTypeOK, ProjectRow
<1>2. Init => Typed /\ Owned
  BY InitTyped, InitOwned
<1>3. Typed /\ Owned /\ [Next]_vars => (Typed /\ Owned)'
  BY TypedStep, OwnedStep
<1> QED BY <1>1, <1>2, <1>3, PTL DEF Spec

=============================================================================
