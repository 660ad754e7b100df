-------------------------- MODULE WorkflowGateProofs -------------------------
(***************************************************************************)
(* No gate is skipped and memory.md is truthful in WorkflowService.  The   *)
(* invariant adds what each graph state accounts for (Earned) and what each*)
(* request has made sure of at its label (Entitled); a human answer, once  *)
(* recorded, is never taken back, so both only grow.                       *)
(*                                                                         *)
(* The service so implements ApprovalGates: a step opens one gate of one   *)
(* project, passes one, finishes, reopens or withdraws one project, or     *)
(* changes nothing the abstract specification sees.  The versions of       *)
(* projects, and the invariant that is inductive all in all, come last.    *)
(***************************************************************************)
EXTENDS WorkflowRowProofs

-----------------------------------------------------------------------------
(* Gates in order: what is passed stays passed, and so does what follows   *)

LEMMA PassedGrows ==
  ASSUME NEW h1, NEW h2, NEW p, h1[p] \subseteq h2[p]
  PROVE  PassedIn(h1, p) \subseteq PassedIn(h2, p) /\ PassedIn(h2, p) \subseteq CheckpointType
  BY DEF PassedIn

LEMMA EarnedGrows ==
  ASSUME NEW g, NEW S, NEW T, S \subseteq T, Earned(g, S)
  PROVE  Earned(g, T)
  BY DEF Earned

LEMMA EntitledGrows ==
  ASSUME NEW label, NEW r, NEW S, NEW T, S \subseteq T, T \subseteq CheckpointType,
         Entitled(label, r, S)
  PROVE  Entitled(label, r, T)
  BY EarnedGrows DEF Entitled

\* A step of t that leaves it behind gates that have been passed.
LEMMA WorkingMove ==
  ASSUME Typed, Working, NEW t \in Thread, NEW label, NEW r,
         \A p \in Project : answers[p] \subseteq answers'[p],
         label # "idle" => Entitled(label, r, PassedIn(answers', r.project)),
         Goto(t, label, r)
  PROVE  Working'
<1>1. ASSUME NEW x \in Thread, pc'[x] # "idle"
      PROVE  Entitled(pc'[x], req'[x], PassedIn(answers', req'[x].project))
  <2>1. CASE x = t
    BY <1>1, <2>1 DEF Goto, Typed, ThreadsTyped
  <2>2. CASE x # t
    <3>1. pc'[x] = pc[x] /\ req'[x] = req[x]
      BY <2>2 DEF Goto, Typed, ThreadsTyped
    <3>2. req[x].project \in Project
      BY <1>1, <3>1 DEF Typed, ThreadsTyped, WellFormed
    <3>3. Entitled(pc[x], req[x], PassedIn(answers, req[x].project))
      BY <1>1, <3>1 DEF Working, Passed
    <3>4. Entitled(pc[x], req[x], PassedIn(answers', req[x].project))
      BY <3>2, <3>3, EntitledGrows, PassedGrows
    <3> QED BY <3>1, <3>4
  <2> QED BY <2>1, <2>2
<1> QED BY <1>1 DEF Working, Passed

\* At these labels a request claims nothing.
LEMMA NoClaim ==
  ASSUME NEW r, NEW S,
         NEW label \in {"idle", "discovery", "requirement_create", "check", "stage",
                        "refresh", "delete", "rmtree", "turn_refresh", "requirement_turn",
                        "revise_status", "bind"}
  PROVE  Entitled(label, r, S)
  BY DEF Entitled, CodingPc, FlowPc

LEMMA WorkingNoClaim ==
  ASSUME Typed, Working, UNCHANGED answers, NEW t \in Thread, NEW r,
         NEW label \in {"idle", "discovery", "requirement_create", "check", "stage",
                        "refresh", "delete", "rmtree", "turn_refresh", "requirement_turn",
                        "revise_status", "bind"},
         Goto(t, label, r)
  PROVE  Working'
<1>1. Entitled(label, r, PassedIn(answers', r.project))
  BY NoClaim
<1> QED BY <1>1, WorkingMove

\* Rows, memory and graph states of a step no human answer belongs to.
LEMMA StandingRows ==
  ASSUME Standing, UNCHANGED <<graph, answers>>,
         \A c \in Checkpoint : Exists(c)' =>
           \/ /\ Exists(c)
              /\ checkpoints'[c].type = checkpoints[c].type
              /\ checkpoints'[c].project = checkpoints[c].project
           \/ Before[checkpoints'[c].type] \subseteq PassedIn(answers, checkpoints'[c].project),
         \A p \in Project : projects'[p].life = "live" /\ projects'[p].status = "DONE" =>
           \/ projects[p].life = "live" /\ projects[p].status = "DONE"
           \/ PassedIn(answers, p) = CheckpointType,
         \A p \in Project : disk'[p].decisions \subseteq PassedIn(answers, p)
  PROVE  Standing'
<1>1. GatesInOrder'
  BY DEF Standing, GatesInOrder, Passed, Live
<1>2. MemoryTruthful'
  BY DEF MemoryTruthful, Passed
<1>3. \A p \in Project : Earned(graph'[p], PassedIn(answers', p))
  BY DEF Standing, Passed
<1> QED BY <1>1, <1>2, <1>3 DEF Standing, Passed

\* A step that acts on an answer, or that writes a graph state.
LEMMA StandingGrows ==
  ASSUME Owned, Standing, UNCHANGED <<projects, checkpoints>>,
         \A p \in Project : answers[p] \subseteq answers'[p],
         \A p \in Project : disk'[p].decisions = disk[p].decisions,
         \A p \in Project : Earned(graph'[p], PassedIn(answers', p))
  PROVE  Standing'
<1>1. \A p \in Project :
        /\ PassedIn(answers, p) \subseteq PassedIn(answers', p)
        /\ PassedIn(answers', p) \subseteq CheckpointType
  BY PassedGrows
<1>2. \A c \in Checkpoint : Exists(c) =>
        Before[checkpoints[c].type] \subseteq PassedIn(answers', checkpoints[c].project)
  BY <1>1 DEF Standing, GatesInOrder, Passed, Owned, OwnedRows
<1>3. \A p \in Project : Live(p) /\ projects[p].status = "DONE" =>
        PassedIn(answers', p) = CheckpointType
  BY <1>1 DEF Standing, GatesInOrder, Passed
<1>4. GatesInOrder'
  BY <1>2, <1>3 DEF GatesInOrder, Passed, Live, Exists
<1>5. MemoryTruthful'
  BY <1>1 DEF Standing, MemoryTruthful, Passed
<1> QED BY <1>4, <1>5 DEF Standing, Passed

LEMMA StandingSame ==
  ASSUME Standing, UNCHANGED <<store, graph, answers>>
  PROVE  Standing'
<1>1. UNCHANGED <<projects, checkpoints, disk>>
  BY DEF store
<1>2. \A p \in Project : disk'[p].decisions \subseteq PassedIn(answers, p)
  BY <1>1 DEF Standing, MemoryTruthful, Passed
<1> QED BY <1>1, <1>2, StandingRows DEF Exists

\* The methods that make no checkpoint and finish no project.
LEMMA StandingMethods ==
  ASSUME StoreTypeOK, Standing, UNCHANGED <<graph, answers>>, NEW p \in Project,
         \/ \E o \in User \cup {Null} : InsertProject(p, o)
         \/ \E c \in Checkpoint : ResolveCheckpoint(c)
         \/ RefreshActiveProjectRequirement(p)
         \/ \E listed : DeleteRows(p, listed)
         \/ RemoveProjectRoot(p)
         \/ PersistCodeFiles(p)
         \/ \E u \in User : BindActiveProject(u, p) \/ SwitchActiveProject(u, p)
  PROVE  Standing'
<1>1. \A c \in Checkpoint : Exists(c)' =>
        /\ Exists(c)
        /\ checkpoints'[c].type = checkpoints[c].type
        /\ checkpoints'[c].project = checkpoints[c].project
  BY DEF StoreTypeOK, CheckpointRow, Exists, InsertProject, ResolveCheckpoint,
     RefreshActiveProjectRequirement, DeleteRows, Removed, RemoveProjectRoot, PersistCodeFiles,
     BindActiveProject, SwitchActiveProject
<1>2. \A q \in Project : projects'[q].life = "live" /\ projects'[q].status = "DONE" =>
        projects[q].life = "live" /\ projects[q].status = "DONE"
  BY DEF StoreTypeOK, ProjectRow, InsertProject, ResolveCheckpoint,
     RefreshActiveProjectRequirement, DeleteRows, RemoveProjectRoot, PersistCodeFiles,
     BindActiveProject, SwitchActiveProject
<1>3. \A q \in Project : disk'[q].decisions \subseteq disk[q].decisions
  BY DEF StoreTypeOK, Directory, InsertProject, ResolveCheckpoint,
     RefreshActiveProjectRequirement, DeleteRows, RemoveProjectRoot, PersistCodeFiles,
     BindActiveProject, SwitchActiveProject, NoDirectory
<1>4. \A q \in Project : disk'[q].decisions \subseteq PassedIn(answers, q)
  BY <1>3 DEF Standing, MemoryTruthful, Passed
<1> QED BY <1>1, <1>2, <1>4, StandingRows

LEMMA StandingCreate ==
  ASSUME StoreTypeOK, Standing, UNCHANGED <<graph, answers>>, NEW p \in Project,
         NEW c \in Checkpoint, NEW type \in CheckpointType,
         CreateCheckpoint(p, c, type), Before[type] \subseteq PassedIn(answers, p)
  PROVE  Standing'
<1>1. \A d \in Checkpoint : Exists(d)' =>
        \/ /\ Exists(d)
           /\ checkpoints'[d].type = checkpoints[d].type
           /\ checkpoints'[d].project = checkpoints[d].project
        \/ checkpoints'[d].type = type /\ checkpoints'[d].project = p
  BY DEF StoreTypeOK, CheckpointRow, Exists, CreateCheckpoint
<1>2. \A q \in Project :
        /\ projects'[q].life = projects[q].life
        /\ projects'[q].status = projects[q].status
  BY DEF StoreTypeOK, ProjectRow, CreateCheckpoint
<1>3. \A q \in Project : disk'[q].decisions \subseteq PassedIn(answers, q)
  BY DEF CreateCheckpoint, Standing, MemoryTruthful, Passed
<1> QED BY <1>1, <1>2, <1>3, StandingRows

LEMMA StandingFlow ==
  ASSUME StoreTypeOK, Standing, UNCHANGED <<graph, answers>>, NEW p \in Project,
         NEW status \in TaskStatus, NEW c \in Checkpoint \cup {Null},
         UpdateProjectFlowState(p, status, c),
         status = "DONE" => PassedIn(answers, p) = CheckpointType
  PROVE  Standing'
<1>1. UNCHANGED <<checkpoints, disk>>
  BY DEF UpdateProjectFlowState
<1>2. \A q \in Project :
        /\ projects'[q].life = projects[q].life
        /\ projects'[q].status = IF q = p THEN status ELSE projects[q].status
  BY DEF StoreTypeOK, ProjectRow, UpdateProjectFlowState
<1>3. \A q \in Project : disk'[q].decisions \subseteq PassedIn(answers, q)
  BY <1>1 DEF Standing, MemoryTruthful, Passed
<1> QED BY <1>1, <1>2, <1>3, StandingRows DEF Exists

-----------------------------------------------------------------------------
(* Gates in order: the steps                                               *)

Behind == Standing /\ Working

LEMMA BehindGiveUp ==
  ASSUME Typed, Behind, NEW t \in Thread, GiveUp(t)
  PROVE  Behind'
  BY StandingSame, WorkingNoClaim DEF Behind, GiveUp, Finish

LEMMA BehindArrive ==
  ASSUME Typed, Behind, NEW t \in Thread, Arrive(t)
  PROVE  Behind'
<1>1. ASSUME UNCHANGED <<store, graph, answers>>,
             NEW label \in {"discovery", "check", "stage", "refresh", "delete"}, NEW r,
             Goto(t, label, r)
      PROVE  Behind'
  BY <1>1, StandingSame, WorkingNoClaim DEF Behind
<1>2. ASSUME NEW p \in Project, RunProject(t, p) PROVE Behind'
  BY <1>1, <1>2 DEF RunProject
<1>3. ASSUME NEW p \in Project, SubmitFeedback(t, p) PROVE Behind'
  BY <1>1, <1>3 DEF SubmitFeedback
<1>4. ASSUME NEW p \in Project, DeleteProject(t, p) PROVE Behind'
  <2>1. UNCHANGED <<store, graph, answers>> /\ \E r : Goto(t, "delete", r)
    BY <1>4 DEF DeleteProject
  <2> QED BY <1>1, <2>1
<1>5. ASSUME NEW p \in Project, StageFollowUp(t, p) PROVE Behind'
  <2>1. UNCHANGED <<store, graph, answers>> /\ \E r : Goto(t, "stage", r)
    BY <1>5 DEF StageFollowUp
  <2> QED BY <1>1, <2>1
<1>6. ASSUME NEW p \in Project, RefreshDraft(t, p) PROVE Behind'
  <2>1. UNCHANGED <<store, graph, answers>> /\ \E r : Goto(t, "refresh", r)
    BY <1>6 DEF RefreshDraft
  <2> QED BY <1>1, <2>1
<1>7. ASSUME NEW u \in User, NEW p \in Project, ChatStartsProject(t, u, p) PROVE Behind'
  <2>1. Standing'
    BY <1>7, StandingMethods DEF Typed, Behind, ChatStartsProject
  <2>2. Working'
    BY <1>7, WorkingNoClaim DEF Behind, ChatStartsProject
  <2> QED BY <2>1, <2>2 DEF Behind
<1> QED BY <1>2, <1>3, <1>4, <1>5, <1>6, <1>7 DEF Arrive

\* What a request claims at its label, as Working has it.
LEMMA Claim ==
  ASSUME Typed, Working, NEW t \in Thread, pc[t] # "idle"
  PROVE  /\ req[t] \in Request
         /\ req[t].project \in Project
         /\ Entitled(pc[t], req[t], PassedIn(answers, req[t].project))
  BY AtWork DEF Typed, ThreadsTyped, Working, Passed

LEMMA BehindBindProject ==
  ASSUME Typed, Behind, NEW t \in Thread, BindProject(t)
  PROVE  Behind'
<1>1. req[t].project \in Project
  BY Claim DEF BindProject, Behind
<1>2. CASE GiveUp(t)
  BY <1>2, BehindGiveUp
<1>3. ASSUME NEW u \in User, BindActiveProject(u, req[t].project),
             Goto(t, "discovery", req[t]), UNCHANGED <<graph, answers>>
      PROVE  Behind'
  <2>1. Standing'
    BY <1>1, <1>3, StandingMethods DEF Typed, Behind
  <2>2. Working'
    BY <1>3, WorkingNoClaim DEF Behind
  <2> QED BY <2>1, <2>2 DEF Behind
<1> QED BY <1>2, <1>3 DEF BindProject

LEMMA BehindDiscoveryReads ==
  ASSUME Typed, Behind, NEW t \in Thread, DiscoveryReads(t)
  PROVE  Behind'
<1> DEFINE p == req[t].project
           n == [req[t] EXCEPT !.snap = graph[p]]
<1>1. req[t] \in Request /\ p \in Project
  BY Claim DEF DiscoveryReads, Behind
<1>2. CASE GiveUp(t)
  BY <1>2, BehindGiveUp
<1>3. CASE Goto(t, "invoke", n) /\ UNCHANGED <<store, graph, answers>>
  <2>1. n.snap = graph[p] /\ n.project = p
    BY <1>1 DEF Request
  <2>2. Earned(graph[p], PassedIn(answers, p))
    BY <1>1 DEF Behind, Standing, Passed
  <2>3. Entitled("invoke", n, PassedIn(answers, p))
    BY <2>1, <2>2 DEF Entitled, CodingPc, FlowPc
  <2>4. Goto(t, "invoke", n)
    BY <1>3
  <2> HIDE DEF n
  <2>5. Working'
    BY <1>3, <2>1, <2>3, <2>4, WorkingMove DEF Behind
  <2> QED BY <1>3, <2>5, StandingSame DEF Behind
<1> QED BY <1>2, <1>3 DEF DiscoveryReads

LEMMA BehindDiscoveryRuns ==
  ASSUME Typed, Owned, Behind, NEW t \in Thread, DiscoveryRuns(t)
  PROVE  Behind'
<1> DEFINE p == req[t].project
           g == [req[t].snap EXCEPT !.spec = TRUE, !.plan = "none"]
<1>1. /\ req[t] \in Request /\ p \in Project
      /\ Earned(req[t].snap, PassedIn(answers, p))
  BY Claim DEF DiscoveryRuns, Behind, Entitled
<1>2. CASE GiveUp(t)
  BY <1>2, BehindGiveUp
<1>3. CASE /\ graph' = [graph EXCEPT ![p] = g]
           /\ Goto(t, "requirement_create", [NoRequest EXCEPT !.project = p])
           /\ UNCHANGED <<store, answers>>
  <2>1. g.plan = "none" /\ g.code = req[t].snap.code /\ g.review = req[t].snap.review
    BY <1>1 DEF Request, GraphState
  <2>2. Earned(g, PassedIn(answers, p))
    BY <1>1, <2>1 DEF Earned
  <2>3. \A q \in Project : Earned(graph'[q], PassedIn(answers, q))
    BY <1>1, <1>3, <2>2 DEF Typed, Behind, Standing, Passed
  <2>4. Standing'
    BY <1>3, <2>3, StandingGrows DEF Behind, store
  <2>5. Working'
    BY <1>3, WorkingNoClaim DEF Behind
  <2> QED BY <2>4, <2>5 DEF Behind
<1> QED BY <1>2, <1>3 DEF DiscoveryRuns

LEMMA BehindRequirementCheckpoint ==
  ASSUME Typed, Behind, NEW t \in Thread, RequirementCheckpoint(t)
  PROVE  Behind'
<1> DEFINE p == req[t].project
<1>1. req[t] \in Request /\ p \in Project
  BY Claim DEF RequirementCheckpoint, Behind
<1>2. CASE GiveUp(t)
  BY <1>2, BehindGiveUp
<1>3. ASSUME NEW c \in Checkpoint, CreateCheckpoint(p, c, "requirement_review"),
             Goto(t, "flow", [req[t] EXCEPT
                !.next = c, !.outcome = "WAIT_HUMAN_REQUIREMENT"]),
             UNCHANGED <<graph, answers>>
      PROVE  Behind'
  <2> DEFINE n == [req[t] EXCEPT !.next = c, !.outcome = "WAIT_HUMAN_REQUIREMENT"]
  <2>1. /\ "requirement_review" \in CheckpointType
        /\ Before["requirement_review"] \subseteq PassedIn(answers, p)
    BY DEF CheckpointType, Before
  <2>2. Standing'
    BY <1>1, <1>3, <2>1, StandingCreate DEF Typed, Behind
  <2>3. n.outcome = "WAIT_HUMAN_REQUIREMENT"
    BY <1>1 DEF Request
  <2>4. Goto(t, "flow", n)
    BY <1>3
  <2> HIDE DEF n
  <2>5. Entitled("flow", n, PassedIn(answers', n.project))
    BY <2>3 DEF Entitled, CodingPc, FlowPc
  <2>6. Working'
    BY <1>3, <2>4, <2>5, WorkingMove DEF Behind
  <2> QED BY <2>2, <2>6 DEF Behind
<1> QED BY <1>2, <1>3 DEF RequirementCheckpoint

LEMMA BehindCheckFeedback ==
  ASSUME Typed, Owned, Behind, NEW t \in Thread, CheckFeedback(t)
  PROVE  Behind'
<1> DEFINE r == req[t]
           p == r.project
<1>1. r \in Request /\ p \in Project
  BY Claim DEF CheckFeedback, Behind
<1>2. CASE GiveUp(t)
  BY <1>2, BehindGiveUp
<1>3. ASSUME NEW c \in Checkpoint, NEW type \in CheckpointType,
             FeedbackMatches(p, r.version, c, type),
             Goto(t, "snapshot", [r EXCEPT
               !.cp = c, !.type = type, !.version = 0, !.shown = NoRequest.shown]),
             UNCHANGED <<store, graph, answers>>
      PROVE  Behind'
  <2> DEFINE n == [r EXCEPT
               !.cp = c, !.type = type, !.version = 0, !.shown = NoRequest.shown]
  <2>1. Exists(c) /\ checkpoints[c].type = type /\ checkpoints[c].project = p
    BY <1>1, <1>3, NullIsNothing DEF FeedbackMatches, Exists, Owned, OwnedRows, Names
  <2>2. Before[type] \subseteq PassedIn(answers, p)
    BY <2>1 DEF Behind, Standing, GatesInOrder, Passed
  <2>3. n.type = type /\ n.project = p
    BY <1>1 DEF Request
  <2>4. Goto(t, "snapshot", n)
    BY <1>3
  <2> HIDE DEF n
  <2>5. Entitled("snapshot", n, PassedIn(answers, p))
    BY <2>2, <2>3 DEF Entitled, CodingPc, FlowPc
  <2>6. Working'
    BY <1>3, <2>3, <2>4, <2>5, WorkingMove DEF Behind
  <2> QED BY <1>3, <2>6, StandingSame DEF Behind
<1> QED BY <1>2, <1>3 DEF CheckFeedback

LEMMA BehindReadSnapshot ==
  ASSUME Typed, Behind, NEW t \in Thread, ReadSnapshot(t)
  PROVE  Behind'
<1> DEFINE r == req[t]
           p == r.project
           n == [r EXCEPT !.snap = graph[p]]
<1>1. /\ r \in Request /\ p \in Project
      /\ Before[r.type] \subseteq PassedIn(answers, p)
  BY Claim DEF ReadSnapshot, Behind, Entitled
<1>2. n.type = r.type /\ n.project = p
  BY <1>1 DEF Request
<1>3. Goto(t, "dispatch", n) /\ UNCHANGED <<store, graph, answers>>
  BY DEF ReadSnapshot
<1> HIDE DEF n
<1>4. Entitled("dispatch", n, PassedIn(answers, p))
  BY <1>1, <1>2 DEF Entitled, CodingPc, FlowPc
<1>5. Working'
  BY <1>2, <1>3, <1>4, WorkingMove DEF Behind
<1> QED BY <1>3, <1>5, StandingSame DEF Behind

\* After an answer was recorded, what the gates in front of it and the gate
\* itself have let through.
LEMMA Recorded ==
  ASSUME Typed, NEW t \in Thread, req[t].project \in Project,
         req[t].type \in CheckpointType, NEW action \in Action, Record(req[t], action)
  PROVE  /\ \A p \in Project : answers[p] \subseteq answers'[p]
         /\ \A p \in Project : PassedIn(answers, p) \subseteq PassedIn(answers', p)
         /\ action \in PassingAction[req[t].type] =>
              req[t].type \in PassedIn(answers', req[t].project)
<1>1. \A p \in Project : answers[p] \subseteq answers'[p]
  BY DEF Typed, Record
<1>2. ASSUME action \in PassingAction[req[t].type]
      PROVE  <<req[t].type, action>> \in answers'[req[t].project]
  BY <1>2 DEF Typed, Record
<1> QED BY <1>1, <1>2, PassedGrows DEF PassedIn

LEMMA BehindOutcome ==
  ASSUME Typed, Working, NEW t \in Thread, NEW label, NEW status,
         req[t].project \in Project,
         \A p \in Project : answers[p] \subseteq answers'[p],
         Entitled(label, [NoRequest EXCEPT !.outcome = status],
                  PassedIn(answers', req[t].project)),
         label \in {"test", "create", "resolve"},
         Outcome(t, label, status)
  PROVE  Working'
<1> DEFINE p == req[t].project
           n == [NoRequest EXCEPT !.project = p, !.cp = req[t].cp, !.outcome = status]
           m == [NoRequest EXCEPT !.outcome = status]
<1>1. n.outcome = status /\ n.project = p /\ m.outcome = status
  BY DEF NoRequest
<1>2. Goto(t, label, n) /\ Entitled(label, m, PassedIn(answers', p))
  BY DEF Outcome
<1> HIDE DEF n, m
<1>3. Entitled(label, n, PassedIn(answers', n.project))
  BY <1>1, <1>2 DEF Entitled, CodingPc, FlowPc
<1> QED BY <1>2, <1>3, WorkingMove

\* What the rest of apply_feedback has to know for each status.
LEMMA OutcomeEntitled ==
  ASSUME NEW S
  PROVE  /\ \A s \in TaskStatus : s # "DONE" =>
              Entitled("resolve", [NoRequest EXCEPT !.outcome = s], S)
         /\ S = CheckpointType => Entitled("resolve", [NoRequest EXCEPT !.outcome = "DONE"], S)
         /\ Before["plan_review"] \subseteq S =>
              Entitled("create", [NoRequest EXCEPT !.outcome = "WAIT_HUMAN_PLAN"], S)
         /\ Before["code_review"] \subseteq S =>
              Entitled("create", [NoRequest EXCEPT !.outcome = "WAIT_HUMAN_CODE"], S)
         /\ Before["final_review"] \subseteq S =>
              Entitled("create", [NoRequest EXCEPT !.outcome = "WAIT_HUMAN_FINAL"], S)
         /\ Before["code_review"] \subseteq S =>
              Entitled("test", [NoRequest EXCEPT !.outcome = Null], S)
<1>1. \A s : [NoRequest EXCEPT !.outcome = s].outcome = s
  BY DEF NoRequest
<1>2. /\ \A type \in CheckpointType : WaitingFor[type] = "WAIT_HUMAN_PLAN" => type = "plan_review"
      /\ \A type \in CheckpointType : WaitingFor[type] = "WAIT_HUMAN_CODE" => type = "code_review"
      /\ \A type \in CheckpointType : WaitingFor[type] = "WAIT_HUMAN_FINAL" => type = "final_review"
  BY DEF CheckpointType, WaitingFor
<1>3. \A s \in TaskStatus : s # "DONE" =>
        Entitled("resolve", [NoRequest EXCEPT !.outcome = s], S)
  BY <1>1 DEF Entitled, CodingPc, FlowPc
<1>4. S = CheckpointType => Entitled("resolve", [NoRequest EXCEPT !.outcome = "DONE"], S)
  BY DEF Entitled, CodingPc, FlowPc
<1>5. Before["plan_review"] \subseteq S =>
        Entitled("create", [NoRequest EXCEPT !.outcome = "WAIT_HUMAN_PLAN"], S)
  BY <1>1, <1>2 DEF Entitled, CodingPc, FlowPc
<1>6. Before["code_review"] \subseteq S =>
        Entitled("create", [NoRequest EXCEPT !.outcome = "WAIT_HUMAN_CODE"], S)
  BY <1>1, <1>2 DEF Entitled, CodingPc, FlowPc
<1>7. Before["final_review"] \subseteq S =>
        Entitled("create", [NoRequest EXCEPT !.outcome = "WAIT_HUMAN_FINAL"], S)
  BY <1>1, <1>2 DEF Entitled, CodingPc, FlowPc
<1>8. Before["code_review"] \subseteq S =>
        Entitled("test", [NoRequest EXCEPT !.outcome = Null], S)
  BY DEF Entitled, CodingPc, FlowPc
<1> QED BY <1>3, <1>4, <1>5, <1>6, <1>7, <1>8

LEMMA BehindDispatch ==
  ASSUME Typed, Owned, Behind, NEW t \in Thread, Dispatch(t)
  PROVE  Behind'
<1> DEFINE r == req[t]
           p == r.project
           old == PassedIn(answers, p)
           new == PassedIn(answers', p)
<1>1. /\ r \in Request /\ p \in Project /\ r.type \in CheckpointType
      /\ Before[r.type] \subseteq old
  BY Claim DEF Dispatch, Behind, Entitled, Typed, ThreadsTyped, WellFormed
<1>2. CASE GiveUp(t)
  BY <1>2, BehindGiveUp
<1>3. SUFFICES ASSUME NEW action \in Action, Handle(t, r.type, action), Record(r, action)
               PROVE  Behind'
  BY <1>2 DEF Dispatch
<1>4. /\ \A q \in Project : answers[q] \subseteq answers'[q]
      /\ \A q \in Project : PassedIn(answers, q) \subseteq PassedIn(answers', q)
      /\ action \in PassingAction[r.type] => r.type \in new
      /\ Before[r.type] \subseteq new
  BY <1>1, <1>3, Recorded
<1>5. \A q \in Project : Earned(graph[q], PassedIn(answers', q))
  BY <1>4, EarnedGrows DEF Behind, Standing, Passed
<1>6. /\ UNCHANGED <<projects, checkpoints>>
      /\ \A q \in Project : disk'[q].decisions = disk[q].decisions
  BY <1>1, <1>3 DEF Typed, StoreTypeOK, Directory, Handle, RequirementFeedback, PlanFeedback,
     CodeFeedback, FinalFeedback, PersistCodeFiles, store
<1>7. ASSUME \A q \in Project : Earned(graph'[q], PassedIn(answers', q)) PROVE Standing'
  BY <1>4, <1>6, <1>7, StandingGrows DEF Behind
<1>8. ASSUME UNCHANGED graph PROVE Standing'
  BY <1>5, <1>7, <1>8
<1>9. ASSUME NEW status \in TaskStatus, status # "DONE", UNCHANGED graph,
             Outcome(t, "resolve", status)
      PROVE  Behind'
  <2>1. Working'
    BY <1>1, <1>4, <1>9, BehindOutcome, OutcomeEntitled DEF Behind
  <2> QED BY <1>8, <1>9, <2>1 DEF Behind
<1>10. CASE r.type = "requirement_review" /\ RequirementFeedback(t, action)
  <2>1. CASE \/ Outcome(t, "resolve", "DISCOVERY") /\ UNCHANGED graph
             \/ Outcome(t, "resolve", "CANCELLED") /\ UNCHANGED graph
    BY <1>9, <2>1, StatusNames
  <2>2. CASE /\ action = "approve"
             /\ graph' = [graph EXCEPT ![p].plan = "made"]
             /\ Outcome(t, "create", "WAIT_HUMAN_PLAN")
    <3>1. "requirement_review" \in new
      BY <1>4, <1>10, <2>2 DEF PassingAction
    <3>2. \A q \in Project : Earned(graph'[q], PassedIn(answers', q))
      BY <1>1, <1>5, <2>2, <3>1 DEF Earned, Typed, GraphState
    <3>3. Before["plan_review"] \subseteq new
      BY <3>1 DEF Before
    <3>4. Working'
      BY <1>1, <1>4, <2>2, <3>3, BehindOutcome, OutcomeEntitled DEF Behind
    <3> QED BY <1>7, <3>2, <3>4 DEF Behind
  <2> QED BY <1>10, <2>1, <2>2 DEF RequirementFeedback
<1>11. CASE r.type = "plan_review" /\ PlanFeedback(t, action)
  <2>1. CASE \/ Outcome(t, "resolve", "PLANNING") /\ UNCHANGED graph
             \/ Outcome(t, "resolve", "CANCELLED") /\ UNCHANGED graph
    BY <1>9, <2>1, StatusNames
  <2>2. CASE action = "approve" /\ UNCHANGED graph /\ Outcome(t, "test", Null)
    <3>1. Before["code_review"] \subseteq new
      BY <1>4, <1>11, <2>2 DEF PassingAction, Before
    <3>2. Working'
      BY <1>1, <1>4, <2>2, <3>1, BehindOutcome, OutcomeEntitled DEF Behind
    <3> QED BY <1>8, <2>2, <3>2 DEF Behind
  <2> QED BY <1>11, <2>1, <2>2 DEF PlanFeedback
<1>12. CASE r.type = "code_review" /\ CodeFeedback(t, action)
  <2>1. CASE \/ Outcome(t, "resolve", "PLANNING") /\ UNCHANGED graph
             \/ Outcome(t, "resolve", "CODING") /\ UNCHANGED graph
    BY <1>9, <2>1, StatusNames
  <2>2. CASE /\ action \notin {"replan", "revise"}
             /\ graph' = [graph EXCEPT ![p].review = TRUE]
             /\ Outcome(t, "create", "WAIT_HUMAN_FINAL")
    <3>1. "code_review" \in new /\ Before["final_review"] \subseteq new
      BY <1>4, <1>12, <2>2 DEF PassingAction, Before, Action
    <3>2. \A q \in Project : Earned(graph'[q], PassedIn(answers', q))
      BY <1>1, <1>5, <2>2, <3>1 DEF Earned, Typed, GraphState
    <3>3. Working'
      BY <1>1, <1>4, <2>2, <3>1, BehindOutcome, OutcomeEntitled DEF Behind
    <3> QED BY <1>7, <3>2, <3>3 DEF Behind
  <2> QED BY <1>12, <2>1, <2>2 DEF CodeFeedback
<1>13. CASE r.type = "final_review" /\ FinalFeedback(t, action)
  <2>1. CASE \E status \in {"PLANNING", "DEBUGGING", "CODING", "CANCELLED"} :
               Outcome(t, "resolve", status) /\ UNCHANGED graph
    BY <1>9, <2>1, StatusNames
  <2>2. CASE action = "approve" /\ UNCHANGED graph /\ Outcome(t, "resolve", "DONE")
    <3>1. new = CheckpointType
      <4>1. CheckpointType \subseteq new
        BY <1>4, <1>13, <2>2 DEF PassingAction, Before, CheckpointType
      <4> QED BY <4>1 DEF PassedIn
    <3>2. Working'
      BY <1>1, <1>4, <2>2, <3>1, BehindOutcome, OutcomeEntitled DEF Behind
    <3> QED BY <1>8, <2>2, <3>2 DEF Behind
  <2> QED BY <1>13, <2>1, <2>2 DEF FinalFeedback
<1> QED BY <1>3, <1>10, <1>11, <1>12, <1>13 DEF Handle

LEMMA BehindRunTests ==
  ASSUME Typed, Owned, Behind, NEW t \in Thread, RunTests(t)
  PROVE  Behind'
<1> DEFINE r == req[t]
           p == r.project
           passed == PassedIn(answers, p)
<1>1. /\ r \in Request /\ p \in Project /\ pc[t] = "test"
      /\ Before["code_review"] \subseteq passed
  BY Claim DEF RunTests, Behind, Entitled, CodingPc
<1>2. UNCHANGED <<store, answers>>
  BY DEF RunTests
<1>3. CASE Finish(t) /\ UNCHANGED graph
  BY <1>2, <1>3, BehindGiveUp DEF GiveUp
<1>4. CASE Goto(t, "debug", r) /\ UNCHANGED graph
  <2>1. Entitled("debug", r, PassedIn(answers, p))
    BY <1>1 DEF Entitled, CodingPc, FlowPc
  <2>2. Working'
    BY <1>2, <1>4, <2>1, WorkingMove DEF Behind
  <2> QED BY <1>2, <1>4, <2>2, StandingSame DEF Behind
<1>5. CASE /\ graph' = [graph EXCEPT ![p].code = TRUE]
           /\ \/ Outcome(t, "create", "WAIT_HUMAN_CODE")
              \/ \E status \in {"CODING", "FAILED"} : Outcome(t, "resolve", status)
  <2>1. \A q \in Project : Earned(graph'[q], PassedIn(answers, q))
    BY <1>1, <1>5 DEF Before, Earned, Typed, GraphState, Behind, Standing, Passed
  <2>2. Standing'
    BY <1>2, <2>1, StandingGrows DEF Behind, store
  <2>3. Working'
    BY <1>1, <1>2, <1>5, BehindOutcome, OutcomeEntitled, StatusNames DEF Behind
  <2> QED BY <2>2, <2>3 DEF Behind
<1> QED BY <1>3, <1>4, <1>5 DEF RunTests

LEMMA BehindDebug ==
  ASSUME Typed, Behind, NEW t \in Thread, Debug(t)
  PROVE  Behind'
<1> DEFINE r == req[t]
<1>1. /\ r.project \in Project
      /\ Entitled("debug", r, PassedIn(answers, r.project))
  BY Claim DEF Debug, Behind
<1>2. CASE GiveUp(t)
  BY <1>2, BehindGiveUp
<1>3. CASE PersistCodeFiles(r.project) /\ Goto(t, "test", r) /\ UNCHANGED <<graph, answers>>
  <2>1. Standing'
    BY <1>1, <1>3, StandingMethods DEF Typed, Behind
  <2>2. Entitled("test", r, PassedIn(answers, r.project))
    BY <1>1 DEF Entitled, CodingPc, FlowPc
  <2>3. Working'
    BY <1>3, <2>2, WorkingMove DEF Behind
  <2> QED BY <2>1, <2>3 DEF Behind
<1> QED BY <1>2, <1>3 DEF Debug

LEMMA BehindNextCheckpoint ==
  ASSUME Typed, Behind, NEW t \in Thread, NextCheckpoint(t)
  PROVE  Behind'
<1> DEFINE r == req[t]
           p == r.project
<1>1. /\ r \in Request /\ p \in Project
      /\ Entitled("create", r, PassedIn(answers, p))
  BY Claim DEF NextCheckpoint, Behind
<1>2. CASE GiveUp(t)
  BY <1>2, BehindGiveUp
<1>3. ASSUME NEW c \in Checkpoint, NEW type \in CheckpointType, WaitingFor[type] = r.outcome,
             CreateCheckpoint(p, c, type), Goto(t, "resolve", [r EXCEPT !.next = c]),
             UNCHANGED <<graph, answers>>
      PROVE  Behind'
  <2> DEFINE n == [r EXCEPT !.next = c]
  <2>1. Before[type] \subseteq PassedIn(answers, p)
    BY <1>1, <1>3 DEF Entitled
  <2>2. Standing'
    BY <1>1, <1>3, <2>1, StandingCreate DEF Typed, Behind
  <2>3. n.outcome = r.outcome /\ n.project = p
    BY <1>1 DEF Request
  <2>4. Goto(t, "resolve", n)
    BY <1>3
  <2> HIDE DEF n
  <2>5. Entitled("resolve", n, PassedIn(answers, p))
    BY <1>1, <2>3 DEF Entitled, CodingPc, FlowPc
  <2>6. Working'
    BY <1>3, <2>3, <2>4, <2>5, WorkingMove DEF Behind
  <2> QED BY <2>2, <2>6 DEF Behind
<1> QED BY <1>2, <1>3 DEF NextCheckpoint

LEMMA BehindResolveAnswered ==
  ASSUME Typed, Behind, NEW t \in Thread, ResolveAnswered(t)
  PROVE  Behind'
<1> DEFINE r == req[t]
           p == r.project
           n == [r EXCEPT !.cp = Null]
<1>1. /\ r \in Request /\ p \in Project /\ r.cp \in Checkpoint
      /\ Entitled("resolve", r, PassedIn(answers, p))
  BY Claim DEF ResolveAnswered, Behind, Typed, ThreadsTyped, WellFormed
<1>2. CASE GiveUp(t)
  BY <1>2, BehindGiveUp
<1>3. CASE ResolveCheckpoint(r.cp) /\ Goto(t, "flow", n) /\ UNCHANGED <<graph, answers>>
  <2>1. Standing'
    BY <1>1, <1>3, StandingMethods DEF Typed, Behind
  <2>2. n.outcome = r.outcome /\ n.project = p
    BY <1>1 DEF Request
  <2>3. Goto(t, "flow", n)
    BY <1>3
  <2> HIDE DEF n
  <2>4. Entitled("flow", n, PassedIn(answers, p))
    BY <1>1, <2>2 DEF Entitled, CodingPc, FlowPc
  <2>5. Working'
    BY <1>3, <2>2, <2>3, <2>4, WorkingMove DEF Behind
  <2> QED BY <2>1, <2>5 DEF Behind
<1> QED BY <1>2, <1>3 DEF ResolveAnswered

LEMMA BehindFlowState ==
  ASSUME Typed, Behind, NEW t \in Thread, FlowState(t)
  PROVE  Behind'
<1> DEFINE r == req[t]
           p == r.project
           n == [r EXCEPT !.next = Null]
<1>1. /\ r \in Request /\ p \in Project /\ r.outcome \in TaskStatus
      /\ Entitled("flow", r, PassedIn(answers, p))
  BY Claim DEF FlowState, Behind, Typed, ThreadsTyped, WellFormed, FlowPc
<1>2. CASE GiveUp(t)
  BY <1>2, BehindGiveUp
<1>3. CASE /\ UpdateProjectFlowState(p, r.outcome, r.next)
           /\ Goto(t, "sync", n)
           /\ UNCHANGED <<graph, answers>>
  <2>1. r.outcome = "DONE" => PassedIn(answers, p) = CheckpointType
    BY <1>1 DEF Entitled, FlowPc
  <2>2. Standing'
    <3>1. r.next \in Checkpoint \cup {Null}
      BY <1>1 DEF Request
    <3> QED BY <1>1, <1>3, <2>1, <3>1, StandingFlow DEF Typed, Behind
  <2>3. n.outcome = r.outcome /\ n.project = p
    BY <1>1 DEF Request
  <2>4. Goto(t, "sync", n)
    BY <1>3
  <2> HIDE DEF n
  <2>5. Entitled("sync", n, PassedIn(answers, p))
    BY <2>1, <2>3 DEF Entitled, CodingPc, FlowPc
  <2>6. Working'
    BY <1>3, <2>3, <2>4, <2>5, WorkingMove DEF Behind
  <2> QED BY <2>2, <2>6 DEF Behind
<1> QED BY <1>2, <1>3 DEF FlowState

LEMMA BehindSyncReads ==
  ASSUME Typed, Behind, NEW t \in Thread, SyncReads(t)
  PROVE  Behind'
<1> DEFINE r == req[t]
           p == r.project
           d == Decisions(graph[p], r.outcome)
           n == [r EXCEPT !.outcome = Null, !.decisions = d]
<1>1. /\ r \in Request /\ p \in Project
      /\ Entitled("sync", r, PassedIn(answers, p))
  BY Claim DEF SyncReads, Behind
<1>2. CASE GiveUp(t)
  BY <1>2, BehindGiveUp
<1>3. CASE Live(p) /\ Goto(t, "write_memory", n) /\ UNCHANGED <<store, graph, answers>>
  <2>1. Earned(graph[p], PassedIn(answers, p))
    BY <1>1 DEF Behind, Standing, Passed
  <2>2. r.outcome = "DONE" => PassedIn(answers, p) = CheckpointType
    BY <1>1 DEF Entitled
  <2>3. d \subseteq PassedIn(answers, p)
    BY <2>1, <2>2 DEF Decisions, Earned
  <2>4. n.decisions = d /\ n.project = p
    BY <1>1 DEF Request
  <2>5. Goto(t, "write_memory", n)
    BY <1>3
  <2> HIDE DEF n, d
  <2>6. Entitled("write_memory", n, PassedIn(answers, p))
    BY <2>3, <2>4 DEF Entitled, CodingPc, FlowPc
  <2>7. Working'
    BY <1>3, <2>4, <2>5, <2>6, WorkingMove DEF Behind
  <2> QED BY <1>3, <2>7, StandingSame DEF Behind
<1> QED BY <1>2, <1>3 DEF SyncReads

LEMMA BehindSyncWrites ==
  ASSUME Typed, Behind, NEW t \in Thread, SyncWrites(t)
  PROVE  Behind'
<1> DEFINE p == req[t].project
           d == req[t].decisions
<1>1. p \in Project /\ d \subseteq PassedIn(answers, p)
  BY Claim DEF SyncWrites, Behind, Entitled
<1>2. UNCHANGED <<projects, checkpoints, graph, answers>>
  BY DEF SyncWrites, WriteProjectMemory
<1>3. \A q \in Project : disk'[q].decisions = IF q = p THEN d ELSE disk[q].decisions
  BY DEF Typed, StoreTypeOK, SyncWrites, WriteProjectMemory
<1>4. \A q \in Project : disk'[q].decisions \subseteq PassedIn(answers, q)
  BY <1>1, <1>3 DEF Behind, Standing, MemoryTruthful, Passed
<1>5. Standing'
  BY <1>2, <1>4, StandingRows DEF Behind, Exists
<1>6. Working'
  BY <1>2, WorkingNoClaim DEF Behind, SyncWrites, Finish
<1> QED BY <1>5, <1>6 DEF Behind

LEMMA BehindStageCheckpoint ==
  ASSUME Typed, Owned, Behind, NEW t \in Thread, StageCheckpoint(t)
  PROVE  Behind'
<1> DEFINE r == req[t]
           p == r.project
           c == projects[p].current
<1>1. r \in Request /\ p \in Project
  BY Claim DEF StageCheckpoint, Behind
<1>2. CASE GiveUp(t)
  BY <1>2, BehindGiveUp
<1>3. CASE Goto(t, "requirement_turn", r) /\ UNCHANGED <<store, graph, answers>>
  BY <1>3, StandingSame, WorkingNoClaim DEF Behind
<1>4. CASE /\ c # Null /\ checkpoints[c].status = "pending"
           /\ checkpoints[c].type = "plan_review"
           /\ Goto(t, "plan_turn", r) /\ UNCHANGED <<store, graph, answers>>
  <2>1. c \in Checkpoint /\ Exists(c) /\ checkpoints[c].project = p
    BY <1>1, <1>4 DEF Exists, Owned, OwnedRows, Names, Typed, StoreTypeOK, ProjectRow
  <2>2. Before["plan_review"] \subseteq PassedIn(answers, p)
    BY <1>4, <2>1 DEF Behind, Standing, GatesInOrder, Passed
  <2>3. Entitled("plan_turn", r, PassedIn(answers, p))
    BY <2>2 DEF Entitled, CodingPc, FlowPc
  <2>4. Working'
    BY <1>4, <2>3, WorkingMove DEF Behind
  <2> QED BY <1>4, <2>4, StandingSame DEF Behind
<1> QED BY <1>2, <1>3, <1>4 DEF StageCheckpoint

LEMMA BehindApproveCurrent ==
  ASSUME Typed, Behind, NEW t \in Thread, ApproveCurrent(t)
  PROVE  Behind'
  BY StandingSame, WorkingNoClaim DEF Behind, ApproveCurrent

LEMMA BehindRequirementTurn ==
  ASSUME Typed, Behind, NEW t \in Thread, RequirementTurn(t)
  PROVE  Behind'
<1>1. CASE Goto(t, "turn_refresh", req[t]) /\ UNCHANGED <<store, graph, answers>>
  BY <1>1, StandingSame, WorkingNoClaim DEF Behind
<1> QED BY <1>1, BehindGiveUp, BehindApproveCurrent DEF RequirementTurn

LEMMA BehindTurnRefresh ==
  ASSUME Typed, Behind, NEW t \in Thread, TurnRefresh(t) \/ Refresh(t)
  PROVE  Behind'
<1>1. req[t].project \in Project
  BY Claim DEF TurnRefresh, Refresh, Behind
<1>2. CASE GiveUp(t)
  BY <1>2, BehindGiveUp
<1>3. CASE /\ RefreshActiveProjectRequirement(req[t].project)
           /\ UNCHANGED <<graph, answers>>
  <2>1. Standing'
    BY <1>1, <1>3, StandingMethods DEF Typed, Behind
  <2>2. CASE \E r : Goto(t, "discovery", r)
    BY <1>3, <2>1, <2>2, WorkingNoClaim DEF Behind
  <2>3. CASE Finish(t)
    BY <1>3, <2>1, <2>3, WorkingNoClaim DEF Behind, Finish
  <2>4. GiveUp(t) \/ Finish(t) \/ \E r : Goto(t, "discovery", r)
    BY DEF TurnRefresh, Refresh
  <2> QED BY <2>2, <2>3, <2>4, BehindGiveUp
<1> QED BY <1>2, <1>3 DEF TurnRefresh, Refresh

LEMMA BehindPlanTurn ==
  ASSUME Typed, Behind, NEW t \in Thread, PlanTurn(t)
  PROVE  Behind'
<1> DEFINE r == req[t]
           p == r.project
<1>1. /\ r \in Request /\ p \in Project
      /\ Entitled("plan_turn", r, PassedIn(answers, p))
  BY Claim DEF PlanTurn, Behind
<1>2. ASSUME NEW x, Goto(t, "plan_revise", [r EXCEPT !.cp = x]),
             UNCHANGED <<store, graph, answers>>
      PROVE  Behind'
  <2> DEFINE n == [r EXCEPT !.cp = x]
  <2>1. n.project = p
    BY <1>1 DEF Request
  <2>2. Goto(t, "plan_revise", n)
    BY <1>2
  <2> HIDE DEF n
  <2>3. Entitled("plan_revise", n, PassedIn(answers, p))
    BY <1>1 DEF Entitled, CodingPc, FlowPc
  <2>4. Working'
    BY <1>2, <2>1, <2>2, <2>3, WorkingMove DEF Behind
  <2> QED BY <1>2, <2>4, StandingSame DEF Behind
<1> QED BY <1>2, BehindGiveUp, BehindApproveCurrent DEF PlanTurn

LEMMA BehindPlanRevise ==
  ASSUME Typed, Owned, Behind, NEW t \in Thread, PlanRevise(t)
  PROVE  Behind'
<1> DEFINE r == req[t]
           p == r.project
           label == IF r.cp = Null THEN "revise_create" ELSE "revise_resolve"
<1>1. /\ p \in Project
      /\ Before["plan_review"] \subseteq PassedIn(answers, p)
  BY Claim DEF PlanRevise, Behind, Entitled
<1>2. CASE GiveUp(t)
  BY <1>2, BehindGiveUp
<1>3. CASE /\ graph' = [graph EXCEPT ![p].spec = TRUE, ![p].plan = "made"]
           /\ Goto(t, label, r)
           /\ UNCHANGED <<store, answers>>
  <2>1. "requirement_review" \in PassedIn(answers, p)
    BY <1>1 DEF Before
  <2>2. \A q \in Project :
          /\ graph'[q].plan = IF q = p THEN "made" ELSE graph[q].plan
          /\ graph'[q].code = graph[q].code
          /\ graph'[q].review = graph[q].review
    BY <1>1, <1>3 DEF Typed, GraphState
  <2>3. \A q \in Project : Earned(graph'[q], PassedIn(answers, q))
    BY <2>1, <2>2 DEF Earned, Behind, Standing, Passed
  <2>4. Standing'
    BY <1>3, <2>3, StandingGrows DEF Behind, store
  <2>5. Goto(t, label, r) /\ label \in {"revise_create", "revise_resolve"}
    BY <1>3
  <2> HIDE DEF label
  <2>6. Entitled(label, r, PassedIn(answers, p))
    BY <1>1, <2>5 DEF Entitled, CodingPc, FlowPc
  <2>7. Working'
    BY <1>3, <2>5, <2>6, WorkingMove DEF Behind
  <2> QED BY <2>4, <2>7 DEF Behind
<1> QED BY <1>2, <1>3 DEF PlanRevise

LEMMA BehindReviseResolve ==
  ASSUME Typed, Behind, NEW t \in Thread, ReviseResolve(t)
  PROVE  Behind'
<1> DEFINE r == req[t]
           p == r.project
<1>1. /\ p \in Project /\ r.cp \in Checkpoint
      /\ Before["plan_review"] \subseteq PassedIn(answers, p)
  BY Claim DEF ReviseResolve, Behind, Entitled, Typed, ThreadsTyped, WellFormed
<1>2. CASE GiveUp(t)
  BY <1>2, BehindGiveUp
<1>3. CASE ResolveCheckpoint(r.cp) /\ Goto(t, "revise_create", r) /\ UNCHANGED <<graph, answers>>
  <2>1. Standing'
    BY <1>1, <1>3, StandingMethods DEF Typed, Behind
  <2>2. Entitled("revise_create", r, PassedIn(answers, p))
    BY <1>1 DEF Entitled, CodingPc, FlowPc
  <2>3. Working'
    BY <1>3, <2>2, WorkingMove DEF Behind
  <2> QED BY <2>1, <2>3 DEF Behind
<1> QED BY <1>2, <1>3 DEF ReviseResolve

LEMMA BehindReviseCreate ==
  ASSUME Typed, Behind, NEW t \in Thread, ReviseCreate(t)
  PROVE  Behind'
<1> DEFINE p == req[t].project
           n == [NoRequest EXCEPT !.project = p]
<1>1. p \in Project /\ Before["plan_review"] \subseteq PassedIn(answers, p)
  BY Claim DEF ReviseCreate, Behind, Entitled
<1>2. CASE GiveUp(t)
  BY <1>2, BehindGiveUp
<1>3. ASSUME NEW c \in Checkpoint, CreateCheckpoint(p, c, "plan_review"),
             Goto(t, "revise_status", n), UNCHANGED <<graph, answers>>
      PROVE  Behind'
  <2>1. "plan_review" \in CheckpointType
    BY DEF CheckpointType
  <2>2. Standing'
    BY <1>1, <1>3, <2>1, StandingCreate DEF Typed, Behind
  <2>3. Goto(t, "revise_status", n)
    BY <1>3
  <2> HIDE DEF n
  <2>4. Working'
    BY <1>3, <2>3, WorkingNoClaim DEF Behind
  <2> QED BY <2>2, <2>4 DEF Behind
<1> QED BY <1>2, <1>3 DEF ReviseCreate

LEMMA BehindReviseStatus ==
  ASSUME Typed, Behind, NEW t \in Thread, ReviseStatus(t)
  PROVE  Behind'
<1> DEFINE r == req[t]
           p == r.project
           n == [r EXCEPT !.outcome = projects[p].status]
<1>1. r \in Request /\ p \in Project
  BY Claim DEF ReviseStatus, Behind
<1>2. CASE GiveUp(t)
  BY <1>2, BehindGiveUp
<1>3. CASE Live(p) /\ Goto(t, "sync", n) /\ UNCHANGED <<store, graph, answers>>
  <2>1. projects[p].status = "DONE" => PassedIn(answers, p) = CheckpointType
    BY <1>1, <1>3 DEF Behind, Standing, GatesInOrder, Passed
  <2>2. n.outcome = projects[p].status /\ n.project = p
    BY <1>1 DEF Request
  <2>3. Goto(t, "sync", n)
    BY <1>3
  <2> HIDE DEF n
  <2>4. Entitled("sync", n, PassedIn(answers, p))
    BY <2>1, <2>2 DEF Entitled, CodingPc, FlowPc
  <2>5. Working'
    BY <1>3, <2>2, <2>3, <2>4, WorkingMove DEF Behind
  <2> QED BY <1>3, <2>5, StandingSame DEF Behind
<1> QED BY <1>2, <1>3 DEF ReviseStatus

LEMMA BehindDeleteListed ==
  ASSUME Typed, Behind, NEW t \in Thread, DeleteListed(t)
  PROVE  Behind'
<1>1. req[t].project \in Project
  BY Claim DEF DeleteListed, Behind
<1>2. Standing'
  BY <1>1, StandingMethods DEF Typed, Behind, DeleteListed
<1>3. Working'
  BY WorkingNoClaim DEF Behind, DeleteListed, DeleteRows
<1> QED BY <1>2, <1>3 DEF Behind

LEMMA BehindRemoveTree ==
  ASSUME Typed, Behind, NEW t \in Thread, RemoveTree(t)
  PROVE  Behind'
<1>1. req[t].project \in Project
  BY Claim DEF RemoveTree, Behind
<1>2. Standing'
  BY <1>1, StandingMethods DEF Typed, Behind, RemoveTree
<1>3. Working'
  BY WorkingNoClaim DEF Behind, RemoveTree, Finish
<1> QED BY <1>2, <1>3 DEF Behind

LEMMA BehindRestart ==
  ASSUME Typed, Owned, Behind, Restart
  PROVE  Behind'
<1>1. UNCHANGED <<projects, checkpoints, disk, answers>>
  BY DEF Restart, store
<1>2. \A p \in Project : Earned(graph'[p], PassedIn(answers', p))
  BY DEF Restart, Earned, EmptyGraph
<1>3. Standing'
  BY <1>1, <1>2, StandingGrows DEF Behind
<1>4. Working'
  BY DEF Restart, Working
<1> QED BY <1>3, <1>4 DEF Behind

LEMMA BehindStep == Typed /\ Owned /\ Behind /\ [Next]_vars => Behind'
<1> SUFFICES ASSUME Typed, Owned, Behind, [Next]_vars PROVE Behind'
  OBVIOUS
<1>1. ASSUME UNCHANGED <<pc, req, answers>> PROVE Working'
  BY <1>1 DEF Behind, Working, Passed
<1>2. ASSUME NEW p \in Project, CreateProject(p) PROVE Behind'
  BY <1>1, <1>2, StandingMethods DEF Typed, Behind, CreateProject
<1>3. ASSUME NEW u \in User, SessionCommand(u) PROVE Behind'
  <2>1. CASE ResetChatSession(u)
    <3>1. \A p \in Project : disk'[p].decisions \subseteq PassedIn(answers, p)
      BY <2>1 DEF ResetChatSession, Behind, Standing, MemoryTruthful, Passed
    <3>2. Standing'
      BY <1>3, <2>1, <3>1, StandingRows DEF ResetChatSession, SessionCommand, Behind, Exists
    <3> QED BY <1>1, <1>3, <3>2 DEF SessionCommand, Behind
  <2>2. ASSUME NEW p \in Project, SwitchActiveProject(u, p) PROVE Behind'
    BY <1>1, <1>3, <2>2, StandingMethods DEF Typed, Behind, SessionCommand
  <2> QED BY <1>3, <2>1, <2>2 DEF SessionCommand
<1>4. ASSUME NEW t \in Thread, Arrive(t) PROVE Behind'
  BY <1>4, BehindArrive
<1>5. ASSUME NEW t \in Thread, Proceed(t) PROVE Behind'
  BY <1>5, BehindBindProject, BehindDiscoveryReads, BehindDiscoveryRuns, BehindRequirementCheckpoint,
     BehindCheckFeedback, BehindReadSnapshot, BehindDispatch, BehindDebug,
     BehindNextCheckpoint, BehindResolveAnswered, BehindFlowState, BehindSyncReads,
     BehindSyncWrites, BehindStageCheckpoint, BehindRequirementTurn, BehindTurnRefresh,
     BehindPlanTurn, BehindPlanRevise, BehindReviseResolve, BehindReviseCreate,
     BehindReviseStatus, BehindDeleteListed, BehindRemoveTree DEF Proceed
<1>6. ASSUME NEW t \in Thread, RunTests(t) PROVE Behind'
  BY <1>6, BehindRunTests
<1>7. CASE Restart
  BY <1>7, BehindRestart
<1>8. CASE UNCHANGED vars
  BY <1>1, <1>8, StandingSame DEF vars, Behind
<1> QED BY <1>2, <1>3, <1>4, <1>5, <1>6, <1>7, <1>8 DEF Next

LEMMA InitBehind == Init => Behind
  BY DEF Init, StoreInit, NoDirectory, EmptyGraph, Behind, Standing, Working, GatesInOrder,
     MemoryTruthful, Earned, Exists, Live

\* No later gate has a checkpoint, and no project is done, before a human let
\* the project through every gate in front: for any number of concurrent
\* requests to graph/runtime.py, with restarts.
THEOREM GatesInOrderHolds == Spec => []GatesInOrder
<1>1. Behind => GatesInOrder
  BY DEF Behind, Standing
<1>2. Init => Typed /\ Owned /\ Behind
  BY InitTyped, InitOwned, InitBehind
<1>3. Typed /\ Owned /\ Behind /\ [Next]_vars => (Typed /\ Owned /\ Behind)'
  BY TypedStep, OwnedStep, BehindStep
<1> QED BY <1>1, <1>2, <1>3, PTL DEF Spec

\* memory.md never claims a gate no answer let the project past, whatever graph
\* state _sync_project_memory finds.
THEOREM MemoryTruthfulHolds == Spec => []MemoryTruthful
<1>1. Behind => MemoryTruthful
  BY DEF Behind, Standing
<1>2. Init => Typed /\ Owned /\ Behind
  BY InitTyped, InitOwned, InitBehind
<1>3. Typed /\ Owned /\ Behind /\ [Next]_vars => (Typed /\ Owned /\ Behind)'
  BY TypedStep, OwnedStep, BehindStep
<1> QED BY <1>1, <1>2, <1>3, PTL DEF Spec

-----------------------------------------------------------------------------
(* Refinement of ApprovalGates                                             *)

\* What ApprovalGates sees stays as it is: its reviews, its gates, its end.
OpenSame == \A p \in Project : OpenGates(p)' = OpenGates(p)
PassedSame == \A p \in Project : Passed(p)' = Passed(p)
FinishedSame == \A p \in Project : Finished(p)' = Finished(p)

LEMMA Stutter ==
  ASSUME OpenSame, PassedSame, FinishedSame
  PROVE  UNCHANGED Gates!gates
  BY DEF OpenSame, PassedSame, FinishedSame, Gates!gates

LEMMA OpenStep ==
  ASSUME PassedSame, FinishedSame, NEW p \in Project, NEW type \in CheckpointType,
         Before[type] \subseteq Passed(p),
         \A q \in Project :
           OpenGates(q)' = IF q = p THEN OpenGates(q) \cup {type} ELSE OpenGates(q)
  PROVE  Gates!Next
<1>1. Gates!Open(p, type)
  BY DEF Gates!Open, PassedSame, FinishedSame
<1> QED BY <1>1 DEF Gates!Next

LEMMA PassStep ==
  ASSUME OpenSame, FinishedSame, NEW p \in Project, NEW type \in CheckpointType,
         Before[type] \subseteq Passed(p),
         \A q \in Project : Passed(q)' = IF q = p THEN Passed(q) \cup {type} ELSE Passed(q)
  PROVE  Gates!Next
<1>1. Gates!Pass(p, type)
  BY DEF Gates!Pass, OpenSame, FinishedSame
<1> QED BY <1>1 DEF Gates!Next

LEMMA FinishStep ==
  ASSUME OpenSame, PassedSame, NEW p \in Project, Passed(p) = CheckpointType,
         \A q \in Project : Finished(q)' = IF q = p THEN TRUE ELSE Finished(q)
  PROVE  Gates!Next
<1>1. Gates!FinishProject(p)
  BY DEF Gates!FinishProject, OpenSame, PassedSame
<1> QED BY <1>1 DEF Gates!Next

LEMMA ReopenStep ==
  ASSUME OpenSame, PassedSame, NEW p \in Project,
         \A q \in Project : Finished(q)' = IF q = p THEN FALSE ELSE Finished(q)
  PROVE  Gates!Next
<1>1. Gates!Reopen(p)
  BY DEF Gates!Reopen, OpenSame, PassedSame
<1> QED BY <1>1 DEF Gates!Next

LEMMA WithdrawStep ==
  ASSUME PassedSame, NEW p \in Project,
         \A q \in Project : OpenGates(q)' = IF q = p THEN {} ELSE OpenGates(q),
         \A q \in Project : Finished(q)' = IF q = p THEN FALSE ELSE Finished(q)
  PROVE  Gates!Next
<1>1. Gates!Withdraw(p)
  BY DEF Gates!Withdraw, PassedSame
<1> QED BY <1>1 DEF Gates!Next

-----------------------------------------------------------------------------
(* What the methods of the manager do to the view                          *)

\* What it is for a gate of p to be open.
LEMMA OpenIs ==
  ASSUME NEW p
  PROVE  /\ \A g : g \in OpenGates(p) <=>
              /\ Live(p)
              /\ \E c \in Checkpoint :
                   Exists(c) /\ checkpoints[c].project = p /\ checkpoints[c].type = g
         /\ \A g : g \in OpenGates(p)' <=>
              /\ projects'[p].life = "live"
              /\ \E c \in Checkpoint : /\ Exists(c)'
                                     /\ checkpoints'[c].project = p
                                     /\ checkpoints'[c].type = g
  BY DEF OpenGates, CheckpointsOf, Live

\* The gates p has a checkpoint for depend on which checkpoints exist, and on
\* whose and of which type they are.  A project without any may come and go.
LEMMA OpenKept ==
  ASSUME \A c \in Checkpoint :
           /\ Exists(c)' <=> Exists(c)
           /\ Exists(c) => /\ checkpoints'[c].type = checkpoints[c].type
                           /\ checkpoints'[c].project = checkpoints[c].project,
         \A p \in Project : \/ projects'[p].life = projects[p].life
                            \/ \A c \in Checkpoint :
                                 Exists(c) => checkpoints[c].project # p
  PROVE  OpenSame
<1>1. ASSUME NEW p \in Project PROVE OpenGates(p)' = OpenGates(p)
  <2>1. ASSUME NEW g PROVE g \in OpenGates(p)' <=> g \in OpenGates(p)
    <3>1. (\E c \in Checkpoint : /\ Exists(c)'
                                /\ checkpoints'[c].project = p
                                /\ checkpoints'[c].type = g)
            <=> \E c \in Checkpoint :
                  Exists(c) /\ checkpoints[c].project = p /\ checkpoints[c].type = g
      OBVIOUS
    <3>2. CASE projects'[p].life = projects[p].life
      BY <3>1, <3>2, OpenIs DEF Live
    <3>3. CASE \A c \in Checkpoint : Exists(c) => checkpoints[c].project # p
      BY <3>1, <3>3, OpenIs
    <3> QED BY <3>2, <3>3
  <2>2. \A g : g \in OpenGates(p)' => g \in OpenGates(p)
    BY <2>1
  <2>3. \A g : g \in OpenGates(p) => g \in OpenGates(p)'
    BY <2>1
  <2> QED BY <2>2, <2>3
<1> QED BY <1>1 DEF OpenSame

LEMMA FinishedKept ==
  ASSUME \A p \in Project :
           (projects'[p].life = "live" /\ projects'[p].status = "DONE") <=>
             (projects[p].life = "live" /\ projects[p].status = "DONE")
  PROVE  FinishedSame
  BY DEF FinishedSame, Finished, Live

LEMMA PassedKept ==
  ASSUME UNCHANGED answers
  PROVE  PassedSame
  BY DEF PassedSame, Passed

LEMMA RowsKeptView ==
  ASSUME UNCHANGED <<projects, checkpoints>>
  PROVE  OpenSame /\ FinishedSame
  BY OpenKept, FinishedKept DEF Exists

LEMMA InsertProjectView ==
  ASSUME StoreTypeOK, OwnedRows, NEW p \in Project, NEW o \in User \cup {Null},
         InsertProject(p, o)
  PROVE  OpenSame /\ FinishedSame
<1>1. OpenSame
  <2>1. \A c \in Checkpoint : Exists(c) => checkpoints[c].project # p
    BY DEF InsertProject, OwnedRows
  <2>2. \A q \in Project : q # p => projects'[q].life = projects[q].life
    BY DEF StoreTypeOK, InsertProject
  <2> QED BY <2>1, <2>2, OpenKept DEF InsertProject, Exists
<1>2. FinishedSame
  BY FinishedKept DEF StoreTypeOK, ProjectRow, InsertProject
<1> QED BY <1>1, <1>2

LEMMA SessionView ==
  ASSUME StoreTypeOK, NEW u \in User,
         SessionCommand(u) \/ \E p \in Project : BindActiveProject(u, p)
  PROVE  OpenSame /\ FinishedSame
<1>1. OpenSame
  <2>1. \A p \in Project : projects'[p].life = projects[p].life
    BY DEF StoreTypeOK, ProjectRow, SessionCommand, ResetChatSession, BindActiveProject,
       SwitchActiveProject
  <2> QED BY <2>1, OpenKept DEF SessionCommand, ResetChatSession, BindActiveProject,
        SwitchActiveProject, Exists
<1>2. FinishedSame
  BY FinishedKept DEF StoreTypeOK, ProjectRow, SessionCommand, ResetChatSession,
     BindActiveProject, SwitchActiveProject
<1> QED BY <1>1, <1>2

LEMMA CreateCheckpointView ==
  ASSUME StoreTypeOK, NEW p \in Project, NEW c \in Checkpoint, NEW type \in CheckpointType,
         CreateCheckpoint(p, c, type)
  PROVE  /\ FinishedSame
         /\ \A q \in Project :
              OpenGates(q)' = IF q = p THEN OpenGates(q) \cup {type} ELSE OpenGates(q)
<1>1. FinishedSame
  BY FinishedKept DEF StoreTypeOK, ProjectRow, CreateCheckpoint
<1>2. ~Exists(c) /\ Exists(c)' /\ checkpoints'[c].type = type /\ checkpoints'[c].project = p
  BY DEF StoreTypeOK, CreateCheckpoint, Exists
<1>3. \A d \in Checkpoint : d # c => checkpoints'[d] = checkpoints[d]
  BY DEF StoreTypeOK, CreateCheckpoint
<1>4. \A d \in Checkpoint : d # c => (Exists(d)' <=> Exists(d))
  BY <1>3 DEF Exists
<1>5. /\ \A q \in Project : projects'[q].life = projects[q].life
      /\ projects[p].life = "live"
  BY DEF StoreTypeOK, ProjectRow, CreateCheckpoint, Live
<1>6. ASSUME NEW q \in Project
      PROVE  OpenGates(q)' = IF q = p THEN OpenGates(q) \cup {type} ELSE OpenGates(q)
  <2>1. ASSUME NEW g
        PROVE  g \in OpenGates(q)' <=> g \in OpenGates(q) \/ (q = p /\ g = type)
    BY <1>2, <1>3, <1>4, <1>5, OpenIs DEF Live
  <2>2. CASE q = p
    BY <2>1, <2>2
  <2>3. CASE q # p
    BY <2>1, <2>3
  <2> QED BY <2>2, <2>3
<1> QED BY <1>1, <1>6

LEMMA ResolveCheckpointView ==
  ASSUME StoreTypeOK, NEW c \in Checkpoint, ResolveCheckpoint(c)
  PROVE  OpenSame /\ FinishedSame
<1>1. OpenSame
  BY OpenKept DEF StoreTypeOK, CheckpointRow, ResolveCheckpoint, Exists
<1>2. FinishedSame
  BY FinishedKept DEF ResolveCheckpoint
<1> QED BY <1>1, <1>2

LEMMA FlowStateView ==
  ASSUME StoreTypeOK, NEW p \in Project, NEW status, NEW c, UpdateProjectFlowState(p, status, c)
  PROVE  /\ OpenSame
         /\ \A q \in Project : Finished(q)' = IF q = p THEN status = "DONE" ELSE Finished(q)
<1>1. \A q \in Project :
        /\ projects'[q].life = projects[q].life
        /\ projects'[q].status = IF q = p THEN status ELSE projects[q].status
  BY DEF StoreTypeOK, ProjectRow, UpdateProjectFlowState
<1>2. OpenSame
  BY <1>1, OpenKept DEF UpdateProjectFlowState, Exists
<1>3. Live(p)
  BY DEF UpdateProjectFlowState
<1> QED BY <1>1, <1>2, <1>3 DEF Finished, Live

LEMMA RefreshView ==
  ASSUME StoreTypeOK, NEW p \in Project, RefreshActiveProjectRequirement(p)
  PROVE  /\ OpenSame
         /\ \A q \in Project : Finished(q)' = IF q = p THEN FALSE ELSE Finished(q)
<1>1. \A q \in Project :
        /\ projects'[q].life = projects[q].life
        /\ projects'[q].status = IF q = p THEN "DISCOVERY" ELSE projects[q].status
  BY DEF StoreTypeOK, ProjectRow, RefreshActiveProjectRequirement
<1>2. OpenSame
  BY <1>1, OpenKept DEF StoreTypeOK, CheckpointRow, RefreshActiveProjectRequirement, Exists
<1> QED BY <1>1, <1>2 DEF Finished, Live

LEMMA DeleteRowsView ==
  ASSUME StoreTypeOK, NEW p \in Project, NEW listed, DeleteRows(p, listed)
  PROVE  /\ \A q \in Project : OpenGates(q)' = IF q = p THEN {} ELSE OpenGates(q)
         /\ \A q \in Project : Finished(q)' = IF q = p THEN FALSE ELSE Finished(q)
<1>1. \A d \in Checkpoint :
        /\ checkpoints'[d].project = checkpoints[d].project
        /\ checkpoints'[d].type = checkpoints[d].type
        /\ checkpoints[d].project # p => (Exists(d)' <=> Exists(d))
  BY DEF StoreTypeOK, CheckpointRow, DeleteRows, Removed, CheckpointsOf, Exists
<1>2. \A q \in Project :
        /\ projects'[q].life = IF q = p THEN "deleted" ELSE projects[q].life
        /\ projects'[q].status = projects[q].status
  BY DEF StoreTypeOK, ProjectRow, DeleteRows
<1>3. ASSUME NEW q \in Project
      PROVE  OpenGates(q)' = IF q = p THEN {} ELSE OpenGates(q)
  <2>1. CASE q = p
    BY <1>2, <2>1, OpenIs
  <2>2. CASE q # p
    <3>1. ASSUME NEW g PROVE g \in OpenGates(q)' <=> g \in OpenGates(q)
      BY <1>1, <1>2, <2>2, OpenIs DEF Live
    <3> QED BY <2>2, <3>1
  <2> QED BY <2>1, <2>2
<1> QED BY <1>2, <1>3 DEF Finished, Live

-----------------------------------------------------------------------------
(* The steps                                                               *)

GatesStep == [Gates!Next]_Gates!gates

LEMMA LocalView ==
  ASSUME UNCHANGED <<projects, checkpoints, answers>>
  PROVE  GatesStep
  BY RowsKeptView, PassedKept, Stutter DEF GatesStep

LEMMA CreateView ==
  ASSUME StoreTypeOK, UNCHANGED answers, NEW p \in Project, NEW c \in Checkpoint,
         NEW type \in CheckpointType, CreateCheckpoint(p, c, type),
         Before[type] \subseteq PassedIn(answers, p)
  PROVE  GatesStep
  BY CreateCheckpointView, PassedKept, OpenStep DEF GatesStep, Passed

LEMMA FlowView ==
  ASSUME StoreTypeOK, UNCHANGED answers, NEW p \in Project, NEW status, NEW c,
         UpdateProjectFlowState(p, status, c),
         status = "DONE" => PassedIn(answers, p) = CheckpointType
  PROVE  GatesStep
<1>1. OpenSame /\ PassedSame
  BY FlowStateView, PassedKept
<1>2. CASE status = "DONE"
  <2>1. \A q \in Project : Finished(q)' = IF q = p THEN TRUE ELSE Finished(q)
    BY <1>2, FlowStateView
  <2> QED BY <1>1, <1>2, <2>1, FinishStep DEF GatesStep, Passed
<1>3. CASE status # "DONE"
  <2>1. \A q \in Project : Finished(q)' = IF q = p THEN FALSE ELSE Finished(q)
    BY <1>3, FlowStateView
  <2> QED BY <1>1, <2>1, ReopenStep DEF GatesStep
<1> QED BY <1>2, <1>3

LEMMA AnswerView ==
  ASSUME Typed, UNCHANGED <<projects, checkpoints>>, NEW t \in Thread,
         req[t].project \in Project, req[t].type \in CheckpointType,
         Before[req[t].type] \subseteq PassedIn(answers, req[t].project),
         NEW action \in Action, Record(req[t], action)
  PROVE  GatesStep
<1> DEFINE p == req[t].project
           type == req[t].type
<1>1. CASE action \notin PassingAction[type]
  BY <1>1, LocalView DEF Record
<1>2. CASE action \in PassingAction[type]
  <2>1. \A q \in Project :
          answers'[q] = IF q = p THEN answers[q] \cup {<<type, action>>} ELSE answers[q]
    BY <1>2 DEF Record, Typed
  <2>2. ASSUME NEW q \in Project
        PROVE  Passed(q)' = IF q = p THEN Passed(q) \cup {type} ELSE Passed(q)
    <3>1. CASE q # p
      BY <2>1, <3>1 DEF Passed, PassedIn
    <3>2. CASE q = p
      <4>1. \A x : x \in answers'[q] <=> x \in answers[q] \/ x = <<type, action>>
        BY <2>1, <3>2
      <4>2. ASSUME NEW g \in CheckpointType, g # type
            PROVE  g \in Passed(q)' <=> g \in Passed(q)
        BY <4>1, <4>2 DEF Passed, PassedIn
      <4>3. type \in Passed(q)'
        BY <1>2, <4>1 DEF Passed, PassedIn
      <4>4. /\ Passed(q)' \subseteq CheckpointType
            /\ Passed(q) \subseteq CheckpointType
        BY DEF Passed, PassedIn
      <4> QED BY <3>2, <4>2, <4>3, <4>4
    <3> QED BY <3>1, <3>2
  <2>3. OpenSame /\ FinishedSame
    BY RowsKeptView
  <2> QED BY <2>2, <2>3, PassStep DEF GatesStep, Passed
<1> QED BY <1>1, <1>2

LEMMA ArriveView ==
  ASSUME Typed, Owned, NEW t \in Thread, Arrive(t)
  PROVE  GatesStep
<1>1. ASSUME NEW p \in Project,
             RunProject(t, p) \/ SubmitFeedback(t, p) \/ DeleteProject(t, p)
      PROVE  GatesStep
  BY <1>1, LocalView DEF RunProject, SubmitFeedback, DeleteProject, store
<1>2. ASSUME NEW p \in Project, StageFollowUp(t, p) \/ RefreshDraft(t, p) PROVE GatesStep
  <2>1. UNCHANGED <<store, answers>>
    BY <1>2 DEF StageFollowUp, RefreshDraft
  <2> QED BY <2>1, LocalView DEF store
<1>3. ASSUME NEW u \in User, NEW p \in Project, ChatStartsProject(t, u, p) PROVE GatesStep
  BY <1>3, InsertProjectView, PassedKept, Stutter
     DEF ChatStartsProject, Typed, Owned, GatesStep
<1> QED BY <1>1, <1>2, <1>3 DEF Arrive

LEMMA ProceedView ==
  ASSUME Typed, Owned, Behind, NEW t \in Thread, Proceed(t) \/ RunTests(t)
  PROVE  GatesStep
<1> DEFINE r == req[t]
           p == r.project
<1>1. StoreTypeOK
  BY DEF Typed
<1>2. CASE GiveUp(t)
  BY <1>2, LocalView DEF GiveUp, store
<1>3. ASSUME pc[t] # "idle"
      PROVE  r \in Request /\ p \in Project /\ Entitled(pc[t], r, PassedIn(answers, p))
  BY <1>3, Claim DEF Behind
<1>4. CASE \/ DiscoveryReads(t) \/ DiscoveryRuns(t) \/ CheckFeedback(t) \/ ReadSnapshot(t)
           \/ SyncReads(t) \/ StageCheckpoint(t) \/ RequirementTurn(t) \/ PlanTurn(t)
           \/ PlanRevise(t) \/ ReviseStatus(t) \/ RunTests(t)
  <2>1. UNCHANGED <<store, answers>>
    BY <1>4 DEF DiscoveryReads, DiscoveryRuns, CheckFeedback, ReadSnapshot, SyncReads,
       StageCheckpoint, RequirementTurn, PlanTurn, PlanRevise, ReviseStatus, RunTests,
       ApproveCurrent, GiveUp
  <2> QED BY <2>1, LocalView DEF store
<1>5. CASE Debug(t) \/ SyncWrites(t) \/ RemoveTree(t)
  <2>1. UNCHANGED <<projects, checkpoints, answers>>
    BY <1>5 DEF Debug, SyncWrites, RemoveTree, PersistCodeFiles, WriteProjectMemory,
       RemoveProjectRoot, GiveUp, store
  <2> QED BY <2>1, LocalView
<1>6. CASE Dispatch(t)
  <2>1. /\ p \in Project /\ r.type \in CheckpointType
        /\ Before[r.type] \subseteq PassedIn(answers, p)
    BY <1>3, <1>6 DEF Dispatch, Entitled, Typed, ThreadsTyped, WellFormed
  <2>2. ASSUME NEW action \in Action, Handle(t, r.type, action), Record(r, action)
        PROVE  GatesStep
    <3>1. UNCHANGED <<projects, checkpoints>>
      BY <2>2 DEF Handle, RequirementFeedback, PlanFeedback, CodeFeedback, FinalFeedback,
         PersistCodeFiles, store
    <3> QED BY <2>1, <2>2, <3>1, AnswerView
  <2> QED BY <1>2, <1>6, <2>2 DEF Dispatch
<1>7. CASE RequirementCheckpoint(t)
  <2>1. /\ p \in Project /\ "requirement_review" \in CheckpointType
        /\ Before["requirement_review"] \subseteq PassedIn(answers, p)
    BY <1>3, <1>7 DEF RequirementCheckpoint, CheckpointType, Before
  <2>2. GiveUp(t) \/ (UNCHANGED answers /\ \E c \in Checkpoint :
                        CreateCheckpoint(p, c, "requirement_review"))
    BY <1>7 DEF RequirementCheckpoint
  <2> QED BY <1>1, <1>2, <2>1, <2>2, CreateView
<1>8. CASE NextCheckpoint(t)
  <2>1. p \in Project /\ Entitled("create", r, PassedIn(answers, p))
    BY <1>3, <1>8 DEF NextCheckpoint
  <2>2. GiveUp(t) \/ (UNCHANGED answers /\ \E c \in Checkpoint, type \in CheckpointType :
                        WaitingFor[type] = r.outcome /\ CreateCheckpoint(p, c, type))
    BY <1>8 DEF NextCheckpoint
  <2>3. \A type \in CheckpointType :
          WaitingFor[type] = r.outcome => Before[type] \subseteq PassedIn(answers, p)
    BY <2>1 DEF Entitled
  <2> QED BY <1>1, <1>2, <2>1, <2>2, <2>3, CreateView
<1>9. CASE ReviseCreate(t)
  <2>1. /\ p \in Project /\ "plan_review" \in CheckpointType
        /\ Before["plan_review"] \subseteq PassedIn(answers, p)
    BY <1>3, <1>9 DEF ReviseCreate, CheckpointType, Entitled
  <2>2. GiveUp(t) \/ (UNCHANGED answers /\ \E c \in Checkpoint :
                        CreateCheckpoint(p, c, "plan_review"))
    BY <1>9 DEF ReviseCreate
  <2> QED BY <1>1, <1>2, <2>1, <2>2, CreateView
<1>10. CASE ResolveAnswered(t) \/ ReviseResolve(t)
  <2>1. r.cp \in Checkpoint
    BY <1>10 DEF ResolveAnswered, ReviseResolve, Typed, ThreadsTyped, WellFormed
  <2>2. GiveUp(t) \/ (UNCHANGED answers /\ ResolveCheckpoint(r.cp))
    BY <1>10 DEF ResolveAnswered, ReviseResolve
  <2> QED BY <1>1, <1>2, <2>1, <2>2, ResolveCheckpointView, PassedKept, Stutter DEF GatesStep
<1>11. CASE FlowState(t)
  <2>1. p \in Project /\ (r.outcome = "DONE" => PassedIn(answers, p) = CheckpointType)
    BY <1>3, <1>11 DEF FlowState, Entitled, FlowPc
  <2>2. GiveUp(t) \/ (UNCHANGED answers /\ UpdateProjectFlowState(p, r.outcome, r.next))
    BY <1>11 DEF FlowState
  <2> QED BY <1>1, <1>2, <2>1, <2>2, FlowView
<1>12. CASE TurnRefresh(t) \/ Refresh(t)
  <2>1. p \in Project
    BY <1>3, <1>12 DEF TurnRefresh, Refresh
  <2>2. GiveUp(t) \/ (UNCHANGED answers /\ RefreshActiveProjectRequirement(p))
    BY <1>12 DEF TurnRefresh, Refresh
  <2> QED BY <1>1, <1>2, <2>1, <2>2, RefreshView, PassedKept, ReopenStep DEF GatesStep
<1>13. CASE BindProject(t)
  <2>1. p \in Project
    BY <1>3, <1>13 DEF BindProject
  <2>2. GiveUp(t) \/ (UNCHANGED answers /\ \E u \in User : BindActiveProject(u, p))
    BY <1>13 DEF BindProject
  <2> QED BY <1>1, <1>2, <2>1, <2>2, SessionView, PassedKept, Stutter DEF GatesStep
<1>14. CASE DeleteListed(t)
  <2>1. p \in Project
    BY <1>3, <1>14 DEF DeleteListed
  <2>2. UNCHANGED answers /\ DeleteRows(p, r.listed)
    BY <1>14 DEF DeleteListed
  <2> QED BY <1>1, <2>1, <2>2, DeleteRowsView, PassedKept, WithdrawStep DEF GatesStep
<1> QED BY <1>4, <1>5, <1>6, <1>7, <1>8, <1>9, <1>10, <1>11, <1>12, <1>13, <1>14 DEF Proceed

LEMMA NextView ==
  ASSUME Typed, Owned, Behind, [Next]_vars
  PROVE  GatesStep
<1>1. ASSUME NEW p \in Project, CreateProject(p) PROVE GatesStep
  BY <1>1, InsertProjectView, PassedKept, Stutter DEF CreateProject, Typed, Owned, GatesStep
<1>2. ASSUME NEW u \in User, SessionCommand(u) PROVE GatesStep
  <2>1. UNCHANGED answers
    BY <1>2 DEF SessionCommand
  <2> QED BY <1>2, <2>1, SessionView, PassedKept, Stutter DEF Typed, GatesStep
<1>3. CASE Restart \/ UNCHANGED vars
  BY <1>3, LocalView DEF Restart, vars, store
<1> QED BY <1>1, <1>2, <1>3, ArriveView, ProceedView DEF Next

LEMMA InitView == Init => Gates!Init
<1> SUFFICES ASSUME Init PROVE Gates!Init
  OBVIOUS
<1>1. \A p \in Project : OpenGates(p) = {}
  BY DEF Init, StoreInit, OpenGates, Live
<1>2. \A p \in Project : Passed(p) = {}
  BY DEF Init, Passed, PassedIn
<1>3. \A p \in Project : Finished(p) = FALSE
  BY DEF Init, StoreInit, Finished, Live
<1> QED BY <1>1, <1>2, <1>3 DEF Gates!Init

\* The service implements the abstract gates: every step of a request is a step
\* of ApprovalGates, or one it does not see.
THEOREM ImplementsGatesHolds == Spec => ImplementsGates
<1>1. Init => Typed /\ Owned /\ Behind
  BY InitTyped, InitOwned, InitBehind
<1>2. Typed /\ Owned /\ Behind /\ [Next]_vars => (Typed /\ Owned /\ Behind)'
  BY TypedStep, OwnedStep, BehindStep
<1>3. Typed /\ Owned /\ Behind /\ [Next]_vars => [Gates!Next]_Gates!gates
  BY NextView DEF GatesStep
<1> QED BY <1>1, <1>2, <1>3, InitView, PTL DEF Spec, ImplementsGates, Gates!Spec

-----------------------------------------------------------------------------
(* The version of a project is a sound optimistic token.  The property is  *)
(* inductive once it says that a version a request holds is no newer than  *)
(* the row it was read from, and that the row was there.                   *)

Versioned == Tokens /\ VersionToken

\* What the methods of the manager keep: a project that is there stays made,
\* its version grows, and it grows whenever its status or checkpoint changes.
VersionsKept ==
  \A p \in Project : projects[p].life # "unborn" =>
    /\ projects'[p].life # "unborn"
    /\ projects'[p].version \in Nat
    /\ projects[p].version <= projects'[p].version
    /\ projects'[p].version = projects[p].version =>
         /\ projects'[p].status = projects[p].status
         /\ projects'[p].current = projects[p].current

LEMMA SameProjectsVersions ==
  ASSUME StoreTypeOK, UNCHANGED projects
  PROVE  VersionsKept
  BY DEF StoreTypeOK, ProjectRow, VersionsKept

LEMMA InsertProjectVersions ==
  ASSUME StoreTypeOK, NEW p \in Project, NEW o \in User \cup {Null}, InsertProject(p, o)
  PROVE  VersionsKept
  BY DEF StoreTypeOK, ProjectRow, InsertProject, VersionsKept

LEMMA CreateCheckpointVersions ==
  ASSUME StoreTypeOK, NEW p \in Project, NEW c \in Checkpoint, NEW type \in CheckpointType,
         CreateCheckpoint(p, c, type)
  PROVE  VersionsKept
  BY DEF StoreTypeOK, ProjectRow, CreateCheckpoint, VersionsKept

LEMMA FlowStateVersions ==
  ASSUME StoreTypeOK, NEW p \in Project, NEW status, NEW c, UpdateProjectFlowState(p, status, c)
  PROVE  VersionsKept
  BY DEF StoreTypeOK, ProjectRow, UpdateProjectFlowState, VersionsKept

LEMMA RefreshVersions ==
  ASSUME StoreTypeOK, NEW p \in Project, RefreshActiveProjectRequirement(p)
  PROVE  VersionsKept
  BY DEF StoreTypeOK, ProjectRow, RefreshActiveProjectRequirement, VersionsKept

LEMMA DeleteRowsVersions ==
  ASSUME StoreTypeOK, NEW p \in Project, NEW listed, DeleteRows(p, listed)
  PROVE  VersionsKept
  BY DEF StoreTypeOK, ProjectRow, DeleteRows, VersionsKept

LEMMA SessionVersions ==
  ASSUME StoreTypeOK, NEW u \in User,
         \/ SessionCommand(u)
         \/ \E p \in Project : BindActiveProject(u, p)
  PROVE  VersionsKept
  BY DEF StoreTypeOK, ProjectRow, SessionCommand, ResetChatSession, BindActiveProject,
     SwitchActiveProject, VersionsKept

\* A step of t to a label where it holds no version, or one it has just read.
LEMMA VersionedMove ==
  ASSUME Typed, Versioned, VersionsKept, NEW t \in Thread, NEW label, NEW r,
         label = "check" =>
           /\ projects'[r.project].life # "unborn"
           /\ r.version = projects'[r.project].version
           /\ projects'[r.project].version \in Nat
           /\ r.shown.status = projects'[r.project].status
           /\ r.shown.current = projects'[r.project].current,
         Goto(t, label, r)
  PROVE  Versioned'
<1>1. ASSUME NEW x \in Thread, pc'[x] = "check"
      PROVE  LET q == req'[x].project IN
             /\ projects'[q].life # "unborn"
             /\ req'[x].version <= projects'[q].version
             /\ projects'[q].version = req'[x].version =>
                  /\ projects'[q].status = req'[x].shown.status
                  /\ projects'[q].current = req'[x].shown.current
  <2>1. CASE x = t
    BY <1>1, <2>1 DEF Goto, Typed, ThreadsTyped
  <2>2. CASE x # t
    <3>1. pc'[x] = pc[x] /\ req'[x] = req[x]
      BY <2>2 DEF Goto, Typed, ThreadsTyped
    <3>2. req[x].project \in Project /\ req[x].version \in Nat
      BY <1>1, <3>1 DEF Typed, ThreadsTyped, WellFormed, Request
    <3>3. \A q \in Project : projects[q].version \in Nat
      BY DEF Typed, StoreTypeOK, ProjectRow
    <3> DEFINE q == req[x].project
    <3>4. /\ projects[q].life # "unborn"
          /\ req[x].version <= projects[q].version
          /\ projects[q].version = req[x].version =>
               /\ projects[q].status = req[x].shown.status
               /\ projects[q].current = req[x].shown.current
      BY <1>1, <3>1 DEF Versioned, Tokens, VersionToken
    <3>5. /\ projects'[q].life # "unborn"
          /\ projects'[q].version \in Nat
          /\ projects[q].version <= projects'[q].version
          /\ projects'[q].version = projects[q].version =>
               /\ projects'[q].status = projects[q].status
               /\ projects'[q].current = projects[q].current
      BY <3>2, <3>4 DEF VersionsKept
    <3>6. projects[q].version \in Nat
      BY <3>2, <3>3
    <3> QED BY <3>1, <3>2, <3>4, <3>5, <3>6
  <2> QED BY <2>1, <2>2
<1> QED BY <1>1 DEF Versioned, Tokens, VersionToken

LEMMA VersionedStill ==
  ASSUME Typed, Versioned, VersionsKept, UNCHANGED <<pc, req>>
  PROVE  Versioned'
<1>1. ASSUME NEW x \in Thread, pc[x] = "check"
      PROVE  LET q == req[x].project IN
             /\ projects'[q].life # "unborn"
             /\ req[x].version <= projects'[q].version
             /\ projects'[q].version = req[x].version =>
                  /\ projects'[q].status = req[x].shown.status
                  /\ projects'[q].current = req[x].shown.current
  <2> DEFINE q == req[x].project
  <2>1. q \in Project /\ req[x].version \in Nat
    BY <1>1 DEF Typed, ThreadsTyped, WellFormed, Request
  <2>2. projects[q].version \in Nat
    BY <2>1 DEF Typed, StoreTypeOK, ProjectRow
  <2>3. /\ projects[q].life # "unborn"
        /\ req[x].version <= projects[q].version
        /\ projects[q].version = req[x].version =>
             /\ projects[q].status = req[x].shown.status
             /\ projects[q].current = req[x].shown.current
    BY <1>1 DEF Versioned, Tokens, VersionToken
  <2>4. /\ projects'[q].life # "unborn"
        /\ projects'[q].version \in Nat
        /\ projects[q].version <= projects'[q].version
        /\ projects'[q].version = projects[q].version =>
             /\ projects'[q].status = projects[q].status
             /\ projects'[q].current = projects[q].current
    BY <2>1, <2>3 DEF VersionsKept
  <2> QED BY <2>1, <2>2, <2>3, <2>4
<1> QED BY <1>1 DEF Versioned, Tokens, VersionToken

\* A request starts to hold a version when it reads it with the row.
LEMMA SubmitFeedbackVersioned ==
  ASSUME Typed, Versioned, NEW t \in Thread, NEW p \in Project, SubmitFeedback(t, p)
  PROVE  Versioned'
<1> DEFINE r == [NoRequest EXCEPT
       !.project = p, !.version = projects[p].version,
       !.shown = [status |-> projects[p].status, current |-> projects[p].current]]
<1>1. /\ r.project = p /\ r.version = projects[p].version
      /\ r.shown.status = projects[p].status /\ r.shown.current = projects[p].current
  BY DEF NoRequest
<1>2. /\ Goto(t, "check", r) /\ UNCHANGED projects
      /\ projects[p].life # "unborn" /\ projects[p].version \in Nat
  BY DEF SubmitFeedback, Accepts, Live, store, Typed, StoreTypeOK, ProjectRow
<1> HIDE DEF r
<1> QED BY <1>1, <1>2, SameProjectsVersions, VersionedMove DEF Typed

LEMMA ApproveCurrentVersioned ==
  ASSUME Typed, Versioned, NEW t \in Thread, req[t].project \in Project, ApproveCurrent(t)
  PROVE  Versioned'
<1> DEFINE p == req[t].project
           c == projects[p].current
           r == [NoRequest EXCEPT
                  !.project = p, !.cp = c, !.type = checkpoints[c].type,
                  !.action = "approve", !.version = projects[p].version,
                  !.shown = [status |-> projects[p].status, current |-> c]]
<1>1. /\ r.project = p /\ r.version = projects[p].version
      /\ r.shown.status = projects[p].status /\ r.shown.current = c
  BY DEF NoRequest
<1>2. /\ Goto(t, "check", r) /\ UNCHANGED projects
      /\ projects[p].life # "unborn" /\ projects[p].version \in Nat
  BY DEF ApproveCurrent, Live, store, Typed, StoreTypeOK, ProjectRow
<1> HIDE DEF r
<1> QED BY <1>1, <1>2, SameProjectsVersions, VersionedMove DEF Typed

LEMMA ArriveVersioned ==
  ASSUME Typed, Versioned, NEW t \in Thread, Arrive(t)
  PROVE  Versioned'
<1>1. ASSUME VersionsKept, NEW r,
             NEW label \in {"bind", "discovery", "stage", "refresh", "delete"},
             Goto(t, label, r)
      PROVE  Versioned'
  BY <1>1, VersionedMove
<1>2. ASSUME UNCHANGED store PROVE VersionsKept
  BY <1>2, SameProjectsVersions DEF Typed, store
<1>3. ASSUME NEW p \in Project, RunProject(t, p) PROVE Versioned'
  BY <1>1, <1>2, <1>3 DEF RunProject
<1>4. ASSUME NEW p \in Project, DeleteProject(t, p) PROVE Versioned'
  <2>1. UNCHANGED store /\ \E r : Goto(t, "delete", r)
    BY <1>4 DEF DeleteProject
  <2> QED BY <1>1, <1>2, <2>1
<1>5. ASSUME NEW p \in Project, StageFollowUp(t, p) PROVE Versioned'
  <2>1. UNCHANGED store /\ \E r : Goto(t, "stage", r)
    BY <1>5 DEF StageFollowUp
  <2> QED BY <1>1, <1>2, <2>1
<1>6. ASSUME NEW p \in Project, RefreshDraft(t, p) PROVE Versioned'
  <2>1. UNCHANGED store /\ \E r : Goto(t, "refresh", r)
    BY <1>6 DEF RefreshDraft
  <2> QED BY <1>1, <1>2, <2>1
<1>7. ASSUME NEW u \in User, NEW p \in Project, ChatStartsProject(t, u, p) PROVE Versioned'
  BY <1>1, <1>7, InsertProjectVersions DEF ChatStartsProject, Typed
<1> QED BY <1>3, <1>4, <1>5, <1>6, <1>7, SubmitFeedbackVersioned DEF Arrive

\* Every step a request takes by itself keeps the versions of the projects.
LEMMA ProceedVersions ==
  ASSUME Typed, NEW t \in Thread, Proceed(t) \/ RunTests(t)
  PROVE  VersionsKept
<1>1. StoreTypeOK
  BY DEF Typed
<1>2. ASSUME UNCHANGED projects PROVE VersionsKept
  BY <1>1, <1>2, SameProjectsVersions
<1>3. req[t].project \in Project \/ pc[t] = "idle"
  BY AtWork
<1>4. CASE \/ DiscoveryReads(t) \/ DiscoveryRuns(t) \/ CheckFeedback(t) \/ ReadSnapshot(t)
           \/ SyncReads(t) \/ StageCheckpoint(t) \/ RequirementTurn(t) \/ PlanTurn(t)
           \/ PlanRevise(t) \/ ReviseStatus(t) \/ RunTests(t)
  BY <1>2, <1>4 DEF DiscoveryReads, DiscoveryRuns, CheckFeedback, ReadSnapshot, SyncReads,
     StageCheckpoint, RequirementTurn, PlanTurn, PlanRevise, ReviseStatus, RunTests,
     ApproveCurrent, GiveUp, store
<1>5. CASE Dispatch(t)
  BY <1>2, <1>5 DEF Dispatch, Handle, RequirementFeedback, PlanFeedback, CodeFeedback,
     FinalFeedback, PersistCodeFiles, GiveUp, store
<1>6. CASE \/ Debug(t) \/ ResolveAnswered(t) \/ SyncWrites(t) \/ ReviseResolve(t)
           \/ RemoveTree(t)
  BY <1>2, <1>6 DEF Debug, ResolveAnswered, SyncWrites, ReviseResolve, RemoveTree,
     PersistCodeFiles, ResolveCheckpoint, WriteProjectMemory, RemoveProjectRoot, GiveUp, store
<1>7. CASE RequirementCheckpoint(t)
  <2>1. GiveUp(t) \/ \E c \in Checkpoint :
          CreateCheckpoint(req[t].project, c, "requirement_review")
    BY <1>7 DEF RequirementCheckpoint
  <2>2. req[t].project \in Project /\ "requirement_review" \in CheckpointType
    BY <1>3, <1>7 DEF RequirementCheckpoint, CheckpointType
  <2> QED BY <1>1, <1>2, <2>1, <2>2, CreateCheckpointVersions DEF GiveUp, store
<1>8. CASE NextCheckpoint(t)
  <2>1. GiveUp(t) \/ \E c \in Checkpoint, type \in CheckpointType :
          CreateCheckpoint(req[t].project, c, type)
    BY <1>8 DEF NextCheckpoint
  <2>2. req[t].project \in Project
    BY <1>3, <1>8 DEF NextCheckpoint
  <2> QED BY <1>1, <1>2, <2>1, <2>2, CreateCheckpointVersions DEF GiveUp, store
<1>9. CASE ReviseCreate(t)
  <2>1. GiveUp(t) \/ \E c \in Checkpoint : CreateCheckpoint(req[t].project, c, "plan_review")
    BY <1>9 DEF ReviseCreate
  <2>2. req[t].project \in Project /\ "plan_review" \in CheckpointType
    BY <1>3, <1>9 DEF ReviseCreate, CheckpointType
  <2> QED BY <1>1, <1>2, <2>1, <2>2, CreateCheckpointVersions DEF GiveUp, store
<1>10. CASE FlowState(t)
  <2>1. GiveUp(t) \/ UpdateProjectFlowState(req[t].project, req[t].outcome, req[t].next)
    BY <1>10 DEF FlowState
  <2>2. req[t].project \in Project
    BY <1>3, <1>10 DEF FlowState
  <2> QED BY <1>1, <1>2, <2>1, <2>2, FlowStateVersions DEF GiveUp, store
<1>11. CASE TurnRefresh(t) \/ Refresh(t)
  <2>1. GiveUp(t) \/ RefreshActiveProjectRequirement(req[t].project)
    BY <1>11 DEF TurnRefresh, Refresh
  <2>2. req[t].project \in Project
    BY <1>3, <1>11 DEF TurnRefresh, Refresh
  <2> QED BY <1>1, <1>2, <2>1, <2>2, RefreshVersions DEF GiveUp, store
<1>12. CASE BindProject(t)
  <2>1. GiveUp(t) \/ \E u \in User : BindActiveProject(u, req[t].project)
    BY <1>12 DEF BindProject
  <2>2. req[t].project \in Project
    BY <1>3, <1>12 DEF BindProject
  <2> QED BY <1>1, <1>2, <2>1, <2>2, SessionVersions DEF GiveUp, store
<1>13. CASE DeleteListed(t)
  <2>1. req[t].project \in Project /\ DeleteRows(req[t].project, req[t].listed)
    BY <1>3, <1>13 DEF DeleteListed
  <2> QED BY <1>1, <2>1, DeleteRowsVersions
<1> QED BY <1>4, <1>5, <1>6, <1>7, <1>8, <1>9, <1>10, <1>11, <1>12, <1>13 DEF Proceed

\* Where a step leads: never to "check", an approving chat turn apart.
LEMMA ProceedLabels ==
  ASSUME NEW t \in Thread, Proceed(t) \/ RunTests(t)
  PROVE  \/ ApproveCurrent(t) /\ pc[t] # "idle"
         \/ \E label \in Pc \ {"check"} : \E r : Goto(t, label, r)
<1> USE PcLabels DEF Finish, GiveUp
<1>1. ASSUME \E label \in {"idle", "invoke", "requirement_create", "flow", "snapshot", "dispatch",
                    "test", "debug", "create", "resolve", "sync", "write_memory"} : \E r :
               Goto(t, label, r)
      PROVE  \E label \in Pc \ {"check"} : \E r : Goto(t, label, r)
  BY <1>1
<1>2. ASSUME \E label \in {"idle", "requirement_turn", "plan_turn", "turn_refresh", "discovery",
                    "plan_revise", "revise_resolve", "revise_create", "revise_status",
                    "sync", "rmtree"} : \E r :
               Goto(t, label, r)
      PROVE  \E label \in Pc \ {"check"} : \E r : Goto(t, label, r)
  BY <1>2
<1>3. CASE DiscoveryReads(t) \/ DiscoveryRuns(t) \/ RequirementCheckpoint(t)
  BY <1>1, <1>3 DEF DiscoveryReads, DiscoveryRuns, RequirementCheckpoint
<1>4. CASE CheckFeedback(t) \/ ReadSnapshot(t)
  BY <1>1, <1>4 DEF CheckFeedback, ReadSnapshot
<1>5. CASE Dispatch(t)
  BY <1>1, <1>5 DEF Dispatch, Handle, RequirementFeedback, PlanFeedback, CodeFeedback,
     FinalFeedback, Outcome
<1>6. CASE RunTests(t) \/ Debug(t)
  BY <1>1, <1>6 DEF RunTests, Debug, Outcome
<1>7. CASE NextCheckpoint(t) \/ ResolveAnswered(t) \/ FlowState(t)
  BY <1>1, <1>7 DEF NextCheckpoint, ResolveAnswered, FlowState
<1>8. CASE SyncReads(t) \/ SyncWrites(t)
  BY <1>1, <1>8 DEF SyncReads, SyncWrites
<1>9. CASE \/ StageCheckpoint(t) \/ TurnRefresh(t) \/ Refresh(t) \/ DeleteListed(t)
           \/ RemoveTree(t) \/ BindProject(t)
  BY <1>2, <1>9 DEF StageCheckpoint, TurnRefresh, Refresh, DeleteListed, RemoveTree,
     BindProject
<1>10. CASE RequirementTurn(t) \/ PlanTurn(t)
  BY <1>2, <1>10 DEF RequirementTurn, PlanTurn
<1>11. CASE PlanRevise(t) \/ ReviseResolve(t) \/ ReviseCreate(t) \/ ReviseStatus(t)
  BY <1>2, <1>11 DEF PlanRevise, ReviseResolve, ReviseCreate, ReviseStatus
<1> QED BY <1>3, <1>4, <1>5, <1>6, <1>7, <1>8, <1>9, <1>10, <1>11 DEF Proceed

LEMMA VersionedStep == Typed /\ Versioned /\ [Next]_vars => Versioned'
<1> SUFFICES ASSUME Typed, Versioned, [Next]_vars PROVE Versioned'
  OBVIOUS
<1>1. ASSUME NEW p \in Project, CreateProject(p) PROVE Versioned'
  BY <1>1, InsertProjectVersions, VersionedStill DEF Typed, CreateProject
<1>2. ASSUME NEW u \in User, SessionCommand(u) PROVE Versioned'
  <2>1. UNCHANGED <<pc, req>>
    BY <1>2 DEF SessionCommand
  <2> QED BY <1>2, <2>1, SessionVersions, VersionedStill DEF Typed
<1>3. ASSUME NEW t \in Thread, Arrive(t) PROVE Versioned'
  BY <1>3, ArriveVersioned
<1>4. ASSUME NEW t \in Thread, Proceed(t) \/ RunTests(t) PROVE Versioned'
  <2>1. CASE ApproveCurrent(t) /\ pc[t] # "idle"
    BY <2>1, AtWork, ApproveCurrentVersioned
  <2>2. CASE \E label \in Pc \ {"check"} : \E r : Goto(t, label, r)
    BY <1>4, <2>2, ProceedVersions, VersionedMove
  <2> QED BY <1>4, <2>1, <2>2, ProceedLabels
<1>5. CASE Restart
  BY <1>5 DEF Restart, Versioned, Tokens, VersionToken
<1>6. CASE UNCHANGED vars
  BY <1>6, SameProjectsVersions, VersionedStill DEF vars, store, Typed
<1> QED BY <1>1, <1>2, <1>3, <1>4, <1>5, <1>6 DEF Next

\* If a project still has the version its card had when the human answered, it
\* still shows what the card showed: the check of apply_feedback is enough to
\* refuse every answer to a card that is out of date at that moment, as long as
\* methods of the manager do not overlap inside (VersionNamesOneStateHolds).
THEOREM VersionTokenHolds == Spec => []VersionToken
<1>1. Init => Typed /\ Versioned
  BY InitTyped DEF Init, Versioned, Tokens, VersionToken
<1>2. Typed /\ Versioned /\ [Next]_vars => (Typed /\ Versioned)'
  BY TypedStep, VersionedStep
<1>3. Versioned => VersionToken
  BY DEF Versioned
<1> QED BY <1>1, <1>2, <1>3, PTL DEF Spec

\* All that the rows, the graph states and the requests in flight rely on,
\* taken together: the invariant that is inductive, of requests whose calls to
\* the manager are one step each, a delete's apart.
THEOREM InductiveInvariantHolds == Spec => []IInv
<1>1. Init => Typed /\ Owned /\ Behind /\ Versioned
  <2>1. Init => Versioned
    BY DEF Init, Versioned, Tokens, VersionToken
  <2> QED BY <2>1, InitTyped, InitOwned, InitBehind
<1>2. Typed /\ Owned /\ Behind /\ Versioned /\ [Next]_vars
        => (Typed /\ Owned /\ Behind /\ Versioned)'
  BY TypedStep, OwnedStep, BehindStep, VersionedStep
<1>3. Typed /\ Owned /\ Behind /\ Versioned => IInv
  BY DEF IInv, Typed, TypeOK, ThreadsTyped, Owned, Behind, Versioned
<1> QED BY <1>1, <1>2, <1>3, PTL DEF Spec
=============================================================================
