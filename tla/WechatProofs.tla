----------------------------- MODULE WechatProofs -----------------------------
(***************************************************************************)
(* Chat messages implement the requests of the workflow, and users keep    *)
(* apart.  The two are proved together: a switch is a request the workflow *)
(* knows only because the project a message was resolved to is its user's. *)
(***************************************************************************)
EXTENDS WechatMessageService, WorkflowGateProofs, WorkflowTurnProofs

-----------------------------------------------------------------------------
(* What a step of the workflow does to owners and sessions                 *)

\* A project nobody has made has no owner.
Unborn == \A p \in Project : projects[p].life = "unborn" => projects[p].owner = Null

\* An owner is for good, and a session that is set is set to a project of its user.
Apart ==
  /\ Unborn'
  /\ \A p \in Project : projects[p].owner # Null => projects'[p].owner = projects[p].owner
  /\ \A u \in User : sessions'[u] # Null =>
       sessions'[u] = sessions[u] \/ projects'[sessions'[u]].owner = u

LEMMA SameApart ==
  ASSUME Unborn, UNCHANGED <<projects, sessions>>
  PROVE  Apart
  BY DEF Unborn, Apart

LEMMA InsertProjectApart ==
  ASSUME StoreTypeOK, Unborn, NEW p \in Project, NEW o, InsertProject(p, o)
  PROVE  Apart
  BY DEF StoreTypeOK, ProjectRow, InsertProject, Unborn, Apart

LEMMA CreateCheckpointApart ==
  ASSUME StoreTypeOK, Unborn, NEW p \in Project, NEW c, NEW type, CreateCheckpoint(p, c, type)
  PROVE  Apart
  BY DEF StoreTypeOK, ProjectRow, CreateCheckpoint, Unborn, Apart

LEMMA FlowStateApart ==
  ASSUME StoreTypeOK, Unborn, NEW p \in Project, NEW status, NEW c,
         UpdateProjectFlowState(p, status, c)
  PROVE  Apart
  BY DEF StoreTypeOK, ProjectRow, UpdateProjectFlowState, Unbound, Unborn, Apart

LEMMA RefreshApart ==
  ASSUME StoreTypeOK, Unborn, NEW p \in Project, RefreshActiveProjectRequirement(p)
  PROVE  Apart
  BY DEF StoreTypeOK, ProjectRow, RefreshActiveProjectRequirement, Unborn, Apart

LEMMA DeleteRowsApart ==
  ASSUME StoreTypeOK, Unborn, NEW p \in Project, NEW listed, DeleteRows(p, listed)
  PROVE  Apart
  BY DEF StoreTypeOK, ProjectRow, DeleteRows, Unbound, Unborn, Live, Apart

LEMMA SessionApart ==
  ASSUME StoreTypeOK, Unborn, NEW u \in User,
         \/ ResetChatSession(u)
         \/ \E p \in Project :
              projects[p].owner = u /\ (BindActiveProject(u, p) \/ SwitchActiveProject(u, p))
  PROVE  Apart
<1>1. CASE ResetChatSession(u)
  BY <1>1 DEF StoreTypeOK, ResetChatSession, Unborn, Apart
<1>2. ASSUME NEW p \in Project, projects[p].owner = u, BindActiveProject(u, p)
      PROVE  Apart
  BY <1>2, NullIsNothing DEF StoreTypeOK, ProjectRow, BindActiveProject, Unborn, Apart
<1>3. ASSUME NEW p \in Project, projects[p].owner = u, SwitchActiveProject(u, p)
      PROVE  Apart
  BY <1>3, NullIsNothing DEF StoreTypeOK, ProjectRow, SwitchActiveProject, Live, Unborn, Apart
<1> QED BY <1>1, <1>2, <1>3

\* What a request that goes on by itself may do to projects and sessions.
ProceedWrites(t) ==
  LET p == req[t].project IN
  \/ UNCHANGED <<projects, sessions>>
  \/ /\ p \in Project
     /\ \/ \E c, type : CreateCheckpoint(p, c, type)
        \/ \E status, c : UpdateProjectFlowState(p, status, c)
        \/ RefreshActiveProjectRequirement(p)
        \/ /\ pc[t] = "delete"
           /\ \E listed : DeleteRows(p, listed)
        \/ /\ pc[t] = "bind"
           /\ \E u \in User : projects[p].owner = u /\ BindActiveProject(u, p)

LEMMA ProceedStore ==
  ASSUME Typed, NEW t \in Thread, Proceed(t) \/ RunTests(t)
  PROVE  ProceedWrites(t)
<1>1. ASSUME UNCHANGED <<projects, sessions>> PROVE ProceedWrites(t)
  BY <1>1 DEF ProceedWrites
<1>2. req[t].project \in Project \/ pc[t] = "idle"
  BY AtWork
<1>3. CASE \/ DiscoveryReads(t) \/ DiscoveryRuns(t) \/ CheckFeedback(t) \/ ReadSnapshot(t)
           \/ SyncReads(t) \/ StageCheckpoint(t) \/ RequirementTurn(t) \/ PlanTurn(t)
           \/ PlanRevise(t) \/ ReviseStatus(t) \/ RunTests(t)
  BY <1>1, <1>3 DEF DiscoveryReads, DiscoveryRuns, CheckFeedback, ReadSnapshot, SyncReads,
     StageCheckpoint, RequirementTurn, PlanTurn, PlanRevise, ReviseStatus, RunTests,
     ApproveCurrent, GiveUp, store
<1>4. CASE Dispatch(t)
  BY <1>1, <1>4 DEF Dispatch, Handle, RequirementFeedback, PlanFeedback, CodeFeedback,
     FinalFeedback, PersistCodeFiles, GiveUp, store
<1>5. CASE \/ Debug(t) \/ ResolveAnswered(t) \/ SyncWrites(t) \/ ReviseResolve(t)
           \/ RemoveTree(t)
  BY <1>1, <1>5 DEF Debug, ResolveAnswered, SyncWrites, ReviseResolve, RemoveTree,
     PersistCodeFiles, ResolveCheckpoint, WriteProjectMemory, RemoveProjectRoot, GiveUp, store
<1>6. CASE RequirementCheckpoint(t) \/ NextCheckpoint(t) \/ ReviseCreate(t)
  <2>1. GiveUp(t) \/ \E c, type : CreateCheckpoint(req[t].project, c, type)
    BY <1>6 DEF RequirementCheckpoint, NextCheckpoint, ReviseCreate
  <2>2. req[t].project \in Project
    BY <1>2, <1>6 DEF RequirementCheckpoint, NextCheckpoint, ReviseCreate
  <2> QED BY <1>1, <2>1, <2>2 DEF GiveUp, store, ProceedWrites
<1>7. CASE FlowState(t)
  <2>1. GiveUp(t) \/ UpdateProjectFlowState(req[t].project, req[t].outcome, req[t].next)
    BY <1>7 DEF FlowState
  <2>2. req[t].project \in Project
    BY <1>2, <1>7 DEF FlowState
  <2> QED BY <1>1, <2>1, <2>2 DEF GiveUp, store, ProceedWrites
<1>8. CASE TurnRefresh(t) \/ Refresh(t)
  <2>1. GiveUp(t) \/ RefreshActiveProjectRequirement(req[t].project)
    BY <1>8 DEF TurnRefresh, Refresh
  <2>2. req[t].project \in Project
    BY <1>2, <1>8 DEF TurnRefresh, Refresh
  <2> QED BY <1>1, <2>1, <2>2 DEF GiveUp, store, ProceedWrites
<1>9. CASE BindProject(t)
  <2>1. GiveUp(t) \/ \E u \in User :
          projects[req[t].project].owner = u /\ BindActiveProject(u, req[t].project)
    BY <1>9 DEF BindProject
  <2>2. req[t].project \in Project /\ pc[t] = "bind"
    BY <1>2, <1>9 DEF BindProject
  <2> QED BY <1>1, <2>1, <2>2 DEF GiveUp, store, ProceedWrites
<1>10. CASE DeleteListed(t)
  BY <1>2, <1>10 DEF DeleteListed, ProceedWrites
<1> QED BY <1>3, <1>4, <1>5, <1>6, <1>7, <1>8, <1>9, <1>10 DEF Proceed

LEMMA ProceedApart ==
  ASSUME Typed, Unborn, NEW t \in Thread, Proceed(t) \/ RunTests(t)
  PROVE  Apart
<1>1. StoreTypeOK
  BY DEF Typed
<1> QED BY <1>1, ProceedStore, SameApart, CreateCheckpointApart, FlowStateApart, RefreshApart,
        DeleteRowsApart, SessionApart DEF ProceedWrites

\* A request stays about the project it came for, until it ends, and neither
\* starts it a second time nor goes on to delete it.
StaysAbout(t) ==
  \E label, r :
    /\ Goto(t, label, r)
    /\ label = "idle" \/ r.project = req[t].project
    /\ label # "bind" /\ label # "delete"

LEMMA AboutMove ==
  ASSUME NEW t \in Thread, NEW label, NEW r, r.project = req[t].project, Goto(t, label, r),
         label # "bind", label # "delete"
  PROVE  StaysAbout(t)
  BY DEF StaysAbout

LEMMA AboutEnds ==
  ASSUME NEW t \in Thread, Finish(t)
  PROVE  StaysAbout(t)
  BY DEF StaysAbout, Finish

LEMMA ProceedAbout ==
  ASSUME Typed, NEW t \in Thread, Proceed(t) \/ RunTests(t)
  PROVE  StaysAbout(t)
<1>1. req[t] \in Request
  BY DEF Typed, ThreadsTyped
<1> USE <1>1, AboutMove, AboutEnds DEF Request, NoRequest, GiveUp
<1>2. CASE BindProject(t) \/ DiscoveryReads(t) \/ DiscoveryRuns(t)
  BY <1>2 DEF BindProject, DiscoveryReads, DiscoveryRuns
<1>3. CASE RequirementCheckpoint(t) \/ NextCheckpoint(t)
  BY <1>3 DEF RequirementCheckpoint, NextCheckpoint
<1>4. CASE CheckFeedback(t) \/ ReadSnapshot(t)
  BY <1>4 DEF CheckFeedback, ReadSnapshot
<1>5. CASE Dispatch(t)
  BY <1>5 DEF Dispatch, Handle, RequirementFeedback, PlanFeedback, CodeFeedback,
     FinalFeedback, Outcome
<1>6. CASE RunTests(t) \/ Debug(t)
  BY <1>6 DEF RunTests, Debug, Outcome
<1>7. CASE ResolveAnswered(t) \/ FlowState(t)
  BY <1>7 DEF ResolveAnswered, FlowState
<1>8. CASE SyncReads(t) \/ SyncWrites(t)
  BY <1>8 DEF SyncReads, SyncWrites
<1>9. CASE \/ StageCheckpoint(t) \/ TurnRefresh(t) \/ Refresh(t) \/ DeleteListed(t)
           \/ RemoveTree(t)
  BY <1>9 DEF StageCheckpoint, TurnRefresh, Refresh, DeleteListed, RemoveTree
<1>10. CASE RequirementTurn(t) \/ PlanTurn(t)
  BY <1>10 DEF RequirementTurn, PlanTurn, ApproveCurrent
<1>11. CASE PlanRevise(t) \/ ReviseResolve(t) \/ ReviseCreate(t) \/ ReviseStatus(t)
  BY <1>11 DEF PlanRevise, ReviseResolve, ReviseCreate, ReviseStatus
<1> QED BY <1>2, <1>3, <1>4, <1>5, <1>6, <1>7, <1>8, <1>9, <1>10, <1>11 DEF Proceed

-----------------------------------------------------------------------------
(* Messages                                                                *)

\* What handle_message has at hand where it is.
Handled(m) ==
  /\ m.at = "none" => m.user = Null
  /\ m.at # "none" => m.user \in User
  /\ m.at \in {"switch", "delete"} => m.project \in Project
  /\ m.at = "redrafting" => m.active \in Project

Messages == msg \in [Thread -> Message] /\ \A t \in Thread : Handled(msg[t])

ChatInv == Typed /\ Unborn /\ Messages /\ UsersKeepApart

\* What thread t is at work on is its user's: the message and the request.
ThreadApart(t) ==
  msg[t].user # Null =>
    /\ msg[t].active # Null => projects[msg[t].active].owner = msg[t].user
    /\ msg[t].project # Null => projects[msg[t].project].owner = msg[t].user
    /\ pc[t] # "idle" => projects[req[t].project].owner = msg[t].user

LEMMA NoMessageHandled == NoMessage \in Message /\ Handled(NoMessage)
  BY DEF NoMessage, Message, Place, Handled

LEMMA OwnerStays ==
  ASSUME Typed, Apart, NEW u \in User, NEW p \in Project, projects[p].owner = u
  PROVE  projects'[p].owner = u
  BY NullIsNothing DEF Apart

\* A session that is set is its user's after the step, too.
LEMMA SessionsStay ==
  ASSUME ChatInv, Apart, NEW u \in User, sessions'[u] # Null
  PROVE  projects'[sessions'[u]].owner = u
<1>1. CASE sessions'[u] = sessions[u]
  <2>1. sessions[u] \in Project /\ projects[sessions[u]].owner = u
    BY <1>1 DEF ChatInv, UsersKeepApart, Typed, StoreTypeOK
  <2> QED BY <1>1, <2>1, OwnerStays DEF ChatInv
<1> QED BY <1>1 DEF Apart

\* A thread that takes no step keeps what it has.
LEMMA ThreadStays ==
  ASSUME ChatInv, Apart, NEW x \in Thread,
         msg'[x] = msg[x], pc'[x] = pc[x], req'[x] = req[x]
  PROVE  ThreadApart(x)'
<1>1. msg[x] \in Message /\ (pc[x] # "idle" => req[x].project \in Project)
  BY AtWork DEF ChatInv, Messages
<1>2. CASE msg[x].user # Null
  <2>1. /\ msg[x].user \in User
        /\ msg[x].active # Null =>
             msg[x].active \in Project /\ projects[msg[x].active].owner = msg[x].user
        /\ msg[x].project # Null =>
             msg[x].project \in Project /\ projects[msg[x].project].owner = msg[x].user
        /\ pc[x] # "idle" => projects[req[x].project].owner = msg[x].user
    BY <1>1, <1>2 DEF Message, ChatInv, UsersKeepApart
  <2> QED BY <1>1, <2>1, OwnerStays DEF ChatInv, ThreadApart
<1> QED BY <1>2 DEF ThreadApart

\* A step of thread t: the other threads keep what they have.
LEMMA KeepApart ==
  ASSUME ChatInv, Typed', Apart, NEW t \in Thread, NEW m \in Message, Handled(m),
         Continue(t, m), ThreadApart(t)',
         \A x \in Thread \ {t} : pc'[x] = pc[x] /\ req'[x] = req[x]
  PROVE  ChatInv'
<1>1. Messages'
  BY DEF ChatInv, Messages, Continue
<1>2. ASSUME NEW x \in Thread \ {t} PROVE ThreadApart(x)'
  <2>1. msg'[x] = msg[x]
    BY DEF ChatInv, Messages, Continue
  <2> QED BY <2>1, ThreadStays
<1>3. \A x \in Thread : ThreadApart(x)'
  BY <1>2
<1>4. UsersKeepApart'
  BY <1>3, SessionsStay DEF UsersKeepApart, ThreadApart
<1> QED BY <1>1, <1>4 DEF ChatInv, Apart

LEMMA MessageApart ==
  ASSUME ChatInv, NEW t \in Thread
  PROVE  /\ msg[t] \in Message
         /\ Handled(msg[t])
         /\ ThreadApart(t)
  BY DEF ChatInv, Messages, UsersKeepApart, ThreadApart

LEMMA MessageMove ==
  ASSUME ChatInv, Typed', Apart, NEW t \in Thread, NEW m \in Message, Handled(m),
         Continue(t, m),
         \A x \in Thread \ {t} : pc'[x] = pc[x] /\ req'[x] = req[x],
         m.user # Null =>
           /\ m.active # Null => projects[m.active].owner = m.user
           /\ m.project # Null => projects[m.project].owner = m.user
           /\ pc'[t] # "idle" => projects'[req'[t].project].owner = m.user
  PROVE  ChatInv'
<1>1. msg'[t] = m
  BY DEF ChatInv, Messages, Continue
<1>2. CASE m.user = Null
  BY <1>1, <1>2, KeepApart DEF ThreadApart
<1>3. CASE m.user # Null
  <2>1. m.user \in User
    BY <1>3 DEF Message
  <2>2. m.active # Null => projects'[m.active].owner = m.user
    BY <1>3, <2>1, OwnerStays DEF Message, ChatInv
  <2>3. m.project # Null => projects'[m.project].owner = m.user
    BY <1>3, <2>1, OwnerStays DEF Message, ChatInv
  <2>4. ThreadApart(t)'
    BY <1>1, <1>3, <2>2, <2>3 DEF ThreadApart
  <2> QED BY <2>4, KeepApart
<1> QED BY <1>2, <1>3

\* The workflow does nothing, or nothing but what another thread can do too.
LEMMA QuietMove ==
  ASSUME ChatInv, NEW t \in Thread, NEW m \in Message, Handled(m), Continue(t, m),
         pc[t] = "idle", UNCHANGED vars,
         m.user # Null =>
           /\ m.active # Null => projects[m.active].owner = m.user
           /\ m.project # Null => projects[m.project].owner = m.user
  PROVE  ChatInv'
<1>1. Typed'
  BY TypedStep DEF ChatInv
<1>2. Apart
  BY SameApart DEF ChatInv, vars, store
<1>3. pc' = pc /\ req' = req
  BY DEF vars
<1> QED BY <1>1, <1>2, <1>3, MessageMove

\* The message is over.
LEMMA ReplyMove ==
  ASSUME ChatInv, Typed', Apart, NEW t \in Thread, Reply(t),
         \A x \in Thread \ {t} : pc'[x] = pc[x] /\ req'[x] = req[x]
  PROVE  ChatInv'
<1>1. NoMessage.user = Null
  BY DEF NoMessage
<1> QED BY <1>1, NoMessageHandled, MessageMove DEF Reply

LEMMA ReceiveMessageKeeps ==
  ASSUME ChatInv, NEW t \in Thread, NEW u \in User, ReceiveMessage(t, u)
  PROVE  ChatInv'
<1> DEFINE m == [NoMessage EXCEPT !.at = "route", !.user = u, !.active = sessions[u]]
<1>1. sessions[u] \in Project \cup {Null}
  BY DEF ChatInv, Typed, StoreTypeOK
<1>2. m \in Message /\ Handled(m)
  BY <1>1 DEF NoMessage, Message, Place, Handled
<1>3. m.user = u /\ m.active = sessions[u] /\ m.project = Null
  BY DEF NoMessage
<1>4. m.active # Null => projects[m.active].owner = m.user
  BY <1>3 DEF ChatInv, UsersKeepApart
<1>5. Continue(t, m) /\ pc[t] = "idle" /\ UNCHANGED vars
  BY DEF ReceiveMessage, Handling
<1> HIDE DEF m
<1> QED BY <1>2, <1>3, <1>4, <1>5, QuietMove

\* Each step that leaves the workflow alone.
LEMMA ReplyKeeps ==
  ASSUME ChatInv, NEW t \in Thread, pc[t] = "idle", Reply(t), UNCHANGED vars
  PROVE  ChatInv'
<1>1. NoMessage.user = Null
  BY DEF NoMessage
<1> QED BY <1>1, NoMessageHandled, QuietMove DEF Reply

\* A message goes on to another place, with what it knows or forgets.
LEMMA MessageEdits ==
  ASSUME NEW m \in Message, m.user \in User,
         NEW at \in Place \ {"none", "switch", "delete", "redrafting"},
         NEW active \in Project \cup {Null},
         NEW draft \in BOOLEAN, NEW ready \in BOOLEAN, NEW phrase \in BOOLEAN
  PROVE  LET n == [m EXCEPT !.at = at, !.active = active, !.draft = draft,
                            !.ready = ready, !.phrase = phrase] IN
         n \in Message /\ Handled(n) /\ n.user = m.user /\ n.active = active
           /\ n.project = m.project
  BY DEF Message, Handled

LEMMA ResolveUserProjectKeeps ==
  ASSUME ChatInv, NEW t \in Thread, ResolveUserProject(t)
  PROVE  ChatInv'
<1>1. PICK p \in Project, command \in {"switch", "delete"} :
        /\ projects[p].owner = msg[t].user
        /\ Continue(t, [msg[t] EXCEPT !.at = command, !.project = p])
  BY DEF ResolveUserProject
<1> DEFINE m == [msg[t] EXCEPT !.at = command, !.project = p]
<1>2. msg[t].at = "route" /\ pc[t] = "idle" /\ UNCHANGED vars
  BY DEF ResolveUserProject, Handling
<1>3. msg[t] \in Message /\ msg[t].user \in User
  BY <1>2, MessageApart DEF Handled
<1>4. m \in Message /\ Handled(m) /\ m.user = msg[t].user /\ m.active = msg[t].active
        /\ m.project = p
  BY <1>3 DEF Message, Place, Handled
<1>5. m.active # Null => projects[m.active].owner = m.user
  BY <1>3, <1>4, NullIsNothing, MessageApart DEF ThreadApart
<1> HIDE DEF m
<1>6. Continue(t, m)
  BY <1>1 DEF m
<1> QED BY <1>1, <1>2, <1>4, <1>5, <1>6, QuietMove

\* What is next of m: the same message somewhere else, or with less at hand.
Follows(m, n) ==
  /\ n \in Message
  /\ Handled(n)
  /\ n.user = m.user
  /\ n.active \in {Null, m.active}
  /\ n.project \in {Null, m.project}

LEMMA Onward ==
  ASSUME ChatInv, NEW t \in Thread, NEW n, Follows(msg[t], n), Continue(t, n),
         pc[t] = "idle", UNCHANGED vars
  PROVE  ChatInv'
<1>1. n.user # Null =>
        /\ n.active # Null => projects[n.active].owner = n.user
        /\ n.project # Null => projects[n.project].owner = n.user
  BY MessageApart DEF Follows, ThreadApart
<1> QED BY <1>1, QuietMove DEF Follows

\* The message becomes a request about a project of its user.
LEMMA RequestMove ==
  ASSUME ChatInv, Typed', Apart, NEW t \in Thread, NEW n, Follows(msg[t], n), Continue(t, n),
         NEW label, NEW r, Goto(t, label, r),
         projects'[r.project].owner = msg[t].user
  PROVE  ChatInv'
<1>1. \A x \in Thread \ {t} : pc'[x] = pc[x] /\ req'[x] = req[x]
  BY DEF Goto, ChatInv, Typed, ThreadsTyped
<1>2. req'[t] = r
  BY DEF Goto, ChatInv, Typed, ThreadsTyped
<1>3. n.user # Null =>
        /\ n.active # Null => projects[n.active].owner = n.user
        /\ n.project # Null => projects[n.project].owner = n.user
  BY MessageApart DEF Follows, ThreadApart
<1> QED BY <1>1, <1>2, <1>3, MessageMove DEF Follows

\* The request the message became goes on.
LEMMA WorkMove ==
  ASSUME ChatInv, Typed', Apart, NEW t \in Thread, NEW n, Follows(msg[t], n), Continue(t, n),
         StaysAbout(t), pc[t] # "idle"
  PROVE  ChatInv'
<1>1. PICK label, r : Goto(t, label, r) /\ (label = "idle" \/ r.project = req[t].project)
  BY DEF StaysAbout
<1>2. \A x \in Thread \ {t} : pc'[x] = pc[x] /\ req'[x] = req[x]
  BY <1>1 DEF Goto, ChatInv, Typed, ThreadsTyped
<1>3. pc'[t] # "idle" => req'[t].project = req[t].project
  BY <1>1 DEF Goto, ChatInv, Typed, ThreadsTyped
<1>4. req[t].project \in Project
  BY AtWork DEF ChatInv
<1>5. n.user # Null =>
        /\ n.active # Null => projects[n.active].owner = n.user
        /\ n.project # Null => projects[n.project].owner = n.user
        /\ pc'[t] # "idle" => projects'[req'[t].project].owner = n.user
  <2>1. ASSUME n.user # Null
        PROVE  /\ n.active # Null => projects[n.active].owner = n.user
               /\ n.project # Null => projects[n.project].owner = n.user
               /\ projects[req[t].project].owner = n.user
    BY <2>1, MessageApart DEF Follows, ThreadApart
  <2>2. ASSUME n.user # Null PROVE projects'[req[t].project].owner = n.user
    <3>1. n.user \in User
      BY <2>2 DEF Follows, Message
    <3> QED BY <2>1, <2>2, <3>1, <1>4, OwnerStays DEF ChatInv
  <2> QED BY <2>1, <2>2, <1>3
<1> QED BY <1>2, <1>5, MessageMove DEF Follows

LEMMA StaysHere ==
  ASSUME ChatInv, NEW t \in Thread
  PROVE  /\ Follows(msg[t], msg[t])
         /\ UNCHANGED msg => Continue(t, msg[t])
  BY MessageApart DEF Follows, Continue, ChatInv, Messages

LEMMA GoesTo ==
  ASSUME NEW m \in Message, m.user \in User,
         NEW at \in Place \ {"none", "switch", "delete", "redrafting"},
         NEW phrase \in BOOLEAN
  PROVE  /\ Follows(m, [m EXCEPT !.at = at])
         /\ Follows(m, [m EXCEPT !.at = at, !.phrase = phrase])
  BY DEF Message, Handled, Follows

LEMMA BecomesWorking ==
  ASSUME NEW m \in Message, m.user \in User
  PROVE  Follows(m, [NoMessage EXCEPT !.at = "working", !.user = m.user])
  BY DEF Message, NoMessage, Place, Handled, Follows

-----------------------------------------------------------------------------
(* One lemma per step: a step of the workflow that keeps users apart       *)

Keeps == [Next]_vars /\ ChatInv'

\* A request that goes on is under way.
LEMMA WorkingPc ==
  ASSUME NEW t \in Thread, Proceed(t) \/ RunTests(t)
  PROVE  pc[t] # "idle"
  BY DEF Proceed, RunTests, BindProject, DiscoveryReads, DiscoveryRuns, RequirementCheckpoint,
     CheckFeedback, ReadSnapshot, Dispatch, Debug, NextCheckpoint, ResolveAnswered, FlowState,
     SyncReads, SyncWrites, StageCheckpoint, RequirementTurn, TurnRefresh, PlanTurn,
     PlanRevise, ReviseResolve, ReviseCreate, ReviseStatus, Refresh, DeleteListed, RemoveTree

LEMMA WorkSteps ==
  ASSUME ChatInv, NEW t \in Thread, Proceed(t) \/ RunTests(t)
  PROVE  Next /\ Typed' /\ Apart /\ StaysAbout(t)
<1>1. Next
  BY DEF Next
<1> QED BY <1>1, TypedStep, ProceedApart, ProceedAbout DEF ChatInv

LEMMA ArriveSteps ==
  ASSUME ChatInv, NEW t \in Thread, Arrive(t)
  PROVE  Next /\ Typed'
<1>1. Next
  BY DEF Next
<1> QED BY <1>1, TypedStep DEF ChatInv

LEMMA SessionSteps ==
  ASSUME ChatInv, NEW t \in Thread, NEW u \in User, SessionCommand(u), Reply(t)
  PROVE  Keeps
<1>1. Next
  BY DEF Next
<1>2. Typed'
  BY <1>1, TypedStep DEF ChatInv
<1>3. Apart
  BY SessionApart DEF SessionCommand, ChatInv, Typed
<1>4. pc' = pc /\ req' = req
  BY DEF SessionCommand
<1> QED BY <1>1, <1>2, <1>3, <1>4, ReplyMove DEF Keeps

LEMMA QuietKeeps ==
  ASSUME ChatInv, NEW t \in Thread,
         \/ \E u \in User : ReceiveMessage(t, u)
         \/ PlainReply(t) \/ ResolveUserProject(t) \/ AskDirector(t)
  PROVE  Keeps
<1>1. CASE \E u \in User : ReceiveMessage(t, u)
  BY <1>1, ReceiveMessageKeeps DEF Keeps, ReceiveMessage
<1>2. CASE PlainReply(t)
  BY <1>2, ReplyKeeps DEF Keeps, PlainReply, Handling
<1>3. CASE ResolveUserProject(t)
  BY <1>3, ResolveUserProjectKeeps DEF Keeps, ResolveUserProject
<1>4. CASE AskDirector(t)
  <2>1. msg[t] \in Message /\ msg[t].user \in User
    BY <1>4, MessageApart DEF AskDirector, Handling, Handled
  <2>2. PICK phrase \in BOOLEAN :
          Continue(t, [msg[t] EXCEPT !.at = "turn", !.phrase = phrase])
    BY <1>4 DEF AskDirector
  <2>3. "turn" \in Place \ {"none", "switch", "delete", "redrafting"}
    BY DEF Place
  <2>4. Follows(msg[t], [msg[t] EXCEPT !.at = "turn", !.phrase = phrase])
    BY <2>1, <2>3, GoesTo
  <2>5. pc[t] = "idle" /\ UNCHANGED vars
    BY <1>4 DEF AskDirector, Handling
  <2>6. ChatInv'
    BY <2>2, <2>4, <2>5, Onward
  <2> QED BY <2>5, <2>6 DEF Keeps
<1> QED BY <1>1, <1>2, <1>3, <1>4

LEMMA DirectorTurnKeeps ==
  ASSUME ChatInv, NEW t \in Thread, DirectorTurn(t)
  PROVE  Keeps
<1>1. msg[t].at = "turn" /\ pc[t] = "idle" /\ UNCHANGED vars
  BY DEF DirectorTurn, Handling
<1>2. msg[t] \in Message /\ msg[t].user \in User
  BY <1>1, MessageApart DEF Handled
<1>3. CASE Reply(t)
  BY <1>1, <1>3, ReplyKeeps DEF Keeps
<1>4. ASSUME NEW draft \in BOOLEAN, NEW summary \in BOOLEAN, NEW ready \in BOOLEAN,
             Continue(t, [msg[t] EXCEPT
               !.at = IF draft THEN "draft" ELSE "start",
               !.active = IF draft \/ summary THEN sessions[msg[t].user] ELSE @,
               !.draft = draft, !.ready = ready])
      PROVE  ChatInv'
  <2> DEFINE n == [msg[t] EXCEPT
               !.at = IF draft THEN "draft" ELSE "start",
               !.active = IF draft \/ summary THEN sessions[msg[t].user] ELSE @,
               !.draft = draft, !.ready = ready]
  <2>1. sessions[msg[t].user] \in Project \cup {Null}
    BY <1>2 DEF ChatInv, Typed, StoreTypeOK
  <2>2. n \in Message /\ Handled(n) /\ n.user = msg[t].user /\ n.project = msg[t].project
          /\ n.active \in {msg[t].active, sessions[msg[t].user]}
    BY <1>2, <2>1 DEF Message, Place, Handled
  <2> HIDE DEF n
  <2>3. n.user # Null =>
          /\ n.active # Null => projects[n.active].owner = n.user
          /\ n.project # Null => projects[n.project].owner = n.user
    BY <1>2, <2>2, MessageApart DEF ThreadApart, ChatInv, UsersKeepApart
  <2>4. Continue(t, n)
    BY <1>4 DEF n
  <2> QED BY <1>1, <2>2, <2>3, <2>4, QuietMove
<1> QED BY <1>1, <1>3, <1>4 DEF DirectorTurn, Keeps

\* What a message does after its draft is no matter of the workflow.
LEMMA AfterDraftFollows ==
  ASSUME ChatInv, NEW t \in Thread, msg[t].user \in User, AfterDraft(t)
  PROVE  \/ Reply(t)
         \/ \E n : Follows(msg[t], n) /\ Continue(t, n)
<1>1. "start" \in Place \ {"none", "switch", "delete", "redrafting"}
  BY DEF Place
<1>2. Follows(msg[t], [msg[t] EXCEPT !.at = "start"])
  BY <1>1, GoesTo, MessageApart
<1> QED BY <1>2 DEF AfterDraft

\* A message becomes a request about the project it is about.
LEMMA RequestKeeps ==
  ASSUME ChatInv, NEW t \in Thread, NEW p \in Project, msg[t].user \in User,
         p \in {msg[t].active, msg[t].project},
         NEW n, Follows(msg[t], n), Continue(t, n),
         \/ RunProject(t, p) \/ SubmitFeedback(t, p) \/ DeleteProject(t, p)
         \/ StageFollowUp(t, p) \/ RefreshDraft(t, p)
  PROVE  Keeps
<1>1. Next /\ Typed'
  BY ArriveSteps DEF Arrive
<1>2. Apart
  BY SameApart DEF RunProject, SubmitFeedback, DeleteProject, StageFollowUp, RefreshDraft,
     store, ChatInv
<1>3. \E label, r : Goto(t, label, r) /\ r.project = p
  <2>1. /\ [NoRequest EXCEPT !.project = p].project = p
        /\ \A x : [NoRequest EXCEPT !.project = p, !.type = x].project = p
        /\ \A x : [NoRequest EXCEPT !.project = p, !.listed = x].project = p
    BY DEF NoRequest
  <2>2. CASE RunProject(t, p) \/ RefreshDraft(t, p) \/ DeleteProject(t, p)
    BY <2>1, <2>2 DEF RunProject, RefreshDraft, DeleteProject
  <2>3. CASE SubmitFeedback(t, p)
    <3> DEFINE r == [NoRequest EXCEPT
          !.project = p, !.version = projects[p].version,
          !.shown = [status |-> projects[p].status, current |-> projects[p].current]]
    <3>1. Goto(t, "check", r)
      BY <2>3 DEF SubmitFeedback
    <3>2. r.project = p
      BY DEF NoRequest
    <3> QED BY <3>1, <3>2
  <2>4. CASE StageFollowUp(t, p)
    BY <2>1, <2>4 DEF StageFollowUp
  <2> QED BY <2>2, <2>3, <2>4
<1>4. projects[p].owner = msg[t].user
  BY MessageApart, NullIsNothing DEF ThreadApart
<1>5. projects'[p].owner = msg[t].user
  BY <1>2, <1>4, OwnerStays DEF ChatInv
<1> QED BY <1>1, <1>2, <1>3, <1>5, RequestMove DEF Keeps

LEMMA CommandKeeps ==
  ASSUME ChatInv, NEW t \in Thread,
         ResetSession(t) \/ SwitchProject(t) \/ DeleteTarget(t) \/ ExplicitCommand(t)
  PROVE  Keeps
<1>1. /\ msg[t] \in Message /\ msg[t].user \in User /\ pc[t] = "idle"
      /\ msg[t].at \in {"switch", "delete"} => msg[t].project \in Project
  BY MessageApart DEF ResetSession, SwitchProject, DeleteTarget, ExplicitCommand, Handling,
     Handled
<1>2. CASE Reply(t) /\ UNCHANGED vars
  BY <1>1, <1>2, ReplyKeeps DEF Keeps
<1>3. CASE ResetSession(t)
  BY <1>1, <1>3, SessionSteps DEF ResetSession, SessionCommand
<1>4. CASE SwitchProject(t) /\ ~(Reply(t) /\ UNCHANGED vars)
  <2> DEFINE p == msg[t].project
  <2>1. p \in Project /\ projects[p].owner = msg[t].user
    BY <1>1, <1>4, MessageApart, NullIsNothing DEF SwitchProject, Handling, ThreadApart
  <2>2. SwitchActiveProject(msg[t].user, p) /\ UNCHANGED <<graph, pc, req, answers>>
    BY <1>4 DEF SwitchProject
  <2>3. SessionCommand(msg[t].user)
    BY <2>1, <2>2 DEF SessionCommand
  <2> QED BY <1>1, <1>4, <2>3, SessionSteps DEF SwitchProject
<1>5. CASE DeleteTarget(t) /\ ~(Reply(t) /\ UNCHANGED vars)
  <2>1. msg[t].project \in Project
    BY <1>1, <1>5 DEF DeleteTarget, Handling
  <2>2. DeleteProject(t, msg[t].project) /\ Becomes(t)
    BY <1>5 DEF DeleteTarget
  <2> QED BY <1>1, <2>1, <2>2, BecomesWorking, RequestKeeps DEF Becomes
<1>6. CASE ExplicitCommand(t)
  <2>1. msg[t].active \in Project
    BY <1>1, <1>6 DEF ExplicitCommand, Message
  <2>2. SubmitFeedback(t, msg[t].active) /\ Becomes(t)
    BY <1>6 DEF ExplicitCommand
  <2> QED BY <1>1, <2>1, <2>2, BecomesWorking, RequestKeeps DEF Becomes
<1> QED BY <1>2, <1>3, <1>4, <1>5, <1>6

LEMMA StageKeeps ==
  ASSUME ChatInv, NEW t \in Thread, FollowUp(t) \/ FallThrough(t)
  PROVE  Keeps
<1>1. msg[t] \in Message /\ msg[t].user \in User
  BY MessageApart DEF FollowUp, FallThrough, Handling, Handled
<1>2. {"working", "turn"} \subseteq Place \ {"none", "switch", "delete", "redrafting"}
  BY DEF Place
<1>3. CASE FollowUp(t)
  <2>1. msg[t].active \in Project
    BY <1>1, <1>3 DEF FollowUp, Message
  <2>2. Follows(msg[t], [msg[t] EXCEPT !.at = "working"])
    BY <1>1, <1>2, GoesTo
  <2> QED BY <1>1, <1>3, <2>1, <2>2, RequestKeeps DEF FollowUp
<1>4. CASE FallThrough(t)
  <2>1. Next /\ Typed' /\ Apart /\ StaysAbout(t)
    BY <1>4, WorkSteps DEF FallThrough, Proceed
  <2>2. Follows(msg[t], [msg[t] EXCEPT !.at = "turn"]) /\ Follows(msg[t], msg[t])
    BY <1>1, <1>2, GoesTo, StaysHere
  <2>3. \E n : Follows(msg[t], n) /\ Continue(t, n)
    BY <1>4, <2>2 DEF FallThrough
  <2>4. pc[t] # "idle"
    BY <1>4 DEF FallThrough
  <2> QED BY <2>1, <2>3, <2>4, WorkMove DEF Keeps
<1> QED BY <1>3, <1>4

LEMMA DraftKeeps ==
  ASSUME ChatInv, NEW t \in Thread, RefreshEarlyProject(t) \/ DraftWritten(t)
  PROVE  Keeps
<1>1. msg[t] \in Message /\ msg[t].user \in User
  BY MessageApart DEF RefreshEarlyProject, DraftWritten, Handling, Handled
<1>2. CASE RefreshEarlyProject(t)
  <2>1. pc[t] = "idle"
    BY <1>2 DEF RefreshEarlyProject, Handling
  <2>2. CASE AfterDraft(t) /\ UNCHANGED vars
    <3>1. CASE Reply(t)
      BY <2>1, <2>2, <3>1, ReplyKeeps DEF Keeps
    <3>2. CASE \E n : Follows(msg[t], n) /\ Continue(t, n)
      BY <2>1, <2>2, <3>2, Onward DEF Keeps
    <3> QED BY <1>1, <2>2, <3>1, <3>2, AfterDraftFollows
  <2>3. CASE ~(AfterDraft(t) /\ UNCHANGED vars)
    <3>1. /\ msg[t].active \in Project
          /\ RefreshDraft(t, msg[t].active)
          /\ Continue(t, [msg[t] EXCEPT !.at = "drafting"])
      BY <1>1, <1>2, <2>3 DEF RefreshEarlyProject, Message
    <3>2. "drafting" \in Place \ {"none", "switch", "delete", "redrafting"}
      BY DEF Place
    <3>3. Follows(msg[t], [msg[t] EXCEPT !.at = "drafting"])
      BY <1>1, <3>2, GoesTo
    <3> QED BY <1>1, <3>1, <3>3, RequestKeeps
  <2> QED BY <2>2, <2>3
<1>3. CASE DraftWritten(t)
  <2>1. Next /\ Typed' /\ Apart /\ StaysAbout(t)
    BY <1>3, WorkSteps DEF DraftWritten, Proceed
  <2>2. pc[t] # "idle"
    BY <1>3 DEF DraftWritten
  <2>3. CASE Reply(t)
    <3>1. \A x \in Thread \ {t} : pc'[x] = pc[x] /\ req'[x] = req[x]
      BY <2>1 DEF StaysAbout, Goto, ChatInv, Typed, ThreadsTyped
    <3> QED BY <2>1, <2>3, <3>1, ReplyMove DEF Keeps
  <2>4. CASE \E n : Follows(msg[t], n) /\ Continue(t, n)
    BY <2>1, <2>2, <2>4, WorkMove DEF Keeps
  <2> QED BY <1>1, <1>3, <2>3, <2>4, AfterDraftFollows DEF DraftWritten
<1> QED BY <1>2, <1>3

LEMMA StartKeeps ==
  ASSUME ChatInv, NEW t \in Thread, StartProject(t) \/ EnsureStarted(t)
  PROVE  Keeps
<1>1. msg[t] \in Message /\ msg[t].user \in User /\ pc[t] = "idle"
  BY MessageApart DEF StartProject, EnsureStarted, Handling, Handled
<1>2. CASE StartProject(t) /\ ~Reusable(msg[t])
  <2>1. "create" \in Place \ {"none", "switch", "delete", "redrafting"}
    BY DEF Place
  <2>2. Follows(msg[t], [msg[t] EXCEPT !.at = "create"])
    BY <1>1, <2>1, GoesTo
  <2>3. Continue(t, [msg[t] EXCEPT !.at = "create"]) /\ UNCHANGED vars
    BY <1>2 DEF StartProject
  <2> QED BY <1>1, <2>2, <2>3, Onward DEF Keeps
<1>3. CASE StartProject(t) /\ Reusable(msg[t])
  <2>1. msg[t].active \in Project
    BY <1>1, <1>3 DEF Reusable, Message
  <2>2. CASE RunProject(t, msg[t].active) /\ Becomes(t)
    BY <1>1, <2>1, <2>2, BecomesWorking, RequestKeeps DEF Becomes
  <2>3. CASE /\ RefreshDraft(t, msg[t].active)
             /\ Continue(t, [msg[t] EXCEPT !.at = "redrafting"])
    <3>1. Follows(msg[t], [msg[t] EXCEPT !.at = "redrafting"])
      BY <1>1, <2>1 DEF Message, Place, Handled, Follows
    <3> QED BY <1>1, <2>1, <2>3, <3>1, RequestKeeps
  <2> QED BY <1>3, <2>2, <2>3 DEF StartProject
<1>4. CASE EnsureStarted(t)
  <2>1. CASE Reply(t) /\ UNCHANGED vars
    BY <1>1, <2>1, ReplyKeeps DEF Keeps
  <2>2. CASE RunProject(t, msg[t].active) /\ Becomes(t)
    <3>1. msg[t].active \in Project
      BY <1>4, MessageApart DEF EnsureStarted, Handling, Handled
    <3> QED BY <1>1, <2>2, <3>1, BecomesWorking, RequestKeeps DEF Becomes
  <2> QED BY <1>4, <2>1, <2>2 DEF EnsureStarted
<1> QED BY <1>2, <1>3, <1>4

LEMMA RedraftKeeps ==
  ASSUME ChatInv, NEW t \in Thread, Redraft(t)
  PROVE  Keeps
<1>1. Next /\ Typed' /\ Apart /\ StaysAbout(t)
  BY WorkSteps DEF Redraft, Proceed
<1>2. CASE UNCHANGED msg
  BY <1>1, <1>2, StaysHere, WorkMove DEF Redraft, Keeps
<1>3. CASE Reply(t)
  <2>1. \A x \in Thread \ {t} : pc'[x] = pc[x] /\ req'[x] = req[x]
    BY <1>1 DEF StaysAbout, Goto, ChatInv, Typed, ThreadsTyped
  <2> QED BY <1>1, <1>3, <2>1, ReplyMove DEF Keeps
<1> QED BY <1>2, <1>3 DEF Redraft

LEMMA CreateKeeps ==
  ASSUME ChatInv, NEW t \in Thread, CreateAndBind(t)
  PROVE  Keeps
<1>1. msg[t] \in Message /\ msg[t].user \in User /\ pc[t] = "idle"
  BY MessageApart DEF CreateAndBind, Handling, Handled
<1>2. PICK p \in Project : ChatStartsProject(t, msg[t].user, p)
  BY DEF CreateAndBind
<1>3. Next /\ Typed'
  BY <1>1, <1>2, ArriveSteps DEF Arrive
<1>4. Apart
  BY <1>2, InsertProjectApart DEF ChatStartsProject, ChatInv, Typed
<1>5. projects'[p].owner = msg[t].user
  BY <1>2 DEF ChatStartsProject, InsertProject, ChatInv, Typed, StoreTypeOK
<1>6. Goto(t, "bind", [NoRequest EXCEPT !.project = p])
        /\ [NoRequest EXCEPT !.project = p].project = p
  BY <1>2 DEF ChatStartsProject, NoRequest
<1>7. Follows(msg[t], [NoMessage EXCEPT !.at = "working", !.user = msg[t].user])
  BY <1>1, BecomesWorking
<1> QED BY <1>3, <1>4, <1>5, <1>6, <1>7, RequestMove DEF CreateAndBind, Becomes, Keeps

\* A request of another route, and what requests do by themselves.
LEMMA OtherKeeps ==
  ASSUME ChatInv, NEW t \in Thread, ApiRequest(t) \/ Work(t)
  PROVE  Keeps
<1>1. CASE ApiRequest(t)
  <2>1. PICK p \in Project : RunProject(t, p) \/ SubmitFeedback(t, p)
    BY <1>1 DEF ApiRequest
  <2>2. Next /\ Typed'
    BY <2>1, ArriveSteps DEF Arrive
  <2>3. Apart
    BY <2>1, SameApart DEF RunProject, SubmitFeedback, store, ChatInv
  <2>4. \E label, r : Goto(t, label, r)
    BY <2>1 DEF RunProject, SubmitFeedback
  <2>5. \A x \in Thread \ {t} : pc'[x] = pc[x] /\ req'[x] = req[x]
    BY <2>4 DEF Goto, ChatInv, Typed, ThreadsTyped
  <2>6. msg[t].user = Null /\ msg[t] \in Message /\ Handled(msg[t])
    BY <1>1, MessageApart DEF ApiRequest, Handling, Handled
  <2>7. Continue(t, msg[t])
    BY <1>1, StaysHere DEF ApiRequest
  <2> QED BY <2>2, <2>3, <2>5, <2>6, <2>7, MessageMove DEF Keeps
<1>2. CASE Work(t)
  <2>1. Next /\ Typed' /\ Apart /\ StaysAbout(t)
    BY <1>2, WorkSteps DEF Work
  <2>2. CASE Reply(t)
    <3>1. \A x \in Thread \ {t} : pc'[x] = pc[x] /\ req'[x] = req[x]
      BY <2>1 DEF StaysAbout, Goto, ChatInv, Typed, ThreadsTyped
    <3> QED BY <2>1, <2>2, <3>1, ReplyMove DEF Keeps
  <2>3. CASE UNCHANGED msg
    <3>1. pc[t] # "idle"
      BY <1>2, WorkingPc DEF Work
    <3> QED BY <2>1, <2>3, <3>1, StaysHere, WorkMove DEF Keeps
  <2> QED BY <1>2, <2>2, <2>3 DEF Work, Reply, Continue
<1> QED BY <1>1, <1>2

LEMMA NobodysKeeps ==
  ASSUME ChatInv,
         \/ \E p \in Project : CreateProject(p) /\ UNCHANGED msg
         \/ Restart /\ msg' = [t \in Thread |-> NoMessage]
         \/ UNCHANGED chatVars
  PROVE  Keeps
<1>1. [Next]_vars
  BY DEF Next, chatVars
<1>2. Typed'
  BY <1>1, TypedStep DEF ChatInv
<1>3. Apart
  <2>1. ASSUME NEW p \in Project, CreateProject(p) PROVE Apart
    BY <2>1, InsertProjectApart DEF CreateProject, ChatInv, Typed
  <2>2. ASSUME UNCHANGED store PROVE Apart
    BY <2>2, SameApart DEF store, ChatInv
  <2> QED BY <2>1, <2>2 DEF Restart, chatVars, vars, store
<1>4. CASE msg' = [t \in Thread |-> NoMessage]
  <2>1. Messages' /\ \A t \in Thread : msg'[t].user = Null
    BY <1>4, NoMessageHandled DEF Messages, NoMessage
  <2>2. UsersKeepApart'
    BY <1>3, <2>1, SessionsStay DEF UsersKeepApart
  <2> QED BY <1>1, <1>2, <1>3, <2>1, <2>2 DEF Keeps, ChatInv, Apart
<1>5. CASE msg' = msg /\ pc' = pc /\ req' = req
  <2>1. \A t \in Thread : ThreadApart(t)'
    BY <1>3, <1>5, ThreadStays
  <2>2. UsersKeepApart'
    BY <1>3, <2>1, SessionsStay DEF UsersKeepApart, ThreadApart
  <2>3. Messages'
    BY <1>5 DEF ChatInv, Messages
  <2> QED BY <1>1, <1>2, <1>3, <2>2, <2>3 DEF Keeps, ChatInv, Apart
<1> QED BY <1>4, <1>5 DEF CreateProject, chatVars, vars

-----------------------------------------------------------------------------
(* The theorems                                                            *)

LEMMA ChatStep == ChatInv /\ [ChatNext]_chatVars => Keeps
<1> SUFFICES ASSUME ChatInv, [ChatNext]_chatVars PROVE Keeps
  OBVIOUS
<1>1. ASSUME NEW t \in Thread, HandleMessage(t) PROVE Keeps
  BY <1>1, QuietKeeps, CommandKeeps, StageKeeps, DirectorTurnKeeps, DraftKeeps, StartKeeps,
     RedraftKeeps, CreateKeeps DEF HandleMessage
<1> QED BY <1>1, QuietKeeps, OtherKeeps, NobodysKeeps DEF ChatNext

LEMMA InitChat == ChatInit => Init /\ ChatInv
<1> SUFFICES ASSUME ChatInit PROVE Init /\ ChatInv
  OBVIOUS
<1>1. Typed
  BY InitTyped DEF ChatInit
<1>2. Unborn /\ \A u \in User : sessions[u] = Null
  BY DEF ChatInit, Init, StoreInit, Unborn
<1>3. Messages /\ \A t \in Thread : msg[t].user = Null
  BY NoMessageHandled DEF ChatInit, Messages, NoMessage
<1> QED BY <1>1, <1>2, <1>3 DEF ChatInit, ChatInv, UsersKeepApart

\* Whatever session a message was read with, and whatever other messages do
\* while the director's LLM runs, a message, its session and its request are
\* about projects of the user who sent it.
THEOREM UsersKeepApartHolds == ChatSpec => []UsersKeepApart
<1>1. ChatInit => ChatInv
  BY InitChat
<1>2. ChatInv /\ [ChatNext]_chatVars => ChatInv'
  BY ChatStep DEF Keeps
<1>3. ChatInv => UsersKeepApart
  BY DEF ChatInv
<1> QED BY <1>1, <1>2, <1>3, PTL DEF ChatSpec

\* Handling chat messages implements the workflow with its requests: what is
\* proved of WorkflowService holds of it when all its users are in a chat.
THEOREM ImplementsWorkflowHolds == ChatSpec => ImplementsWorkflow
<1>1. ChatInit => Init /\ ChatInv
  BY InitChat
<1>2. ChatInv /\ [ChatNext]_chatVars => [Next]_vars /\ ChatInv'
  BY ChatStep DEF Keeps
<1> QED BY <1>1, <1>2, PTL DEF ChatSpec, ImplementsWorkflow, Spec

\* With all users in chats no gate is skipped, memory.md is truthful, a project's
\* current checkpoint is there, and the version stays a sound token.
THEOREM ChatKeepsGates ==
  ChatSpec => [](GatesInOrder /\ MemoryTruthful /\ ReferentialIntegrity /\ VersionToken)
BY ImplementsWorkflowHolds, GatesInOrderHolds, MemoryTruthfulHolds,
   ReferentialIntegrityHolds, VersionTokenHolds, PTL DEF ImplementsWorkflow

\* With chats about one project that take turns, feedback is not stale and no
\* checkpoint comes back; unless a crash cuts one off, each leaves status and
\* checkpoint in agreement, and a delete is complete.
THEOREM ChatInTurn ==
  ChatSpec /\ []OneAtATime =>
    /\ []BoundLives /\ CurrentIsNewest /\ ActedOnCurrent
    /\ CrashesBetween => [](SettledGate /\ DeletedLeavesNothing)
BY ImplementsWorkflowHolds, SettledGateHolds, DeletedLeavesNothingHolds, BoundLivesHolds,
   CurrentIsNewestHolds, ActedOnCurrentInTurn, PTL DEF ImplementsWorkflow, InTurn

\* A message, its session and the request it became keep their shape, wherever
\* handle_message is when other messages and restarts come in.
THEOREM ChatTypeCorrect == ChatSpec => []ChatTypeOK
<1>1. ChatInit => ChatInv
  BY InitChat
<1>2. ChatInv /\ [ChatNext]_chatVars => ChatInv'
  BY ChatStep DEF Keeps
<1>3. ChatInv => ChatTypeOK
  BY DEF ChatInv, Messages, Typed, ThreadsTyped, TypeOK, ChatTypeOK
<1> QED BY <1>1, <1>2, <1>3, PTL DEF ChatSpec

-----------------------------------------------------------------------------
(* Sessions of live projects, when the messages of a user take turns       *)

\* No user has two messages in flight.
Alone ==
  \A s, t \in Thread : s # t /\ msg[s].user = msg[t].user => msg[s].user = Null

\* A project about to be bound is there; binding and deleting are done for a
\* message of its user.
Handed ==
  \A t \in Thread :
    /\ pc[t] \in {"bind", "delete"} => msg[t].user # Null
    /\ pc[t] = "bind" => Live(req[t].project)

LiveInv == ChatInv /\ Alone /\ Handed /\ BoundProjectLives

\* A step that deletes nothing and binds no session to a project that is not there.
LivesStay ==
  /\ \A p \in Project : projects[p].life = "live" => projects'[p].life = "live"
  /\ \A u \in User : sessions'[u] # Null =>
       sessions'[u] = sessions[u] \/ projects'[sessions'[u]].life = "live"

LEMMA SameLives ==
  ASSUME UNCHANGED <<projects, sessions>>
  PROVE  LivesStay
  BY DEF LivesStay

LEMMA InsertProjectLives ==
  ASSUME StoreTypeOK, NEW p \in Project, NEW o, InsertProject(p, o)
  PROVE  LivesStay /\ projects'[p].life = "live"
  BY DEF StoreTypeOK, ProjectRow, InsertProject, LivesStay

LEMMA CreateCheckpointLives ==
  ASSUME StoreTypeOK, NEW p \in Project, NEW c, NEW type, CreateCheckpoint(p, c, type)
  PROVE  LivesStay
  BY DEF StoreTypeOK, ProjectRow, CreateCheckpoint, LivesStay

LEMMA FlowStateLives ==
  ASSUME StoreTypeOK, NEW p \in Project, NEW status, NEW c,
         UpdateProjectFlowState(p, status, c)
  PROVE  LivesStay
  BY DEF StoreTypeOK, ProjectRow, UpdateProjectFlowState, Unbound, LivesStay

LEMMA RefreshLives ==
  ASSUME StoreTypeOK, NEW p \in Project, RefreshActiveProjectRequirement(p)
  PROVE  LivesStay
  BY DEF StoreTypeOK, ProjectRow, RefreshActiveProjectRequirement, LivesStay

LEMMA BindLives ==
  ASSUME StoreTypeOK, NEW p \in Project, NEW u \in User, Live(p), BindActiveProject(u, p)
  PROVE  LivesStay
  BY DEF StoreTypeOK, ProjectRow, BindActiveProject, Live, LivesStay

LEMMA SessionLives ==
  ASSUME StoreTypeOK, NEW u \in User, SessionCommand(u)
  PROVE  LivesStay
<1>1. CASE ResetChatSession(u)
  BY <1>1 DEF StoreTypeOK, ResetChatSession, LivesStay
<1>2. ASSUME NEW p \in Project, SwitchActiveProject(u, p) PROVE LivesStay
  BY <1>2 DEF StoreTypeOK, ProjectRow, SwitchActiveProject, Live, LivesStay
<1> QED BY <1>1, <1>2 DEF SessionCommand

\* What a request does by itself deletes nothing, unless it came for that.
LEMMA ProceedLives ==
  ASSUME LiveInv, NEW t \in Thread, Proceed(t) \/ RunTests(t), pc[t] # "delete"
  PROVE  LivesStay
<1>1. Typed /\ StoreTypeOK
  BY DEF LiveInv, ChatInv, Typed
<1>2. pc[t] = "bind" => Live(req[t].project)
  BY DEF LiveInv, Handed
<1> QED BY <1>1, <1>2, ProceedStore, SameLives, CreateCheckpointLives, FlowStateLives,
        RefreshLives, BindLives DEF ProceedWrites

\* A step of thread t, whose message stays its user's or ends.
Moves(t) ==
  /\ \E m : Continue(t, m) /\ m.user \in {Null, msg[t].user}
  /\ \A x \in Thread \ {t} : pc'[x] = pc[x] /\ req'[x] = req[x]

LEMMA OthersWait ==
  ASSUME ChatInv, NEW t \in Thread, Moves(t)
  PROVE  /\ \A x \in Thread \ {t} : msg'[x] = msg[x] /\ pc'[x] = pc[x] /\ req'[x] = req[x]
         /\ msg'[t].user \in {Null, msg[t].user}
  BY DEF Moves, Continue, ChatInv, Messages

LEMMA AloneStays ==
  ASSUME LiveInv, NEW t \in Thread, Moves(t)
  PROVE  Alone'
  BY OthersWait DEF LiveInv, Alone

\* Nothing is deleted and nothing made: all of it stays.
LEMMA LiveMove ==
  ASSUME LiveInv, ChatInv', NEW t \in Thread, Moves(t), LivesStay, pc'[t] # "bind",
         pc'[t] = "delete" => msg'[t].user # Null
  PROVE  LiveInv'
<1>1. BoundProjectLives'
  BY DEF LiveInv, BoundProjectLives, Live, LivesStay, ChatInv, Typed, StoreTypeOK
<1>2. ASSUME NEW x \in Thread, pc'[x] = "bind"
      PROVE  msg'[x].user # Null /\ projects'[req'[x].project].life = "live"
  <2>1. x # t /\ msg'[x] = msg[x] /\ pc[x] = "bind" /\ req'[x] = req[x]
    BY <1>2, OthersWait DEF LiveInv
  <2>2. msg[x].user # Null /\ Live(req[x].project)
    BY <2>1 DEF LiveInv, Handed
  <2>3. req[x].project \in Project
    BY <2>1, AtWork DEF LiveInv, ChatInv
  <2> QED BY <2>1, <2>2, <2>3 DEF LivesStay, Live
<1>3. ASSUME NEW x \in Thread, pc'[x] = "delete" PROVE msg'[x].user # Null
  BY <1>3, OthersWait DEF LiveInv, Handed
<1>4. Handed'
  BY <1>2, <1>3 DEF Handed, Live
<1> QED BY <1>1, <1>4, AloneStays DEF LiveInv

\* What a step of thread t does to the workflow, by what it is a step of.
Quietly(t) == pc[t] = "idle" /\ UNCHANGED vars
Commands(t) == pc[t] = "idle" /\ \E u \in User : SessionCommand(u)
Requests(t) ==
  \E p \in Project :
    RunProject(t, p) \/ SubmitFeedback(t, p) \/ StageFollowUp(t, p) \/ RefreshDraft(t, p)
Deletes(t) ==
  /\ msg[t].user \in User
  /\ \E p \in Project : DeleteProject(t, p)
  /\ \E m : Continue(t, m) /\ m.user = msg[t].user
Starts(t) ==
  /\ msg[t].user \in User
  /\ \E p \in Project : ChatStartsProject(t, msg[t].user, p)
  /\ \E m : Continue(t, m) /\ m.user = msg[t].user

Works(t) ==
  \/ Quietly(t) \/ Commands(t) \/ Requests(t) \/ Deletes(t) \/ Starts(t)
  \/ Proceed(t) \/ RunTests(t)

LEMMA StepWorks ==
  ASSUME ChatInv, NEW t \in Thread, HandleMessage(t) \/ ApiRequest(t) \/ Work(t)
  PROVE  Works(t)
<1>1. /\ msg[t] \in Message
      /\ msg[t].at # "none" => msg[t].user \in User
      /\ msg[t].at \in {"switch", "delete"} => msg[t].project \in Project
      /\ msg[t].at = "redrafting" => msg[t].active \in Project
  BY MessageApart DEF Handled
<1>2. msg[t].active # Null => msg[t].active \in Project
  BY <1>1 DEF Message
<1>3. CASE \/ PlainReply(t) \/ ResolveUserProject(t) \/ AskDirector(t) \/ DirectorTurn(t)
  BY <1>3 DEF Works, Quietly, PlainReply, ResolveUserProject, AskDirector, DirectorTurn, Handling
<1>4. CASE ResetSession(t)
  BY <1>1, <1>4 DEF Works, Commands, ResetSession, SessionCommand, Handling
<1>5. CASE SwitchProject(t)
  <2>1. msg[t].project \in Project /\ msg[t].user \in User
    BY <1>1, <1>5 DEF SwitchProject, Handling
  <2>2. projects[msg[t].project].owner = msg[t].user
    BY <2>1, MessageApart, NullIsNothing DEF ThreadApart
  <2> QED BY <1>5, <2>1, <2>2 DEF Works, Quietly, Commands, SwitchProject, SessionCommand, Handling
<1>6. CASE DeleteTarget(t)
  <2>1. [NoMessage EXCEPT !.at = "working", !.user = msg[t].user].user = msg[t].user
    BY DEF NoMessage
  <2> QED BY <1>1, <1>6, <2>1 DEF Works, Quietly, Deletes, DeleteTarget, Becomes, Handling
<1>7. CASE ExplicitCommand(t) \/ FollowUp(t)
  BY <1>2, <1>7 DEF Works, Requests, ExplicitCommand, FollowUp
<1>8. CASE FallThrough(t) \/ DraftWritten(t) \/ Redraft(t)
  BY <1>8 DEF Works, Proceed, FallThrough, DraftWritten, Redraft
<1>9. CASE RefreshEarlyProject(t)
  BY <1>2, <1>9 DEF Works, Quietly, Requests, RefreshEarlyProject, Handling
<1>10. CASE StartProject(t)
  BY <1>2, <1>10 DEF Works, Quietly, Requests, StartProject, Reusable, Handling
<1>11. CASE EnsureStarted(t)
  BY <1>1, <1>11 DEF Works, Quietly, Requests, EnsureStarted, Handling
<1>12. CASE CreateAndBind(t)
  <2>1. [NoMessage EXCEPT !.at = "working", !.user = msg[t].user].user = msg[t].user
    BY DEF NoMessage
  <2> QED BY <1>1, <1>12, <2>1 DEF Works, Starts, CreateAndBind, Becomes, Handling
<1>13. CASE ApiRequest(t)
  BY <1>13 DEF Works, Requests, ApiRequest
<1>14. CASE Work(t)
  BY <1>14 DEF Works, Work
<1> QED BY <1>3, <1>4, <1>5, <1>6, <1>7, <1>8, <1>9, <1>10, <1>11, <1>12, <1>13, <1>14
        DEF HandleMessage

\* At "delete" there is nothing else to do.
LEMMA AtDelete ==
  ASSUME NEW t \in Thread, Works(t), pc[t] = "delete"
  PROVE  DeleteListed(t)
<1>1. ~Quietly(t) /\ ~Commands(t) /\ ~Requests(t) /\ ~Deletes(t) /\ ~Starts(t)
  BY DEF Quietly, Commands, Requests, Deletes, Starts, RunProject, SubmitFeedback, StageFollowUp,
     RefreshDraft, DeleteProject, ChatStartsProject, Accepts
<1>2. /\ ~BindProject(t) /\ ~DiscoveryReads(t) /\ ~DiscoveryRuns(t)
      /\ ~RequirementCheckpoint(t) /\ ~CheckFeedback(t) /\ ~ReadSnapshot(t) /\ ~Dispatch(t)
      /\ ~Debug(t) /\ ~NextCheckpoint(t) /\ ~ResolveAnswered(t) /\ ~FlowState(t)
      /\ ~RunTests(t)
  BY DEF BindProject, DiscoveryReads, DiscoveryRuns, RequirementCheckpoint, CheckFeedback,
     ReadSnapshot, Dispatch, Debug, NextCheckpoint, ResolveAnswered, FlowState, RunTests
<1>3. /\ ~SyncReads(t) /\ ~SyncWrites(t) /\ ~StageCheckpoint(t) /\ ~RequirementTurn(t)
      /\ ~TurnRefresh(t) /\ ~PlanTurn(t) /\ ~PlanRevise(t) /\ ~ReviseResolve(t)
      /\ ~ReviseCreate(t) /\ ~ReviseStatus(t) /\ ~Refresh(t) /\ ~RemoveTree(t)
  BY DEF SyncReads, SyncWrites, StageCheckpoint, RequirementTurn, TurnRefresh, PlanTurn,
     PlanRevise, ReviseResolve, ReviseCreate, ReviseStatus, Refresh, RemoveTree
<1> QED BY <1>1, <1>2, <1>3 DEF Works, Proceed

\* A message that is not over is its user's.
LEMMA StepContinues ==
  ASSUME ChatInv, NEW t \in Thread, HandleMessage(t) \/ ApiRequest(t) \/ Work(t)
  PROVE  \E m : Continue(t, m) /\ m.user \in {Null, msg[t].user}
<1>1. msg[t] \in Message
  BY MessageApart
<1>2. /\ NoMessage.user = Null
      /\ [NoMessage EXCEPT !.at = "working", !.user = msg[t].user].user = msg[t].user
  BY DEF NoMessage
<1>3. \A at : [msg[t] EXCEPT !.at = at].user = msg[t].user
  BY <1>1 DEF Message
<1>4. UNCHANGED msg => Continue(t, msg[t])
  BY StaysHere
<1> USE <1>2, <1>3, <1>4
<1>5. ASSUME Reply(t) \/ Becomes(t) \/ UNCHANGED msg
      PROVE  \E m : Continue(t, m) /\ m.user \in {Null, msg[t].user}
  BY <1>5 DEF Reply, Becomes
<1>6. ASSUME AfterDraft(t)
      PROVE  \E m : Continue(t, m) /\ m.user \in {Null, msg[t].user}
  BY <1>5, <1>6 DEF AfterDraft
<1>7. CASE \/ PlainReply(t) \/ ResetSession(t) \/ SwitchProject(t) \/ DeleteTarget(t)
           \/ ExplicitCommand(t) \/ Redraft(t) \/ EnsureStarted(t) \/ CreateAndBind(t)
           \/ ApiRequest(t)
  BY <1>5, <1>7 DEF PlainReply, ResetSession, SwitchProject, DeleteTarget, ExplicitCommand,
     Redraft, EnsureStarted, CreateAndBind, ApiRequest
<1>8. CASE ResolveUserProject(t)
  <2>1. PICK p \in Project, command \in {"switch", "delete"} :
          Continue(t, [msg[t] EXCEPT !.at = command, !.project = p])
    BY <1>8 DEF ResolveUserProject
  <2>2. [msg[t] EXCEPT !.at = command, !.project = p].user = msg[t].user
    BY <1>1 DEF Message
  <2> QED BY <2>1, <2>2
<1>9. CASE AskDirector(t)
  <2>1. PICK phrase \in BOOLEAN :
          Continue(t, [msg[t] EXCEPT !.at = "turn", !.phrase = phrase])
    BY <1>9 DEF AskDirector
  <2>2. [msg[t] EXCEPT !.at = "turn", !.phrase = phrase].user = msg[t].user
    BY <1>1 DEF Message
  <2> QED BY <2>1, <2>2
<1>10. CASE DirectorTurn(t)
  <2>1. CASE Reply(t)
    BY <1>5, <2>1
  <2>2. ASSUME NEW draft \in BOOLEAN, NEW summary \in BOOLEAN, NEW ready \in BOOLEAN,
               Continue(t, [msg[t] EXCEPT
                 !.at = IF draft THEN "draft" ELSE "start",
                 !.active = IF draft \/ summary THEN sessions[msg[t].user] ELSE @,
                 !.draft = draft, !.ready = ready])
        PROVE  \E m : Continue(t, m) /\ m.user \in {Null, msg[t].user}
    <3> DEFINE n == [msg[t] EXCEPT
                 !.at = IF draft THEN "draft" ELSE "start",
                 !.active = IF draft \/ summary THEN sessions[msg[t].user] ELSE @,
                 !.draft = draft, !.ready = ready]
    <3>1. n.user = msg[t].user
      BY <1>1 DEF Message
    <3> HIDE DEF n
    <3>2. Continue(t, n)
      BY <2>2 DEF n
    <3> QED BY <3>1, <3>2
  <2> QED BY <1>10, <2>1, <2>2 DEF DirectorTurn
<1>11. CASE RefreshEarlyProject(t) \/ DraftWritten(t)
  BY <1>5, <1>6, <1>11 DEF RefreshEarlyProject, DraftWritten
<1>12. CASE StartProject(t)
  BY <1>5, <1>12 DEF StartProject
<1>13. CASE Work(t)
  BY <1>5, <1>13 DEF Work, Reply, Continue
<1>14. CASE FollowUp(t) \/ FallThrough(t)
  BY <1>14 DEF FollowUp, FallThrough
<1> QED BY <1>7, <1>8, <1>9, <1>10, <1>11, <1>12, <1>13, <1>14 DEF HandleMessage

\* The steps of a thread that neither delete nor make a project.
LEMMA WorksGoOn ==
  ASSUME LiveInv, NEW t \in Thread, Works(t), ~Deletes(t), ~Starts(t), pc[t] # "delete"
  PROVE  /\ LivesStay
         /\ pc'[t] \notin {"bind", "delete"}
         /\ \A x \in Thread \ {t} : pc'[x] = pc[x] /\ req'[x] = req[x]
<1>1. Typed /\ StoreTypeOK /\ ChatInv
  BY DEF LiveInv, ChatInv, Typed
<1>2. ASSUME NEW label, NEW r, Goto(t, label, r), label # "bind", label # "delete"
      PROVE  /\ pc'[t] \notin {"bind", "delete"}
             /\ \A x \in Thread \ {t} : pc'[x] = pc[x] /\ req'[x] = req[x]
  BY <1>1, <1>2 DEF Goto, Typed, ThreadsTyped
<1>3. CASE Quietly(t)
  BY <1>3, SameLives DEF Quietly, vars, store
<1>4. CASE Requests(t)
  BY <1>2, <1>4, SameLives DEF Requests, RunProject, SubmitFeedback, StageFollowUp,
     RefreshDraft, store
<1>5. CASE Commands(t)
  BY <1>1, <1>5, SessionLives DEF Commands, SessionCommand
<1>6. CASE Proceed(t) \/ RunTests(t)
  BY <1>1, <1>2, <1>6, ProceedLives, ProceedAbout DEF StaysAbout
<1> QED BY <1>3, <1>4, <1>5, <1>6 DEF Works

\* A delete comes in for a message, and lists checkpoints.
LEMMA DeletesLive ==
  ASSUME LiveInv, ChatInv', NEW t \in Thread, Moves(t), Deletes(t)
  PROVE  LiveInv'
<1>1. pc'[t] = "delete" /\ LivesStay
  BY SameLives DEF Deletes, DeleteProject, Goto, store, LiveInv, ChatInv, Typed, ThreadsTyped
<1>2. msg'[t].user # Null
  BY NullIsNothing DEF Deletes, Continue, LiveInv, ChatInv, Messages
<1> QED BY <1>1, <1>2, LiveMove

\* A project is deleted by its user's only message, so none of his is binding it.
LEMMA RemovesLive ==
  ASSUME LiveInv, ChatInv', NEW t \in Thread, Moves(t), DeleteListed(t)
  PROVE  LiveInv'
<1> DEFINE p == req[t].project
<1>1. /\ pc[t] = "delete" /\ p \in Project /\ msg[t].user # Null
      /\ \E listed : DeleteRows(p, listed)
  BY AtWork DEF DeleteListed, LiveInv, Handed, ChatInv
<1>2. /\ sessions' = [u \in User |-> IF sessions[u] = p THEN Null ELSE sessions[u]]
      /\ \A q \in Project \ {p} : projects'[q] = projects[q]
  BY <1>1 DEF DeleteRows, Unbound, LiveInv, ChatInv, Typed, StoreTypeOK
<1>3. projects[p].owner = msg[t].user
  BY <1>1, MessageApart DEF ThreadApart, LiveInv
<1>4. pc'[t] = "rmtree"
  BY DEF DeleteListed, Goto, LiveInv, ChatInv, Typed, ThreadsTyped
<1> HIDE DEF p
<1>5. BoundProjectLives'
  <2> SUFFICES ASSUME NEW u \in User, sessions'[u] # Null
               PROVE  projects'[sessions'[u]].life = "live"
    BY DEF BoundProjectLives, Live
  <2>1. sessions'[u] = sessions[u] /\ sessions[u] \in Project \ {p}
    BY <1>2 DEF LiveInv, ChatInv, Typed, StoreTypeOK
  <2> QED BY <1>2, <2>1 DEF LiveInv, BoundProjectLives, Live
<1>6. ASSUME NEW x \in Thread, pc'[x] = "bind"
      PROVE  msg'[x].user # Null /\ projects'[req'[x].project].life = "live"
  <2>1. x # t /\ msg'[x] = msg[x] /\ pc[x] = "bind" /\ req'[x] = req[x]
    BY <1>4, <1>6, OthersWait DEF LiveInv
  <2>2. msg[x].user # Null /\ Live(req[x].project) /\ req[x].project \in Project
    BY <2>1, AtWork DEF LiveInv, Handed, ChatInv
  <2>3. projects[req[x].project].owner = msg[x].user
    BY <2>1, <2>2, MessageApart DEF ThreadApart, LiveInv
  <2>4. msg[x].user # msg[t].user
    BY <2>1, <2>2 DEF LiveInv, Alone
  <2> QED BY <1>2, <1>3, <2>1, <2>2, <2>3, <2>4 DEF Live
<1>7. ASSUME NEW x \in Thread, pc'[x] = "delete" PROVE msg'[x].user # Null
  BY <1>4, <1>7, OthersWait DEF LiveInv, Handed
<1>8. Handed'
  BY <1>6, <1>7 DEF Handed, Live
<1> QED BY <1>5, <1>8, AloneStays DEF LiveInv

\* A project is made for a user whose message goes on to bind it.
LEMMA StartsLive ==
  ASSUME LiveInv, ChatInv', NEW t \in Thread, Moves(t), Starts(t)
  PROVE  LiveInv'
<1>1. PICK p \in Project : ChatStartsProject(t, msg[t].user, p)
  BY DEF Starts
<1>2. LivesStay /\ projects'[p].life = "live"
  BY <1>1, InsertProjectLives DEF ChatStartsProject, LiveInv, ChatInv, Typed
<1>3. req'[t].project = p
  BY <1>1 DEF ChatStartsProject, Goto, NoRequest, LiveInv, ChatInv, Typed, ThreadsTyped
<1>4. msg'[t].user = msg[t].user /\ msg[t].user # Null
  BY NullIsNothing DEF Starts, Continue, LiveInv, ChatInv, Messages
<1>5. BoundProjectLives'
  BY <1>2 DEF LiveInv, BoundProjectLives, Live, LivesStay, ChatInv, Typed, StoreTypeOK
<1>6. ASSUME NEW x \in Thread, pc'[x] = "bind"
      PROVE  msg'[x].user # Null /\ projects'[req'[x].project].life = "live"
  <2>1. CASE x = t
    BY <1>2, <1>3, <1>4, <2>1
  <2>2. CASE x # t
    <3>1. msg'[x] = msg[x] /\ pc[x] = "bind" /\ req'[x] = req[x]
      BY <1>6, <2>2, OthersWait DEF LiveInv
    <3>2. msg[x].user # Null /\ Live(req[x].project) /\ req[x].project \in Project
      BY <3>1, AtWork DEF LiveInv, Handed, ChatInv
    <3> QED BY <1>2, <3>1, <3>2 DEF LivesStay, Live
  <2> QED BY <2>1, <2>2
<1>7. ASSUME NEW x \in Thread, pc'[x] = "delete" PROVE msg'[x].user # Null
  BY <1>4, <1>7, OthersWait DEF LiveInv, Handed
<1>8. Handed'
  BY <1>6, <1>7 DEF Handed, Live
<1> QED BY <1>5, <1>8, AloneStays DEF LiveInv

LEMMA ThreadLive ==
  ASSUME LiveInv, ChatInv', NEW t \in Thread, HandleMessage(t) \/ ApiRequest(t) \/ Work(t)
  PROVE  LiveInv'
<1>1. Works(t)
  BY StepWorks DEF LiveInv
<1>2. \E m : Continue(t, m) /\ m.user \in {Null, msg[t].user}
  BY StepContinues DEF LiveInv
<1>3. CASE Deletes(t) \/ Starts(t)
  <2>1. \E label, r : Goto(t, label, r)
    BY <1>3 DEF Deletes, DeleteProject, Starts, ChatStartsProject
  <2>2. Moves(t)
    BY <1>2, <2>1 DEF Moves, Goto, LiveInv, ChatInv, Typed, ThreadsTyped
  <2> QED BY <1>3, <2>2, DeletesLive, StartsLive
<1>4. CASE ~Deletes(t) /\ ~Starts(t) /\ pc[t] # "delete"
  BY <1>1, <1>2, <1>4, WorksGoOn, LiveMove DEF Moves
<1>5. CASE pc[t] = "delete"
  <2>1. CASE DeleteListed(t)
    <3>1. Moves(t)
      BY <1>2, <2>1 DEF Moves, DeleteListed, Goto, LiveInv, ChatInv, Typed, ThreadsTyped
    <3> QED BY <2>1, <3>1, RemovesLive
  <2>2. DeleteListed(t)
    BY <1>1, <1>5, AtDelete DEF LiveInv
  <2> QED BY <2>1, <2>2
<1> QED BY <1>3, <1>4, <1>5

\* A message comes in when none of its user's is in flight.
LEMMA ReceiveLive ==
  ASSUME ~Overlap, LiveInv, ChatInv', NEW t \in Thread, NEW u \in User, ReceiveMessage(t, u)
  PROVE  LiveInv'
<1>1. \A s \in Thread : msg[s].user # u
  BY DEF ReceiveMessage
<1>2. /\ msg'[t].user = u
      /\ \A x \in Thread \ {t} : msg'[x] = msg[x]
  BY DEF ReceiveMessage, Continue, NoMessage, LiveInv, ChatInv, Messages
<1>3. UNCHANGED <<projects, sessions, pc, req>>
  BY DEF ReceiveMessage, vars, store
<1>4. u # Null
  BY NullIsNothing
<1>5. Alone'
  BY <1>1, <1>2 DEF LiveInv, Alone
<1>6. Handed'
  BY <1>2, <1>3, <1>4 DEF LiveInv, Handed, Live
<1>7. BoundProjectLives'
  BY <1>3 DEF LiveInv, BoundProjectLives, Live
<1> QED BY <1>5, <1>6, <1>7 DEF LiveInv

LEMMA NobodysLive ==
  ASSUME LiveInv, ChatInv',
         \/ \E p \in Project : CreateProject(p) /\ UNCHANGED msg
         \/ Restart /\ msg' = [t \in Thread |-> NoMessage]
         \/ UNCHANGED chatVars
  PROVE  LiveInv'
<1>1. LivesStay
  <2>1. ASSUME NEW p \in Project, CreateProject(p) PROVE LivesStay
    BY <2>1, InsertProjectLives DEF CreateProject, LiveInv, ChatInv, Typed
  <2>2. ASSUME UNCHANGED store PROVE LivesStay
    BY <2>2, SameLives DEF store
  <2> QED BY <2>1, <2>2 DEF Restart, chatVars, vars, store
<1>2. BoundProjectLives'
  BY <1>1 DEF LiveInv, BoundProjectLives, Live, LivesStay, ChatInv, Typed, StoreTypeOK
<1>3. CASE Restart /\ msg' = [t \in Thread |-> NoMessage]
  <2>1. \A t \in Thread : pc'[t] = "idle" /\ msg'[t].user = Null
    BY <1>3 DEF Restart, NoMessage
  <2> QED BY <1>2, <2>1 DEF LiveInv, Alone, Handed
<1>4. CASE UNCHANGED <<msg, pc, req>>
  <2>1. Alone'
    BY <1>4 DEF LiveInv, Alone
  <2>2. ASSUME NEW x \in Thread, pc[x] = "bind"
        PROVE  msg[x].user # Null /\ projects'[req[x].project].life = "live"
    BY <1>1, <2>2, AtWork DEF LiveInv, Handed, ChatInv, LivesStay, Live
  <2>3. Handed'
    BY <1>4, <2>2 DEF LiveInv, Handed, Live
  <2> QED BY <1>2, <2>1, <2>3 DEF LiveInv
<1> QED BY <1>3, <1>4 DEF CreateProject, chatVars, vars

\* As long as no user has two messages in flight, a session names a project that
\* is there: a delete has to be asked for by the same user, whose other messages
\* are over by then, the one that makes and binds the project among them.
THEOREM BoundProjectLivesHolds ==
  ASSUME ~Overlap
  PROVE  ChatSpec => []BoundProjectLives
<1>1. ChatInit => LiveInv
  <2> SUFFICES ASSUME ChatInit PROVE LiveInv
    OBVIOUS
  <2>1. /\ \A t \in Thread : pc[t] = "idle" /\ msg[t].user = Null
        /\ \A u \in User : sessions[u] = Null
    BY DEF ChatInit, Init, StoreInit, NoMessage
  <2> QED BY <2>1, InitChat DEF LiveInv, Alone, Handed, BoundProjectLives
<1>2. LiveInv /\ [ChatNext]_chatVars => LiveInv'
  <2> SUFFICES ASSUME LiveInv, [ChatNext]_chatVars PROVE LiveInv'
    OBVIOUS
  <2>1. ChatInv'
    BY ChatStep DEF LiveInv, Keeps
  <2> QED BY <2>1, ThreadLive, ReceiveLive, NobodysLive DEF ChatNext
<1>3. LiveInv => BoundProjectLives
  BY DEF LiveInv
<1> QED BY <1>1, <1>2, <1>3, PTL DEF ChatSpec

=============================================================================
