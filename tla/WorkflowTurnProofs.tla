-------------------------- MODULE WorkflowTurnProofs --------------------------
(***************************************************************************)
(* What WorkflowService keeps when requests about one project take turns:  *)
(* any number of projects, threads and requests, but no two requests about *)
(* one project at a time.  Gates, the memory and the references need no    *)
(* such premise; whether status and checkpoint agree, whether a checkpoint *)
(* comes back and whether a delete is complete does, since each is written *)
(* in several calls.  TurnsInv, in the first part, also needs that crashes *)
(* fall between requests; HandInv, in the second, does not.                *)
(***************************************************************************)
EXTENDS WorkflowRowProofs

-----------------------------------------------------------------------------
(* Statuses and gates                                                      *)

LEMMA Awaited ==
  /\ \A status : Awaits(status) <=>
       status \in {"WAIT_HUMAN_REQUIREMENT", "WAIT_HUMAN_PLAN", "WAIT_HUMAN_CODE", "WAIT_HUMAN_FINAL"}
  /\ \A type \in CheckpointType : Awaits(WaitingFor[type])
  /\ WaitingFor["plan_review"] = "WAIT_HUMAN_PLAN"
  /\ WaitingFor["requirement_review"] = "WAIT_HUMAN_REQUIREMENT"
  BY DEF Awaits, WaitingFor, CheckpointType

LEMMA NullAwaitsNothing == ~Awaits(Null)
  BY NullIsNothing, Awaited DEF TaskStatus

-----------------------------------------------------------------------------
(* A step about p is no step about any other project                       *)

Elsewhere(p) ==
  \A q \in Project \ {p} :
    /\ projects'[q] = projects[q]
    /\ disk'[q] = disk[q]
    /\ \A c \in Checkpoint :
         \/ checkpoints[c].project = q /\ Exists(c)
         \/ checkpoints'[c].project = q /\ Exists(c)'
         => checkpoints'[c] = checkpoints[c]

LEMMA ElsewhereCheckpoints ==
  ASSUME NEW p \in Project, Elsewhere(p), NEW q \in Project \ {p}
  PROVE  CheckpointsOf(q)' = CheckpointsOf(q)
<1>1. \A c \in Checkpoint :
        Exists(c)' /\ checkpoints'[c].project = q <=> Exists(c) /\ checkpoints[c].project = q
  BY DEF Elsewhere, Exists
<1> QED BY <1>1 DEF CheckpointsOf

LEMMA ElsewhereSettled ==
  ASSUME Typed, Owned, NEW p \in Project, Elsewhere(p), NEW q \in Project \ {p}, Live(q)
  PROVE  /\ Settled(q) => Settled(q)'
         /\ \A status : Waits(q, status) => Waits(q, status)'
<1>1. projects[q].current # Null =>
        checkpoints'[projects[q].current] = checkpoints[projects[q].current]
  BY DEF Owned, OwnedRows, Names, Elsewhere, Typed, StoreTypeOK, ProjectRow
<1>2. \A status : Waits(q, status) => Waits(q, status)'
  BY <1>1 DEF Waits, Elsewhere
<1> QED BY <1>2 DEF Settled, Elsewhere, Awaits

LEMMA ElsewhereUnderWay ==
  ASSUME Typed, Owned, NEW p \in Project, Elsewhere(p), NEW u \in Thread,
         pc'[u] = pc[u], req'[u] = req[u], pc[u] # "idle",
         req[u].project # p, UnderWay(pc[u], req[u])
  PROVE  UnderWay(pc[u], req[u])'
<1>1. PICK q \in Project \ {p} : q = req[u].project
  BY AtWork
<1>2. projects'[q] = projects[q]
  BY DEF Elsewhere
<1>3. Live(q) => (Settled(q) => Settled(q)') /\ (Waits(q, req[u].outcome) => Waits(q, req[u].outcome)')
  BY ElsewhereSettled
<1>4. pc[u] = "resolve" => checkpoints'[req[u].cp] = checkpoints[req[u].cp]
  BY <1>1 DEF UnderWay, Elsewhere, Typed, ThreadsTyped, WellFormed
<1>5. CheckpointsOf(q)' = CheckpointsOf(q)
  BY ElsewhereCheckpoints
<1> QED BY <1>1, <1>2, <1>3, <1>4, <1>5 DEF UnderWay, Live, Exists, Awaits, Waits

\* A step of t about p, after which t is under way on p or done with it.
LEMMA TurnStep ==
  ASSUME Typed, Owned, TurnsInv, OneAtATime, OneAtATime',
         NEW t \in Thread, NEW p \in Project, Elsewhere(p), BoundLives',
         pc[t] # "idle" => req[t].project = p,
         pc[t] # "idle" \/ pc'[t] # "idle",
         \A u \in Thread \ {t} : pc'[u] = pc[u] /\ req'[u] = req[u],
         IF pc'[t] = "idle" THEN req'[t].project = Null /\ AtRest(p)'
                            ELSE req'[t].project = p /\ UnderWay(pc[t], req[t])'
  PROVE  TurnsInv'
<1>1. p # Null /\ req[t].project \in {Null, p}
  BY NullIsNothing DEF TurnsInv
<1>2. ASSUME NEW u \in Thread
      PROVE  IF pc'[u] = "idle" THEN req'[u].project = Null ELSE UnderWay(pc[u], req[u])'
  <2>1. CASE u = t
    BY <2>1
  <2>2. CASE u # t /\ pc[u] = "idle"
    BY <2>2 DEF TurnsInv
  <2>3. CASE u # t /\ pc[u] # "idle"
    <3>1. req[u].project # p /\ UnderWay(pc[u], req[u])
      BY <2>3 DEF TurnsInv, OneAtATime
    <3> QED BY <2>3, <3>1, ElsewhereUnderWay
  <2> QED BY <2>1, <2>2, <2>3
<1>3. ASSUME NEW q \in Project, Quiet(q)' PROVE AtRest(q)'
  <2>1. CASE q = p
    BY <1>3, <2>1 DEF Quiet
  <2>2. CASE q # p
    <3>1. Quiet(q)
      BY <1>1, <1>3, <2>2, NullIsNothing DEF Quiet
    <3>2. AtRest(q) /\ projects'[q] = projects[q] /\ disk'[q] = disk[q]
      BY <2>2, <3>1 DEF TurnsInv, Elsewhere
    <3> QED BY <2>2, <3>2, ElsewhereSettled, ElsewhereCheckpoints DEF AtRest, Live
  <2> QED BY <2>1, <2>2
<1> QED BY <1>2, <1>3 DEF TurnsInv

\* A request comes in for a project nobody works on.
LEMMA Arrived ==
  ASSUME Typed, TurnsInv, OneAtATime', NEW t \in Thread, NEW p \in Project,
         pc[t] = "idle", pc'[t] # "idle", req'[t].project = p,
         \A u \in Thread \ {t} : pc'[u] = pc[u] /\ req'[u] = req[u]
  PROVE  Quiet(p) /\ AtRest(p)
<1>1. \A u \in Thread \ {t} : req[u].project # p
  BY DEF OneAtATime
<1>2. req[t].project # p
  BY NullIsNothing DEF TurnsInv
<1> QED BY <1>1, <1>2 DEF Quiet, TurnsInv

\* The fields of a thread that goes on.
LEMMA Gone ==
  ASSUME Typed, NEW t \in Thread, NEW label, NEW r, Goto(t, label, r)
  PROVE  /\ pc'[t] = label /\ req'[t] = r
         /\ \A u \in Thread \ {t} : pc'[u] = pc[u] /\ req'[u] = req[u]
  BY DEF Goto, Typed, ThreadsTyped

\* A step that leaves rows and sessions alone leads to where they already are.
LEMMA RowsStill ==
  ASSUME Typed, Owned, TurnsInv, OneAtATime, OneAtATime',
         NEW t \in Thread, NEW p \in Project, NEW label, NEW r, Goto(t, label, r),
         UNCHANGED <<projects, checkpoints, sessions>>,
         \A q \in Project \ {p} : disk'[q] = disk[q],
         pc[t] # "idle" => req[t].project = p,
         pc[t] # "idle" \/ label # "idle",
         IF label = "idle"
           THEN /\ r.project = Null
                /\ Live(p) => Settled(p)
                /\ projects[p].life = "deleted" =>
                     CheckpointsOf(p) = {} /\ disk'[p] = NoDirectory
           ELSE r.project = p /\ UnderWay(label, r)
  PROVE  TurnsInv'
<1>1. /\ pc'[t] = label /\ req'[t] = r
      /\ \A u \in Thread \ {t} : pc'[u] = pc[u] /\ req'[u] = req[u]
  BY Gone
<1>2. Elsewhere(p) /\ BoundLives'
  BY DEF Elsewhere, TurnsInv, BoundLives, Live
<1>3. \A q : CheckpointsOf(q)' = CheckpointsOf(q)
  BY DEF CheckpointsOf, Exists
<1>4. label = "idle" => AtRest(p)'
  BY <1>3 DEF AtRest, Settled, Waits, Awaits, Live
<1>5. label # "idle" => UnderWay(pc[t], req[t])'
  BY <1>1, <1>3 DEF UnderWay, Settled, Waits, Awaits, Live, Exists
<1> QED BY <1>1, <1>2, <1>4, <1>5, TurnStep

\* Where a request may end without having done harm.
LEMMA EndsTurn ==
  ASSUME Typed, Owned, TurnsInv, OneAtATime, OneAtATime', NEW t \in Thread, Finish(t),
         UNCHANGED <<projects, checkpoints, sessions>>,
         pc[t] \notin {"idle", "rmtree", "resolve", "flow", "revise_create"},
         \A q \in Project \ {req[t].project} : disk'[q] = disk[q]
  PROVE  TurnsInv'
<1>1. PICK p \in Project : p = req[t].project
  BY AtWork
<1>2. NoRequest.project = Null
  BY DEF NoRequest
<1>3. Live(p) /\ Settled(p)
  BY <1>1 DEF TurnsInv, UnderWay
<1> QED BY <1>1, <1>2, <1>3, RowsStill DEF Finish, Live

-----------------------------------------------------------------------------
(* Requests arrive                                                         *)

LEMMA ArrivalsTurn ==
  ASSUME Typed, Owned, TurnsInv, OneAtATime, OneAtATime', NEW t \in Thread, NEW p \in Project,
         \/ RunProject(t, p) \/ SubmitFeedback(t, p)
         \/ StageFollowUp(t, p) \/ RefreshDraft(t, p)
  PROVE  TurnsInv'
<1>1. /\ pc[t] = "idle" /\ Live(p)
      /\ UNCHANGED <<projects, checkpoints, sessions, disk>>
  BY DEF RunProject, SubmitFeedback, StageFollowUp, RefreshDraft, Accepts, store
<1>2. ASSUME NEW label \in {"discovery", "check", "stage", "refresh"}, NEW r,
             Goto(t, label, r), r.project = p, label = "stage" => r.type \in StageOwned
      PROVE  TurnsInv'
  <2>1. AtRest(p)
    BY <1>1, <1>2, Gone, Arrived
  <2>2. UnderWay(label, r)
    BY <1>1, <1>2, <2>1 DEF UnderWay, AtRest
  <2> QED BY <1>1, <1>2, <2>2, RowsStill
<1>3. CASE RunProject(t, p)
  BY <1>2, <1>3 DEF RunProject, NoRequest
<1>4. CASE SubmitFeedback(t, p)
  BY <1>2, <1>4 DEF SubmitFeedback, NoRequest
<1>5. CASE StageFollowUp(t, p)
  BY <1>2, <1>5 DEF StageFollowUp, NoRequest
<1>6. CASE RefreshDraft(t, p)
  BY <1>2, <1>6 DEF RefreshDraft, NoRequest
<1> QED BY <1>3, <1>4, <1>5, <1>6

\* A delete starts with the list of all the checkpoints there are.
LEMMA DeleteArrivesTurn ==
  ASSUME Typed, Owned, TurnsInv, OneAtATime, OneAtATime', NEW t \in Thread, NEW p \in Project,
         DeleteProject(t, p)
  PROVE  TurnsInv'
<1> DEFINE r == [NoRequest EXCEPT !.project = p, !.listed = CheckpointsOf(p)]
<1>1. /\ pc[t] = "idle" /\ Live(p) /\ Goto(t, "delete", r)
      /\ UNCHANGED <<projects, checkpoints, sessions, disk>>
  BY DEF DeleteProject, store
<1>2. r.project = p /\ r.listed = CheckpointsOf(p)
  BY DEF NoRequest
<1> HIDE DEF r
<1>3. AtRest(p)
  BY <1>1, <1>2, Gone, Arrived
<1>4. UnderWay("delete", r)
  BY <1>1, <1>2, <1>3 DEF UnderWay, AtRest
<1> QED BY <1>1, <1>2, <1>4, RowsStill

LEMMA ChatStartsTurn ==
  ASSUME Typed, Owned, TurnsInv, OneAtATime, OneAtATime', NEW t \in Thread,
         NEW u \in User, NEW p \in Project, ChatStartsProject(t, u, p)
  PROVE  TurnsInv'
<1> DEFINE r == [NoRequest EXCEPT !.project = p]
<1>1. pc[t] = "idle" /\ InsertProject(p, u) /\ r.project = p
  BY DEF ChatStartsProject, NoRequest
<1>2. /\ pc'[t] = "bind" /\ req'[t] = r
      /\ \A x \in Thread \ {t} : pc'[x] = pc[x] /\ req'[x] = req[x]
  BY Gone DEF ChatStartsProject
<1>3. Elsewhere(p)
  BY <1>1 DEF Elsewhere, InsertProject, Typed, StoreTypeOK
<1>4. Live(p)' /\ Settled(p)'
  BY <1>1, Awaited DEF InsertProject, Typed, StoreTypeOK, Live, Settled, Awaits
<1>5. BoundLives'
  BY <1>1, <1>3, <1>4 DEF BoundLives, TurnsInv, InsertProject, Elsewhere, Live, Typed, StoreTypeOK
<1>6. UnderWay(pc[t], req[t])'
  BY <1>1, <1>2, <1>4 DEF UnderWay
<1> QED BY <1>1, <1>2, <1>3, <1>5, <1>6, TurnStep

-----------------------------------------------------------------------------
(* Requests that are nobody's, and the commands of a session               *)

\* The project is new: nobody is at work on it.
LEMMA CreateProjectTurn ==
  ASSUME Typed, Owned, TurnsInv, NEW p \in Project, CreateProject(p)
  PROVE  TurnsInv'
<1>1. InsertProject(p, Null) /\ UNCHANGED <<pc, req>>
  BY DEF CreateProject
<1>2. Elsewhere(p)
  BY <1>1 DEF Elsewhere, InsertProject, Typed, StoreTypeOK
<1>3. Live(p)' /\ Settled(p)'
  BY <1>1, Awaited DEF InsertProject, Typed, StoreTypeOK, Live, Settled, Awaits
<1>4. BoundLives'
  BY <1>1, <1>2, <1>3 DEF BoundLives, TurnsInv, InsertProject, Elsewhere, Live, Typed, StoreTypeOK
<1>5. ASSUME NEW t \in Thread
      PROVE  IF pc'[t] = "idle" THEN req'[t].project = Null ELSE UnderWay(pc[t], req[t])'
  <2>1. CASE pc[t] = "idle"
    BY <1>1, <2>1 DEF TurnsInv
  <2>2. CASE pc[t] # "idle"
    <3>1. UnderWay(pc[t], req[t])
      BY <2>2 DEF TurnsInv
    <3>2. req[t].project # p
      BY <1>1, <3>1 DEF UnderWay, Live, InsertProject
    <3> QED BY <1>1, <1>2, <2>2, <3>1, <3>2, ElsewhereUnderWay
  <2> QED BY <2>1, <2>2
<1>6. ASSUME NEW q \in Project, Quiet(q)' PROVE AtRest(q)'
  <2>1. CASE q = p
    BY <1>3, <2>1 DEF AtRest, Live
  <2>2. CASE q # p
    <3>1. AtRest(q) /\ projects'[q] = projects[q] /\ disk'[q] = disk[q]
      BY <1>1, <1>2, <1>6, <2>2 DEF TurnsInv, Quiet, Elsewhere
    <3> QED BY <1>2, <2>2, <3>1, ElsewhereSettled, ElsewhereCheckpoints DEF AtRest, Live
  <2> QED BY <2>1, <2>2
<1> QED BY <1>4, <1>5, <1>6 DEF TurnsInv

\* A session changes whose a project is, and nothing else of it.
LEMMA SameFlow ==
  ASSUME Typed, Owned, TurnsInv, BoundLives', UNCHANGED <<checkpoints, disk, pc, req>>,
         \A p \in Project : /\ projects'[p].life = projects[p].life
                            /\ projects'[p].status = projects[p].status
                            /\ projects'[p].current = projects[p].current
  PROVE  TurnsInv'
<1>1. \A p \in Project : /\ Live(p)' <=> Live(p)
                         /\ Settled(p) => Settled(p)'
                         /\ \A status : Waits(p, status) => Waits(p, status)'
                         /\ CheckpointsOf(p)' = CheckpointsOf(p)
  BY DEF Live, Settled, Awaits, Waits, CheckpointsOf, Exists
<1>2. ASSUME NEW t \in Thread, pc[t] # "idle" PROVE UnderWay(pc[t], req[t])'
  <2>1. PICK p \in Project : p = req[t].project
    BY <1>2, AtWork
  <2>2. UnderWay(pc[t], req[t])
    BY <1>2 DEF TurnsInv
  <2> QED BY <1>1, <2>1, <2>2 DEF UnderWay, Awaits, Exists
<1>3. ASSUME NEW p \in Project, Quiet(p)' PROVE AtRest(p)'
  BY <1>1, <1>3 DEF Quiet, TurnsInv, AtRest
<1> QED BY <1>2, <1>3 DEF TurnsInv

LEMMA SessionTurn ==
  ASSUME Typed, Owned, TurnsInv, NEW u \in User, SessionCommand(u)
  PROVE  TurnsInv'
<1>1. UNCHANGED <<checkpoints, disk, pc, req>>
  BY DEF SessionCommand, ResetChatSession, SwitchActiveProject
<1>2. CASE ResetChatSession(u)
  <2>1. BoundLives' /\ UNCHANGED projects
    BY <1>2 DEF ResetChatSession, BoundLives, TurnsInv, Live, Typed, StoreTypeOK
  <2> QED BY <1>1, <2>1, SameFlow
<1>3. ASSUME NEW p \in Project, SwitchActiveProject(u, p) PROVE TurnsInv'
  <2>1. \A q \in Project : /\ projects'[q].life = projects[q].life
                           /\ projects'[q].status = projects[q].status
                           /\ projects'[q].current = projects[q].current
    BY <1>3 DEF SwitchActiveProject, Typed, StoreTypeOK, ProjectRow
  <2>2. BoundLives'
    BY <1>3, <2>1 DEF SwitchActiveProject, BoundLives, TurnsInv, Live, Typed, StoreTypeOK
  <2> QED BY <1>1, <2>1, <2>2, SameFlow
<1> QED BY <1>2, <1>3 DEF SessionCommand

-----------------------------------------------------------------------------
(* A request goes on, and touches no row                                   *)

LEMMA GiveUpTurn ==
  ASSUME Typed, Owned, TurnsInv, OneAtATime, OneAtATime', NEW t \in Thread, GiveUp(t),
         pc[t] \notin {"idle", "rmtree", "resolve", "flow", "revise_create"}
  PROVE  TurnsInv'
  BY EndsTurn DEF GiveUp, store

LEMMA GoesOn ==
  ASSUME Typed, Owned, TurnsInv, OneAtATime, OneAtATime', NEW t \in Thread, pc[t] # "idle",
         NEW label \in Pc \ {"idle"}, NEW r, Goto(t, label, r), r.project = req[t].project,
         UNCHANGED <<projects, checkpoints, sessions>>,
         \A q \in Project \ {req[t].project} : disk'[q] = disk[q],
         UnderWay(label, r)
  PROVE  TurnsInv'
<1>1. PICK p \in Project : p = req[t].project
  BY AtWork
<1> QED BY <1>1, RowsStill

\* Where a request is on p with nothing of it half written.
LEMMA Steady ==
  ASSUME Typed, TurnsInv, NEW t \in Thread,
         pc[t] \notin {"idle", "rmtree", "resolve", "flow", "revise_create"}
  PROVE  /\ req[t].project \in Project /\ req[t] \in Request
         /\ UnderWay(pc[t], req[t])
         /\ Live(req[t].project) /\ Settled(req[t].project)
<1>1. req[t].project \in Project /\ req[t] \in Request
  BY AtWork DEF Typed, ThreadsTyped
<1> QED BY <1>1 DEF TurnsInv, UnderWay

\* Labels that ask for nothing more than that.
Plain == {"discovery", "invoke", "requirement_create", "sync", "write_memory", "check",
          "requirement_turn", "turn_refresh", "revise_status"}

LEMMA GoesOnPlain ==
  ASSUME Typed, Owned, TurnsInv, OneAtATime, OneAtATime', NEW t \in Thread,
         pc[t] \notin {"idle", "rmtree", "resolve", "flow", "revise_create"},
         NEW label \in Plain, NEW r, Goto(t, label, r), r.project = req[t].project,
         UNCHANGED store
  PROVE  TurnsInv'
<1>1. UnderWay(label, r)
  BY Steady DEF UnderWay, Plain
<1>2. label \in Pc \ {"idle"}
  BY PcLabels DEF Plain
<1> QED BY <1>1, <1>2, GoesOn DEF store

LEMMA DiscoveryReadsTurn ==
  ASSUME Typed, Owned, TurnsInv, OneAtATime, OneAtATime', NEW t \in Thread, DiscoveryReads(t)
  PROVE  TurnsInv'
<1> DEFINE r == [req[t] EXCEPT !.snap = graph[req[t].project]]
<1>1. CASE GiveUp(t)
  BY <1>1, GiveUpTurn DEF DiscoveryReads
<1>2. CASE Goto(t, "invoke", r) /\ UNCHANGED store
  <2>1. pc[t] = "discovery" /\ r.project = req[t].project
    BY Steady DEF DiscoveryReads, Request
  <2> HIDE DEF r
  <2> QED BY <1>2, <2>1, GoesOnPlain DEF Plain
<1> QED BY <1>1, <1>2 DEF DiscoveryReads

LEMMA DiscoveryRunsTurn ==
  ASSUME Typed, Owned, TurnsInv, OneAtATime, OneAtATime', NEW t \in Thread, DiscoveryRuns(t)
  PROVE  TurnsInv'
<1> DEFINE r == [NoRequest EXCEPT !.project = req[t].project]
<1>1. CASE GiveUp(t)
  BY <1>1, GiveUpTurn DEF DiscoveryRuns
<1>2. CASE Goto(t, "requirement_create", r) /\ UNCHANGED store
  <2>1. pc[t] = "invoke" /\ r.project = req[t].project
    BY DEF DiscoveryRuns, NoRequest
  <2> HIDE DEF r
  <2> QED BY <1>2, <2>1, GoesOnPlain DEF Plain
<1> QED BY <1>1, <1>2 DEF DiscoveryRuns

LEMMA SyncReadsTurn ==
  ASSUME Typed, Owned, TurnsInv, OneAtATime, OneAtATime', NEW t \in Thread, SyncReads(t)
  PROVE  TurnsInv'
<1> DEFINE r == [req[t] EXCEPT !.outcome = Null,
                   !.decisions = Decisions(graph[req[t].project], req[t].outcome)]
<1>1. CASE GiveUp(t)
  BY <1>1, GiveUpTurn DEF SyncReads
<1>2. CASE Goto(t, "write_memory", r) /\ UNCHANGED store
  <2>1. pc[t] = "sync"
    BY DEF SyncReads
  <2>2. r.project = req[t].project
    BY <2>1, Steady DEF Request
  <2> HIDE DEF r
  <2> QED BY <1>2, <2>1, <2>2, GoesOnPlain DEF Plain
<1> QED BY <1>1, <1>2 DEF SyncReads

LEMMA ReviseStatusTurn ==
  ASSUME Typed, Owned, TurnsInv, OneAtATime, OneAtATime', NEW t \in Thread, ReviseStatus(t)
  PROVE  TurnsInv'
<1> DEFINE r == [req[t] EXCEPT !.outcome = projects[req[t].project].status]
<1>1. CASE GiveUp(t)
  BY <1>1, GiveUpTurn DEF ReviseStatus
<1>2. CASE Goto(t, "sync", r) /\ UNCHANGED store
  <2>1. pc[t] = "revise_status"
    BY DEF ReviseStatus
  <2>2. r.project = req[t].project
    BY <2>1, Steady DEF Request
  <2> HIDE DEF r
  <2> QED BY <1>2, <2>1, <2>2, GoesOnPlain DEF Plain
<1> QED BY <1>1, <1>2 DEF ReviseStatus

LEMMA SyncWritesTurn ==
  ASSUME Typed, Owned, TurnsInv, OneAtATime, OneAtATime', NEW t \in Thread, SyncWrites(t)
  PROVE  TurnsInv'
<1>1. pc[t] = "write_memory"
  BY DEF SyncWrites
<1>2. \A q \in Project \ {req[t].project} : disk'[q] = disk[q]
  BY DEF SyncWrites, WriteProjectMemory, Typed, StoreTypeOK
<1> QED BY <1>1, <1>2, EndsTurn DEF SyncWrites, WriteProjectMemory

\* The checkpoint that passed the checks is the one the project waits with.
LEMMA CheckFeedbackTurn ==
  ASSUME Typed, Owned, TurnsInv, OneAtATime, OneAtATime', NEW t \in Thread, CheckFeedback(t)
  PROVE  TurnsInv'
<1>1. pc[t] = "check"
  BY DEF CheckFeedback
<1>2. CASE GiveUp(t)
  BY <1>1, <1>2, GiveUpTurn
<1>3. ASSUME NEW c \in Checkpoint, NEW type \in CheckpointType,
             FeedbackMatches(req[t].project, req[t].version, c, type),
             Goto(t, "snapshot", [req[t] EXCEPT
               !.cp = c, !.type = type, !.version = 0, !.shown = NoRequest.shown]),
             UNCHANGED store
      PROVE  TurnsInv'
  <2> DEFINE r == [req[t] EXCEPT !.cp = c, !.type = type, !.version = 0,
                     !.shown = NoRequest.shown]
  <2>1. r.project = req[t].project /\ r.cp = c /\ Goto(t, "snapshot", r)
    BY <1>1, <1>3, Steady DEF Request
  <2> HIDE DEF r
  <2>2. UnderWay("snapshot", r)
    BY <1>1, <1>3, <2>1, Steady DEF UnderWay, FeedbackMatches
  <2> QED BY <1>1, <1>3, <2>1, <2>2, GoesOn, PcLabels DEF store
<1> QED BY <1>2, <1>3 DEF CheckFeedback

LEMMA ReadSnapshotTurn ==
  ASSUME Typed, Owned, TurnsInv, OneAtATime, OneAtATime', NEW t \in Thread, ReadSnapshot(t)
  PROVE  TurnsInv'
<1> DEFINE r == [req[t] EXCEPT !.snap = graph[req[t].project]]
<1>1. pc[t] = "snapshot" /\ UNCHANGED store /\ Goto(t, "dispatch", r)
  BY DEF ReadSnapshot
<1>2. r.project = req[t].project /\ r.cp = req[t].cp
  BY <1>1, Steady DEF Request
<1> HIDE DEF r
<1>3. UnderWay("dispatch", r)
  BY <1>1, <1>2, Steady DEF UnderWay
<1> QED BY <1>1, <1>2, <1>3, GoesOn, PcLabels DEF store

LEMMA StageCheckpointTurn ==
  ASSUME Typed, Owned, TurnsInv, OneAtATime, OneAtATime', NEW t \in Thread, StageCheckpoint(t)
  PROVE  TurnsInv'
<1>1. pc[t] = "stage" /\ UnderWay("stage", req[t])
  BY Steady DEF StageCheckpoint
<1>2. CASE GiveUp(t)
  BY <1>1, <1>2, GiveUpTurn
<1>3. CASE req[t].type = "plan_review" /\ ~GiveUp(t)
  <2>1. projects[req[t].project].status = "WAIT_HUMAN_PLAN"
    BY <1>3, Awaited DEF StageCheckpoint
  <2>2. UnderWay("plan_turn", req[t])
    BY <1>1, <2>1, Steady DEF UnderWay
  <2>3. Goto(t, "plan_turn", req[t]) /\ UNCHANGED store
    BY <1>3 DEF StageCheckpoint
  <2> QED BY <1>1, <2>2, <2>3, GoesOn, PcLabels DEF store
<1>4. CASE req[t].type # "plan_review" /\ ~GiveUp(t)
  BY <1>1, <1>4, GoesOnPlain DEF StageCheckpoint, Plain
<1> QED BY <1>2, <1>3, <1>4

LEMMA ApproveCurrentTurn ==
  ASSUME Typed, Owned, TurnsInv, OneAtATime, OneAtATime', NEW t \in Thread,
         pc[t] \in {"requirement_turn", "plan_turn"}, ApproveCurrent(t)
  PROVE  TurnsInv'
<1> DEFINE p == req[t].project
           c == projects[p].current
           r == [NoRequest EXCEPT
             !.project = p, !.cp = c, !.type = checkpoints[c].type, !.action = "approve",
             !.version = projects[p].version,
             !.shown = [status |-> projects[p].status, current |-> c]]
<1>1. r.project = p
  BY DEF NoRequest
<1>2. Goto(t, "check", r) /\ UNCHANGED store
  BY DEF ApproveCurrent
<1> HIDE DEF r
<1> QED BY <1>1, <1>2, GoesOnPlain DEF Plain

LEMMA RequirementTurnTurn ==
  ASSUME Typed, Owned, TurnsInv, OneAtATime, OneAtATime', NEW t \in Thread, RequirementTurn(t)
  PROVE  TurnsInv'
<1>1. pc[t] = "requirement_turn"
  BY DEF RequirementTurn
<1>2. CASE Goto(t, "turn_refresh", req[t]) /\ UNCHANGED store
  BY <1>1, <1>2, GoesOnPlain DEF Plain
<1> QED BY <1>1, <1>2, GiveUpTurn, ApproveCurrentTurn DEF RequirementTurn

\* The plan turn read a checkpoint that was pending: there is one.
LEMMA PlanTurnTurn ==
  ASSUME Typed, Owned, TurnsInv, OneAtATime, OneAtATime', NEW t \in Thread, PlanTurn(t)
  PROVE  TurnsInv'
<1> DEFINE c == projects[req[t].project].current
           r == [req[t] EXCEPT !.cp = c]
<1>1. pc[t] = "plan_turn"
  BY DEF PlanTurn
<1>2. c # Null /\ checkpoints[c].status = "pending"
  BY <1>1, Steady, Awaited DEF UnderWay, Settled, Waits
<1>3. CASE Goto(t, "plan_revise", r) /\ UNCHANGED store
  <2>1. r.project = req[t].project /\ r.cp = c
    BY <1>1, Steady DEF Request
  <2> HIDE DEF r
  <2>2. UnderWay("plan_revise", r)
    BY <1>1, <2>1, Steady DEF UnderWay
  <2> QED BY <1>1, <1>3, <2>1, <2>2, GoesOn, PcLabels DEF store
<1> QED BY <1>1, <1>2, <1>3, GiveUpTurn, ApproveCurrentTurn DEF PlanTurn

LEMMA PlanReviseTurn ==
  ASSUME Typed, Owned, TurnsInv, OneAtATime, OneAtATime', NEW t \in Thread, PlanRevise(t)
  PROVE  TurnsInv'
<1>1. pc[t] = "plan_revise"
  BY DEF PlanRevise
<1>2. UnderWay("revise_resolve", req[t]) /\ req[t].cp # Null
  BY <1>1, Steady, Awaited DEF UnderWay, Settled, Waits
<1>3. CASE Goto(t, "revise_resolve", req[t]) /\ UNCHANGED store
  BY <1>1, <1>2, <1>3, GoesOn, PcLabels DEF store
<1> QED BY <1>1, <1>2, <1>3, GiveUpTurn DEF PlanRevise

-----------------------------------------------------------------------------
(* The handlers                                                            *)

\* A handler that leaves nothing to open, of a project it answers for.
LEMMA ToResolve ==
  ASSUME Typed, Owned, TurnsInv, OneAtATime, OneAtATime', NEW t \in Thread,
         pc[t] \in {"dispatch", "test"}, NEW s \in TaskStatus \cup {Null}, ~Awaits(s),
         Outcome(t, "resolve", s), UNCHANGED store
  PROVE  TurnsInv'
<1> DEFINE r == [NoRequest EXCEPT
                   !.project = req[t].project, !.cp = req[t].cp, !.outcome = s]
<1>1. PICK p \in Project : p = req[t].project
  BY Steady
<1>2. /\ r.project = p /\ r.cp = req[t].cp /\ r.outcome = s /\ r.next = Null
      /\ Goto(t, "resolve", r)
  BY <1>1 DEF Outcome, NoRequest
<1> HIDE DEF r
<1>3. req[t].cp \in Checkpoint /\ req[t].cp = projects[p].current /\ Live(p)
  BY <1>1, Steady DEF UnderWay, Typed, ThreadsTyped, WellFormed
<1>4. req[t].cp # Null /\ Names(req[t].cp, p)
  BY <1>3, NullIsNothing DEF Owned, OwnedRows
<1>5. UnderWay("resolve", r)
  BY <1>2, <1>3, <1>4 DEF UnderWay, Names
<1> QED BY <1>1, <1>2, <1>5, GoesOn, PcLabels DEF store

LEMMA ToCreate ==
  ASSUME Typed, Owned, TurnsInv, OneAtATime, OneAtATime', NEW t \in Thread,
         pc[t] \in {"dispatch", "test"}, NEW s \in TaskStatus, Awaits(s),
         Outcome(t, "create", s), UNCHANGED store
  PROVE  TurnsInv'
<1> DEFINE r == [NoRequest EXCEPT
                   !.project = req[t].project, !.cp = req[t].cp, !.outcome = s]
<1>1. /\ r.project = req[t].project /\ r.cp = req[t].cp /\ r.outcome = s
      /\ Goto(t, "create", r)
  BY DEF Outcome, NoRequest
<1> HIDE DEF r
<1>2. UnderWay("create", r)
  BY <1>1, Steady DEF UnderWay
<1> QED BY <1>1, <1>2, GoesOn, PcLabels DEF store

LEMMA Ends ==
  /\ \A s \in {"DISCOVERY", "CANCELLED", "PLANNING", "CODING", "DONE", "DEBUGGING", "FAILED"} :
       s \in TaskStatus /\ ~Awaits(s)
  /\ \A s \in {"WAIT_HUMAN_PLAN", "WAIT_HUMAN_CODE", "WAIT_HUMAN_FINAL"} :
       s \in TaskStatus /\ Awaits(s)
  BY Awaited DEF TaskStatus

LEMMA DispatchTurn ==
  ASSUME Typed, Owned, TurnsInv, OneAtATime, OneAtATime', NEW t \in Thread, Dispatch(t)
  PROVE  TurnsInv'
<1>1. pc[t] = "dispatch"
  BY DEF Dispatch
<1>2. ASSUME NEW action \in Action,
             \/ RequirementFeedback(t, action) \/ CodeFeedback(t, action)
             \/ FinalFeedback(t, action)
      PROVE  TurnsInv'
  <2>1. UNCHANGED store
    BY <1>2 DEF RequirementFeedback, CodeFeedback, FinalFeedback
  <2>2. \/ \E s \in {"DISCOVERY", "CANCELLED", "PLANNING", "CODING", "DONE", "DEBUGGING"} :
             Outcome(t, "resolve", s)
        \/ \E s \in {"WAIT_HUMAN_PLAN", "WAIT_HUMAN_FINAL"} : Outcome(t, "create", s)
    BY <1>2 DEF RequirementFeedback, CodeFeedback, FinalFeedback
  <2> QED BY <1>1, <2>1, <2>2, Ends, ToResolve, ToCreate
<1>3. ASSUME NEW action \in Action, PlanFeedback(t, action) PROVE TurnsInv'
  <2>1. CASE PersistCodeFiles(req[t].project) /\ Outcome(t, "test", Null)
    <3> DEFINE r == [NoRequest EXCEPT
                       !.project = req[t].project, !.cp = req[t].cp, !.outcome = Null]
    <3>1. r.project = req[t].project /\ r.cp = req[t].cp /\ Goto(t, "test", r)
      BY <2>1 DEF Outcome, NoRequest
    <3> HIDE DEF r
    <3>2. UnderWay("test", r)
      BY <1>1, <3>1, Steady DEF UnderWay
    <3>3. /\ UNCHANGED <<projects, checkpoints, sessions>>
          /\ \A q \in Project \ {req[t].project} : disk'[q] = disk[q]
      BY <2>1 DEF PersistCodeFiles, Typed, StoreTypeOK
    <3> QED BY <1>1, <3>1, <3>2, <3>3, GoesOn, PcLabels
  <2>2. CASE UNCHANGED store /\ \E s \in {"PLANNING", "CANCELLED"} : Outcome(t, "resolve", s)
    BY <1>1, <2>2, Ends, ToResolve
  <2> QED BY <1>3, <2>1, <2>2 DEF PlanFeedback
<1> QED BY <1>1, <1>2, <1>3, GiveUpTurn DEF Dispatch, Handle

LEMMA RunTestsTurn ==
  ASSUME Typed, Owned, TurnsInv, OneAtATime, OneAtATime', NEW t \in Thread, RunTests(t)
  PROVE  TurnsInv'
<1>1. pc[t] = "test" /\ UNCHANGED store /\ UnderWay("test", req[t])
  BY Steady DEF RunTests
<1>2. CASE Finish(t)
  BY <1>1, <1>2, EndsTurn DEF store
<1>3. CASE Goto(t, "debug", req[t])
  <2>1. UnderWay("debug", req[t])
    BY <1>1, Steady DEF UnderWay
  <2> QED BY <1>1, <1>3, <2>1, GoesOn, PcLabels DEF store
<1>4. CASE Outcome(t, "create", "WAIT_HUMAN_CODE")
  BY <1>1, <1>4, Ends, ToCreate
<1>5. CASE \E s \in {"CODING", "FAILED"} : Outcome(t, "resolve", s)
  BY <1>1, <1>5, Ends, ToResolve
<1> QED BY <1>2, <1>3, <1>4, <1>5 DEF RunTests

LEMMA DebugTurn ==
  ASSUME Typed, Owned, TurnsInv, OneAtATime, OneAtATime', NEW t \in Thread, Debug(t)
  PROVE  TurnsInv'
<1>1. pc[t] = "debug"
  BY DEF Debug
<1>2. CASE PersistCodeFiles(req[t].project) /\ Goto(t, "test", req[t])
  <2>1. UnderWay("test", req[t])
    BY <1>1, Steady DEF UnderWay
  <2>2. /\ UNCHANGED <<projects, checkpoints, sessions>>
        /\ \A q \in Project \ {req[t].project} : disk'[q] = disk[q]
    BY <1>2 DEF PersistCodeFiles, Typed, StoreTypeOK
  <2> QED BY <1>1, <1>2, <2>1, <2>2, GoesOn, PcLabels
<1> QED BY <1>1, <1>2, GiveUpTurn DEF Debug

-----------------------------------------------------------------------------
(* The steps that write rows                                               *)

LEMMA RowsWritten ==
  ASSUME Typed, Owned, TurnsInv, OneAtATime, OneAtATime', NEW t \in Thread, pc[t] # "idle",
         NEW label \in Pc \ {"idle"}, NEW r, Goto(t, label, r), r.project = req[t].project,
         Elsewhere(req[t].project), BoundLives',
         pc'[t] = label /\ req'[t] = r => UnderWay(pc[t], req[t])'
  PROVE  TurnsInv'
<1>1. PICK p \in Project : p = req[t].project
  BY AtWork
<1>2. /\ pc'[t] = label /\ req'[t] = r
      /\ \A u \in Thread \ {t} : pc'[u] = pc[u] /\ req'[u] = req[u]
  BY Gone
<1> QED BY <1>1, <1>2, TurnStep

LEMMA CreateEffect ==
  ASSUME Typed, Owned, BoundLives, NEW p \in Project, NEW c \in Checkpoint,
         NEW type \in CheckpointType, CreateCheckpoint(p, c, type)
  PROVE  /\ Elsewhere(p) /\ BoundLives' /\ Live(p)'
         /\ projects'[p].status = projects[p].status /\ projects'[p].current = c
         /\ \A status : WaitingFor[type] = status => Waits(p, status)'
         /\ ~Exists(c) /\ c # Null
         /\ \A d \in Checkpoint : Exists(d) => checkpoints'[d] = checkpoints[d]
<1>1. ~Exists(c) /\ c # Null
  BY NullIsNothing DEF CreateCheckpoint, Exists
<1>2. \A d \in Checkpoint : Exists(d) => checkpoints'[d] = checkpoints[d]
  BY <1>1 DEF CreateCheckpoint, Typed, StoreTypeOK
<1>3. Elsewhere(p)
  <2>1. \A d \in Checkpoint : checkpoints'[d].project # p => checkpoints'[d] = checkpoints[d]
    BY DEF CreateCheckpoint, Typed, StoreTypeOK
  <2> QED BY <1>2, <2>1 DEF Elsewhere, CreateCheckpoint, Typed, StoreTypeOK
<1>4. /\ Live(p)' /\ projects'[p].status = projects[p].status /\ projects'[p].current = c
      /\ \A q \in Project : projects'[q].life = projects[q].life
  BY DEF CreateCheckpoint, Live, Typed, StoreTypeOK, ProjectRow
<1>5. BoundLives'
  BY <1>4 DEF BoundLives, CreateCheckpoint, Live, Typed, StoreTypeOK
<1>6. checkpoints'[c] = [project |-> p, type |-> type, status |-> "pending"]
  BY DEF CreateCheckpoint, Typed, StoreTypeOK
<1>7. ASSUME NEW status, WaitingFor[type] = status PROVE Waits(p, status)'
  BY <1>1, <1>4, <1>6, <1>7 DEF Waits
<1> QED BY <1>1, <1>2, <1>3, <1>4, <1>5, <1>7

LEMMA ResolveEffect ==
  ASSUME Typed, BoundLives, NEW p \in Project, NEW c \in Checkpoint,
         ResolveCheckpoint(c), checkpoints[c].project = p
  PROVE  /\ Elsewhere(p) /\ BoundLives' /\ UNCHANGED projects
         /\ \A d \in Checkpoint : d # c => checkpoints'[d] = checkpoints[d]
  BY DEF Elsewhere, BoundLives, Live, ResolveCheckpoint, Typed, StoreTypeOK, CheckpointRow

LEMMA FlowEffect ==
  ASSUME Typed, BoundLives, NEW p \in Project, NEW s \in TaskStatus,
         NEW c \in Checkpoint \cup {Null}, UpdateProjectFlowState(p, s, c)
  PROVE  /\ Elsewhere(p) /\ BoundLives' /\ Live(p)' /\ UNCHANGED checkpoints
         /\ projects'[p].status = s /\ projects'[p].current = c
<1>1. /\ Live(p)' /\ projects'[p].status = s /\ projects'[p].current = c
      /\ \A q \in Project : projects'[q].life = projects[q].life
  BY DEF UpdateProjectFlowState, Live, Typed, StoreTypeOK, ProjectRow
<1>2. \A u \in User : sessions'[u] \in {sessions[u], Null}
  BY DEF UpdateProjectFlowState, Unbound, Typed, StoreTypeOK
<1>3. BoundLives'
  BY <1>1, <1>2 DEF BoundLives, Live, Typed, StoreTypeOK
<1>4. Elsewhere(p)
  BY DEF Elsewhere, UpdateProjectFlowState, Typed, StoreTypeOK
<1> QED BY <1>1, <1>3, <1>4 DEF UpdateProjectFlowState

LEMMA RefreshEffect ==
  ASSUME Typed, Owned, BoundLives, NEW p \in Project, RefreshActiveProjectRequirement(p)
  PROVE  Elsewhere(p) /\ BoundLives' /\ Live(p)' /\ Settled(p)'
<1>1. /\ Live(p)' /\ projects'[p].status = "DISCOVERY" /\ projects'[p].current = Null
      /\ \A q \in Project : projects'[q].life = projects[q].life
  BY DEF RefreshActiveProjectRequirement, Live, Typed, StoreTypeOK, ProjectRow
<1>2. BoundLives'
  BY <1>1 DEF RefreshActiveProjectRequirement, BoundLives, Live, Typed, StoreTypeOK
<1>3. Settled(p)'
  BY <1>1, Awaited DEF Settled, Awaits
<1>4. projects[p].current # Null => checkpoints[projects[p].current].project = p
  BY DEF Owned, OwnedRows, Names
<1>5. \A q \in Project \ {p} : projects'[q] = projects[q] /\ disk'[q] = disk[q]
  BY DEF RefreshActiveProjectRequirement, Typed, StoreTypeOK
<1>6. \A c \in Checkpoint :
        /\ checkpoints'[c].project = checkpoints[c].project
        /\ checkpoints[c].project # p => checkpoints'[c] = checkpoints[c]
  <2> SUFFICES ASSUME NEW c \in Checkpoint
               PROVE  /\ checkpoints'[c].project = checkpoints[c].project
                      /\ checkpoints[c].project # p => checkpoints'[c] = checkpoints[c]
    OBVIOUS
  <2>1. checkpoints[c] \in CheckpointRow
    BY DEF Typed, StoreTypeOK
  <2>2. checkpoints'[c] = IF c = projects[p].current /\ checkpoints[c].status = "pending"
                            THEN [checkpoints[c] EXCEPT !.status = "resolved"]
                            ELSE checkpoints[c]
    BY DEF RefreshActiveProjectRequirement
  <2>3. c = projects[p].current => checkpoints[c].project = p
    BY <1>4, NullIsNothing
  <2> QED BY <2>1, <2>2, <2>3 DEF CheckpointRow
<1>7. Elsewhere(p)
  BY <1>5, <1>6 DEF Elsewhere, RefreshActiveProjectRequirement
<1> QED BY <1>1, <1>2, <1>3, <1>7

\* A delete leaves nobody bound to the project and nothing that it has listed.
LEMMA DeleteEffect ==
  ASSUME Typed, BoundLives, NEW p \in Project, NEW listed, DeleteRows(p, listed)
  PROVE  /\ Elsewhere(p) /\ BoundLives' /\ projects'[p].life = "deleted"
         /\ listed = CheckpointsOf(p) => CheckpointsOf(p)' = {}
<1>1. /\ projects'[p].life = "deleted"
      /\ \A q \in Project \ {p} : projects'[q] = projects[q]
  BY DEF DeleteRows, Typed, StoreTypeOK, ProjectRow
<1>2. \A c \in Checkpoint :
        /\ checkpoints'[c].project = checkpoints[c].project
        /\ checkpoints[c].project # p => checkpoints'[c] = checkpoints[c]
        /\ c \in listed /\ c \in CheckpointsOf(p) => ~Exists(c)'
        /\ c \notin CheckpointsOf(p) => checkpoints'[c] = checkpoints[c]
  BY DEF DeleteRows, Removed, CheckpointsOf, Exists, Typed, StoreTypeOK, CheckpointRow
<1>3. Elsewhere(p)
  BY <1>1, <1>2 DEF Elsewhere, DeleteRows
<1>4. \A u \in User : sessions'[u] \in {sessions[u], Null} /\ sessions'[u] # p
  BY NullIsNothing DEF DeleteRows, Unbound, Typed, StoreTypeOK
<1>5. BoundLives'
  BY <1>1, <1>4 DEF BoundLives, Live, Typed, StoreTypeOK
<1>6. ASSUME listed = CheckpointsOf(p) PROVE CheckpointsOf(p)' = {}
  <2>1. ASSUME NEW c \in Checkpoint, Exists(c)', checkpoints'[c].project = p PROVE FALSE
    BY <1>2, <1>6, <2>1 DEF CheckpointsOf, Exists
  <2> QED BY <2>1 DEF CheckpointsOf
<1> QED BY <1>1, <1>3, <1>5, <1>6

LEMMA DeleteTurn ==
  ASSUME Typed, Owned, TurnsInv, OneAtATime, OneAtATime', NEW t \in Thread, DeleteListed(t)
  PROVE  TurnsInv'
<1>1. PICK p \in Project : p = req[t].project
  BY AtWork DEF DeleteListed
<1>2. pc[t] = "delete" /\ req[t].listed = CheckpointsOf(p)
  BY <1>1, Steady DEF DeleteListed, UnderWay
<1> DEFINE r == [NoRequest EXCEPT !.project = p]
<1>3. /\ DeleteRows(p, req[t].listed) /\ Goto(t, "rmtree", r)
      /\ r.project = p
  BY <1>1 DEF DeleteListed, NoRequest
<1> HIDE DEF r
<1>4. /\ Elsewhere(p) /\ BoundLives' /\ projects'[p].life = "deleted"
      /\ CheckpointsOf(p)' = {}
  BY <1>2, <1>3, DeleteEffect DEF TurnsInv
<1>5. ASSUME pc'[t] = "rmtree", req'[t] = r PROVE UnderWay(pc[t], req[t])'
  BY <1>3, <1>4, <1>5 DEF UnderWay
<1> QED BY <1>1, <1>2, <1>3, <1>4, <1>5, RowsWritten, PcLabels

LEMMA BindTurn ==
  ASSUME Typed, Owned, TurnsInv, OneAtATime, OneAtATime', NEW t \in Thread, BindProject(t)
  PROVE  TurnsInv'
<1>1. PICK p \in Project : p = req[t].project
  BY AtWork DEF BindProject
<1>2. pc[t] = "bind" /\ Live(p) /\ Settled(p)
  BY <1>1, Steady DEF BindProject
<1>3. ASSUME NEW u \in User, BindActiveProject(u, p), projects[p].owner = u,
             Goto(t, "discovery", req[t])
      PROVE  TurnsInv'
  <2>1. UNCHANGED <<projects, checkpoints, disk>>
    BY <1>3, NullIsNothing DEF BindActiveProject
  <2>2. BoundLives'
    BY <1>2, <1>3, <2>1 DEF BoundLives, TurnsInv, BindActiveProject, Live, Typed, StoreTypeOK
  <2>3. Live(p)' /\ Settled(p)' /\ Elsewhere(p)
    BY <1>2, <2>1 DEF Live, Settled, Waits, Awaits, Elsewhere
  <2>4. ASSUME pc'[t] = "discovery", req'[t] = req[t] PROVE UnderWay(pc[t], req[t])'
    BY <1>1, <2>3, <2>4 DEF UnderWay
  <2> QED BY <1>1, <1>2, <1>3, <2>2, <2>3, <2>4, RowsWritten, PcLabels
<1> QED BY <1>1, <1>2, <1>3, GiveUpTurn DEF BindProject

LEMMA RequirementCheckpointTurn ==
  ASSUME Typed, Owned, TurnsInv, OneAtATime, OneAtATime', NEW t \in Thread,
         RequirementCheckpoint(t)
  PROVE  TurnsInv'
<1>1. PICK p \in Project : p = req[t].project
  BY AtWork DEF RequirementCheckpoint
<1>2. pc[t] = "requirement_create" /\ req[t] \in Request
  BY Steady DEF RequirementCheckpoint
<1>3. ASSUME NEW c \in Checkpoint, CreateCheckpoint(p, c, "requirement_review"),
             Goto(t, "flow", [req[t] EXCEPT !.next = c, !.outcome = "WAIT_HUMAN_REQUIREMENT"])
      PROVE  TurnsInv'
  <2> DEFINE r == [req[t] EXCEPT !.next = c, !.outcome = "WAIT_HUMAN_REQUIREMENT"]
  <2>1. /\ r.project = p /\ r.next = c /\ r.outcome = "WAIT_HUMAN_REQUIREMENT"
        /\ Goto(t, "flow", r)
    BY <1>1, <1>2, <1>3 DEF Request
  <2> HIDE DEF r
  <2>2. /\ Elsewhere(p) /\ BoundLives' /\ Live(p)' /\ projects'[p].current = c
        /\ Waits(p, "WAIT_HUMAN_REQUIREMENT")'
    BY <1>3, CreateEffect, Awaited DEF TurnsInv, CheckpointType
  <2>3. ASSUME pc'[t] = "flow", req'[t] = r PROVE UnderWay(pc[t], req[t])'
    BY <2>1, <2>2, <2>3, Awaited DEF UnderWay, Awaits
  <2> QED BY <1>1, <1>2, <2>1, <2>2, <2>3, RowsWritten, PcLabels
<1> QED BY <1>1, <1>2, <1>3, GiveUpTurn DEF RequirementCheckpoint

\* The checkpoint that was answered stays to be resolved: it is not the new one.
LEMMA NextCheckpointTurn ==
  ASSUME Typed, Owned, TurnsInv, OneAtATime, OneAtATime', NEW t \in Thread, NextCheckpoint(t)
  PROVE  TurnsInv'
<1>1. PICK p \in Project : p = req[t].project
  BY AtWork DEF NextCheckpoint
<1>2. /\ pc[t] = "create" /\ req[t] \in Request /\ Live(p)
      /\ req[t].cp = projects[p].current /\ Awaits(req[t].outcome)
      /\ req[t].cp \in Checkpoint
  BY <1>1, Steady DEF NextCheckpoint, UnderWay, Typed, ThreadsTyped, WellFormed
<1>3. req[t].cp # Null /\ Exists(req[t].cp) /\ checkpoints[req[t].cp].project = p
  BY <1>2, NullIsNothing DEF Owned, OwnedRows, Names
<1>4. ASSUME NEW c \in Checkpoint, NEW type \in CheckpointType,
             WaitingFor[type] = req[t].outcome, CreateCheckpoint(p, c, type),
             Goto(t, "resolve", [req[t] EXCEPT !.next = c])
      PROVE  TurnsInv'
  <2> DEFINE r == [req[t] EXCEPT !.next = c]
  <2>1. /\ r.project = p /\ r.next = c /\ r.outcome = req[t].outcome /\ r.cp = req[t].cp
        /\ Goto(t, "resolve", r)
    BY <1>1, <1>2, <1>4 DEF Request
  <2> HIDE DEF r
  <2>2. /\ Elsewhere(p) /\ BoundLives' /\ Live(p)' /\ projects'[p].current = c
        /\ \A status : status = req[t].outcome => Waits(p, status)'
        /\ checkpoints'[r.cp] = checkpoints[r.cp] /\ r.cp # c
    BY <1>2, <1>3, <1>4, <2>1, CreateEffect DEF TurnsInv
  <2>3. PICK s \in TaskStatus \cup {Null} : s = r.outcome
    BY <1>2, <2>1 DEF Request
  <2>4. Waits(p, s)' /\ Awaits(s)
    BY <1>2, <2>1, <2>2, <2>3
  <2>5. ASSUME pc'[t] = "resolve", req'[t] = r PROVE UnderWay(pc[t], req[t])'
    BY <1>3, <2>1, <2>2, <2>3, <2>4, <2>5 DEF UnderWay, Awaits, Waits, Exists
  <2> QED BY <1>1, <1>2, <2>1, <2>2, <2>5, RowsWritten, PcLabels
<1> QED BY <1>1, <1>2, <1>4 DEF NextCheckpoint

LEMMA ResolveAnsweredTurn ==
  ASSUME Typed, Owned, TurnsInv, OneAtATime, OneAtATime', NEW t \in Thread, ResolveAnswered(t)
  PROVE  TurnsInv'
<1>1. PICK p \in Project : p = req[t].project
  BY AtWork DEF ResolveAnswered
<1>2. pc[t] = "resolve" /\ req[t] \in Request /\ UnderWay("resolve", req[t])
  BY DEF ResolveAnswered, TurnsInv, Typed, ThreadsTyped
<1>3. /\ ResolveCheckpoint(req[t].cp) /\ req[t].cp \in Checkpoint
      /\ Goto(t, "flow", [req[t] EXCEPT !.cp = Null])
      /\ checkpoints[req[t].cp].project = p /\ Live(p)
  BY <1>1, <1>2 DEF ResolveAnswered, UnderWay, Typed, ThreadsTyped, WellFormed
<1> DEFINE r == [req[t] EXCEPT !.cp = Null]
<1>4. /\ r.project = p /\ r.next = req[t].next /\ r.outcome = req[t].outcome
      /\ Goto(t, "flow", r)
  BY <1>1, <1>2, <1>3 DEF Request
<1> HIDE DEF r
<1>5. /\ Elsewhere(p) /\ BoundLives' /\ UNCHANGED projects
      /\ \A d \in Checkpoint : d # req[t].cp => checkpoints'[d] = checkpoints[d]
  BY <1>3, ResolveEffect DEF TurnsInv
<1>6. Awaits(r.outcome) =>
        /\ r.next = projects[p].current /\ Waits(p, r.outcome)
        /\ checkpoints'[r.next] = checkpoints[r.next]
  <2>1. projects[p].current \in Checkpoint \cup {Null}
    BY DEF Typed, StoreTypeOK, ProjectRow
  <2> QED BY <1>1, <1>2, <1>4, <1>5, <2>1 DEF UnderWay, Waits
<1>7. ASSUME pc'[t] = "flow", req'[t] = r PROVE UnderWay(pc[t], req[t])'
  BY <1>1, <1>2, <1>3, <1>4, <1>5, <1>6, <1>7 DEF UnderWay, Live, Waits, Awaits
<1> QED BY <1>1, <1>2, <1>4, <1>5, <1>7, RowsWritten, PcLabels

\* Status and checkpoint agree again.
LEMMA FlowStateTurn ==
  ASSUME Typed, Owned, TurnsInv, OneAtATime, OneAtATime', NEW t \in Thread, FlowState(t)
  PROVE  TurnsInv'
<1>1. PICK p \in Project : p = req[t].project
  BY AtWork DEF FlowState
<1>2. /\ pc[t] = "flow" /\ req[t] \in Request /\ UnderWay("flow", req[t])
      /\ req[t].outcome \in TaskStatus /\ req[t].next \in Checkpoint \cup {Null}
  BY DEF FlowState, TurnsInv, Typed, ThreadsTyped, WellFormed, FlowPc, Request
<1> DEFINE r == [req[t] EXCEPT !.next = Null]
<1>3. /\ UpdateProjectFlowState(p, req[t].outcome, req[t].next)
      /\ r.project = p /\ Goto(t, "sync", r)
  BY <1>1, <1>2 DEF FlowState, UnderWay, Request
<1> HIDE DEF r
<1>4. /\ Elsewhere(p) /\ BoundLives' /\ Live(p)' /\ UNCHANGED checkpoints
      /\ projects'[p].status = req[t].outcome /\ projects'[p].current = req[t].next
  BY <1>2, <1>3, FlowEffect DEF TurnsInv
<1>5. Settled(p)'
  BY <1>1, <1>2, <1>4 DEF UnderWay, Settled, Awaits, Waits
<1>6. ASSUME pc'[t] = "sync", req'[t] = r PROVE UnderWay(pc[t], req[t])'
  BY <1>3, <1>4, <1>5, <1>6 DEF UnderWay
<1> QED BY <1>1, <1>2, <1>3, <1>4, <1>6, RowsWritten, PcLabels

LEMMA ReviseResolveTurn ==
  ASSUME Typed, Owned, TurnsInv, OneAtATime, OneAtATime', NEW t \in Thread, ReviseResolve(t)
  PROVE  TurnsInv'
<1>1. PICK p \in Project : p = req[t].project
  BY AtWork DEF ReviseResolve
<1>2. /\ pc[t] = "revise_resolve" /\ Live(p) /\ projects[p].status = "WAIT_HUMAN_PLAN"
      /\ req[t].cp \in Checkpoint /\ req[t].cp = projects[p].current
  BY <1>1, Steady DEF ReviseResolve, UnderWay, Typed, ThreadsTyped, WellFormed
<1>3. checkpoints[req[t].cp].project = p
  BY <1>2, NullIsNothing DEF Owned, OwnedRows, Names
<1>4. ASSUME ResolveCheckpoint(req[t].cp), Goto(t, "revise_create", req[t]) PROVE TurnsInv'
  <2>1. Elsewhere(p) /\ BoundLives' /\ UNCHANGED projects
    BY <1>2, <1>3, <1>4, ResolveEffect DEF TurnsInv
  <2>2. ASSUME pc'[t] = "revise_create", req'[t] = req[t] PROVE UnderWay(pc[t], req[t])'
    BY <1>1, <1>2, <2>1, <2>2 DEF UnderWay, Live
  <2> QED BY <1>1, <1>2, <1>4, <2>1, <2>2, RowsWritten, PcLabels
<1> QED BY <1>2, <1>4, GiveUpTurn DEF ReviseResolve

\* The gate is the plan gate again, with a checkpoint of its own.
LEMMA ReviseCreateTurn ==
  ASSUME Typed, Owned, TurnsInv, OneAtATime, OneAtATime', NEW t \in Thread, ReviseCreate(t)
  PROVE  TurnsInv'
<1>1. PICK p \in Project : p = req[t].project
  BY AtWork DEF ReviseCreate
<1>2. pc[t] = "revise_create" /\ Live(p) /\ projects[p].status = "WAIT_HUMAN_PLAN"
  BY <1>1 DEF ReviseCreate, TurnsInv, UnderWay
<1> DEFINE r == [NoRequest EXCEPT !.project = p]
<1>3. PICK c \in Checkpoint : CreateCheckpoint(p, c, "plan_review")
  BY <1>1, <1>2 DEF ReviseCreate
<1>4. r.project = p /\ Goto(t, "revise_status", r)
  BY <1>1, <1>2 DEF ReviseCreate, NoRequest
<1> HIDE DEF r
<1>5. /\ Elsewhere(p) /\ BoundLives' /\ Live(p)'
      /\ projects'[p].status = "WAIT_HUMAN_PLAN" /\ Waits(p, "WAIT_HUMAN_PLAN")'
  BY <1>2, <1>3, CreateEffect, Awaited DEF TurnsInv, CheckpointType
<1>6. Settled(p)'
  BY <1>5, Awaited DEF Settled, Awaits
<1>7. ASSUME pc'[t] = "revise_status", req'[t] = r PROVE UnderWay(pc[t], req[t])'
  BY <1>4, <1>5, <1>6, <1>7 DEF UnderWay
<1> QED BY <1>1, <1>2, <1>4, <1>5, <1>7, RowsWritten, PcLabels

LEMMA TurnRefreshTurn ==
  ASSUME Typed, Owned, TurnsInv, OneAtATime, OneAtATime', NEW t \in Thread, TurnRefresh(t)
  PROVE  TurnsInv'
<1>1. PICK p \in Project : p = req[t].project
  BY AtWork DEF TurnRefresh
<1>2. pc[t] = "turn_refresh" /\ Live(p)
  BY <1>1, Steady DEF TurnRefresh
<1> DEFINE r == [NoRequest EXCEPT !.project = p]
<1>3. ASSUME RefreshActiveProjectRequirement(p), Goto(t, "discovery", r) PROVE TurnsInv'
  <2>1. r.project = p
    BY DEF NoRequest
  <2> HIDE DEF r
  <2>2. Elsewhere(p) /\ BoundLives' /\ Live(p)' /\ Settled(p)'
    BY <1>3, RefreshEffect DEF TurnsInv
  <2>3. ASSUME pc'[t] = "discovery", req'[t] = r PROVE UnderWay(pc[t], req[t])'
    BY <2>1, <2>2, <2>3 DEF UnderWay
  <2> QED BY <1>1, <1>2, <1>3, <2>1, <2>2, <2>3, RowsWritten, PcLabels
<1> QED BY <1>1, <1>2, <1>3, GiveUpTurn DEF TurnRefresh

LEMMA RefreshTurn ==
  ASSUME Typed, Owned, TurnsInv, OneAtATime, OneAtATime', NEW t \in Thread, Refresh(t)
  PROVE  TurnsInv'
<1>1. PICK p \in Project : p = req[t].project
  BY AtWork DEF Refresh
<1>2. pc[t] = "refresh" /\ Live(p)
  BY <1>1, Steady DEF Refresh
<1>3. ASSUME RefreshActiveProjectRequirement(p), Finish(t) PROVE TurnsInv'
  <2>1. Elsewhere(p) /\ BoundLives' /\ Live(p)' /\ Settled(p)'
    BY <1>3, RefreshEffect DEF TurnsInv
  <2>2. AtRest(p)'
    BY <2>1 DEF AtRest, Live
  <2>3. /\ pc'[t] = "idle" /\ req'[t].project = Null
        /\ \A u \in Thread \ {t} : pc'[u] = pc[u] /\ req'[u] = req[u]
    BY <1>3, Gone DEF Finish, NoRequest
  <2> QED BY <1>1, <1>2, <2>1, <2>2, <2>3, TurnStep
<1> QED BY <1>1, <1>2, <1>3, GiveUpTurn DEF Refresh

LEMMA RemoveTreeTurn ==
  ASSUME Typed, Owned, TurnsInv, OneAtATime, OneAtATime', NEW t \in Thread, RemoveTree(t)
  PROVE  TurnsInv'
<1>1. PICK p \in Project : p = req[t].project
  BY AtWork DEF RemoveTree
<1>2. pc[t] = "rmtree" /\ projects[p].life = "deleted" /\ CheckpointsOf(p) = {}
  BY <1>1 DEF RemoveTree, TurnsInv, UnderWay
<1>3. /\ UNCHANGED <<projects, checkpoints, sessions>>
      /\ disk'[p] = NoDirectory /\ \A q \in Project \ {p} : disk'[q] = disk[q]
  BY <1>1 DEF RemoveTree, RemoveProjectRoot, Typed, StoreTypeOK
<1>4. Goto(t, "idle", NoRequest) /\ NoRequest.project = Null
  BY DEF RemoveTree, Finish, NoRequest
<1> QED BY <1>1, <1>2, <1>3, <1>4, RowsStill DEF Live

-----------------------------------------------------------------------------
(* Every step, and what the invariant is for                               *)

\* A crash between requests takes the graph states, which nothing here rests on.
LEMMA RestartTurn ==
  ASSUME Typed, Owned, TurnsInv, Restart, \A t \in Thread : pc[t] = "idle"
  PROVE  TurnsInv'
<1>1. \A t \in Thread : pc'[t] = "idle" /\ req'[t].project = Null /\ req[t].project = Null
  BY DEF Restart, NoRequest, TurnsInv
<1>2. UNCHANGED <<projects, checkpoints, sessions, disk>>
  BY DEF Restart, store
<1>3. \A p \in Project : AtRest(p)
  BY <1>1, NullIsNothing DEF TurnsInv, Quiet
<1>4. \A p \in Project : AtRest(p)'
  BY <1>2, <1>3 DEF AtRest, Live, Settled, Waits, Awaits, CheckpointsOf, Exists
<1>5. BoundLives'
  BY <1>2 DEF BoundLives, TurnsInv, Live
<1> QED BY <1>1, <1>4, <1>5 DEF TurnsInv

LEMMA TurnsStep ==
  ASSUME Typed, Owned, TurnsInv, OneAtATime, OneAtATime', [Next]_vars,
         Restart => \/ UNCHANGED vars
                    \/ \A t \in Thread : pc[t] = "idle"
  PROVE  TurnsInv'
<1>1. ASSUME NEW p \in Project, CreateProject(p) PROVE TurnsInv'
  BY <1>1, CreateProjectTurn
<1>2. ASSUME NEW u \in User, SessionCommand(u) PROVE TurnsInv'
  BY <1>2, SessionTurn
<1>3. ASSUME NEW t \in Thread, Arrive(t) PROVE TurnsInv'
  BY <1>3, ArrivalsTurn, DeleteArrivesTurn, ChatStartsTurn DEF Arrive
<1>4. ASSUME NEW t \in Thread, Proceed(t) PROVE TurnsInv'
  BY <1>4, BindTurn, DiscoveryReadsTurn, DiscoveryRunsTurn, RequirementCheckpointTurn,
     CheckFeedbackTurn, ReadSnapshotTurn, DispatchTurn, DebugTurn, NextCheckpointTurn,
     ResolveAnsweredTurn, FlowStateTurn, SyncReadsTurn, SyncWritesTurn, StageCheckpointTurn,
     RequirementTurnTurn, TurnRefreshTurn, PlanTurnTurn, PlanReviseTurn, ReviseResolveTurn,
     ReviseCreateTurn, ReviseStatusTurn, RefreshTurn, DeleteTurn, RemoveTreeTurn DEF Proceed
<1>5. ASSUME NEW t \in Thread, RunTests(t) PROVE TurnsInv'
  BY <1>5, RunTestsTurn
<1>6. CASE UNCHANGED vars
  <2>1. BoundLives'
    BY <1>6 DEF vars, store, TurnsInv, BoundLives, Live
  <2> QED BY <1>6, <2>1, SameFlow DEF vars, store
<1>7. CASE Restart /\ ~UNCHANGED vars
  BY <1>7, RestartTurn
<1> QED BY <1>1, <1>2, <1>3, <1>4, <1>5, <1>6, <1>7 DEF Next

LEMMA InitTurns == Init => TurnsInv
<1> SUFFICES ASSUME Init PROVE TurnsInv
  OBVIOUS
<1>1. \A t \in Thread : pc[t] = "idle" /\ req[t].project = Null
  BY DEF Init, NoRequest
<1>2. \A p \in Project : projects[p].life = "unborn"
  BY DEF Init, StoreInit
<1>3. BoundLives
  BY NullIsNothing DEF Init, StoreInit, BoundLives
<1> QED BY <1>1, <1>2, <1>3 DEF TurnsInv, AtRest, Live

\* As long as requests about one project take turns, the invariant stands.
LEMMA TurnsHold == Spec /\ InTurn => [](Typed /\ Owned /\ TurnsInv)
<1>1. Init => Typed /\ Owned /\ TurnsInv
  BY InitTyped, InitOwned, InitTurns
<1>2. Typed /\ Owned /\ TurnsInv /\ OneAtATime /\ OneAtATime' /\
      [Next]_vars /\ [CrashBetween]_vars
        => (Typed /\ Owned /\ TurnsInv)'
  BY TypedStep, OwnedStep, TurnsStep DEF CrashBetween
<1> QED BY <1>1, <1>2, PTL DEF Spec, InTurn, CrashesBetween

-----------------------------------------------------------------------------
(* Crashes at any point: requests take turns, but may be cut off anywhere  *)

LEMMA HandElsewhere ==
  ASSUME Typed, NEW p \in Project, Elsewhere(p), NEW u \in Thread, pc[u] # "idle",
         pc'[u] = pc[u], req'[u] = req[u], req[u].project # p, InHand(pc[u], req[u])
  PROVE  InHand(pc[u], req[u])'
<1>1. CASE pc[u] = "rmtree"
  BY <1>1 DEF InHand
<1>2. CASE pc[u] # "rmtree"
  <2>1. PICK q \in Project \ {p} : q = req[u].project
    BY AtWork
  <2>2. projects'[q] = projects[q] /\ Live(q)
    BY <1>2, <2>1 DEF Elsewhere, InHand
  <2>3. ASSUME req[u].cp # Null
        PROVE  /\ Names(req[u].cp, q)
               /\ checkpoints'[req[u].cp] = checkpoints[req[u].cp]
    <3>1. req[u].cp \in Checkpoint
      BY <2>3 DEF Typed, ThreadsTyped, Request
    <3> QED BY <1>2, <2>1, <2>2, <2>3, <3>1 DEF InHand, Names, Elsewhere
  <2>4. req[u].cp # Null => Names(req[u].cp, q)'
    BY <2>2, <2>3 DEF Names, Live, Exists
  <2>5. pc[u] \in {"snapshot", "dispatch"} => req[u].cp # Null
    BY NullIsNothing DEF Typed, ThreadsTyped, WellFormed
  <2> QED BY <1>2, <2>1, <2>2, <2>3, <2>4, <2>5 DEF InHand, Live
<1> QED BY <1>1, <1>2

\* A step of t about p, after which t is under way on p or done with it.
LEMMA HandStep ==
  ASSUME Typed, HandInv, OneAtATime, NEW t \in Thread, NEW p \in Project,
         Elsewhere(p), BoundLives', OneAtATime',
         pc[t] # "idle" => req[t].project = p,
         pc[t] # "idle" \/ pc'[t] # "idle",
         \A u \in Thread \ {t} : pc'[u] = pc[u] /\ req'[u] = req[u],
         IF pc'[t] = "idle" THEN req'[t].project = Null
                            ELSE req'[t].project = p /\ InHand(pc[t], req[t])'
  PROVE  HandInv'
<1>1. ASSUME NEW u \in Thread
      PROVE  IF pc'[u] = "idle" THEN req'[u].project = Null ELSE InHand(pc[u], req[u])'
  <2>1. CASE u = t
    BY <2>1
  <2>2. CASE u # t /\ pc[u] = "idle"
    BY <2>2 DEF HandInv
  <2>3. CASE u # t /\ pc[u] # "idle"
    <3>1. req[u].project # p /\ InHand(pc[u], req[u])
      BY <2>3 DEF HandInv, OneAtATime
    <3> QED BY <2>3, <3>1, HandElsewhere
  <2> QED BY <2>1, <2>2, <2>3
<1> QED BY <1>1 DEF HandInv

\* A step that leaves rows and sessions alone.
LEMMA HandStill ==
  ASSUME Typed, HandInv, OneAtATime, OneAtATime', NEW t \in Thread, NEW p \in Project,
         NEW label, NEW r, Goto(t, label, r),
         UNCHANGED <<projects, checkpoints, sessions>>,
         \A q \in Project \ {p} : disk'[q] = disk[q],
         pc[t] # "idle" => req[t].project = p,
         pc[t] # "idle" \/ label # "idle",
         IF label = "idle" THEN r.project = Null ELSE r.project = p /\ InHand(label, r)
  PROVE  HandInv'
<1>1. /\ pc'[t] = label /\ req'[t] = r
      /\ \A u \in Thread \ {t} : pc'[u] = pc[u] /\ req'[u] = req[u]
  BY Gone
<1>2. Elsewhere(p) /\ BoundLives'
  BY DEF Elsewhere, HandInv, BoundLives, Live
<1>3. label # "idle" => InHand(pc[t], req[t])'
  BY <1>1 DEF InHand, Names, Live, Exists
<1> QED BY <1>1, <1>2, <1>3, HandStep

LEMMA HandEnds ==
  ASSUME Typed, HandInv, OneAtATime, OneAtATime', NEW t \in Thread, pc[t] # "idle", Finish(t),
         UNCHANGED <<projects, checkpoints, sessions>>,
         \A q \in Project \ {req[t].project} : disk'[q] = disk[q]
  PROVE  HandInv'
<1>1. PICK p \in Project : p = req[t].project
  BY AtWork
<1>2. NoRequest.project = Null
  BY DEF NoRequest
<1> QED BY <1>1, <1>2, HandStill DEF Finish

LEMMA HandGivenUp ==
  ASSUME Typed, HandInv, OneAtATime, OneAtATime', NEW t \in Thread, pc[t] # "idle", GiveUp(t)
  PROVE  HandInv'
  BY HandEnds DEF GiveUp, store

\* What a request on p has before any step of its own.
LEMMA AtHand ==
  ASSUME Typed, Owned, HandInv, NEW t \in Thread, pc[t] \notin {"idle", "rmtree"}
  PROVE  /\ req[t].project \in Project /\ req[t] \in Request
         /\ Live(req[t].project) /\ InHand(pc[t], req[t])
         /\ req[t].cp # Null => Names(req[t].cp, req[t].project)
         /\ projects[req[t].project].current # Null =>
              Names(projects[req[t].project].current, req[t].project)
<1>1. req[t].project \in Project /\ req[t] \in Request
  BY AtWork DEF Typed, ThreadsTyped
<1> QED BY <1>1 DEF HandInv, InHand, Owned, OwnedRows

\* A request that goes on to where nothing is said of its checkpoint but whose
\* it is.
LEMMA HandKeeps ==
  ASSUME Typed, Owned, HandInv, OneAtATime, OneAtATime', NEW t \in Thread,
         pc[t] \notin {"idle", "rmtree"}, NEW r,
         NEW label \in Pc \ {"idle", "rmtree", "snapshot", "dispatch", "resolve", "flow"},
         Goto(t, label, r), r.project = req[t].project,
         r.cp \in {Null, req[t].cp, projects[req[t].project].current},
         UNCHANGED <<projects, checkpoints, sessions>>,
         \A q \in Project \ {req[t].project} : disk'[q] = disk[q]
  PROVE  HandInv'
<1>1. PICK p \in Project : p = req[t].project
  BY AtWork
<1>2. InHand(label, r)
  BY AtHand DEF InHand
<1> QED BY <1>1, <1>2, HandStill

LEMMA HandArrives ==
  ASSUME Typed, HandInv, OneAtATime, OneAtATime', NEW t \in Thread, Arrive(t)
  PROVE  HandInv'
<1>1. ASSUME NEW p \in Project,
             \/ RunProject(t, p) \/ SubmitFeedback(t, p)
             \/ StageFollowUp(t, p) \/ RefreshDraft(t, p) \/ DeleteProject(t, p)
      PROVE  HandInv'
  <2>1. /\ pc[t] = "idle" /\ Live(p)
        /\ UNCHANGED <<projects, checkpoints, sessions, disk>>
    BY <1>1 DEF RunProject, SubmitFeedback, StageFollowUp, RefreshDraft, DeleteProject,
       Accepts, store
  <2>2. ASSUME NEW label \in {"discovery", "check", "stage", "refresh", "delete"}, NEW r,
               Goto(t, label, r), r.project = p, r.cp = Null
        PROVE  HandInv'
    <3>1. InHand(label, r)
      BY <2>1, <2>2 DEF InHand
    <3> QED BY <2>1, <2>2, <3>1, HandStill
  <2>3. CASE RunProject(t, p)
    BY <2>2, <2>3 DEF RunProject, NoRequest
  <2>4. CASE SubmitFeedback(t, p)
    BY <2>2, <2>4 DEF SubmitFeedback, NoRequest
  <2>5. CASE StageFollowUp(t, p)
    BY <2>2, <2>5 DEF StageFollowUp, NoRequest
  <2>6. CASE RefreshDraft(t, p)
    BY <2>2, <2>6 DEF RefreshDraft, NoRequest
  <2>7. CASE DeleteProject(t, p)
    BY <2>2, <2>7 DEF DeleteProject, NoRequest
  <2> QED BY <1>1, <2>3, <2>4, <2>5, <2>6, <2>7
<1>2. ASSUME NEW u \in User, NEW p \in Project, ChatStartsProject(t, u, p) PROVE HandInv'
  <2> DEFINE r == [NoRequest EXCEPT !.project = p]
  <2>1. /\ pc[t] = "idle" /\ InsertProject(p, u) /\ r.project = p /\ r.cp = Null
        /\ Goto(t, "bind", r)
    BY <1>2 DEF ChatStartsProject, NoRequest
  <2> HIDE DEF r
  <2>2. /\ pc'[t] = "bind" /\ req'[t] = r
        /\ \A x \in Thread \ {t} : pc'[x] = pc[x] /\ req'[x] = req[x]
    BY <2>1, Gone
  <2>3. Elsewhere(p) /\ Live(p)'
    BY <2>1 DEF Elsewhere, InsertProject, Live, Typed, StoreTypeOK
  <2>4. BoundLives'
    BY <2>1, <2>3 DEF BoundLives, HandInv, InsertProject, Elsewhere, Live, Typed, StoreTypeOK
  <2>5. InHand(pc[t], req[t])'
    BY <2>1, <2>2, <2>3 DEF InHand
  <2> QED BY <2>1, <2>2, <2>3, <2>4, <2>5, HandStep
<1> QED BY <1>1, <1>2 DEF Arrive

\* The steps that write no row and leave the checkpoint as it is.
LEMMA HandLocal ==
  ASSUME Typed, Owned, HandInv, OneAtATime, OneAtATime', NEW t \in Thread,
         \/ DiscoveryReads(t) \/ DiscoveryRuns(t) \/ SyncReads(t) \/ SyncWrites(t)
         \/ StageCheckpoint(t) \/ RequirementTurn(t) \/ PlanTurn(t) \/ PlanRevise(t)
         \/ ReviseStatus(t) \/ Debug(t) \/ RemoveTree(t)
  PROVE  HandInv'
<1> DEFINE p == req[t].project
           c == projects[p].current
           Plainly == {"invoke", "requirement_create", "write_memory", "sync", "check", "test",
                       "plan_turn", "requirement_turn", "turn_refresh", "plan_revise",
                       "revise_create", "revise_resolve"}
<1>1. ASSUME NEW label \in Plainly, NEW r, pc[t] \notin {"idle", "rmtree"}, Goto(t, label, r),
             r.project = p, r.cp \in {Null, req[t].cp, c}, UNCHANGED store
      PROVE  HandInv'
  <2>1. label \in Pc \ {"idle", "rmtree", "snapshot", "dispatch", "resolve", "flow"}
    BY PcLabels
  <2> QED BY <1>1, <2>1, HandKeeps DEF store
<1>2. pc[t] # "idle" /\ req[t] \in Request
  BY DEF DiscoveryReads, DiscoveryRuns, SyncReads, SyncWrites, StageCheckpoint, RequirementTurn,
     PlanTurn, PlanRevise, ReviseStatus, Debug, RemoveTree, Typed, ThreadsTyped
<1>3. CASE GiveUp(t)
  BY <1>2, <1>3, HandGivenUp
<1>4. CASE DiscoveryReads(t) /\ ~GiveUp(t)
  <2> DEFINE r == [req[t] EXCEPT !.snap = graph[p]]
  <2>1. pc[t] = "discovery" /\ Goto(t, "invoke", r) /\ UNCHANGED store
    BY <1>4 DEF DiscoveryReads
  <2>2. r.project = p /\ r.cp = req[t].cp
    BY <1>2 DEF Request
  <2> HIDE DEF r
  <2> QED BY <1>1, <2>1, <2>2
<1>5. CASE DiscoveryRuns(t) /\ ~GiveUp(t)
  <2> DEFINE r == [NoRequest EXCEPT !.project = p]
  <2>1. pc[t] = "invoke" /\ Goto(t, "requirement_create", r) /\ UNCHANGED store
    BY <1>5 DEF DiscoveryRuns
  <2>2. r.project = p /\ r.cp = Null
    BY DEF NoRequest
  <2> HIDE DEF r
  <2> QED BY <1>1, <2>1, <2>2
<1>6. CASE SyncReads(t) /\ ~GiveUp(t)
  <2> DEFINE r == [req[t] EXCEPT !.outcome = Null, !.decisions = Decisions(graph[p], req[t].outcome)]
  <2>1. pc[t] = "sync" /\ Goto(t, "write_memory", r) /\ UNCHANGED store
    BY <1>6 DEF SyncReads
  <2>2. r.project = p /\ r.cp = req[t].cp
    BY <1>2 DEF Request
  <2> HIDE DEF r
  <2> QED BY <1>1, <2>1, <2>2
<1>7. CASE SyncWrites(t)
  <2>1. \A q \in Project \ {p} : disk'[q] = disk[q]
    BY <1>7 DEF SyncWrites, WriteProjectMemory, Typed, StoreTypeOK
  <2> QED BY <1>2, <1>7, <2>1, HandEnds DEF SyncWrites, WriteProjectMemory
<1>8. CASE StageCheckpoint(t) /\ ~GiveUp(t)
  <2>1. /\ pc[t] = "stage" /\ UNCHANGED store
        /\ \E label \in {"plan_turn", "requirement_turn"} : Goto(t, label, req[t])
    BY <1>8 DEF StageCheckpoint
  <2> QED BY <1>1, <2>1
<1>9. CASE ApproveCurrent(t) /\ pc[t] \in {"requirement_turn", "plan_turn"}
  <2> DEFINE r == [NoRequest EXCEPT
               !.project = p, !.cp = c, !.type = checkpoints[c].type, !.action = "approve",
               !.version = projects[p].version,
               !.shown = [status |-> projects[p].status, current |-> c]]
  <2>1. Goto(t, "check", r) /\ UNCHANGED store
    BY <1>9 DEF ApproveCurrent
  <2>2. r.project = p /\ r.cp = c
    BY DEF NoRequest
  <2> HIDE DEF r
  <2> QED BY <1>1, <1>9, <2>1, <2>2
<1>10. CASE RequirementTurn(t) /\ ~GiveUp(t)
  BY <1>1, <1>9, <1>10 DEF RequirementTurn
<1>11. CASE PlanTurn(t) /\ ~GiveUp(t)
  <2>1. ASSUME NEW d \in {Null, c}, Goto(t, "plan_revise", [req[t] EXCEPT !.cp = d]),
               UNCHANGED store, pc[t] = "plan_turn"
        PROVE  HandInv'
    <3> DEFINE r == [req[t] EXCEPT !.cp = d]
    <3>1. r.project = p /\ r.cp = d /\ Goto(t, "plan_revise", r)
      BY <1>2, <2>1 DEF Request
    <3> HIDE DEF r
    <3> QED BY <1>1, <2>1, <3>1
  <2> QED BY <1>9, <1>11, <2>1 DEF PlanTurn
<1>12. CASE PlanRevise(t) /\ ~GiveUp(t)
  <2>1. /\ pc[t] = "plan_revise" /\ UNCHANGED store
        /\ \E label \in {"revise_create", "revise_resolve"} : Goto(t, label, req[t])
    BY <1>12 DEF PlanRevise
  <2> QED BY <1>1, <2>1
<1>13. CASE ReviseStatus(t) /\ ~GiveUp(t)
  <2> DEFINE r == [req[t] EXCEPT !.outcome = projects[p].status]
  <2>1. pc[t] = "revise_status" /\ Goto(t, "sync", r) /\ UNCHANGED store
    BY <1>13 DEF ReviseStatus
  <2>2. r.project = p /\ r.cp = req[t].cp
    BY <1>2 DEF Request
  <2> HIDE DEF r
  <2> QED BY <1>1, <2>1, <2>2
<1>14. CASE Debug(t) /\ ~GiveUp(t)
  <2>1. pc[t] = "debug" /\ PersistCodeFiles(p) /\ Goto(t, "test", req[t])
    BY <1>14 DEF Debug
  <2>2. /\ UNCHANGED <<projects, checkpoints, sessions>>
        /\ \A q \in Project \ {p} : disk'[q] = disk[q]
    BY <2>1 DEF PersistCodeFiles, Typed, StoreTypeOK
  <2> QED BY <2>1, <2>2, HandKeeps, PcLabels
<1>15. CASE RemoveTree(t)
  <2>1. \A q \in Project \ {p} : disk'[q] = disk[q]
    BY <1>15 DEF RemoveTree, RemoveProjectRoot, Typed, StoreTypeOK
  <2> QED BY <1>2, <1>15, <2>1, HandEnds DEF RemoveTree, RemoveProjectRoot
<1> QED BY <1>3, <1>4, <1>5, <1>6, <1>7, <1>8, <1>10, <1>11, <1>12, <1>13, <1>14, <1>15

\* From the checks of a feedback to the end of its handler the checkpoint is
\* the current one, and pending.
LEMMA HandFeedback ==
  ASSUME Typed, Owned, HandInv, OneAtATime, OneAtATime', NEW t \in Thread,
         CheckFeedback(t) \/ ReadSnapshot(t) \/ Dispatch(t) \/ RunTests(t)
  PROVE  HandInv'
<1>1. /\ pc[t] \in {"check", "snapshot", "dispatch", "test"}
      /\ req[t] \in Request /\ InHand(pc[t], req[t])
  BY AtHand DEF CheckFeedback, ReadSnapshot, Dispatch, RunTests
<1>2. PICK p \in Project : p = req[t].project /\ Live(p)
  BY <1>1, AtHand
<1>3. ASSUME GiveUp(t) PROVE HandInv'
  BY <1>1, <1>3, HandEnds DEF GiveUp, store
<1>4. ASSUME NEW c \in Checkpoint, NEW type \in CheckpointType, pc[t] = "check",
             FeedbackMatches(req[t].project, req[t].version, c, type),
             Goto(t, "snapshot", [req[t] EXCEPT
               !.cp = c, !.type = type, !.version = 0, !.shown = NoRequest.shown]),
             UNCHANGED store
      PROVE  HandInv'
  <2> DEFINE r == [req[t] EXCEPT !.cp = c, !.type = type, !.version = 0,
                     !.shown = NoRequest.shown]
  <2>1. r.project = p /\ r.cp = c /\ Goto(t, "snapshot", r)
    BY <1>1, <1>2, <1>4 DEF Request
  <2> HIDE DEF r
  <2>2. projects[p].current = c /\ checkpoints[c].status = "pending" /\ Names(c, p)
    BY <1>2, <1>4, NullIsNothing DEF FeedbackMatches, Owned, OwnedRows
  <2>3. InHand("snapshot", r)
    BY <1>2, <2>1, <2>2 DEF InHand
  <2> QED BY <1>2, <1>4, <2>1, <2>3, HandStill DEF store
<1>5. CASE ReadSnapshot(t)
  <2> DEFINE r == [req[t] EXCEPT !.snap = graph[req[t].project]]
  <2>1. pc[t] = "snapshot" /\ UNCHANGED store /\ Goto(t, "dispatch", r)
    BY <1>5 DEF ReadSnapshot
  <2>2. r.project = p /\ r.cp = req[t].cp
    BY <1>1, <1>2 DEF Request
  <2> HIDE DEF r
  <2>3. InHand("dispatch", r)
    BY <1>1, <1>2, <2>1, <2>2 DEF InHand
  <2> QED BY <1>2, <2>1, <2>2, <2>3, HandStill DEF store
<1>6. ASSUME NEW label \in {"resolve", "create", "test"}, NEW s, Outcome(t, label, s),
             UNCHANGED <<projects, checkpoints, sessions>>,
             \A q \in Project \ {p} : disk'[q] = disk[q]
      PROVE  HandInv'
  <2> DEFINE r == [NoRequest EXCEPT
                     !.project = req[t].project, !.cp = req[t].cp, !.outcome = s]
  <2>1. r.project = p /\ r.cp = req[t].cp /\ r.next = Null /\ Goto(t, label, r)
    BY <1>2, <1>6 DEF Outcome, NoRequest
  <2> HIDE DEF r
  <2>2. InHand(label, r)
    BY <1>1, <1>2, <2>1 DEF InHand
  <2> QED BY <1>1, <1>2, <1>6, <2>1, <2>2, HandStill
<1>7. ASSUME NEW action \in Action, Handle(t, req[t].type, action)
      PROVE  HandInv'
  <2>1. CASE UNCHANGED store
    <3>1. \E label \in {"resolve", "create", "test"} : \E s : Outcome(t, label, s)
      BY <1>7 DEF Handle, RequirementFeedback, PlanFeedback, CodeFeedback, FinalFeedback
    <3> QED BY <1>6, <2>1, <3>1 DEF store
  <2>2. CASE PersistCodeFiles(p) /\ Outcome(t, "test", Null)
    <3>1. /\ UNCHANGED <<projects, checkpoints, sessions>>
          /\ \A q \in Project \ {p} : disk'[q] = disk[q]
      BY <2>2 DEF PersistCodeFiles, Typed, StoreTypeOK
    <3> QED BY <1>6, <2>2, <3>1
  <2> QED BY <1>2, <1>7, <2>1, <2>2
      DEF Handle, RequirementFeedback, PlanFeedback, CodeFeedback, FinalFeedback
<1>8. CASE RunTests(t)
  <2>1. UNCHANGED store /\ pc[t] = "test"
    BY <1>8 DEF RunTests
  <2>2. CASE Goto(t, "debug", req[t])
    BY <1>2, <2>1, <2>2, HandKeeps, PcLabels DEF store
  <2>3. CASE \E label \in {"resolve", "create"} : \E s : Outcome(t, label, s)
    BY <1>6, <2>1, <2>3 DEF store
  <2>4. CASE Finish(t)
    BY <1>1, <2>1, <2>4, HandEnds DEF store
  <2> QED BY <1>8, <2>2, <2>3, <2>4 DEF RunTests
<1>9. CASE Dispatch(t)
  BY <1>3, <1>7, <1>9 DEF Dispatch
<1>10. CASE CheckFeedback(t)
  BY <1>3, <1>4, <1>10 DEF CheckFeedback
<1> QED BY <1>5, <1>8, <1>9, <1>10

\* A step of a request that writes rows of its project.
LEMMA HandWrites ==
  ASSUME Typed, HandInv, OneAtATime, OneAtATime', NEW t \in Thread, pc[t] # "idle",
         NEW label, NEW r, Goto(t, label, r), Elsewhere(req[t].project), BoundLives',
         IF label = "idle" THEN r.project = Null ELSE r.project = req[t].project,
         label # "idle" /\ pc'[t] = label /\ req'[t] = r => InHand(pc[t], req[t])'
  PROVE  HandInv'
<1>1. PICK p \in Project : p = req[t].project
  BY AtWork
<1>2. /\ pc'[t] = label /\ req'[t] = r
      /\ \A u \in Thread \ {t} : pc'[u] = pc[u] /\ req'[u] = req[u]
  BY Gone
<1> QED BY <1>1, <1>2, HandStep

LEMMA HandBinds ==
  ASSUME Typed, Owned, HandInv, OneAtATime, OneAtATime', NEW t \in Thread, BindProject(t)
  PROVE  HandInv'
<1>1. PICK p \in Project : p = req[t].project
  BY AtWork DEF BindProject
<1>2. pc[t] = "bind" /\ Live(p) /\ (req[t].cp # Null => Names(req[t].cp, p))
  BY <1>1, AtHand DEF BindProject
<1>3. ASSUME NEW u \in User, BindActiveProject(u, p), projects[p].owner = u,
             Goto(t, "discovery", req[t])
      PROVE  HandInv'
  <2>1. UNCHANGED <<projects, checkpoints, disk>>
    BY <1>3, NullIsNothing DEF BindActiveProject
  <2>2. BoundLives'
    BY <1>2, <1>3, <2>1 DEF BoundLives, HandInv, BindActiveProject, Live, Typed, StoreTypeOK
  <2>3. Elsewhere(p)
    BY <2>1 DEF Elsewhere
  <2>4. ASSUME pc'[t] = "discovery", req'[t] = req[t] PROVE InHand(pc[t], req[t])'
    BY <1>1, <1>2, <2>1, <2>4 DEF InHand, Live, Names, Exists
  <2> QED BY <1>1, <1>2, <1>3, <2>2, <2>3, <2>4, HandWrites
<1> QED BY <1>1, <1>2, <1>3, HandGivenUp DEF BindProject

\* The next checkpoint is the current one from the moment it is made.
LEMMA HandCreates ==
  ASSUME Typed, Owned, HandInv, OneAtATime, OneAtATime', NEW t \in Thread,
         RequirementCheckpoint(t) \/ NextCheckpoint(t) \/ ReviseCreate(t)
  PROVE  HandInv'
<1>1. /\ pc[t] \in {"requirement_create", "create", "revise_create"}
      /\ req[t] \in Request /\ InHand(pc[t], req[t])
  BY AtHand DEF RequirementCheckpoint, NextCheckpoint, ReviseCreate
<1>2. PICK p \in Project : p = req[t].project
  BY <1>1, AtWork
<1>3. ASSUME NEW c \in Checkpoint, NEW type \in CheckpointType, CreateCheckpoint(p, c, type),
             NEW label \in {"flow", "resolve", "revise_status"}, NEW r, Goto(t, label, r),
             r.project = p, r.cp \in {Null, req[t].cp}, r.next \in {Null, c}
      PROVE  HandInv'
  <2>1. Elsewhere(p) /\ BoundLives' /\ Live(p)' /\ projects'[p].current = c
    BY <1>3, CreateEffect DEF HandInv
  <2>2. r.cp # Null => Names(r.cp, p)'
    <3>1. NamesKept
      BY <1>3, CreateCheckpointOwned DEF Typed, Owned
    <3> QED BY <1>1, <1>2, <1>3, <3>1, NullIsNothing DEF InHand, NamesKept, Request
  <2>3. ASSUME pc'[t] = label, req'[t] = r PROVE InHand(pc[t], req[t])'
    BY <1>3, <2>1, <2>2, <2>3 DEF InHand, Names, Live, Exists
  <2> QED BY <1>1, <1>2, <1>3, <2>1, <2>3, HandWrites
<1>4. CASE RequirementCheckpoint(t) /\ ~GiveUp(t)
  <2>1. PICK c \in Checkpoint :
          /\ CreateCheckpoint(p, c, "requirement_review")
          /\ Goto(t, "flow", [req[t] EXCEPT !.next = c, !.outcome = "WAIT_HUMAN_REQUIREMENT"])
    BY <1>2, <1>4 DEF RequirementCheckpoint
  <2> DEFINE r == [req[t] EXCEPT !.next = c, !.outcome = "WAIT_HUMAN_REQUIREMENT"]
  <2>2. r.project = p /\ r.cp = req[t].cp /\ r.next = c /\ Goto(t, "flow", r)
    BY <1>1, <1>2, <2>1 DEF Request
  <2> HIDE DEF r
  <2> QED BY <1>3, <2>1, <2>2 DEF CheckpointType
<1>5. CASE NextCheckpoint(t) /\ ~GiveUp(t)
  <2>1. PICK c \in Checkpoint, type \in CheckpointType :
          CreateCheckpoint(p, c, type) /\ Goto(t, "resolve", [req[t] EXCEPT !.next = c])
    BY <1>2, <1>5 DEF NextCheckpoint
  <2> DEFINE r == [req[t] EXCEPT !.next = c]
  <2>2. r.project = p /\ r.cp = req[t].cp /\ r.next = c /\ Goto(t, "resolve", r)
    BY <1>1, <1>2, <2>1 DEF Request
  <2> HIDE DEF r
  <2> QED BY <1>3, <2>1, <2>2
<1>6. CASE ReviseCreate(t) /\ ~GiveUp(t)
  <2>1. PICK c \in Checkpoint :
          /\ CreateCheckpoint(p, c, "plan_review")
          /\ Goto(t, "revise_status", [NoRequest EXCEPT !.project = p])
    BY <1>2, <1>6 DEF ReviseCreate
  <2> DEFINE r == [NoRequest EXCEPT !.project = p]
  <2>2. r.project = p /\ r.cp = Null /\ r.next = Null /\ Goto(t, "revise_status", r)
    BY <2>1 DEF NoRequest
  <2> HIDE DEF r
  <2> QED BY <1>3, <2>1, <2>2 DEF CheckpointType
<1> QED BY <1>1, <1>4, <1>5, <1>6, HandGivenUp

\* Neither the new status nor the answer brings another checkpoint in.
LEMMA HandResolves ==
  ASSUME Typed, Owned, HandInv, OneAtATime, OneAtATime', NEW t \in Thread,
         ResolveAnswered(t) \/ ReviseResolve(t) \/ FlowState(t)
  PROVE  HandInv'
<1>1. /\ pc[t] \in {"resolve", "revise_resolve", "flow"}
      /\ req[t] \in Request /\ InHand(pc[t], req[t])
  BY AtHand DEF ResolveAnswered, ReviseResolve, FlowState
<1>2. PICK p \in Project : p = req[t].project /\ Live(p)
  BY <1>1, AtHand
<1>3. ASSUME pc[t] # "flow", NEW c \in Checkpoint, c = req[t].cp, ResolveCheckpoint(c),
             NEW label \in {"flow", "revise_create"}, NEW r, Goto(t, label, r),
             r.project = p, r.cp \in {Null, c}, r.next = req[t].next,
             label = "flow" => pc[t] = "resolve"
      PROVE  HandInv'
  <2>1. Names(c, p)
    BY <1>1, <1>2, <1>3, NullIsNothing DEF InHand
  <2>2. Elsewhere(p) /\ BoundLives' /\ UNCHANGED projects
    BY <1>3, <2>1, ResolveEffect DEF HandInv, Names
  <2>3. Names(c, p)'
    BY <1>3, <2>1, ResolveCheckpointOwned DEF Typed, Owned, NamesKept
  <2>4. ASSUME pc'[t] = label, req'[t] = r PROVE InHand(pc[t], req[t])'
    <3>1. Names(r.cp, p)' \/ r.cp = Null
      BY <1>3, <2>3
    <3>2. label = "flow" => r.next \in {Null, projects[p].current}
      BY <1>1, <1>2, <1>3 DEF InHand
    <3> QED BY <1>2, <1>3, <2>2, <2>4, <3>1, <3>2 DEF InHand, Live, Names, Exists
  <2> QED BY <1>1, <1>2, <1>3, <2>2, <2>4, HandWrites
<1>4. CASE ResolveAnswered(t) /\ ~GiveUp(t)
  <2> DEFINE r == [req[t] EXCEPT !.cp = Null]
  <2>1. /\ pc[t] = "resolve" /\ ResolveCheckpoint(req[t].cp) /\ req[t].cp \in Checkpoint
        /\ Goto(t, "flow", r)
    BY <1>4 DEF ResolveAnswered, Typed, ThreadsTyped, WellFormed
  <2>2. r.project = p /\ r.cp = Null /\ r.next = req[t].next
    BY <1>1, <1>2 DEF Request
  <2> HIDE DEF r
  <2> QED BY <1>3, <2>1, <2>2
<1>5. CASE ReviseResolve(t) /\ ~GiveUp(t)
  <2>1. /\ pc[t] = "revise_resolve" /\ ResolveCheckpoint(req[t].cp) /\ req[t].cp \in Checkpoint
        /\ Goto(t, "revise_create", req[t])
    BY <1>5 DEF ReviseResolve, Typed, ThreadsTyped, WellFormed
  <2> QED BY <1>2, <1>3, <2>1
<1>6. CASE FlowState(t) /\ ~GiveUp(t)
  <2> DEFINE r == [req[t] EXCEPT !.next = Null]
  <2>1. /\ pc[t] = "flow" /\ UpdateProjectFlowState(p, req[t].outcome, req[t].next)
        /\ Goto(t, "sync", r)
    BY <1>2, <1>6 DEF FlowState
  <2>2. /\ r.project = p /\ r.cp = req[t].cp
        /\ req[t].outcome \in TaskStatus /\ req[t].next \in Checkpoint \cup {Null}
    BY <1>1, <1>2, <2>1 DEF Request, Typed, ThreadsTyped, WellFormed, FlowPc
  <2> HIDE DEF r
  <2>3. Elsewhere(p) /\ BoundLives' /\ Live(p)' /\ UNCHANGED checkpoints
    BY <2>1, <2>2, FlowEffect DEF HandInv
  <2>4. PICK c \in Checkpoint \cup {Null} : c = r.cp
    BY <1>1, <2>2 DEF Request
  <2>5. c # Null => Names(c, p)
    BY <1>1, <1>2, <2>2, <2>4 DEF InHand
  <2>6. c # Null => Names(c, p)'
    BY <2>3, <2>5, <1>2 DEF Names, Exists, Live
  <2>7. ASSUME pc'[t] = "sync", req'[t] = r PROVE InHand(pc[t], req[t])'
    BY <2>2, <2>3, <2>4, <2>6, <2>7 DEF InHand
  <2> QED BY <1>1, <1>2, <2>1, <2>2, <2>3, <2>7, HandWrites
<1> QED BY <1>1, <1>4, <1>5, <1>6, HandGivenUp

LEMMA HandRefreshes ==
  ASSUME Typed, Owned, HandInv, OneAtATime, OneAtATime', NEW t \in Thread,
         TurnRefresh(t) \/ Refresh(t)
  PROVE  HandInv'
<1>1. pc[t] \in {"turn_refresh", "refresh"}
  BY DEF TurnRefresh, Refresh
<1>2. PICK p \in Project : p = req[t].project
  BY <1>1, AtWork
<1> DEFINE r == [NoRequest EXCEPT !.project = p]
<1>3. r.project = p /\ r.cp = Null /\ NoRequest.project = Null
  BY DEF NoRequest
<1>4. \/ GiveUp(t)
      \/ RefreshActiveProjectRequirement(p) /\ (Finish(t) \/ Goto(t, "discovery", r))
  BY <1>2 DEF TurnRefresh, Refresh
<1> HIDE DEF r
<1>5. ASSUME RefreshActiveProjectRequirement(p), Finish(t) \/ Goto(t, "discovery", r)
      PROVE  HandInv'
  <2>1. Elsewhere(p) /\ BoundLives' /\ Live(p)'
    BY <1>5, RefreshEffect DEF HandInv
  <2>2. ASSUME pc'[t] = "discovery", req'[t] = r PROVE InHand(pc[t], req[t])'
    BY <1>3, <2>1, <2>2 DEF InHand, Live
  <2>3. CASE Finish(t)
    BY <1>1, <1>2, <1>3, <2>1, <2>3, HandWrites DEF Finish
  <2>4. CASE Goto(t, "discovery", r)
    BY <1>1, <1>2, <1>3, <2>1, <2>2, <2>4, HandWrites
  <2> QED BY <1>5, <2>3, <2>4
<1> QED BY <1>1, <1>4, <1>5, HandGivenUp

LEMMA HandDeletes ==
  ASSUME Typed, HandInv, OneAtATime, OneAtATime', NEW t \in Thread, DeleteListed(t)
  PROVE  HandInv'
<1>1. PICK p \in Project : p = req[t].project
  BY AtWork DEF DeleteListed
<1> DEFINE r == [NoRequest EXCEPT !.project = p]
<1>2. /\ pc[t] = "delete" /\ DeleteRows(p, req[t].listed) /\ Goto(t, "rmtree", r)
      /\ r.project = p
  BY <1>1 DEF DeleteListed, NoRequest
<1> HIDE DEF r
<1>3. Elsewhere(p) /\ BoundLives'
  BY <1>2, DeleteEffect DEF HandInv
<1>4. ASSUME pc'[t] = "rmtree" PROVE InHand(pc[t], req[t])'
  BY <1>4 DEF InHand
<1> QED BY <1>1, <1>2, <1>3, <1>4, HandWrites

\* Requests that are nobody's change a session, an owner, or make a project.
LEMMA HandOthers ==
  ASSUME Typed, Owned, HandInv,
         \/ \E p \in Project : CreateProject(p)
         \/ \E u \in User : SessionCommand(u)
  PROVE  HandInv'
<1>1. ASSUME NEW p \in Project, CreateProject(p) PROVE HandInv'
  <2>1. InsertProject(p, Null) /\ UNCHANGED <<pc, req>>
    BY <1>1 DEF CreateProject
  <2>2. Elsewhere(p)
    BY <2>1 DEF Elsewhere, InsertProject, Typed, StoreTypeOK
  <2>3. BoundLives'
    BY <2>1, <2>2 DEF BoundLives, HandInv, InsertProject, Elsewhere, Live, Typed, StoreTypeOK
  <2>4. ASSUME NEW t \in Thread, pc[t] # "idle" PROVE InHand(pc[t], req[t])'
    <3>1. InHand(pc[t], req[t])
      BY <2>4 DEF HandInv
    <3>2. CASE pc[t] = "rmtree"
      BY <2>1, <3>2 DEF InHand
    <3>3. CASE pc[t] # "rmtree"
      <4>1. req[t].project # p
        BY <2>1, <3>1, <3>3 DEF InHand, InsertProject, Live
      <4> QED BY <2>1, <2>2, <2>4, <3>1, <4>1, HandElsewhere
    <3> QED BY <3>2, <3>3
  <2> QED BY <2>1, <2>3, <2>4 DEF HandInv
<1>2. ASSUME NEW u \in User, SessionCommand(u) PROVE HandInv'
  <2>1. /\ UNCHANGED <<checkpoints, pc, req>>
        /\ \A p \in Project : /\ projects'[p].life = projects[p].life
                              /\ projects'[p].current = projects[p].current
    BY <1>2 DEF SessionCommand, ResetChatSession, SwitchActiveProject, Typed, StoreTypeOK,
       ProjectRow
  <2>2. BoundLives'
    <3>1. CASE ResetChatSession(u)
      BY <2>1, <3>1 DEF ResetChatSession, BoundLives, HandInv, Live, Typed, StoreTypeOK
    <3>2. ASSUME NEW p \in Project, SwitchActiveProject(u, p) PROVE BoundLives'
      BY <2>1, <3>2 DEF SwitchActiveProject, BoundLives, HandInv, Live, Typed, StoreTypeOK
    <3> QED BY <1>2, <3>1, <3>2 DEF SessionCommand
  <2>3. ASSUME NEW t \in Thread, pc[t] # "idle" PROVE InHand(pc[t], req[t])'
    <3>1. PICK p \in Project : p = req[t].project
      BY <2>3, AtWork
    <3>2. InHand(pc[t], req[t])
      BY <2>3 DEF HandInv
    <3> QED BY <2>1, <3>1, <3>2 DEF InHand, Names, Live, Exists
  <2> QED BY <2>1, <2>2, <2>3 DEF HandInv
<1> QED BY <1>1, <1>2

LEMMA HandsStep ==
  Typed /\ Owned /\ HandInv /\ OneAtATime /\ OneAtATime' /\ [Next]_vars => HandInv'
<1> SUFFICES ASSUME Typed, Owned, HandInv, OneAtATime, OneAtATime', [Next]_vars
             PROVE  HandInv'
  OBVIOUS
<1>1. ASSUME NEW t \in Thread, Arrive(t) PROVE HandInv'
  BY <1>1, HandArrives
<1>2. ASSUME NEW t \in Thread, Proceed(t) PROVE HandInv'
  BY <1>2, HandLocal, HandFeedback, HandBinds, HandCreates, HandResolves, HandRefreshes,
     HandDeletes DEF Proceed
<1>3. ASSUME NEW t \in Thread, RunTests(t) PROVE HandInv'
  BY <1>3, HandFeedback
<1>4. CASE Restart
  <2>1. \A t \in Thread : pc'[t] = "idle" /\ req'[t].project = Null
    BY <1>4 DEF Restart, NoRequest
  <2>2. BoundLives'
    BY <1>4 DEF Restart, store, HandInv, BoundLives, Live
  <2> QED BY <2>1, <2>2 DEF HandInv
<1>5. CASE UNCHANGED vars
  <2>1. UNCHANGED <<projects, checkpoints, sessions, pc, req>>
    BY <1>5 DEF vars, store
  <2> QED BY <2>1 DEF HandInv, InHand, BoundLives, Names, Live, Exists
<1> QED BY <1>1, <1>2, <1>3, <1>4, <1>5, HandOthers DEF Next

\* As long as requests about one project take turns, with crashes anywhere.
LEMMA HandsHold == Spec /\ []OneAtATime => [](Typed /\ Owned /\ HandInv)
<1>1. Init => Typed /\ Owned /\ HandInv
  <2>1. Init => HandInv
    BY NullIsNothing DEF Init, StoreInit, NoRequest, HandInv, BoundLives
  <2> QED BY <2>1, InitTyped, InitOwned
<1>2. Typed /\ Owned /\ HandInv /\ OneAtATime /\ OneAtATime' /\ [Next]_vars
        => (Typed /\ Owned /\ HandInv)'
  BY TypedStep, OwnedStep, HandsStep
<1> QED BY <1>1, <1>2, PTL DEF Spec

\* When requests about one project take turns, what each has in hand stays what
\* it is taken for, wherever the process dies.
THEOREM HandInvHolds == Spec /\ []OneAtATime => []HandInv
  BY HandsHold, PTL

\* When requests about one project take turns, no session is left bound to a
\* project that is gone, wherever the process dies in the middle of delete_project
\* or between the making of a project and bind_active_project.
THEOREM BoundLivesHolds == Spec /\ []OneAtATime => []BoundLives
<1>1. HandInv => BoundLives
  BY DEF HandInv
<1> QED BY <1>1, HandsHold, PTL

\* One thread serves one request at a time, as the run serial has it.
LEMMA OneThread ==
  ASSUME \A t, u \in Thread : t = u
  PROVE  OneAtATime
  BY DEF OneAtATime

\* When requests about one project take turns, every request under way has
\* left its project as its locals say: between the calls that create a
\* checkpoint, resolve the old one and write the status, too.
THEOREM TurnsInvHolds == Spec /\ InTurn => []TurnsInv
  BY TurnsHold, PTL

\* When requests about one project take turns, apply_feedback, start_project,
\* the chat turns and the director's refresh leave status and checkpoint of
\* every project in agreement, on every way out of a request, an agent that
\* raises among them.
THEOREM SettledGateHolds == Spec /\ InTurn => []SettledGate
<1>1. TurnsInv => SettledGate
  BY DEF TurnsInv, AtRest, SettledGate, Settled, Waits, Awaits
<1> QED BY <1>1, TurnsHold, PTL

\* When requests about one project take turns, delete_project leaves no
\* checkpoint, no session bound to the project and no file once it is over.
THEOREM DeletedLeavesNothingHolds == Spec /\ InTurn => []DeletedLeavesNothing
<1>1. Typed /\ Owned /\ TurnsInv => DeletedLeavesNothing
  <2> SUFFICES ASSUME Typed, Owned, TurnsInv,
                      NEW p \in Project, projects[p].life = "deleted", Quiet(p)
               PROVE  /\ CheckpointsOf(p) = {}
                      /\ \A u \in User : sessions[u] # p
                      /\ disk[p] = NoDirectory
    BY DEF DeletedLeavesNothing
  <2>1. CheckpointsOf(p) = {} /\ disk[p] = NoDirectory
    BY DEF TurnsInv, AtRest
  <2>2. \A u \in User : sessions[u] # p
    BY NullIsNothing DEF TurnsInv, BoundLives, Live
  <2> QED BY <2>1, <2>2
<1> QED BY <1>1, TurnsHold, PTL

\* The methods that leave the current checkpoint of every project alone, take
\* it away, or make a new one.
LEMMA CurrentKept ==
  ASSUME Typed, NEW p \in Project,
         \/ \E o : InsertProject(p, o)
         \/ \E c \in Checkpoint, type \in CheckpointType : CreateCheckpoint(p, c, type)
         \/ RefreshActiveProjectRequirement(p) \/ \E listed : DeleteRows(p, listed)
         \/ \E u \in User : BindActiveProject(u, p) \/ SwitchActiveProject(u, p)
  PROVE  \A q \in Project : projects'[q].current \notin {Null, projects[q].current} =>
           checkpoints[projects'[q].current].status = "free"
<1>1. CASE \E o : InsertProject(p, o)
  BY <1>1 DEF InsertProject, Typed, StoreTypeOK
<1>2. ASSUME NEW c \in Checkpoint, NEW type \in CheckpointType, CreateCheckpoint(p, c, type)
      PROVE  \A q \in Project : projects'[q].current \notin {Null, projects[q].current} =>
               checkpoints[projects'[q].current].status = "free"
  <2>1. projects'[p].current = c /\ checkpoints[c].status = "free"
    BY <1>2 DEF CreateCheckpoint, Typed, StoreTypeOK, ProjectRow
  <2>2. \A q \in Project \ {p} : projects'[q] = projects[q]
    BY <1>2 DEF CreateCheckpoint, Typed, StoreTypeOK
  <2> QED BY <2>1, <2>2
<1>3. CASE RefreshActiveProjectRequirement(p) \/ \E listed : DeleteRows(p, listed)
  <2>1. projects'[p].current \in {Null, projects[p].current}
    BY <1>3 DEF RefreshActiveProjectRequirement, DeleteRows, Typed, StoreTypeOK, ProjectRow
  <2>2. \A q \in Project \ {p} : projects'[q] = projects[q]
    BY <1>3 DEF RefreshActiveProjectRequirement, DeleteRows, Typed, StoreTypeOK
  <2> QED BY <2>1, <2>2
<1>4. CASE \E u \in User : BindActiveProject(u, p) \/ SwitchActiveProject(u, p)
  BY <1>4 DEF BindActiveProject, SwitchActiveProject, Typed, StoreTypeOK, ProjectRow
<1> QED BY <1>1, <1>2, <1>3, <1>4

\* The one method that could bring an old checkpoint back is asked for the one
\* that is current, or for none.
LEMMA FlowKeepsCurrent ==
  ASSUME Typed, Owned, HandInv, NEW t \in Thread, FlowState(t)
  PROVE  \A q \in Project : projects'[q].current \in {Null, projects[q].current}
<1>1. PICK p \in Project : p = req[t].project
  BY AtWork DEF FlowState
<1>2. InHand("flow", req[t])
  BY DEF FlowState, HandInv
<1>3. /\ UpdateProjectFlowState(p, req[t].outcome, req[t].next)
      /\ req[t].next \in {Null, projects[p].current}
  BY <1>1, <1>2 DEF FlowState, InHand
<1> QED BY <1>1, <1>3 DEF UpdateProjectFlowState, Typed, StoreTypeOK, ProjectRow

LEMMA NewestStep ==
  ASSUME Typed, Owned, HandInv, Next
  PROVE  \A p \in Project : projects'[p].current \notin {Null, projects[p].current} =>
           checkpoints[projects'[p].current].status = "free"
<1>1. CASE UNCHANGED projects
  BY <1>1
<1>2. ASSUME NEW p \in Project, CreateProject(p) PROVE InsertProject(p, Null)
  BY <1>2 DEF CreateProject
<1>3. ASSUME NEW u \in User, SessionCommand(u)
      PROVE  UNCHANGED projects \/ \E p \in Project : SwitchActiveProject(u, p)
  BY <1>3 DEF SessionCommand, ResetChatSession
<1>4. ASSUME NEW t \in Thread, Arrive(t)
      PROVE  \/ UNCHANGED projects
             \/ \E p \in Project : \E o : InsertProject(p, o)
  BY <1>4 DEF Arrive, RunProject, SubmitFeedback, DeleteProject, StageFollowUp,
     RefreshDraft, ChatStartsProject, store
<1>5. ASSUME NEW t \in Thread, Proceed(t) \/ RunTests(t)
      PROVE  \/ UNCHANGED projects
             \/ FlowState(t)
             \/ \E u \in User : BindActiveProject(u, req[t].project) /\ pc[t] = "bind"
             \/ /\ RefreshActiveProjectRequirement(req[t].project)
                /\ pc[t] \in {"turn_refresh", "refresh"}
             \/ pc[t] = "delete" /\ DeleteRows(req[t].project, req[t].listed)
             \/ /\ pc[t] \in {"requirement_create", "create", "revise_create"}
                /\ \E c \in Checkpoint, type \in CheckpointType :
                     CreateCheckpoint(req[t].project, c, type)
  <2>1. CASE \/ BindProject(t) \/ RequirementCheckpoint(t) \/ NextCheckpoint(t)
             \/ ReviseCreate(t) \/ TurnRefresh(t) \/ Refresh(t) \/ DeleteListed(t)
    BY <2>1 DEF BindProject, RequirementCheckpoint, NextCheckpoint, ReviseCreate,
       TurnRefresh, Refresh, DeleteListed, GiveUp, store, CheckpointType
  <2>2. CASE \/ DiscoveryReads(t) \/ DiscoveryRuns(t) \/ CheckFeedback(t)
             \/ ReadSnapshot(t) \/ SyncReads(t) \/ SyncWrites(t) \/ StageCheckpoint(t)
             \/ RequirementTurn(t) \/ PlanTurn(t) \/ PlanRevise(t) \/ ReviseStatus(t)
    BY <2>2 DEF DiscoveryReads, DiscoveryRuns, CheckFeedback, ReadSnapshot, SyncReads,
       SyncWrites, StageCheckpoint, RequirementTurn, PlanTurn, PlanRevise, ReviseStatus,
       ApproveCurrent, GiveUp, store, WriteProjectMemory
  <2>3. CASE \/ Dispatch(t) \/ Debug(t) \/ RunTests(t) \/ ResolveAnswered(t)
             \/ ReviseResolve(t) \/ RemoveTree(t)
    BY <2>3 DEF Dispatch, Handle, RequirementFeedback, PlanFeedback, CodeFeedback,
       FinalFeedback, Debug, RunTests, ResolveAnswered, ReviseResolve, RemoveTree,
       GiveUp, store, PersistCodeFiles, ResolveCheckpoint, RemoveProjectRoot
  <2> QED BY <1>5, <2>1, <2>2, <2>3 DEF Proceed
<1>6. ASSUME NEW t \in Thread, pc[t] # "idle" PROVE req[t].project \in Project
  BY <1>6, AtWork
<1>7. CASE Restart
  BY <1>7 DEF Restart, store
<1>8. ASSUME NEW t \in Thread, Proceed(t) \/ RunTests(t)
      PROVE  \A p \in Project : projects'[p].current \notin {Null, projects[p].current} =>
               checkpoints[projects'[p].current].status = "free"
  BY <1>1, <1>5, <1>6, <1>8, CurrentKept, FlowKeepsCurrent
<1> QED BY <1>1, <1>2, <1>3, <1>4, <1>7, <1>8, CurrentKept DEF Next

\* When requests about one project take turns, a checkpoint that was current
\* and is not any more never becomes current again: update_project_flow_state
\* is given the checkpoint that is current, or none, wherever the process died
\* before (the run serial lets it die between requests only).
THEOREM CurrentIsNewestHolds == Spec /\ []OneAtATime => CurrentIsNewest
<1>1. Typed /\ Owned /\ HandInv /\ [Next]_vars =>
        [\A p \in Project :
           projects'[p].current \notin {Null, projects[p].current} =>
             checkpoints[projects'[p].current].status = "free"]_vars
  BY NewestStep
<1> QED BY <1>1, HandsHold, PTL DEF Spec, CurrentIsNewest

\* What FeedbackConflictError promises, and two feedbacks at a time break (run
\* acted_on_current): when requests about one project take turns, feedback is
\* acted on while its checkpoint is current and pending, wherever one before it
\* was cut off by a crash.
THEOREM ActedOnCurrentInTurn == Spec /\ []OneAtATime => ActedOnCurrent
<1>1. ASSUME HandInv, NEW t \in Thread, pc[t] = "dispatch"
      PROVE  /\ projects[req[t].project].current = req[t].cp
             /\ checkpoints[req[t].cp].status = "pending"
  BY <1>1 DEF HandInv, InHand
<1>2. HandInv /\ [Next]_vars =>
        [\A t \in Thread :
           pc[t] = "dispatch" /\ pc'[t] \in FlowPc \cup CodingPc =>
             /\ projects[req[t].project].current = req[t].cp
             /\ checkpoints[req[t].cp].status = "pending"]_vars
  BY <1>1
<1> QED BY <1>2, HandsHold, PTL DEF Spec, ActedOnCurrent

\* A service with one thread takes turns without being asked to, whatever the
\* projects: what the run serial checks of one project holds of any number, and
\* part of it with crashes anywhere.
THEOREM OneThreadHolds ==
  ASSUME \A t, u \in Thread : t = u
  PROVE  /\ Spec /\ CrashesBetween => [](SettledGate /\ DeletedLeavesNothing)
         /\ Spec => []BoundLives /\ CurrentIsNewest /\ ActedOnCurrent
<1>1. OneAtATime
  BY OneThread
<1>2. Spec /\ CrashesBetween => [](SettledGate /\ DeletedLeavesNothing)
  BY <1>1, SettledGateHolds, DeletedLeavesNothingHolds, PTL DEF InTurn
<1>3. Spec => []BoundLives /\ CurrentIsNewest /\ ActedOnCurrent
  BY <1>1, BoundLivesHolds, CurrentIsNewestHolds, ActedOnCurrentInTurn, PTL
<1> QED BY <1>2, <1>3

=============================================================================
