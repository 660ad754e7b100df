------------------------- MODULE StoreTransactions -------------------------
(***************************************************************************)
(* Inside the methods of workspace/manager.py.  WorkspaceManager takes     *)
(* each method but delete_project for one step; here it is two.  A session of the engine      *)
(* begins its transaction with its first write, so what a method has read  *)
(* may have been overwritten when it writes: BEGIN and what is read is one *)
(* step (Begin..), flush and commit is the other (Commit..), and between   *)
(* them other threads of the server do the same.  A commit                 *)
(*   - writes version as the one read plus one,                            *)
(*   - writes a column only if its value differs from the one read,        *)
(*   - fails as a whole when a row it updates is no longer there,          *)
(*   - deletes those rows it listed that are still there.                  *)
(* Any method may raise in between, or die with the server (Abort).        *)
(* Which request makes a call, and why, is left to WorkflowService: here   *)
(* calls of a thread come in any order.  Sessions are bound elsewhere.     *)
(***************************************************************************)
EXTENDS WorkspaceManager, FiniteSets

CONSTANTS Thread,     \* threads of the server
          Gates,      \* the checkpoint types asked for
          Statuses,   \* the statuses update_project_flow_state is called with
          MaxVersion  \* no method begins on a project that has this version

ASSUME CallsOK ==
  /\ Gates \subseteq CheckpointType
  /\ Statuses \subseteq TaskStatus
  /\ MaxVersion \in Nat

VARIABLES call,     \* per thread: the method under way and what it has read
          made,     \* per thread: the checkpoint it has created last
          card,     \* a project as get_project has shown it to somebody
          overlap   \* history: projects with a commit upon a row since changed

vars == <<store, call, made, card, overlap>>

-----------------------------------------------------------------------------
NoRow == [life |-> "unborn", status |-> "DISCOVERY", version |-> 0,
          current |-> Null, owner |-> Null]

Idle == [method |-> "none", project |-> Null, row |-> NoRow, cp |-> Null,
         type |-> Null, status |-> Null, current |-> Null, listed |-> {}]

Init ==
  /\ StoreInit
  /\ call = [t \in Thread |-> Idle]
  /\ made = [t \in Thread |-> Null]
  /\ card = [project |-> Null, row |-> NoRow]
  /\ overlap = {}

\* An id that no row has and no method under way has drawn.
Fresh(c) == checkpoints[c].status = "free" /\ \A u \in Thread : call[u].cp # c

\* The method of t has read the project; it is inside its session from here on.
Begins(t, p, reading) ==
  /\ call[t] = Idle
  /\ Live(p)
  /\ projects[p].version < MaxVersion
  /\ call' = [call EXCEPT ![t] = reading]
  /\ UNCHANGED <<store, made, card, overlap>>

Reading(method, p) ==
  [Idle EXCEPT !.method = method, !.project = p, !.row = projects[p]]

BeginCreate(t, p, c, type) ==
  /\ Fresh(c)
  /\ Begins(t, p, [Reading("create", p) EXCEPT !.cp = c, !.type = type])

Waiting == {"WAIT_HUMAN_REQUIREMENT", "WAIT_HUMAN_PLAN",
            "WAIT_HUMAN_CODE", "WAIT_HUMAN_FINAL"}

\* A project waits at the checkpoint its caller has just created, or has none.
BeginFlow(t, p, status, current) ==
  /\ IF status \in Waiting THEN current # Null ELSE current = Null
  /\ current # Null => checkpoints[current].project = p
  /\ Begins(t, p, [Reading("flow", p) EXCEPT
       !.status = status, !.current = current])

\* The current checkpoint is read as well, and will be written if it is pending.
BeginRefresh(t, p) ==
  LET pending == {c \in {projects[p].current} \ {Null} :
                    checkpoints[c].status = "pending"}
  IN  Begins(t, p, [Reading("refresh", p) EXCEPT !.listed = pending])

BeginDelete(t, p) ==
  Begins(t, p, [Reading("delete", p) EXCEPT !.listed = CheckpointsOf(p)])

\* Only the checkpoint is read, so the project need not be there.
BeginResolve(t, c) ==
  /\ call[t] = Idle
  /\ Exists(c)
  /\ call' = [call EXCEPT ![t] =
       [Idle EXCEPT !.method = "resolve", !.project = checkpoints[c].project,
                    !.cp = c]]
  /\ UNCHANGED <<store, made, card, overlap>>

-----------------------------------------------------------------------------
\* The method of t is going to write by a row that has changed since it read it.
Overtaken(t) ==
  /\ call[t].method \in {"create", "flow", "refresh"}
  /\ call[t].row # projects[call[t].project]

\* The method of t commits and returns.
Ends(t) ==
  /\ call' = [call EXCEPT ![t] = Idle]
  /\ overlap' = IF Overtaken(t) THEN overlap \cup {call[t].project} ELSE overlap
  /\ UNCHANGED card

\* A column is part of the UPDATE only if it was set to another value.
Column(read, set, now) == IF set = read THEN now ELSE set

\* Variant with a fault: the new row is never added to the session.
CommitCreateRowOnly(t) ==
  LET k == call[t]
  IN  /\ k.method = "create"
      /\ Live(k.project)
      /\ projects' = [projects EXCEPT
           ![k.project].current = k.cp, ![k.project].version = k.row.version + 1]
      /\ made' = [made EXCEPT ![t] = k.cp]
      /\ Ends(t)
      /\ UNCHANGED <<checkpoints, sessions, disk>>

\* Variant with a fault: the new row is committed before the project's.
CommitCreateApart(t) ==
  LET k == call[t]
  IN  /\ k.method = "create"
      /\ checkpoints' = [checkpoints EXCEPT ![k.cp] =
           [project |-> k.project, type |-> k.type, status |-> "pending"]]
      /\ projects' = IF Live(k.project)
           THEN [projects EXCEPT ![k.project].current = k.cp,
                                 ![k.project].version = k.row.version + 1]
           ELSE projects
      /\ made' = [made EXCEPT ![t] = k.cp]
      /\ Ends(t)
      /\ UNCHANGED <<sessions, disk>>

CommitCreate(t) ==
  LET k == call[t]
  IN  /\ k.method = "create"
      /\ Live(k.project)
      /\ checkpoints' = [checkpoints EXCEPT ![k.cp] =
           [project |-> k.project, type |-> k.type, status |-> "pending"]]
      /\ projects' = [projects EXCEPT
           ![k.project].current = k.cp, ![k.project].version = k.row.version + 1]
      /\ made' = [made EXCEPT ![t] = k.cp]
      /\ Ends(t)
      /\ UNCHANGED <<sessions, disk>>

\* Variant with a fault: the version is left as it was read.
CommitFlowSameVersion(t) ==
  LET k == call[t]
  IN  /\ k.method = "flow"
      /\ Live(k.project)
      /\ projects' = [projects EXCEPT
           ![k.project].status = Column(k.row.status, k.status, @),
           ![k.project].current = Column(k.row.current, k.current, @)]
      /\ sessions' = IF k.status \in TerminalStatus
                       THEN Unbound(k.project) ELSE sessions
      /\ Ends(t)
      /\ UNCHANGED <<checkpoints, disk, made>>

CommitFlow(t) ==
  LET k == call[t]
  IN  /\ k.method = "flow"
      /\ Live(k.project)
      /\ projects' = [projects EXCEPT
           ![k.project].status = Column(k.row.status, k.status, @),
           ![k.project].current = Column(k.row.current, k.current, @),
           ![k.project].version = k.row.version + 1]
      /\ sessions' = IF k.status \in TerminalStatus
                       THEN Unbound(k.project) ELSE sessions
      /\ Ends(t)
      /\ UNCHANGED <<checkpoints, disk, made>>

Resolved(cs) == [c \in Checkpoint |->
  IF c \in cs THEN [checkpoints[c] EXCEPT !.status = "resolved"]
              ELSE checkpoints[c]]

\* Variant with a fault: the current checkpoint is forgotten, but not closed.
CommitRefreshLeavesPending(t) ==
  LET k == call[t]
  IN  /\ k.method = "refresh"
      /\ Live(k.project)
      /\ projects' = [projects EXCEPT
           ![k.project].status = Column(k.row.status, "DISCOVERY", @),
           ![k.project].current = Column(k.row.current, Null, @),
           ![k.project].version = k.row.version + 1]
      /\ Ends(t)
      /\ UNCHANGED <<checkpoints, sessions, disk, made>>

CommitRefresh(t) ==
  LET k == call[t]
  IN  /\ k.method = "refresh"
      /\ Live(k.project)
      /\ \A c \in k.listed : Exists(c)
      /\ checkpoints' = Resolved(k.listed)
      /\ projects' = [projects EXCEPT
           ![k.project].status = Column(k.row.status, "DISCOVERY", @),
           ![k.project].current = Column(k.row.current, Null, @),
           ![k.project].version = k.row.version + 1]
      /\ Ends(t)
      /\ UNCHANGED <<sessions, disk, made>>

CommitResolve(t) ==
  LET k == call[t]
  IN  /\ k.method = "resolve"
      /\ Exists(k.cp)
      /\ checkpoints' = Resolved({k.cp})
      /\ Ends(t)
      /\ UNCHANGED <<projects, sessions, disk, made>>

\* Missing rows are only warned of.  The directory is removed after the commit.
CommitDelete(t) ==
  LET k == call[t]
  IN  /\ k.method = "delete"
      /\ checkpoints' = [c \in Checkpoint |->
           IF c \in k.listed THEN [checkpoints[c] EXCEPT !.status = "deleted"]
                             ELSE checkpoints[c]]
      /\ sessions' = Unbound(k.project)
      /\ projects' = [projects EXCEPT ![k.project].life = "deleted"]
      /\ call' = [call EXCEPT ![t] =
           [Idle EXCEPT !.method = "rmtree", !.project = k.project]]
      /\ UNCHANGED <<disk, made, card, overlap>>

RemoveTree(t) ==
  /\ call[t].method = "rmtree"
  /\ RemoveProjectRoot(call[t].project)
  /\ call' = [call EXCEPT ![t] = Idle]
  /\ UNCHANGED <<made, card, overlap>>

\* A method raises - a row is gone, the database is locked - or dies.
Abort(t) ==
  /\ call[t] # Idle
  /\ call' = [call EXCEPT ![t] = Idle]
  /\ UNCHANGED <<store, made, card, overlap>>

CreateProject(p) ==
  /\ InsertProject(p, Null)
  /\ UNCHANGED <<call, made, card, overlap>>

ShowCard(p) ==
  /\ Live(p)
  /\ card' = [project |-> p, row |-> projects[p]]
  /\ UNCHANGED <<store, call, made, overlap>>

Begin(t) ==
  \/ \E p \in Project, c \in Checkpoint, type \in Gates : BeginCreate(t, p, c, type)
  \/ \E p \in Project, status \in Statuses, current \in {Null, made[t]} :
       BeginFlow(t, p, status, current)
  \/ \E p \in Project : BeginRefresh(t, p) \/ BeginDelete(t, p)
  \/ \E c \in Checkpoint : BeginResolve(t, c)

Commit(t) ==
  \/ CommitCreate(t) \/ CommitFlow(t) \/ CommitRefresh(t)
  \/ CommitResolve(t) \/ CommitDelete(t)

Next ==
  \/ \E p \in Project : CreateProject(p) \/ ShowCard(p)
  \/ \E t \in Thread : Begin(t) \/ Commit(t) \/ RemoveTree(t) \/ Abort(t)

Spec == Init /\ [][Next]_vars

-----------------------------------------------------------------------------
(* Properties                                                              *)

\* A live project's current checkpoint is a row of its own, however methods
\* on it overlap: a request that reads a project can read its checkpoint.
CurrentExists ==
  \A p \in Project : Live(p) /\ projects[p].current # Null =>
    projects[p].current \in CheckpointsOf(p)

\* A card with the version of the row shows the status and the checkpoint of
\* the row (apply_feedback relies on it), unless two methods on the project
\* have overlapped: then a version may be given out twice, or go back.
VersionNamesOneState ==
  LET p == card.project
  IN  /\ p \notin {Null} \cup overlap
      /\ Live(p)
      /\ card.row.version = projects[p].version
      =>  /\ card.row.status = projects[p].status
          /\ card.row.current = projects[p].current

\* Once a project is deleted, methods that had read it before write nothing
\* about it: it stays deleted and gets no more checkpoints.
GoneStaysGone ==
  [][\A p \in Project : projects[p].life = "deleted" =>
       projects'[p] = projects[p] /\ CheckpointsOf(p)' \subseteq CheckpointsOf(p)]_vars

\* The commit of t, or what follows it, as the one step WorkspaceManager takes the method for.
AsOneStep(t) ==
  LET k == call[t]
  IN  CASE k.method = "create"  -> CreateCheckpoint(k.project, k.cp, k.type)
        [] k.method = "flow"    -> UpdateProjectFlowState(k.project, k.status, k.current)
        [] k.method = "refresh" -> RefreshActiveProjectRequirement(k.project)
        [] k.method = "resolve" -> ResolveCheckpoint(k.cp)
        [] k.method = "delete"  -> DeleteRows(k.project, k.listed)
        [] k.method = "rmtree"  -> RemoveProjectRoot(k.project)

\* A method whose reads are still true when it commits does what it does when
\* it runs alone, and a delete always does what WorkflowService takes it for, by
\* the list it has.  So the atomic methods of WorkflowService lose only what
\* overlap within the other methods of one project adds.
OneStepUnlessOvertaken ==
  [][\A t \in Thread :
       (call'[t] # call[t] /\ store' # store /\ ~Overtaken(t)) => AsOneStep(t)]_vars

=============================================================================
