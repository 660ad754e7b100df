-------------------------- MODULE WorkspaceManager --------------------------
(***************************************************************************)
(* The store of the system: workspace/manager.py over SQLite and the       *)
(* project directories.  A table is a total function from ids to rows, and *)
(* a row says whether it is there.  Every method of the class is one       *)
(* operator here, and one transaction: it is used as a conjunct of the     *)
(* step of the request that calls it.  A method that raises KeyError is    *)
(* not enabled; its caller then takes the step that gives the request up.  *)
(* delete_project alone is several steps of its caller: the checkpoints it *)
(* lists, its transaction, and the removal of the directory.               *)
(*                                                                         *)
(* Abstracted: titles, requirement texts, timestamps, available_actions    *)
(* (nothing reads them back to decide) and the text of files.  memory.md   *)
(* is kept as the set of approvals its Decisions section claims.  The mode *)
(* of a session is PROJECT_ACTIVE exactly when its active project is set,  *)
(* in every method, so a session is its active project.                    *)
(***************************************************************************)
EXTENDS Naturals

CONSTANTS Project,     \* project ids (uuid4, never reused)
          Checkpoint,  \* checkpoint ids (uuid4, never reused)
          User,        \* wecom user ids
          Null         \* None

VARIABLES projects,     \* table projects
          checkpoints,  \* table checkpoints
          sessions,     \* table wechat_sessions: the active project of a user
          disk          \* projects/<id>/ on disk, and what its memory.md claims

store == <<projects, checkpoints, sessions, disk>>

-----------------------------------------------------------------------------
TaskStatus ==
  {"DISCOVERY", "WAIT_HUMAN_REQUIREMENT", "PLANNING", "WAIT_HUMAN_PLAN",
   "CODING", "TESTING", "DEBUGGING", "WAIT_HUMAN_CODE", "REVIEW",
   "WAIT_HUMAN_FINAL", "PAUSED", "DONE", "CANCELLED", "FAILED"}

TerminalStatus == {"DONE", "CANCELLED", "FAILED"}

CheckpointType ==
  {"requirement_review", "plan_review", "code_review", "final_review"}

ASSUME NullIsNothing ==
  Null \notin Project \cup Checkpoint \cup User \cup TaskStatus \cup CheckpointType

ProjectRow ==
  [life    : {"unborn", "live", "deleted"},
   status  : TaskStatus,
   version : Nat,
   current : Checkpoint \cup {Null},
   owner   : User \cup {Null}]

CheckpointRow ==
  [project : Project \cup {Null},
   type    : CheckpointType \cup {Null},
   status  : {"free", "pending", "resolved", "deleted"}]

Directory == [root : BOOLEAN, decisions : SUBSET CheckpointType]

Live(p)   == projects[p].life = "live"
Exists(c) == checkpoints[c].status \in {"pending", "resolved"}

CheckpointsOf(p) == {c \in Checkpoint : Exists(c) /\ checkpoints[c].project = p}

NoDirectory == [root |-> FALSE, decisions |-> {}]

StoreTypeOK ==
  /\ projects    \in [Project -> ProjectRow]
  /\ checkpoints \in [Checkpoint -> CheckpointRow]
  /\ sessions    \in [User -> Project \cup {Null}]
  /\ disk        \in [Project -> Directory]

StoreInit ==
  /\ projects = [p \in Project |->
       [life |-> "unborn", status |-> "DISCOVERY", version |-> 0,
        current |-> Null, owner |-> Null]]
  /\ checkpoints = [c \in Checkpoint |->
       [project |-> Null, type |-> Null, status |-> "free"]]
  /\ sessions = [u \in User |-> Null]
  /\ disk = [p \in Project |-> NoDirectory]

-----------------------------------------------------------------------------
(* Projects and checkpoints                                                *)

\* The sessions once every session bound to p is back to plain chat.
Unbound(p) == [u \in User |-> IF sessions[u] = p THEN Null ELSE sessions[u]]

\* Variant with a fault: the row is inserted without a version.
InsertProjectUnversioned(p, owner) ==
  /\ projects[p].life = "unborn"
  /\ projects' = [projects EXCEPT
       ![p].life = "live", ![p].version = Null, ![p].owner = owner]
  /\ disk' = [disk EXCEPT ![p].root = TRUE]
  /\ UNCHANGED <<checkpoints, sessions>>

InsertProject(p, owner) ==
  /\ projects[p].life = "unborn"
  /\ projects' = [projects EXCEPT ![p] =
       [life |-> "live", status |-> "DISCOVERY", version |-> 1,
        current |-> Null, owner |-> owner]]
  /\ disk' = [disk EXCEPT ![p].root = TRUE]
  /\ UNCHANGED <<checkpoints, sessions>>

\* Variant with a fault: the new checkpoint is left to a later call to set.
CreateCheckpointNotCurrent(p, c, type) ==
  /\ Live(p)
  /\ checkpoints[c].status = "free"
  /\ checkpoints' = [checkpoints EXCEPT ![c] =
       [project |-> p, type |-> type, status |-> "pending"]]
  /\ projects' = [projects EXCEPT ![p].version = @ + 1]
  /\ UNCHANGED <<sessions, disk>>

CreateCheckpoint(p, c, type) ==
  /\ Live(p)
  /\ checkpoints[c].status = "free"
  /\ checkpoints' = [checkpoints EXCEPT ![c] =
       [project |-> p, type |-> type, status |-> "pending"]]
  /\ projects' = [projects EXCEPT ![p].current = c, ![p].version = @ + 1]
  /\ UNCHANGED <<sessions, disk>>

ResolveCheckpoint(c) ==
  /\ Exists(c)
  /\ checkpoints' = [checkpoints EXCEPT ![c].status = "resolved"]
  /\ UNCHANGED <<projects, sessions, disk>>

\* Variant with a fault: the values are merged, which puts back a row that is gone.
UpdateProjectFlowStateMerged(p, status, current) ==
  /\ projects[p].life # "unborn"
  /\ projects' = [projects EXCEPT
       ![p].life = "live", ![p].status = status, ![p].current = current,
       ![p].version = @ + 1]
  /\ sessions' = IF status \in TerminalStatus THEN Unbound(p) ELSE sessions
  /\ UNCHANGED <<checkpoints, disk>>

\* Variant with a fault: the version is left as it was.
UpdateProjectFlowStateSameVersion(p, status, current) ==
  /\ Live(p)
  /\ projects' = [projects EXCEPT ![p].status = status, ![p].current = current]
  /\ sessions' = IF status \in TerminalStatus THEN Unbound(p) ELSE sessions
  /\ UNCHANGED <<checkpoints, disk>>

UpdateProjectFlowState(p, status, current) ==
  /\ Live(p)
  /\ projects' = [projects EXCEPT
       ![p].status = status, ![p].current = current, ![p].version = @ + 1]
  /\ sessions' = IF status \in TerminalStatus THEN Unbound(p) ELSE sessions
  /\ UNCHANGED <<checkpoints, disk>>

\* Variant with a fault: the resolved checkpoint stays current.
RefreshKeepingCurrent(p) ==
  /\ Live(p)
  /\ checkpoints' = [c \in Checkpoint |->
       IF c = projects[p].current /\ checkpoints[c].status = "pending"
         THEN [checkpoints[c] EXCEPT !.status = "resolved"]
         ELSE checkpoints[c]]
  /\ projects' = [projects EXCEPT ![p].status = "DISCOVERY", ![p].version = @ + 1]
  /\ UNCHANGED <<sessions, disk>>

RefreshActiveProjectRequirement(p) ==
  /\ Live(p)
  /\ checkpoints' = [c \in Checkpoint |->
       IF c = projects[p].current /\ checkpoints[c].status = "pending"
         THEN [checkpoints[c] EXCEPT !.status = "resolved"]
         ELSE checkpoints[c]]
  /\ projects' = [projects EXCEPT
       ![p].status = "DISCOVERY", ![p].current = Null, ![p].version = @ + 1]
  /\ UNCHANGED <<sessions, disk>>

\* What delete_project makes of the checkpoints it has listed.
Removed(p, listed) == [c \in Checkpoint |->
  IF c \in listed \cap CheckpointsOf(p)
    THEN [checkpoints[c] EXCEPT !.status = "deleted"] ELSE checkpoints[c]]

\* Variant with a fault: the sessions stay bound to the project.
DeleteRowsKeepingSessions(p, listed) ==
  /\ checkpoints' = Removed(p, listed)
  /\ projects' = [projects EXCEPT ![p].life = "deleted"]
  /\ UNCHANGED <<sessions, disk>>

\* The transaction of delete_project, for the checkpoints it listed before: one
\* made since is left behind, and of rows that have gone it only warns.  The
\* sessions are read after the flush of the checkpoints and taken to be part of it.
DeleteRows(p, listed) ==
  /\ checkpoints' = Removed(p, listed)
  /\ sessions' = Unbound(p)
  /\ projects' = [projects EXCEPT ![p].life = "deleted"]
  /\ UNCHANGED disk

RemoveProjectRoot(p) ==
  /\ disk' = [disk EXCEPT ![p] = NoDirectory]
  /\ UNCHANGED <<projects, checkpoints, sessions>>

\* Both make the directories they need, whether or not the project is there.
PersistCodeFiles(p) ==
  /\ disk' = [disk EXCEPT ![p].root = TRUE]
  /\ UNCHANGED <<projects, checkpoints, sessions>>

WriteProjectMemory(p, decisions) ==
  /\ disk' = [disk EXCEPT ![p] = [root |-> TRUE, decisions |-> decisions]]
  /\ UNCHANGED <<projects, checkpoints, sessions>>

-----------------------------------------------------------------------------
(* Sessions                                                                *)

BindActiveProject(u, p) ==
  /\ sessions[u] \in {Null, p}
  /\ sessions' = [sessions EXCEPT ![u] = p]
  /\ projects' = IF Live(p) /\ projects[p].owner = Null
                   THEN [projects EXCEPT ![p].owner = u]
                   ELSE projects
  /\ UNCHANGED <<checkpoints, disk>>

SwitchActiveProject(u, p) ==
  /\ Live(p)
  /\ projects[p].owner \in {Null, u}
  /\ projects' = [projects EXCEPT ![p].owner = u]
  /\ sessions' = [sessions EXCEPT ![u] = p]
  /\ UNCHANGED <<checkpoints, disk>>

ResetChatSession(u) ==
  /\ sessions' = [sessions EXCEPT ![u] = Null]
  /\ UNCHANGED <<projects, checkpoints, disk>>

=============================================================================
