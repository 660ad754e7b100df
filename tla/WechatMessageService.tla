------------------------- MODULE WechatMessageService -------------------------
(***************************************************************************)
(* director/wechat_message_service.py: what the server does with one chat  *)
(* message, from get_session to the request of the workflow it becomes.    *)
(* The session is read first and used to the end; the director's LLM runs  *)
(* in between.  This module puts the steps of handle_message in front of   *)
(* the requests of WorkflowService, which it is shown to implement: a      *)
(* message is a workflow request or changes nothing but its session.       *)
(*                                                                         *)
(* Abstracted: what is said.  Which command a message is, and what the     *)
(* director's turn asks for, is a choice.                                  *)
(***************************************************************************)
EXTENDS WorkflowService

CONSTANT Overlap  \* whether messages of one user may be handled at a time

ASSUME OverlapOK == Overlap \in BOOLEAN

VARIABLE msg  \* the message each thread handles

chatVars == <<vars, msg>>

-----------------------------------------------------------------------------
\* Where handle_message is.  At "working" the rest is a request of the workflow.
Place == {"none", "route", "switch", "delete", "turn", "draft", "drafting",
          "start", "redrafting", "create", "working"}

\* active is the active project of the session as the handler knows it;
\* project is the one a switch or a delete was resolved to.
Message ==
  [at      : Place,
   user    : User \cup {Null},
   active  : Project \cup {Null},
   project : Project \cup {Null},
   draft   : BOOLEAN,  \* the turn brought a requirement draft
   ready   : BOOLEAN,  \* the turn is ready to start
   phrase  : BOOLEAN]  \* the message says to start development

NoMessage ==
  [at |-> "none", user |-> Null, active |-> Null, project |-> Null,
   draft |-> FALSE, ready |-> FALSE, phrase |-> FALSE]

ChatInit == Init /\ msg = [t \in Thread |-> NoMessage]

Handling(t, place) == msg[t].at = place /\ pc[t] = "idle"

Continue(t, m) == msg' = [msg EXCEPT ![t] = m]

\* A reply, or an exception nobody catches: the message is over.
Reply(t) == Continue(t, NoMessage)

\* The message has become the request of the workflow in the same step.
Becomes(t) == Continue(t, [NoMessage EXCEPT !.at = "working", !.user = msg[t].user])

-----------------------------------------------------------------------------
(* The message comes in                                                    *)

ReceiveMessage(t, u) ==
  /\ Handling(t, "none")
  /\ Overlap \/ \A s \in Thread : msg[s].user # u
  /\ Continue(t, [NoMessage EXCEPT !.at = "route", !.user = u, !.active = sessions[u]])
  /\ UNCHANGED vars

\* Status, a list, or a command whose target is not found.
PlainReply(t) == Handling(t, "route") /\ Reply(t) /\ UNCHANGED vars

ResetSession(t) ==
  /\ Handling(t, "route")
  /\ ResetChatSession(msg[t].user)
  /\ Reply(t)
  /\ UNCHANGED <<graph, pc, req, answers>>

\* Variant with a fault: the target is looked for among all projects.
ResolveAnyProject(t) ==
  /\ Handling(t, "route")
  /\ \E p \in Project, command \in {"switch", "delete"} :
       /\ Live(p)
       /\ Continue(t, [msg[t] EXCEPT !.at = command, !.project = p])
  /\ UNCHANGED vars

\* _resolve_user_project, for a switch or a delete.
ResolveUserProject(t) ==
  /\ Handling(t, "route")
  /\ \E p \in Project, command \in {"switch", "delete"} :
       /\ Live(p) /\ projects[p].owner = msg[t].user
       /\ Continue(t, [msg[t] EXCEPT !.at = command, !.project = p])
  /\ UNCHANGED vars

SwitchProject(t) ==
  LET p == msg[t].project IN
  /\ Handling(t, "switch")
  /\ Reply(t)
  /\ \/ ~Live(p) /\ UNCHANGED vars
     \/ /\ SwitchActiveProject(msg[t].user, p)
        /\ UNCHANGED <<graph, pc, req, answers>>

DeleteTarget(t) ==
  LET p == msg[t].project IN
  /\ Handling(t, "delete")
  /\ \/ ~Live(p) /\ Reply(t) /\ UNCHANGED vars
     \/ DeleteProject(t, p) /\ Becomes(t)

\* An explicit command answers the checkpoint that is pending, if one is.
ExplicitCommand(t) ==
  LET p == msg[t].active IN
  /\ Handling(t, "route")
  /\ p # Null
  /\ projects[p].current # Null
  /\ checkpoints[projects[p].current].status = "pending"
  /\ SubmitFeedback(t, p)
  /\ Becomes(t)

-----------------------------------------------------------------------------
(* The early gates and the director                                        *)

FollowUp(t) ==
  LET p == msg[t].active IN
  /\ Handling(t, "route")
  /\ p # Null
  /\ StageFollowUp(t, p)
  /\ Continue(t, [msg[t] EXCEPT !.at = "working"])

\* The stage does not own the message after all: it goes on to the director.
FallThrough(t) ==
  /\ msg[t].at = "working" /\ pc[t] = "stage"
  /\ StageCheckpoint(t)
  /\ Continue(t, IF pc'[t] = "idle" THEN [msg[t] EXCEPT !.at = "turn"] ELSE msg[t])

\* The active project a message is handled with waits at an early gate.
StageOwns(p) ==
  /\ p # Null
  /\ Live(p)
  /\ \E type \in StageOwned : projects[p].status = WaitingFor[type]

\* A message that asks to start development is never the stage's.
AskDirector(t) ==
  /\ Handling(t, "route")
  /\ \E phrase \in BOOLEAN :
       /\ phrase \/ ~StageOwns(msg[t].active)
       /\ Continue(t, [msg[t] EXCEPT !.at = "turn", !.phrase = phrase])
  /\ UNCHANGED vars

\* The turn came back.  With a summary or a draft the session is written, and
\* what it says by now is used from here on.
DirectorTurn(t) ==
  /\ Handling(t, "turn")
  /\ \/ Reply(t)
     \/ \E draft, summary, ready \in BOOLEAN :
          /\ draft \/ ready
          /\ Continue(t, [msg[t] EXCEPT
               !.at = IF draft THEN "draft" ELSE "start",
               !.active = IF draft \/ summary THEN sessions[msg[t].user] ELSE @,
               !.draft = draft, !.ready = ready])
  /\ UNCHANGED vars

\* After the draft: on to the start, or a reply.
AfterDraft(t) ==
  IF msg[t].ready THEN Continue(t, [msg[t] EXCEPT !.at = "start"]) ELSE Reply(t)

\* Variant with a fault: the draft goes to the project at any stage.
RefreshActiveProject(t) ==
  LET p == msg[t].active IN
  /\ Handling(t, "draft")
  /\ \/ p = Null /\ AfterDraft(t) /\ UNCHANGED vars
     \/ /\ p # Null
        /\ Accepts(t, p)
        /\ Goto(t, "refresh", [NoRequest EXCEPT !.project = p])
        /\ UNCHANGED <<store, graph, answers>>
        /\ Continue(t, [msg[t] EXCEPT !.at = "drafting"])

\* _refresh_active_early_project: the check here, the write at "drafting".
RefreshEarlyProject(t) ==
  LET p == msg[t].active
      early == p # Null /\ Live(p) /\ projects[p].status \in EarlyStatus
  IN
  /\ Handling(t, "draft")
  /\ \/ ~early /\ AfterDraft(t) /\ UNCHANGED vars
     \/ early /\ RefreshDraft(t, p) /\ Continue(t, [msg[t] EXCEPT !.at = "drafting"])

\* A project that is gone raises KeyError and ends the message.
DraftWritten(t) ==
  /\ msg[t].at = "drafting" /\ pc[t] = "refresh"
  /\ Refresh(t)
  /\ IF Live(req[t].project) THEN AfterDraft(t) ELSE Reply(t)

-----------------------------------------------------------------------------
(* The start of a project                                                  *)

Reusable(m) ==
  /\ m.active # Null
  /\ m.phrase
  /\ Live(m.active)
  /\ projects[m.active].status = "DISCOVERY"
  /\ projects[m.active].current = Null

StartProject(t) ==
  LET m == msg[t] IN
  /\ Handling(t, "start")
  /\ \/ /\ ~Reusable(m)
        /\ Continue(t, [m EXCEPT !.at = "create"])
        /\ UNCHANGED vars
     \/ Reusable(m) /\ ~m.draft /\ RunProject(t, m.active) /\ Becomes(t)
     \/ /\ Reusable(m) /\ m.draft
        /\ RefreshDraft(t, m.active)
        /\ Continue(t, [m EXCEPT !.at = "redrafting"])

\* The draft is written again, and the project read and run.
Redraft(t) ==
  /\ msg[t].at = "redrafting" /\ pc[t] = "refresh"
  /\ Refresh(t)
  /\ IF Live(req[t].project) THEN UNCHANGED msg ELSE Reply(t)

EnsureStarted(t) ==
  LET p == msg[t].active IN
  /\ Handling(t, "redrafting")
  /\ \/ /\ \/ ~Live(p)
           \/ projects[p].current # Null
           \/ projects[p].status # "DISCOVERY"
        /\ Reply(t)
        /\ UNCHANGED vars
     \/ /\ projects[p].current = Null
        /\ projects[p].status = "DISCOVERY"
        /\ RunProject(t, p)
        /\ Becomes(t)

CreateAndBind(t) ==
  /\ Handling(t, "create")
  /\ \E p \in Project : ChatStartsProject(t, msg[t].user, p)
  /\ Becomes(t)

-----------------------------------------------------------------------------
\* A thread with no message serves the other routes.
ApiRequest(t) ==
  /\ Handling(t, "none")
  /\ \E p \in Project : RunProject(t, p) \/ SubmitFeedback(t, p)
  /\ UNCHANGED msg

\* The workflow's part of a message, or a request of another route.
Work(t) ==
  /\ msg[t].at \in {"none", "working"}
  /\ pc[t] # "stage"
  /\ Proceed(t) \/ RunTests(t)
  /\ msg' = IF pc'[t] = "idle" THEN [msg EXCEPT ![t] = NoMessage] ELSE msg

HandleMessage(t) ==
  \/ PlainReply(t) \/ ResetSession(t) \/ ResolveUserProject(t)
  \/ SwitchProject(t) \/ DeleteTarget(t) \/ ExplicitCommand(t)
  \/ FollowUp(t) \/ FallThrough(t) \/ AskDirector(t) \/ DirectorTurn(t)
  \/ RefreshEarlyProject(t) \/ DraftWritten(t)
  \/ StartProject(t) \/ Redraft(t) \/ EnsureStarted(t) \/ CreateAndBind(t)

ChatNext ==
  \/ \E t \in Thread, u \in User : ReceiveMessage(t, u)
  \/ \E t \in Thread : HandleMessage(t) \/ ApiRequest(t) \/ Work(t)
  \/ \E p \in Project : CreateProject(p) /\ UNCHANGED msg
  \/ Restart /\ msg' = [t \in Thread |-> NoMessage]

ChatSpec == ChatInit /\ [][ChatNext]_chatVars

-----------------------------------------------------------------------------
(* Properties                                                              *)

\* Every message in flight is of its shape.
ChatTypeOK == TypeOK /\ msg \in [Thread -> Message]

\* A chat message becomes a request the workflow knows: whatever the session
\* said when it was read, no step of handle_message touches a project outside
\* the conditions WorkflowService lets a request in under.
ImplementsWorkflow == Spec

\* Users keep apart: a session, a message in flight and the request it became
\* are about projects of that user, though the session was read long before,
\* and projects are switched, deleted and started by other messages meanwhile.
UsersKeepApart ==
  /\ \A u \in User : sessions[u] # Null => projects[sessions[u]].owner = u
  /\ \A t \in Thread : msg[t].user # Null =>
       /\ \A p \in {msg[t].active, msg[t].project} \ {Null} :
            projects[p].owner = msg[t].user
       /\ pc[t] # "idle" => projects[req[t].project].owner = msg[t].user

\* As long as the messages of a user are handled one after the other, his
\* session names a project that is there, whatever other users and the other
\* routes do and wherever the server crashes.
BoundProjectLives ==
  \A u \in User : sessions[u] # Null => Live(sessions[u])
=============================================================================
