# OPC: a model of its review workflow, its agents and its bridge to WeCom

OPC turns a requirement given in a chat or over HTTP into a plan, code, a
review and a finished project, and asks a human to approve between the stages.
This directory holds TLA+ modules of the parts that decide what happens to a
project, TLC runs on small instances, and TLAPS proofs. Source paths below are
relative to `src/`.

## The system

Two processes. The **server** (`main.py`, `api/`) is FastAPI with synchronous
routes: each request runs in a thread of a pool, so requests interleave at
every call to the database, the graph store, an LLM or the sandbox. The
**bridge** (`wecom_bot_bridge/`) is one asyncio process between WeCom and the
server. They talk HTTP in both directions.

| Component | State | Operations | What makes it correct |
|---|---|---|---|
| `WorkspaceManager` (`workspace/manager.py`) | SQLite tables `projects`, `checkpoints`, `wechat_sessions`; a directory per project | create, read, move and delete rows; write code and `memory.md` | the current checkpoint of a project is there; a version names one state of a project; a delete nothing overlaps with leaves nothing; a method alone is one step |
| `WorkflowService` (`graph/runtime.py`) | langgraph `InMemorySaver` state per project (lost on restart) | `start_project`, `apply_feedback`, `continue_requirement_discovery`, `continue_plan_review` | no gate is skipped; feedback acts on the checkpoint it names; memory claims only gates that were passed; requests end |
| HTTP API (`api/routes.py`) | none | routes to the two above | stale feedback gets a 409 |
| `WechatMessageService`, router (`director/`) | the session row | chat commands, stage follow-ups, start of a project, draft refresh | a message goes to the stage that owns it; a started project is bound |
| Publisher (`notifications/publisher.py`) | none | `publish_event` with timeout and retries | a returned call was delivered; bounded repeats |
| Bridge notifications (`app.py`, `dedup.py`, `notifier.py`) | `TtlDeduplicator` in memory | `internal_notify` | one message per event id |
| Bridge messages (`app.py`, `client.py`, `opc_client.py`) | a second deduplicator | `handle_text_message`, then `/run` | a message is processed once |
| Development graph (`graph/builder.py`, `nodes.py`, `edges.py`) | the state of one invoke | nodes and routing | in the service only discovery runs: without `human_feedback` the first gate routes to the end |
| Agents (`agents/pm.py`, `planner.py`, `coder.py`, `debugger.py`, `reviewer.py`, `base.py`) | none of their own; their results go into the graph state and the project's directory | `run` of each, a chat turn of PM and planner | a turn does what the message asks for; what a human is shown is what was tested |
| Tools, profiles, policy (`tools/registry.py`, `defaults.py`, `agents/profiles.py`, `agents/runtime/policy_engine.py`) | tables fixed at start | bind, offer, check and execute a tool | an agent executes only what its profile and the policy allow |
| Sandbox (`tools/sandbox.py`) | temp directory | run pytest | classification of the result |
| LLM client (`llm/`), tool providers, skills (`tools/providers`, `agents/skills`) | registries and a cache | one HTTP call; lookup of texts | an agent gets only what its profile allows |
| Observability, configuration, UI, scripts | none of interest | | |

**What is hard here.** `apply_feedback` reads the project and its checkpoint,
calls agents for minutes, then writes: two requests on one project overlap in
many ways. Creating a checkpoint, answering the old one, setting the status and
writing memory are separate transactions, and a request can fail or the process
die between any two. The graph state is lost on restart, the rows are not.
`graph.invoke` writes back a state it loaded before the agent ran. A delete can
pass through all of this. Within a method of the store the rows are read outside
the transaction that writes them. A model may answer anything, to any message,
and patch files while it works, while code goes from the coder through tests and
debugger to a human by three ways: the graph state, the directory, a local
variable. The bridge retries, times out, restarts, and awaits between looking at
its deduplicator and marking it. `PROJECT.json` lists every such hazard at its
line with the properties that cover it.

## Modules

| Module | What it is |
|---|---|
| `WorkspaceManager` | the store; every writing method is one operator, one step, but `delete_project` |
| `StoreTransactions`, `MCStoreTransactions`, `StoreProofs` | the same methods as a read and a commit each, which are one step unless overtaken; its instance; its proofs |
| `WorkflowService` | the workflow over that store: requests of several threads, call by call; properties, inductive invariant, refinement mapping |
| `ApprovalGates` | the abstract specification: gates are opened and passed in order, and only a project that passed all is finished |
| `MCWorkflowService` | the symmetry for TLC |
| `WorkflowRowProofs`, `WorkflowGateProofs`, `WorkflowTurnProofs` | proofs about `WorkflowService`: rows; gates, versions and the refinement; requests that take turns |
| `WechatMessageService`, `MCWechatMessageService`, `WechatProofs` | the steps of one chat message in front of the workflow's requests; its instance; its proofs |
| `ProjectWork`, `MCProjectWork`, `WorkProofs` | the work inside the requests of a project, with its data: chat turns, code, tests, files; its instance; its proofs |
| `AgentTurns` | how PM and planner decide what a message asks for: functions |
| `AgentTools` | which agent may execute which tool: tables and the policy on them |
| `KeptCode` | the abstract specification of `ProjectWork`: what was offered was tested, and stays as it is until it is done or taken back |
| `NotificationDelivery`, `NotificationProofs` | publisher, network and bridge; its proofs |
| `BridgeMessages`, `BridgeProofs` | what the bridge does with a user's message on its way to the server; its proofs |

### WorkspaceManager and WorkflowService

A table is a total function from ids to rows; `life` and `status` of a row say
whether it is there. Ids are uuid4 and are not used twice. An operator of
`WorkspaceManager` is a conjunct of the step that calls it; where the method
raises `KeyError` the operator is not enabled and the caller takes the disjunct
that gives the request up. `delete_project` is three steps of its caller: it
lists the checkpoints (`CheckpointsOf`), its transaction removes what it listed,
the bindings of sessions and the project (`DeleteRows`), and the directory goes
last (`RemoveProjectRoot`). Other requests come in between, so a checkpoint made
after the list stays behind, as in the code.

A request is a thread with a label `pc` and locals `req`. `Arrive` starts one:
`RunProject` (`POST /projects/{id}/run`), `SubmitFeedback` (the feedback route,
the card callback and the chat commands 批准, 打回, 重新规划), `StageFollowUp`
(a chat message at an early gate), `RefreshDraft` (a new draft from the
director), `ChatStartsProject`, `DeleteProject`. `CreateProject` and
`SessionCommand` are requests of one call and one step. Then:

* `discovery, invoke, requirement_create, flow, sync, write_memory`:
  `_run_discovery`. The load of the graph state and its write back are two
  steps, with the agent between them.
* `check, snapshot, dispatch, (test, debug)*, create, resolve, flow, sync,
  write_memory`: `apply_feedback` with the handler of each gate.
* `stage, requirement_turn, turn_refresh` and `stage, plan_turn, plan_revise,
  revise_resolve, revise_create, revise_status`: the two chat turns.
* `refresh`, `delete, rmtree`, `bind`: the ends of the other requests.
* `Restart` drops all requests and graph states and keeps the store; `Crashes`
  says whether it may happen never, between requests or anywhere.

`answers` is a history of the passing answers the workflow acted on; only
properties read it. `req.shown` is what a human saw when he answered; likewise.

**Steps and atomicity.** One step is one call with an effect, or one read whose
result can go stale. Reads of rows that cannot change are joined with the step
after them, and so are the two reads of `apply_feedback` (between them another
request can only make this one refuse). `get_state` and `update_state` of the
in-memory saver are one step each. Each method of the manager is one step, but
for the delete. That is an assumption, and `StoreTransactions` says what it
costs: of two methods that overlap on one project the later may write back a
version already given out. `VersionToken`, and `IInv` with it, rest on it;
`ReferentialIntegrity` has its counterpart there without it (`CurrentExists`).

**Data.** Requirement, plan, code and report are reduced to whether there is
one: a plan is `missing`, `none` (what discovery leaves) or `made`. An agent
that returns is taken to return something non-empty. `memory.md` is the set of
approvals its Decisions section claims. Titles, replies, prompts, timestamps
and `available_actions` are left out; an action is `approve`, `revise`, `replan`
or any `other` string. The notification at the end of a request cannot fail it
(`_publish_event` catches everything) and is modelled by itself.

### StoreTransactions

The engine is SQLite with the defaults of SQLAlchemy (`manager.py:85`): a session
begins its transaction with the first write, so what a method reads is not
protected until it commits. Each method is a `Begin..` that keeps the row as it
was read and a `Commit..` that writes what the unit of work would: the version
read plus one, other columns only where the value set differs from the one read,
all or nothing when a row to update has gone, deletes of whatever rows were
listed and are left. `Overtaken` says that what a commit goes by has changed.
Callers are arbitrary threads (`made` is the checkpoint a thread may pass on),
so the workflow's own order of calls is not assumed. `card` is what somebody has
been shown, `overlap` a history of the projects on which a method was overtaken.
Methods on sessions read one row and write it, and are not taken apart.

### WechatMessageService

`WechatMessageService` extends `WorkflowService` with `msg`, the message each
thread handles and where `handle_message` is with it. The session is read once
(`ReceiveMessage`); what was read is `active`, and it is used to the end unless
the director's turn wrote the session and got it back. Then `route` chooses a
reply, a reset, a switch or a delete (target first, action second: the list is
read before), an explicit answer to the pending checkpoint, a follow-up the
early stage owns, or the director's turn. After the turn come the draft
(`RefreshEarlyProject` checks, `DraftWritten` writes) and the start
(`StartProject`: reuse the active project or make one). Wherever the code calls
the workflow, the step is an arrival action of `WorkflowService`, so `Spec`
itself is the abstract specification: `ImplementsWorkflow` says that chat
messages only make requests the workflow is modelled with. A session may
have moved on since it was read; that is why `StageFollowUp` and `RefreshDraft`
ask for an owned project and not for an active one. What the text says, which
command it is and what the LLM makes of it are choices; an explicit answer may
be any action, which is more than the three commands can say. `Overlap` says
whether the bridge may forward two messages of one user at a time.

### ProjectWork, AgentTurns and AgentTools

`WorkflowService` knows whether a plan or code is there; `ProjectWork` knows
which code. It has one project whose requests do not overlap, which is what the
other module is for, and ends each request in one step: graph state, checkpoint
and status together. The steps in between are the calls of agents and sandbox
(`job`), each of which may raise (`Raises`), and the process may die anywhere
(`Restart`). `model` says whether the agents have a language model; without one
they take the fallbacks of the code.

* `Run`, `RefreshDraft`, `PMRuns`: discovery. `ChatRequirement` and `ChatPlan`
  are `continue_requirement_discovery` and `continue_plan_review`, with
  `AgentTurns` for what the agents make of the message. `PassGate` and
  `TurnGate` are `apply_feedback`: the answers that run an agent, and the others.
* `CoderRuns`, `RunTests`, `DebuggerRuns` are the loop of `_apply_plan_feedback`.
  Code is a function from files to texts; `disk` is the directory, which only
  ever gains files and new texts. What pytest says is a choice, except that it
  fails where there is no test. `AgentPatches` is a model that writes through
  `patch_applier` while its agent works.
* `AgentTurns` reduces a message to the marks the code looks for in it (`exact`,
  `confirms`, `delegates`, `meta`, `revises`, `blank`) and an answer to which of
  its fields hold a text and of what kind. Every combination of both is an input,
  so a model may answer anything.
* `AgentTools` is the three tables a call is checked against: the registry with
  its tags, the profiles, the policy file.

`advice`, `tested`, `reviewed` and `turn` are histories only properties read.

### NotificationDelivery

Per event: the publisher's loop (`publish`, `attempt`), each post with the
coroutine that serves it in the bridge (`post`, `sends`), the marks, and how
often the user got the message. The publisher can time out wherever the post
is, and the coroutine goes on. `Fault` chooses what may go wrong: timeouts,
lost posts, lost replies, sends that raise although WeCom took the message, and
restarts of the bridge. Marks live 300 s and one `publish_event` with the
default limits is over in 15 s, so expiry is left out.

### BridgeMessages

Per frame that WeCom hands over (`text`: the message in it, which another frame
may carry as well): the coroutine of `handle_text_message` (`handler`), its POST of the event and its
POST of the run, in the network or the server (`event`, `run`). `ReceiveFrame`
is `seen`, `mark` and the post, which no await separates; the coroutine then
awaits the answer (`ForwardReturns`, `ForwardRaises`), a send (`SendReturns`,
`SendRaises`) and the run (`StartProjectRun`, `RunEnds`). `ServerTakes` and
`ServerEnds` are the server, which does not notice that the bridge has given
up; what it does is `WechatMessageService`. `MessageId` gives frames without an
id the same one. Marks expire (`Expire`) and go with the process
(`RestartBridge`). `answered` is a history of who has been sent
something, `forgotten` of the ids whose mark was lost.

## Runs

| Run | Instance | Question |
|---|---|---|
| `requests` | 1 project, 3 checkpoints, 1 user, 2 threads, crashes anywhere | every kind of request against every other, deletes between their steps too: `TypeOK`, `ReferentialIntegrity`, `VersionToken`, `GatesInOrder` |
| `gates` | 1 project, 4 checkpoints, no user, 2 threads | all four gates with two API requests at a time: `MemoryTruthful`, `IInv`, `ImplementsGates` |
| `serial` | 1 project, 5 checkpoints, 2 users, 1 thread, crashes between requests | what holds between requests when they do not overlap and no crash cuts one off: `SettledGate`, `DeletedLeavesNothing`, `CurrentIsNewest`, `TurnsInv`, `HandInv` |
| `progress` | 1 project, 4 checkpoints, 1 user, 2 threads, fairness | `RequestsEnd` |
| `acted_on_current` | 2 threads | violated: two feedbacks for one checkpoint are both acted on |
| `pause_approves` | 1 thread | violated: an answer that is no approval is recorded as one |
| `transactions` | 1 project, 2 checkpoints, 2 threads | what overlap inside the methods of the store does: `CurrentExists`, `VersionNamesOneState`, `GoneStaysGone`, `OneStepUnlessOvertaken` |
| `chat_users` | 2 projects, 2 users, 2 threads, crashes anywhere; one message of a user at a time | `UsersKeepApart`, `BoundProjectLives` |
| `chat_gates` | 1 project, 2 checkpoints, 1 user, 2 threads; messages overlap | `ImplementsWorkflow`, `ChatTypeOK` |
| `work` | 2 files of 2 texts, with and without a model, failures, restarts | `KeptIsTested`, `GateHasItsWork`, `ConfirmationIsOfAdvice`, `DelegationIsAnswered`, `QuestionStaysOpen`, `ChatApprovalsConfirmed`, `WriteNeedsLeave`, `ImplementsPromise`, `WorkTypeOK` |
| `delivery` | 1 event, 3 posts of 3 sends, all faults, fairness | `PublishedWasDelivered`, `RepeatsBounded`, `DeliveredOnceInTurn`, `DeliveryInv`, `PublishEnds` |
| `messages` | 2 frames carrying any of 3 messages, 2 of which have no id, all faults, fairness | `TypeOK`, `HandledOnce`, `NobodyIgnored`, `RunAfterReply`, `MessageEnds` |

What they show:

* **Overlap does not skip gates.** Although a request can act on a checkpoint
  that has been answered meanwhile, a later gate opens, and a project is done,
  only if every earlier gate was passed by some human answer, and `memory.md`
  never claims more. The workflow refines `ApprovalGates`. Passed is not
  approved: any answer at the code gate but two lets a project past
  (`pause_approves`).
* **A project is never left without its current checkpoint**
  (`ReferentialIntegrity`), although the checkpoint is made, answered and set by
  different calls and a delete may fall between any two. The other way round the
  code gives no promise: a checkpoint that is made after a delete has listed what
  it removes is left behind without a project. Feedback that names it is refused,
  and when requests about one project take turns there is none
  (`DeletedLeavesNothing`).
* **Overlap does disturb the rest**, and the code does not prevent it: nothing
  locks a project. When two requests about one project are under way, status and
  current checkpoint may disagree, an answered checkpoint may become current
  again, stale feedback may be acted on (`acted_on_current`), a session may be
  bound to a project that is gone and files of a deleted project may come back.
  Requests about different projects may overlap as they like: that each project
  has one request at a time (`OneAtATime`) is enough for all of this to hold
  between requests (`SettledGate`, `DeletedLeavesNothing`, `CurrentIsNewest`,
  `ActedOnCurrent`, `BoundLives`), with agents that raise anywhere.
* **Crashes disturb less.** A crash between two transactions of a request leaves
  status and checkpoint in disagreement, or files of a deleted project; so
  `SettledGate` and `DeletedLeavesNothing` also need that crashes fall between
  requests, and `serial` has them only there. The other three do not, which is
  proved and not run: no request after the crash acts on a stale checkpoint,
  brings one back or binds a project that is gone.
* **The version works as a token.** Status and current checkpoint never change
  without it, so refusing an old version is enough to refuse an old card; what
  it does not do is hold until the feedback is applied (`acted_on_current`).
* **Overlap inside the store.** A method that is not overtaken is the one step
  the workflow takes it for. Of two that overlap, the later may give out the
  version the other has given out, or take it back, and mix its columns with the
  other's; so what `VersionToken` promises holds of projects on which no two
  methods have overlapped. A delete that overlaps with a new checkpoint leaves
  the checkpoint behind, here as in `requests`. Two things survive: the current
  checkpoint is a row of its project, and a deleted project does not come back
  and gets no checkpoint after that, because the update of a row that has gone
  fails with all it was committed with.
* **What a human is shown was tested.** From the code gate to the end, the code
  of the graph state is the code that passed, file by file the code in the
  directory, and from the final gate on what the reviewer had - though agents
  patch the directory while they work, an attempt may fail in the middle, and
  files of earlier attempts stay. It holds because every attempt is written in
  full before it is tested, and everything that changes files after that is on
  the way to another test. The work refines `KeptCode`.
* **Late gates have their work** unless the process was restarted since, which
  loses the graph state and not the gate. That a coder who returns nothing does
  not reach the code gate hangs on pytest's exit code for a suite without tests.
* **A chat turn does what its message asks for**, whatever the model answers: who
  leaves the decision to the agent gets a proposal; who asks for the plan while a
  question is open is told so. The exceptions are in the properties: a model that
  says it is ready, or words an update of its own, is believed. An "ok" that goes
  past the PM confirms a recommendation, though one that a new run may have
  outdated. Without a model only a confirmation passes a gate; since it is looked
  for first, and anywhere in the message, a message that also asks for a change
  passes the plan gate too.
* **A chat acts for its user.** A message, the session it was read with and the
  request it becomes are about projects of that user, although the session is
  minutes old by then. A session names a project that is there as long as the
  messages of a user are not handled two at a time; if they are, a delete can
  come between the making of a project and its binding.
* **A message is handled at most once** while marks stay, because it is marked
  before it is forwarded. The price: one whose forward is lost is not forwarded
  again when WeCom redelivers it. Its sender has the fallback reply by then and
  must ask again, though the server may have handled the message after all. Of
  the messages without an id one is handled in five minutes, and the senders of
  the others hear nothing; `NobodyIgnored` is about messages with an id.
* **The second run** of a project, which the bridge asks for, comes after the
  one inside `handle_message`, even with restarts and expired marks: a bridge
  that has given up on the first does not ask for it.
* **Delivery** is at least once for a publish that returns, at most
  posts times sends, and once unless a post was given up on while the bridge was
  at it, WeCom took a message without acknowledging it, or the mark was lost.

**Bounds.** `MaxVersion` refuses new requests about a project that has reached
that version; requests under way finish, so nothing is cut in the middle.
A gate passed costs two versions (`create_checkpoint`,
`update_project_flow_state`): the fourth gate is open at version 9 and done at
10, and `gates` (10) and `serial` (11) reach `DONE`, with four and five
checkpoints for four gates and one repetition. `requests` has every kind of
request and crashes but stops at the third checkpoint. `progress` has ids
enough that none is waited for, and answers of the plan gate start at version 4,
so the coding loop is in it. Requests on different projects share only
sessions: `serial` has two of them and `chat_users` two projects as well, with
room for one run each, because its properties are about owners and bindings.
`chat_gates` reaches the plan gate (version 5), the last one the chat owns.
`transactions` lets methods begin below version 4, enough for one to be overtaken
by two and take a version back that was shown. `work` needs a second file for one that is dropped or left
over and a second text for one that is overwritten; messages and answers are
enumerated entirely. The limits of the
notification runs are the code's. Two frames are the fewest that can race, and
frames meet only in the id they share.

**Symmetry** permutes project, checkpoint, user and thread ids, files and texts;
nothing orders them. Runs with a liveness property have no symmetry.

**Deadlock** is checked in `work`, where a draft, a run or an answer is always
possible. Elsewhere it is not: the system may stop, when every project has been
deleted or has reached the bound and no request is under way.

## Fairness

`FairSpec` of `WorkflowService` assumes weak fairness of `Proceed(t)`: a thread
of the pool runs, and an agent call returns or raises, because the LLM client
has a timeout. It assumes nothing of `RunTests`: `run_tests` has no timeout and
the debug loop no limit, so `RequestsEnd` says a request ends or is in that
loop. Nothing is assumed of humans. `FairSpec` of `NotificationDelivery`
assumes that the publisher's thread runs, with its timeout as a way on, and that
the bridge's event loop runs and the WeCom client's own timeout ends a send.
`FairSpec` of `BridgeMessages` assumes the event loop, the timeout of the HTTP
client and that of the WeCom client, and nothing of the server.

## Proofs

Checked by TLAPS for every set of projects, checkpoints, users, threads (and
events), every bound, and for every value of `Crashes`. Assumptions on constants:
`NullIsNothing` (Null is none of the ids), `AbsentIsNoContent` (an absent file
has no text), `BoundsOK`, `OverlapOK`, `CallsOK`, `LimitsOK`, `BridgeOK`.

| Theorem | Says |
|---|---|
| `TypeCorrect` | `Spec => []TypeOK` |
| `ReferentialIntegrityHolds` | `Spec => []ReferentialIntegrity` |
| `GatesInOrderHolds`, `MemoryTruthfulHolds` | `Spec => []GatesInOrder`, `Spec => []MemoryTruthful` |
| `VersionTokenHolds` | `Spec => []VersionToken` |
| `InductiveInvariantHolds` | `Spec => []IInv` |
| `ImplementsGatesHolds` | `Spec => Gates!Spec` |
| `TurnsInvHolds`, `SettledGateHolds`, `DeletedLeavesNothingHolds` | `Spec /\ InTurn => []TurnsInv`, `[]SettledGate`, `[]DeletedLeavesNothing`, where `InTurn` is `[]OneAtATime /\ CrashesBetween` |
| `HandInvHolds`, `BoundLivesHolds` | `Spec /\ []OneAtATime => []HandInv`, `[]BoundLives` |
| `CurrentIsNewestHolds`, `ActedOnCurrentInTurn` | `Spec /\ []OneAtATime => CurrentIsNewest`, `ActedOnCurrent` |
| `OneThreadHolds` | one thread takes turns: with it `[]OneAtATime` can be left out, as in `serial`, for any number of projects |
| `CurrentExistsHolds`, `VersionNamesOneStateHolds` | `Spec => []CurrentExists`, `[]VersionNamesOneState` of `StoreTransactions` |
| `GoneStaysGoneHolds`, `OneStepUnlessOvertakenHolds` | `Spec => GoneStaysGone`, `Spec => OneStepUnlessOvertaken` of `StoreTransactions` |
| `ChatTypeCorrect` | `ChatSpec => []ChatTypeOK` |
| `UsersKeepApartHolds`, `ImplementsWorkflowHolds` | `ChatSpec => []UsersKeepApart`, `ChatSpec => Spec` |
| `BoundProjectLivesHolds` | `ChatSpec => []BoundProjectLives`, if `~Overlap` |
| `ChatKeepsGates` | `ChatSpec => [](GatesInOrder /\ MemoryTruthful /\ ReferentialIntegrity /\ VersionToken)` |
| `ChatInTurn` | `ChatSpec /\ []OneAtATime` gives the same five properties of the workflow, `SettledGate` and `DeletedLeavesNothing` if `CrashesBetween` |
| `WorkTypeCorrect`, `KeptIsTestedHolds`, `GateHasItsWorkHolds`, `ConfirmationIsOfAdviceHolds` | `Spec => []WorkTypeOK`, `[]KeptIsTested`, `[]GateHasItsWork`, `[]ConfirmationIsOfAdvice` of `ProjectWork` |
| `DelegationIsAnsweredHolds`, `QuestionStaysOpenHolds`, `ChatApprovalsConfirmedHolds`, `WriteNeedsLeaveHolds` | `Spec => []DelegationIsAnswered`, `[]QuestionStaysOpen`, `[]ChatApprovalsConfirmed`, `[]WriteNeedsLeave` of `ProjectWork` |
| `ImplementsPromiseHolds` | `Spec => Promise!Spec`: `ProjectWork` implements `KeptCode` |
| `TypeOKHolds`, `HandledOnceHolds`, `RunAfterReplyHolds`, `NobodyIgnoredHolds` | `Spec => []TypeOK`, `[]HandledOnce`, `[]RunAfterReply`, `[]NobodyIgnored` of the messages |
| `DeliveryInvariant`, `PublishedWasDeliveredHolds` | `Spec => []DeliveryInv`, `[]PublishedWasDelivered` of the notifications |
| `DeliveredOnceInTurnHolds`, `RepeatsBoundedHolds` | `Spec => []DeliveredOnceInTurn`, `[]RepeatsBounded` of the notifications |

None of the workflow's properties is inductive: a thread that has passed its checks carries
a right to write that the tables no longer show. `IInv` says what each request
in flight has made sure of. `WellFormed` gives the locals set at each label.
`OwnedRows` and `OwnedNext` say that current checkpoints, and those a thread is
about to make current, were made for their project and exist as long as it
does; a checkpoint no project points at may outlive its project. `Standing` is `GatesInOrder` and `MemoryTruthful` with the same for the
graph states (`Earned`: a plan implies a passed requirement gate, code a passed
plan gate, a review a passed code gate). `Working` gives what a thread at each
label is entitled to (`Entitled`), including the graph state an `invoke` has
loaded and will write back. `Tokens` bounds the versions requests hold. Each
proof module proves one part over the part before, with a lemma per action;
`passed` only grows, which is what lets stale requests keep their rights. The
run `gates` checks `IInv` itself, on small values.

The refinement maps `open` to the types of a live project's existing checkpoints,
`passed` to the gates of its recorded answers, and `finished` to a live project
with status `DONE`; every step is one abstract step or a stutter.

`SettledGate` speaks of projects nobody works on, so it says nothing of the
states a request goes through, where checkpoint and status do disagree: the new
checkpoint is made, the old one answered and the status written in three
transactions. `TurnsInv` says how far each request has come, by its label and
locals (`UnderWay`): until `create` the project is settled and `req.cp` is its
current checkpoint; from then until the status is written `req.next` is, and is
pending for the status in `req.outcome`; at `delete` the list is all there is to
remove; at `rmtree` the rows are gone and the files are not. Every other project is at rest (`AtRest`), and sessions name
projects that live. The premise comes in at two places: the thread that works on
a project is alone with it, so nobody else moves its rows, and a request that
arrives finds it at rest.

A crash ends requests half way, so `HandInv` says nothing of status: only that
the checkpoints a request holds are its own project's, that feedback which passed
the checks is for the current and pending one until it is acted on, and that the
one to be made current is current already, or none. That gives `ActedOnCurrent`
at once, and `CurrentIsNewest` because the one method that could bring an old
checkpoint back, `update_project_flow_state`, is given that one. It rests on no
status, so it stands after any crash. TLC checks both invariants with one thread
and crashes between requests (`serial`); the theorems have any number of threads and projects. The
premises are about schedules the code permits and does not enforce.

`TransactionsInv` of `StoreProofs` says what a method under way may rely on
although its reads are stale (`Holds`): checkpoints it has seen were made for its
project and are not unmade, one it saw closed is not opened again, and the id it
has drawn is its own (`Drawn`). `Onward` is what every commit leaves alone, and
carries the rights of the other threads over it. `RowsAgree` then gives
`CurrentExists`: only a deleted project has deleted checkpoints. For versions,
`CardsAgree` adds that a card is of the past of its project, and `CommitMovesOn`
that a commit nobody overtook takes the version on.

The theorems about chats share one invariant, `ChatInv`: owners are for good
(a project nobody has made has none), a session that gets set gets set to a
project of its user, a request stays about the project it came for, and each
message has at hand what its place needs (`Handled`). `UsersKeepApart` is what
makes a switch a request the workflow knows, so the refinement needs it. That a
bound project lives needs two facts more when messages take turns (`LiveInv`):
a user has one message at a time (`Alone`), and a project that is about to be
bound is there (`Handed`), since only a message of its user could delete it.

`WorkInv` of `WorkProofs` adds to the three properties what makes them
inductive: the call a request is at belongs to the gate the project waits at
(`AtItsGate`), so a coder never runs at the code gate; code under test is on disk
in full (`TestedOnDisk`); and the mode a confirmation needs was set by a
recommendation (`ModeSetByAdvice`). What the chat turns promise goes over the same steps
(`TurnsKept`): a lemma about each way `AgentTurns` decides a turn - PM and
planner, with a model and without - for every message and every answer a model
may give, and the two shortcuts the service takes before it asks an agent. The
tools come down to a lemma about the tables and the policy. The refinement maps a project to the stage
of its code; steps that leave the late gates withdraw it.

For the bridge, `Marks` says that a forwarded frame is marked and is the only
one of its id, or its mark was lost; `RunInv` says what the coroutine knows of
its event where it waits; `HeardInv` adds that a dropped frame is the copy of a
forwarded one. `Turns` says that an undisturbed event has one post under way and
a mark once it is delivered. `RepeatsBounded` counts: every delivery came out of
a try of a post of its own (`Slots`, a subset of posts times tries), so there are
at most as many as tries.

Since handling chats implements `Spec`, the workflow's theorems hold of it with
all users in chats; `ChatKeepsGates` and `ChatInTurn` say so.

**Only model-checked.** `RequestsEnd`, `PublishEnds` and `MessageEnds`: liveness
under fairness is out of the prover's reach. Every other property of a passing
run is the statement of a theorem.

## Not modelled

`PROJECT.json` lists each component with its status. LLM prompting and parsing,
HTTP clients, templates, tracing and configuration are input and output without
state the properties depend on; so is the director's agent, whose result is a
choice of `WechatMessageService`. `upsert_chat_session` writes texts only, and
the texts of drafts are not kept: which draft a project starts with is not
modelled (`wechat_message_service.py:113` falls back to the last one of the
session). `_claim_legacy_active_project` repairs databases from before projects
had owners. The nodes of the development graph behind discovery are not reached:
the service never sets `human_feedback`, so every invoke ends at the first gate.
Skills are texts for prompts. The registry of tool providers is never given one.
Identity of plans (which plan was approved) is not kept. Connecting to WeCom is
the SDK's.

## Plan

Next, in this order:

1. Versions of plans: an approval of one plan that codes another.
2. Drafts of a session and the requirement a project starts with.
3. A proof that relates `ProjectWork`, which ends a request in one step, to
   `WorkflowService` with requests that take turns (`InTurn`).

Runs keep to one or two ids of each kind and two actors.
