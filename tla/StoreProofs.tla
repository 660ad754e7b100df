----------------------------- MODULE StoreProofs -----------------------------
(***************************************************************************)
(* Proofs about StoreTransactions: what methods of the store keep however  *)
(* they overlap, and that a method nobody overtakes is one step, for every *)
(* set of projects, checkpoints and threads.                               *)
(***************************************************************************)
EXTENDS StoreTransactions, TLAPS

-----------------------------------------------------------------------------
(* Type correctness                                                        *)

Method == {"none", "create", "flow", "refresh", "delete", "resolve", "rmtree"}

MethodCall ==
  [method  : Method,
   project : Project \cup {Null},
   row     : ProjectRow,
   cp      : Checkpoint \cup {Null},
   type    : CheckpointType \cup {Null},
   status  : TaskStatus \cup {Null},
   current : Checkpoint \cup {Null},
   listed  : SUBSET Checkpoint]

TransactionsTyped ==
  /\ StoreTypeOK
  /\ call \in [Thread -> MethodCall]
  /\ made \in [Thread -> Checkpoint \cup {Null}]
  /\ card \in [project : Project \cup {Null}, row : ProjectRow]
  /\ overlap \subseteq Project \cup {Null}

LEMMA NoRowTyped == NoRow \in ProjectRow
  BY DEF NoRow, ProjectRow, TaskStatus

LEMMA IdleTyped == Idle \in MethodCall
  BY NoRowTyped DEF Idle, MethodCall, Method

LEMMA InitTyped == Init => TransactionsTyped
<1>1. ASSUME Init PROVE StoreTypeOK
  BY <1>1 DEF Init, StoreInit, StoreTypeOK, ProjectRow, CheckpointRow, Directory,
     NoDirectory, TaskStatus
<1> QED BY <1>1, NoRowTyped, IdleTyped DEF Init, TransactionsTyped

LEMMA ReadingTyped ==
  ASSUME TransactionsTyped, NEW p \in Project, NEW method \in Method
  PROVE  Reading(method, p) \in MethodCall
  BY IdleTyped DEF Reading, MethodCall, TransactionsTyped, StoreTypeOK

\* Beginning a method leaves the tables alone.
LEMMA BeginTyped ==
  ASSUME TransactionsTyped, NEW t \in Thread, Begin(t)
  PROVE  TransactionsTyped' /\ UNCHANGED <<store, made, card, overlap>>
<1>1. ASSUME NEW p \in Project, NEW reading \in MethodCall, Begins(t, p, reading)
      PROVE  TransactionsTyped' /\ UNCHANGED <<store, made, card, overlap>>
  BY <1>1 DEF Begins, TransactionsTyped, store, StoreTypeOK
<1>2. CASE \E p \in Project, c \in Checkpoint, type \in Gates : BeginCreate(t, p, c, type)
  <2>1. PICK p \in Project, c \in Checkpoint, type \in Gates : BeginCreate(t, p, c, type)
    BY <1>2
  <2>2. Reading("create", p) \in MethodCall /\ type \in CheckpointType
    BY ReadingTyped, CallsOK DEF Method
  <2>3. [Reading("create", p) EXCEPT !.cp = c, !.type = type] \in MethodCall
    BY <2>2 DEF MethodCall
  <2> QED BY <1>1, <2>1, <2>3 DEF BeginCreate
<1>3. CASE \E p \in Project, status \in Statuses, current \in {Null, made[t]} :
             BeginFlow(t, p, status, current)
  <2>1. PICK p \in Project, status \in Statuses, current \in {Null, made[t]} :
               BeginFlow(t, p, status, current)
    BY <1>3
  <2>2. current \in Checkpoint \cup {Null} /\ status \in TaskStatus
    BY CallsOK DEF TransactionsTyped
  <2>3. Reading("flow", p) \in MethodCall
    BY ReadingTyped DEF Method
  <2>4. [Reading("flow", p) EXCEPT !.status = status, !.current = current] \in MethodCall
    BY <2>2, <2>3 DEF MethodCall
  <2> QED BY <1>1, <2>1, <2>4 DEF BeginFlow
<1>4. ASSUME NEW p \in Project, BeginRefresh(t, p)
      PROVE  TransactionsTyped' /\ UNCHANGED <<store, made, card, overlap>>
  <2> DEFINE pending == {c \in {projects[p].current} \ {Null} : checkpoints[c].status = "pending"}
  <2>1. pending \subseteq Checkpoint
    BY DEF TransactionsTyped, StoreTypeOK, ProjectRow
  <2>2. Reading("refresh", p) \in MethodCall
    BY ReadingTyped DEF Method
  <2>3. [Reading("refresh", p) EXCEPT !.listed = pending] \in MethodCall
    BY <2>1, <2>2 DEF MethodCall
  <2> QED BY <1>1, <1>4, <2>3 DEF BeginRefresh
<1>5. ASSUME NEW p \in Project, BeginDelete(t, p)
      PROVE  TransactionsTyped' /\ UNCHANGED <<store, made, card, overlap>>
  <2>1. Reading("delete", p) \in MethodCall
    BY ReadingTyped DEF Method
  <2>2. [Reading("delete", p) EXCEPT !.listed = CheckpointsOf(p)] \in MethodCall
    BY <2>1 DEF MethodCall, CheckpointsOf
  <2> QED BY <1>1, <1>5, <2>2 DEF BeginDelete
<1>6. ASSUME NEW c \in Checkpoint, BeginResolve(t, c)
      PROVE  TransactionsTyped' /\ UNCHANGED <<store, made, card, overlap>>
  <2>1. [Idle EXCEPT !.method = "resolve", !.project = checkpoints[c].project, !.cp = c]
          \in MethodCall
    BY IdleTyped DEF MethodCall, Method, TransactionsTyped, StoreTypeOK, CheckpointRow
  <2> QED BY <1>6, <2>1 DEF BeginResolve, TransactionsTyped, store, StoreTypeOK
<1> QED BY <1>2, <1>3, <1>4, <1>5, <1>6 DEF Begin

LEMMA ColumnTyped ==
  ASSUME NEW S, NEW read, NEW set \in S, NEW now \in S
  PROVE  Column(read, set, now) \in S
  BY DEF Column

\* A call that carries out a method is one of the five, with its arguments.
Arguments ==
  \A t \in Thread :
    LET k == call[t]
    IN  /\ k.method \in {"create", "flow", "refresh", "delete", "rmtree"} => k.project \in Project
        /\ k.method = "create" => k.cp \in Checkpoint /\ k.type \in CheckpointType
        /\ k.method = "flow" => k.status \in TaskStatus
        /\ k.method = "resolve" => k.cp \in Checkpoint

LEMMA CommitTyped ==
  ASSUME TransactionsTyped, Arguments, NEW t \in Thread, Commit(t)
  PROVE  TransactionsTyped'
<1> DEFINE k == call[t]
           p == k.project
<1>1. k \in MethodCall
  BY DEF TransactionsTyped
<1>2. ASSUME Ends(t)
      PROVE  /\ call' \in [Thread -> MethodCall]
             /\ overlap' \subseteq Project \cup {Null}
             /\ card' = card
  BY <1>1, <1>2, IdleTyped DEF Ends, TransactionsTyped, MethodCall
<1>3. CASE CommitCreate(t)
  <2>1. p \in Project /\ k.cp \in Checkpoint /\ k.type \in CheckpointType
    BY <1>3 DEF CommitCreate, Arguments
  <2>2. projects[p] \in ProjectRow /\ k.row.version + 1 \in Nat
    BY <1>1, <2>1 DEF TransactionsTyped, StoreTypeOK, MethodCall, ProjectRow
  <2>3. [projects[p] EXCEPT !.current = k.cp, !.version = k.row.version + 1] \in ProjectRow
    BY <2>1, <2>2 DEF ProjectRow
  <2>4. projects' \in [Project -> ProjectRow]
    BY <1>3, <2>1, <2>3 DEF CommitCreate, TransactionsTyped, StoreTypeOK
  <2>5. checkpoints' \in [Checkpoint -> CheckpointRow]
    BY <1>3, <2>1 DEF CommitCreate, TransactionsTyped, StoreTypeOK, CheckpointRow
  <2> QED BY <1>2, <1>3, <2>1, <2>4, <2>5 DEF CommitCreate, TransactionsTyped, StoreTypeOK
<1>4. CASE CommitFlow(t)
  <2>1. p \in Project /\ k.status \in TaskStatus /\ k.current \in Checkpoint \cup {Null}
    BY <1>1, <1>4 DEF CommitFlow, Arguments, MethodCall
  <2>2. projects[p] \in ProjectRow /\ k.row.version + 1 \in Nat
    BY <1>1, <2>1 DEF TransactionsTyped, StoreTypeOK, MethodCall, ProjectRow
  <2> DEFINE status == Column(k.row.status, k.status, projects[p].status)
             current == Column(k.row.current, k.current, projects[p].current)
  <2>3. status \in TaskStatus /\ current \in Checkpoint \cup {Null}
    BY <2>1, <2>2, ColumnTyped DEF ProjectRow
  <2>4. [projects[p] EXCEPT !.status = status, !.current = current,
                            !.version = k.row.version + 1] \in ProjectRow
    BY <2>2, <2>3 DEF ProjectRow
  <2>5. projects' \in [Project -> ProjectRow]
    BY <1>4, <2>1, <2>4 DEF CommitFlow, TransactionsTyped, StoreTypeOK
  <2>6. sessions' \in [User -> Project \cup {Null}]
    BY <1>4 DEF CommitFlow, Unbound, TransactionsTyped, StoreTypeOK
  <2> QED BY <1>2, <1>4, <2>5, <2>6 DEF CommitFlow, TransactionsTyped, StoreTypeOK
<1>5. ASSUME NEW cs PROVE Resolved(cs) \in [Checkpoint -> CheckpointRow]
  BY DEF Resolved, TransactionsTyped, StoreTypeOK, CheckpointRow
<1>6. CASE CommitRefresh(t)
  <2>1. p \in Project
    BY <1>6 DEF CommitRefresh, Arguments
  <2>2. projects[p] \in ProjectRow /\ k.row.version + 1 \in Nat
    BY <1>1, <2>1 DEF TransactionsTyped, StoreTypeOK, MethodCall, ProjectRow
  <2> DEFINE status == Column(k.row.status, "DISCOVERY", projects[p].status)
             current == Column(k.row.current, Null, projects[p].current)
  <2>3. status \in TaskStatus /\ current \in Checkpoint \cup {Null}
    BY <2>2 DEF Column, ProjectRow, TaskStatus
  <2>4. [projects[p] EXCEPT !.status = status, !.current = current,
                            !.version = k.row.version + 1] \in ProjectRow
    BY <2>2, <2>3 DEF ProjectRow
  <2>5. projects' \in [Project -> ProjectRow]
    BY <1>6, <2>1, <2>4 DEF CommitRefresh, TransactionsTyped, StoreTypeOK
  <2> QED BY <1>2, <1>5, <1>6, <2>5 DEF CommitRefresh, TransactionsTyped, StoreTypeOK
<1>7. CASE CommitResolve(t)
  BY <1>2, <1>5, <1>7 DEF CommitResolve, TransactionsTyped, StoreTypeOK
<1>8. CASE CommitDelete(t)
  <2>1. p \in Project
    BY <1>8 DEF CommitDelete, Arguments
  <2>2. projects' \in [Project -> ProjectRow]
    BY <1>8, <2>1 DEF CommitDelete, TransactionsTyped, StoreTypeOK, ProjectRow
  <2>3. checkpoints' \in [Checkpoint -> CheckpointRow]
    BY <1>8 DEF CommitDelete, TransactionsTyped, StoreTypeOK, CheckpointRow
  <2>4. sessions' \in [User -> Project \cup {Null}]
    BY <1>8 DEF CommitDelete, Unbound, TransactionsTyped, StoreTypeOK
  <2>5. [Idle EXCEPT !.method = "rmtree", !.project = p] \in MethodCall
    BY <2>1, IdleTyped DEF MethodCall, Method
  <2>6. call' \in [Thread -> MethodCall] /\ overlap' \subseteq Project \cup {Null}
    BY <1>8, <2>1, <2>5 DEF CommitDelete, TransactionsTyped
  <2> QED BY <1>8, <2>2, <2>3, <2>4, <2>6 DEF CommitDelete, TransactionsTyped, StoreTypeOK
<1> QED BY <1>3, <1>4, <1>6, <1>7, <1>8 DEF Commit

LEMMA OtherTyped ==
  ASSUME TransactionsTyped, Arguments,
         \/ \E p \in Project : CreateProject(p) \/ ShowCard(p)
         \/ \E t \in Thread : RemoveTree(t) \/ Abort(t)
  PROVE  TransactionsTyped'
<1>1. ASSUME NEW p \in Project, CreateProject(p) PROVE TransactionsTyped'
  <2>1. [life |-> "live", status |-> "DISCOVERY", version |-> 1,
         current |-> Null, owner |-> Null] \in ProjectRow
    BY DEF ProjectRow, TaskStatus
  <2> QED BY <1>1, <2>1 DEF CreateProject, InsertProject, TransactionsTyped, StoreTypeOK,
        Directory
<1>2. ASSUME NEW p \in Project, ShowCard(p) PROVE TransactionsTyped'
  BY <1>2 DEF ShowCard, TransactionsTyped, store, StoreTypeOK
<1>3. ASSUME NEW t \in Thread, RemoveTree(t) PROVE TransactionsTyped'
  BY <1>3, IdleTyped DEF RemoveTree, RemoveProjectRoot, TransactionsTyped, StoreTypeOK,
     NoDirectory, Directory
<1>4. ASSUME NEW t \in Thread, Abort(t) PROVE TransactionsTyped'
  BY <1>4, IdleTyped DEF Abort, TransactionsTyped, store, StoreTypeOK
<1> QED BY <1>1, <1>2, <1>3, <1>4

-----------------------------------------------------------------------------
(* What a method holds while it is under way                               *)

\* What beginning a method makes of it.
Begun(t) ==
  LET k == call'[t]
      p == k.project
  IN  /\ UNCHANGED <<store, made, card, overlap>>
      /\ \A u \in Thread \ {t} : call'[u] = call[u]
      /\ k.method \in {"create", "flow", "refresh", "delete", "resolve"}
      /\ k.method # "resolve" => p \in Project /\ k.row = projects[p]
      /\ k.method = "create" =>
           k.cp \in Checkpoint /\ Fresh(k.cp) /\ k.type \in CheckpointType
      /\ k.method = "flow" =>
           /\ k.status \in TaskStatus
           /\ k.current \in {Null, made[t]}
           /\ k.current # Null => checkpoints[k.current].project = p
      /\ k.method = "refresh" =>
           k.listed = {c \in {projects[p].current} \ {Null} :
                         checkpoints[c].status = "pending"}
      /\ k.method = "delete" => k.listed = CheckpointsOf(p)
      /\ k.method = "resolve" => k.cp \in Checkpoint

LEMMA BeginBegins ==
  ASSUME TransactionsTyped, NEW t \in Thread, Begin(t)
  PROVE  Begun(t)
<1>1. ASSUME NEW p \in Project, NEW reading, Begins(t, p, reading)
      PROVE  /\ UNCHANGED <<store, made, card, overlap>>
             /\ \A u \in Thread \ {t} : call'[u] = call[u]
             /\ call'[t] = reading
  BY <1>1 DEF Begins, TransactionsTyped
<1>2. CASE \E p \in Project, c \in Checkpoint, type \in Gates : BeginCreate(t, p, c, type)
  <2>1. PICK p \in Project, c \in Checkpoint, type \in Gates : BeginCreate(t, p, c, type)
    BY <1>2
  <2> DEFINE k == [Reading("create", p) EXCEPT !.cp = c, !.type = type]
  <2>2. k.method = "create" /\ k.project = p /\ k.row = projects[p] /\ k.cp = c /\ k.type = type
    BY DEF Reading, Idle
  <2>3. call'[t] = k /\ Fresh(c) /\ type \in CheckpointType
    BY <1>1, <2>1, CallsOK DEF BeginCreate
  <2> HIDE DEF k
  <2> QED BY <1>1, <2>1, <2>2, <2>3 DEF Begun, BeginCreate
<1>3. CASE \E p \in Project, status \in Statuses, current \in {Null, made[t]} :
             BeginFlow(t, p, status, current)
  <2>1. PICK p \in Project, status \in Statuses, current \in {Null, made[t]} :
               BeginFlow(t, p, status, current)
    BY <1>3
  <2> DEFINE k == [Reading("flow", p) EXCEPT !.status = status, !.current = current]
  <2>2. /\ k.method = "flow" /\ k.project = p /\ k.row = projects[p]
        /\ k.status = status /\ k.current = current
    BY DEF Reading, Idle
  <2>3. call'[t] = k /\ status \in TaskStatus
    BY <1>1, <2>1, CallsOK DEF BeginFlow
  <2> HIDE DEF k
  <2> QED BY <1>1, <2>1, <2>2, <2>3 DEF Begun, BeginFlow
<1>4. ASSUME NEW p \in Project, BeginRefresh(t, p) PROVE Begun(t)
  <2> DEFINE pending == {c \in {projects[p].current} \ {Null} : checkpoints[c].status = "pending"}
             k == [Reading("refresh", p) EXCEPT !.listed = pending]
  <2>2. k.method = "refresh" /\ k.project = p /\ k.row = projects[p] /\ k.listed = pending
    BY DEF Reading, Idle
  <2>3. call'[t] = k
    BY <1>1, <1>4 DEF BeginRefresh
  <2> HIDE DEF k
  <2> QED BY <1>1, <1>4, <2>2, <2>3 DEF Begun, BeginRefresh
<1>5. ASSUME NEW p \in Project, BeginDelete(t, p) PROVE Begun(t)
  <2> DEFINE k == [Reading("delete", p) EXCEPT !.listed = CheckpointsOf(p)]
  <2>2. k.method = "delete" /\ k.project = p /\ k.row = projects[p] /\ k.listed = CheckpointsOf(p)
    BY DEF Reading, Idle
  <2>3. call'[t] = k
    BY <1>1, <1>5 DEF BeginDelete
  <2> HIDE DEF k
  <2> QED BY <1>1, <1>5, <2>2, <2>3 DEF Begun, BeginDelete
<1>6. ASSUME NEW c \in Checkpoint, BeginResolve(t, c) PROVE Begun(t)
  <2> DEFINE k == [Idle EXCEPT !.method = "resolve", !.project = checkpoints[c].project, !.cp = c]
  <2>2. k.method = "resolve" /\ k.cp = c
    BY DEF Idle
  <2>3. /\ UNCHANGED <<store, made, card, overlap>>
        /\ \A u \in Thread \ {t} : call'[u] = call[u]
        /\ call'[t] = k
    BY <1>6 DEF BeginResolve, TransactionsTyped
  <2> HIDE DEF k
  <2> QED BY <2>2, <2>3 DEF Begun
<1> QED BY <1>2, <1>3, <1>4, <1>5, <1>6 DEF Begin

\* A checkpoint that was made, and for p; it may have been deleted since.
MadeFor(c, p) == checkpoints[c].status # "free" /\ checkpoints[c].project = p

\* Current checkpoints are their project's, and only a deleted project has
\* checkpoints that are deleted.
RowsAgree ==
  /\ \A p \in Project : projects[p].current # Null => MadeFor(projects[p].current, p)
  /\ \A c \in Checkpoint : checkpoints[c].status = "deleted" =>
       \E p \in Project : checkpoints[c].project = p /\ projects[p].life = "deleted"

\* What a method has read may be stale when it commits, but is about its own
\* project; a checkpoint it saw closed stays so, and an id it drew is its own.
Holds(t) ==
  LET k == call[t]
      p == k.project
  IN  /\ k.method = "create" => checkpoints[k.cp].status = "free"
      /\ k.method = "flow" /\ k.current # Null => MadeFor(k.current, p)
      /\ k.method = "refresh" =>
           /\ k.listed \subseteq {k.row.current} \ {Null}
           /\ \A c \in {k.row.current} \ {Null} :
                MadeFor(c, p) /\ (c \in k.listed \/ checkpoints[c].status # "pending")
      /\ k.method = "delete" => \A c \in k.listed : MadeFor(c, p)
      /\ k.method = "rmtree" => projects[p].life = "deleted" /\ k.row = NoRow
      /\ made[t] # Null => checkpoints[made[t]].status # "free"

Drawn ==
  \A t, u \in Thread :
    t # u /\ call[t].method = "create" /\ call[u].method = "create" => call[t].cp # call[u].cp

TransactionsInv ==
  /\ TransactionsTyped
  /\ Arguments
  /\ RowsAgree
  /\ \A t \in Thread : Holds(t)
  /\ Drawn

LEMMA InitInv == Init => TransactionsInv
<1> SUFFICES ASSUME Init PROVE TransactionsInv
  OBVIOUS
<1>1. \A t \in Thread : call[t].method = "none" /\ made[t] = Null
  BY DEF Init, Idle
<1>2. RowsAgree
  BY DEF Init, StoreInit, RowsAgree
<1> QED BY <1>1, <1>2, InitTyped DEF TransactionsInv, Arguments, Holds, Drawn

LEMMA BeginInv ==
  ASSUME TransactionsInv, NEW t \in Thread, Begin(t)
  PROVE  TransactionsInv'
<1>1. Begun(t) /\ TransactionsTyped'
  BY BeginBegins, BeginTyped DEF TransactionsInv
<1>2. UNCHANGED <<projects, checkpoints, made>> /\ \A u \in Thread \ {t} : call'[u] = call[u]
  BY <1>1 DEF Begun, store
<1>3. Arguments'
  BY <1>1, <1>2 DEF Begun, Arguments, TransactionsInv
<1>4. RowsAgree'
  BY <1>2 DEF RowsAgree, TransactionsInv, MadeFor
<1>5. ASSUME NEW u \in Thread \ {t} PROVE Holds(u)'
  BY <1>2, <1>5 DEF Holds, TransactionsInv, MadeFor
<1>6. Holds(t)'
  <2> DEFINE k == call'[t]
             p == k.project
  <2>1. made[t] # Null => checkpoints[made[t]].status # "free"
    BY DEF TransactionsInv, Holds
  <2>2. k.method = "create" => checkpoints[k.cp].status = "free"
    BY <1>1 DEF Begun, Fresh
  <2>3. k.method = "flow" /\ k.current # Null => MadeFor(k.current, p)
    BY <1>1, <2>1 DEF Begun, MadeFor
  <2>4. k.method = "refresh" =>
           /\ k.listed \subseteq {k.row.current} \ {Null}
           /\ \A c \in {k.row.current} \ {Null} :
                MadeFor(c, p) /\ (c \in k.listed \/ checkpoints[c].status # "pending")
    BY <1>1 DEF Begun, TransactionsInv, RowsAgree
  <2>5. k.method = "delete" => \A c \in k.listed : MadeFor(c, p)
    BY <1>1 DEF Begun, CheckpointsOf, Exists, MadeFor
  <2>6. k.method # "rmtree"
    BY <1>1 DEF Begun
  <2> HIDE DEF k
  <2> QED BY <1>2, <2>1, <2>2, <2>3, <2>4, <2>5, <2>6 DEF Holds, MadeFor, k
<1>7. Drawn'
  BY <1>1, <1>2 DEF Begun, Fresh, Drawn, TransactionsInv
<1> QED BY <1>1, <1>3, <1>4, <1>5, <1>6, <1>7 DEF TransactionsInv

\* What any commit leaves as it was: checkpoints are not unmade nor opened
\* again, and a deleted project keeps its row.
Onward ==
  /\ \A c \in Checkpoint, p \in Project : MadeFor(c, p) => MadeFor(c, p)'
  /\ \A c \in Checkpoint : checkpoints[c].status \notin {"free", "pending"} =>
       checkpoints'[c].status \notin {"free", "pending"}
  /\ \A c \in Checkpoint : checkpoints[c].status # "free" => checkpoints'[c].status # "free"
  /\ \A p \in Project : projects[p].life = "deleted" => projects'[p].life = "deleted"

\* A method ends and another one, as it was, goes on.
LEMMA OthersHold ==
  ASSUME TransactionsInv, Onward, NEW u \in Thread, call'[u] = call[u], made'[u] = made[u],
         call[u].method = "create" => checkpoints'[call[u].cp].status = "free"
  PROVE  Holds(u)'
<1>1. call[u] \in MethodCall /\ made[u] \in Checkpoint \cup {Null}
  BY DEF TransactionsInv, TransactionsTyped
<1>2. /\ call[u].listed \subseteq Checkpoint
      /\ call[u].current \in Checkpoint \cup {Null}
      /\ call[u].row.current \in Checkpoint \cup {Null}
  BY <1>1 DEF MethodCall, ProjectRow
<1>3. Holds(u)
  BY DEF TransactionsInv
<1>4. call[u].method \in {"create", "flow", "refresh", "delete", "rmtree"} => call[u].project \in Project
  BY DEF TransactionsInv, Arguments
<1>5. call[u].method = "flow" /\ call[u].current # Null => MadeFor(call[u].current, call[u].project)'
  BY <1>2, <1>3, <1>4 DEF Holds, Onward
<1>6. call[u].method = "refresh" =>
        \A c \in {call[u].row.current} \ {Null} :
          MadeFor(c, call[u].project)' /\ (c \in call[u].listed \/ checkpoints'[c].status # "pending")
  BY <1>2, <1>3, <1>4 DEF Holds, Onward, MadeFor
<1>7. call[u].method = "delete" => \A c \in call[u].listed : MadeFor(c, call[u].project)'
  BY <1>2, <1>3, <1>4 DEF Holds, Onward
<1> QED BY <1>1, <1>3, <1>4, <1>5, <1>6, <1>7 DEF Holds, Onward, MadeFor

\* A commit that writes columns of the row of a live project of its own.
LEMMA RowWritten ==
  ASSUME TransactionsInv, NEW p \in Project, Live(p), Onward,
         \A q \in Project : projects'[q].life = projects[q].life,
         \A q \in Project \ {p} : projects'[q] = projects[q],
         \A c \in Checkpoint : projects'[p].current = c => MadeFor(c, p)',
         projects'[p].current \in Checkpoint \cup {Null},
         \A c \in Checkpoint : checkpoints'[c].status = "deleted" =>
           checkpoints[c].status = "deleted" /\ checkpoints'[c] = checkpoints[c]
  PROVE  RowsAgree'
<1>1. \A q \in Project : projects[q].current \in Checkpoint \cup {Null}
  BY DEF TransactionsInv, TransactionsTyped, StoreTypeOK, ProjectRow
<1>2. \A q \in Project : projects'[q].current # Null =>
        \E c \in Checkpoint : c = projects'[q].current /\ MadeFor(c, q)'
  <2>1. ASSUME NEW q \in Project \ {p}, projects'[q].current # Null
        PROVE  \E c \in Checkpoint : c = projects'[q].current /\ MadeFor(c, q)'
    BY <1>1, <2>1 DEF TransactionsInv, RowsAgree, Onward
  <2> QED BY <2>1
<1>3. \A c \in Checkpoint : checkpoints'[c].status = "deleted" =>
        \E q \in Project : checkpoints'[c].project = q /\ projects'[q].life = "deleted"
  BY DEF TransactionsInv, RowsAgree
<1> QED BY <1>2, <1>3 DEF RowsAgree, MadeFor

\* The thread whose method ends holds nothing any more.
LEMMA EndedHolds ==
  ASSUME TransactionsInv, NEW t \in Thread, call' = [call EXCEPT ![t] = Idle], Onward,
         \A u \in Thread \ {t} : made'[u] = made[u],
         made'[t] # Null => checkpoints'[made'[t]].status # "free",
         \A u \in Thread \ {t} : call[u].method = "create" =>
           checkpoints'[call[u].cp].status = "free"
  PROVE  Arguments' /\ Drawn' /\ \A u \in Thread : Holds(u)'
<1>1. call'[t] = Idle /\ \A u \in Thread \ {t} : call'[u] = call[u]
  BY DEF TransactionsInv, TransactionsTyped
<1>2. Idle.method = "none"
  BY DEF Idle
<1>3. Arguments' /\ Drawn'
  BY <1>1, <1>2 DEF TransactionsInv, Arguments, Drawn
<1>4. \A u \in Thread \ {t} : Holds(u)'
  BY <1>1, OthersHold
<1>5. Holds(t)'
  BY <1>1, <1>2 DEF Holds
<1> QED BY <1>3, <1>4, <1>5

LEMMA CreateInv ==
  ASSUME TransactionsInv, NEW t \in Thread, CommitCreate(t)
  PROVE  RowsAgree' /\ Arguments' /\ Drawn' /\ \A u \in Thread : Holds(u)'
<1> DEFINE k == call[t]
<1>0. PICK p \in Project : p = k.project
  BY DEF CommitCreate, TransactionsInv, Arguments
<1>1. k.cp \in Checkpoint /\ Live(p) /\ checkpoints[k.cp].status = "free"
  BY <1>0 DEF CommitCreate, TransactionsInv, Arguments, Holds
<1>2. /\ checkpoints'[k.cp] = [project |-> p, type |-> k.type, status |-> "pending"]
      /\ \A c \in Checkpoint \ {k.cp} : checkpoints'[c] = checkpoints[c]
      /\ \A q \in Project \ {p} : projects'[q] = projects[q]
      /\ projects'[p].current = k.cp /\ projects'[p].life = projects[p].life
      /\ made'[t] = k.cp /\ \A u \in Thread \ {t} : made'[u] = made[u]
  BY <1>0, <1>1 DEF CommitCreate, TransactionsInv, TransactionsTyped, StoreTypeOK, ProjectRow
<1>3. Onward
  BY <1>1, <1>2 DEF Onward, MadeFor
<1>4. RowsAgree'
  <2>1. \A c \in Checkpoint : projects'[p].current = c => MadeFor(c, p)'
    BY <1>2 DEF MadeFor
  <2>2. projects'[p].current \in Checkpoint \cup {Null}
    BY <1>1, <1>2
  <2>3. \A c \in Checkpoint : checkpoints'[c].status = "deleted" =>
           checkpoints[c].status = "deleted" /\ checkpoints'[c] = checkpoints[c]
    BY <1>2
  <2>4. \A q \in Project : projects'[q].life = projects[q].life
    BY <1>2
  <2>5. Live(p) /\ \A q \in Project \ {p} : projects'[q] = projects[q]
    BY <1>1, <1>2
  <2> QED BY <1>3, <2>1, <2>2, <2>3, <2>4, <2>5, RowWritten
<1>5. \A u \in Thread \ {t} : call[u].method = "create" =>
           checkpoints'[call[u].cp].status = "free"
  <2>1. k.method = "create"
    BY DEF CommitCreate
  <2>2. ASSUME NEW u \in Thread \ {t}, call[u].method = "create"
        PROVE  checkpoints'[call[u].cp].status = "free"
    <3>1. call[u].cp \in Checkpoint \ {k.cp}
      BY <2>1, <2>2 DEF TransactionsInv, Drawn, Arguments
    <3> QED BY <1>2, <2>2, <3>1 DEF TransactionsInv, Holds
  <2> QED BY <2>2
<1>6. call' = [call EXCEPT ![t] = Idle]
  BY DEF CommitCreate, Ends
<1>7. made'[t] # Null => checkpoints'[made'[t]].status # "free"
  BY <1>2
<1> QED BY <1>2, <1>3, <1>4, <1>5, <1>6, <1>7, EndedHolds

\* A commit that makes no checkpoint leaves the ids others have drawn free.
LEMMA EndedAsBefore ==
  ASSUME TransactionsInv, NEW t \in Thread, call' = [call EXCEPT ![t] = Idle], Onward, UNCHANGED made,
         \A c \in Checkpoint : checkpoints[c].status = "free" => checkpoints'[c].status = "free"
  PROVE  Arguments' /\ Drawn' /\ \A u \in Thread : Holds(u)'
<1>1. made[t] \in Checkpoint \cup {Null}
  BY DEF TransactionsInv, TransactionsTyped
<1>2. made'[t] # Null => checkpoints'[made'[t]].status # "free"
  BY <1>1 DEF TransactionsInv, Holds, Onward
<1>3. \A u \in Thread \ {t} : call[u].method = "create" =>
           checkpoints'[call[u].cp].status = "free"
  BY DEF TransactionsInv, Arguments, Holds
<1> QED BY <1>2, <1>3, EndedHolds

LEMMA FlowInv ==
  ASSUME TransactionsInv, NEW t \in Thread, CommitFlow(t)
  PROVE  RowsAgree' /\ Arguments' /\ Drawn' /\ \A u \in Thread : Holds(u)'
<1> DEFINE k == call[t]
<1>0. PICK p \in Project : p = k.project
  BY DEF CommitFlow, TransactionsInv, Arguments
<1>1. Live(p)
  BY <1>0 DEF CommitFlow, TransactionsInv, Arguments
<1>2. /\ UNCHANGED <<checkpoints, made>>
      /\ \A q \in Project \ {p} : projects'[q] = projects[q]
      /\ projects'[p].current \in {k.current, projects[p].current}
      /\ projects'[p].life = projects[p].life
  BY <1>0, <1>1 DEF CommitFlow, Column, TransactionsInv, TransactionsTyped, StoreTypeOK, ProjectRow
<1>3. Onward
  BY <1>2 DEF Onward, MadeFor
<1>4. RowsAgree'
  <2>1. \A c \in Checkpoint : projects'[p].current = c => MadeFor(c, p)'
    <3>1. \A c \in Checkpoint : k.current = c => MadeFor(c, p)
      BY <1>0, NullIsNothing DEF CommitFlow, TransactionsInv, Holds
    <3>2. \A c \in Checkpoint : projects[p].current = c => MadeFor(c, p)
      BY <1>1, NullIsNothing DEF TransactionsInv, RowsAgree
    <3> QED BY <1>2, <3>1, <3>2 DEF MadeFor
  <2>2. projects'[p].current \in Checkpoint \cup {Null}
    <3>1. k \in MethodCall /\ projects[p] \in ProjectRow
      BY <1>1 DEF TransactionsInv, TransactionsTyped, StoreTypeOK
    <3>2. k.current \in Checkpoint \cup {Null} /\ projects[p].current \in Checkpoint \cup {Null}
      BY <3>1 DEF MethodCall, ProjectRow
    <3> HIDE DEF k
    <3> QED BY <1>2, <3>2
  <2>3. \A c \in Checkpoint : checkpoints'[c].status = "deleted" =>
           checkpoints[c].status = "deleted" /\ checkpoints'[c] = checkpoints[c]
    BY <1>2
  <2>4. \A q \in Project : projects'[q].life = projects[q].life
    BY <1>2
  <2>5. Live(p) /\ \A q \in Project \ {p} : projects'[q] = projects[q]
    BY <1>1, <1>2
  <2> QED BY <1>3, <2>1, <2>2, <2>3, <2>4, <2>5, RowWritten
<1>5. call' = [call EXCEPT ![t] = Idle]
  BY DEF CommitFlow, Ends
<1> QED BY <1>2, <1>3, <1>4, <1>5, EndedAsBefore

\* Closing checkpoints that exist is a step onward.
LEMMA ResolvedOnward ==
  ASSUME TransactionsInv, NEW cs, \A c \in cs : Exists(c), checkpoints' = Resolved(cs),
         \A q \in Project : projects'[q].life = projects[q].life
  PROVE  /\ Onward
         /\ \A c \in Checkpoint : checkpoints[c].status = "free" => checkpoints'[c].status = "free"
         /\ \A c \in Checkpoint : checkpoints'[c].status = "deleted" =>
              checkpoints[c].status = "deleted" /\ checkpoints'[c] = checkpoints[c]
<1>1. \A c \in Checkpoint :
        /\ checkpoints'[c].project = checkpoints[c].project
        /\ c \in cs => checkpoints'[c].status = "resolved"
        /\ c \notin cs => checkpoints'[c] = checkpoints[c]
  BY DEF Resolved, TransactionsInv, TransactionsTyped, StoreTypeOK, CheckpointRow
<1> QED BY <1>1 DEF Onward, MadeFor, Exists

LEMMA RefreshInv ==
  ASSUME TransactionsInv, NEW t \in Thread, CommitRefresh(t)
  PROVE  RowsAgree' /\ Arguments' /\ Drawn' /\ \A u \in Thread : Holds(u)'
<1> DEFINE k == call[t]
<1>0. PICK p \in Project : p = k.project
  BY DEF CommitRefresh, TransactionsInv, Arguments
<1>1. Live(p)
  BY <1>0 DEF CommitRefresh, TransactionsInv, Arguments
<1>2. /\ UNCHANGED made
      /\ \A q \in Project \ {p} : projects'[q] = projects[q]
      /\ projects'[p].current \in {Null, projects[p].current}
      /\ projects'[p].life = projects[p].life
  BY <1>0, <1>1 DEF CommitRefresh, Column, TransactionsInv, TransactionsTyped, StoreTypeOK, ProjectRow
<1>3. /\ Onward
      /\ \A c \in Checkpoint : checkpoints[c].status = "free" => checkpoints'[c].status = "free"
      /\ \A c \in Checkpoint : checkpoints'[c].status = "deleted" =>
              checkpoints[c].status = "deleted" /\ checkpoints'[c] = checkpoints[c]
  BY <1>2, ResolvedOnward DEF CommitRefresh
<1>4. RowsAgree'
  <2>1. \A c \in Checkpoint : projects'[p].current = c => MadeFor(c, p)'
    BY <1>1, <1>2, <1>3, NullIsNothing DEF Onward, TransactionsInv, RowsAgree
  <2>2. projects'[p].current \in Checkpoint \cup {Null}
    <3>1. projects[p].current \in Checkpoint \cup {Null}
      BY <1>1 DEF TransactionsInv, TransactionsTyped, StoreTypeOK, ProjectRow
    <3> HIDE DEF k
    <3> QED BY <1>2, <3>1
  <2>3. \A q \in Project : projects'[q].life = projects[q].life
    BY <1>2
  <2>4. Live(p) /\ \A q \in Project \ {p} : projects'[q] = projects[q]
    BY <1>1, <1>2
  <2>5. \A c \in Checkpoint : checkpoints'[c].status = "deleted" =>
           checkpoints[c].status = "deleted" /\ checkpoints'[c] = checkpoints[c]
    BY <1>3
  <2> QED BY <1>3, <2>1, <2>2, <2>3, <2>4, <2>5, RowWritten
<1>5. call' = [call EXCEPT ![t] = Idle]
  BY DEF CommitRefresh, Ends
<1> QED BY <1>2, <1>3, <1>4, <1>5, EndedAsBefore

LEMMA ResolveInv ==
  ASSUME TransactionsInv, NEW t \in Thread, CommitResolve(t)
  PROVE  RowsAgree' /\ Arguments' /\ Drawn' /\ \A u \in Thread : Holds(u)'
<1>1. /\ Onward
      /\ \A c \in Checkpoint : checkpoints[c].status = "free" => checkpoints'[c].status = "free"
      /\ \A c \in Checkpoint : checkpoints'[c].status = "deleted" =>
              checkpoints[c].status = "deleted" /\ checkpoints'[c] = checkpoints[c]
  <2>1. checkpoints' = Resolved({call[t].cp}) /\ \A c \in {call[t].cp} : Exists(c)
    BY DEF CommitResolve
  <2>2. \A q \in Project : projects'[q].life = projects[q].life
    BY DEF CommitResolve
  <2> DEFINE cs == {call[t].cp}
  <2>3. checkpoints' = Resolved(cs) /\ \A c \in cs : Exists(c)
    BY <2>1
  <2> HIDE DEF cs
  <2> QED BY <2>2, <2>3, ResolvedOnward
<1>2. UNCHANGED <<projects, made>> /\ call' = [call EXCEPT ![t] = Idle]
  BY DEF CommitResolve, Ends
<1>3. RowsAgree'
  <2>1. \A q \in Project : projects[q].current \in Checkpoint \cup {Null}
    BY DEF TransactionsInv, TransactionsTyped, StoreTypeOK, ProjectRow
  <2>2. \A q \in Project : projects'[q].current # Null => MadeFor(projects[q].current, q)'
    BY <1>1, <1>2, <2>1 DEF TransactionsInv, RowsAgree, Onward
  <2> QED BY <1>1, <1>2, <2>2 DEF TransactionsInv, RowsAgree, MadeFor
<1> QED BY <1>1, <1>2, <1>3, EndedAsBefore

LEMMA DeleteInv ==
  ASSUME TransactionsInv, NEW t \in Thread, CommitDelete(t)
  PROVE  RowsAgree' /\ Arguments' /\ Drawn' /\ \A u \in Thread : Holds(u)'
<1> DEFINE k == call[t]
<1>0. PICK p \in Project : p = k.project
  BY DEF CommitDelete, TransactionsInv, Arguments
<1>1. \A c \in k.listed : MadeFor(c, p)
  BY <1>0 DEF CommitDelete, TransactionsInv, Arguments, Holds
<1>2. /\ \A c \in Checkpoint :
           /\ checkpoints'[c].project = checkpoints[c].project
           /\ c \in k.listed => checkpoints'[c].status = "deleted"
           /\ c \notin k.listed => checkpoints'[c] = checkpoints[c]
      /\ \A q \in Project : projects'[q].current = projects[q].current
      /\ \A q \in Project \ {p} : projects'[q] = projects[q]
      /\ projects'[p].life = "deleted"
      /\ UNCHANGED made
  BY <1>0, <1>1 DEF CommitDelete, TransactionsInv, TransactionsTyped, StoreTypeOK, CheckpointRow, ProjectRow
<1>3. Onward
  BY <1>1, <1>2 DEF Onward, MadeFor
<1>4. RowsAgree'
  <2>1. \A q \in Project : projects[q].current \in Checkpoint \cup {Null}
    BY DEF TransactionsInv, TransactionsTyped, StoreTypeOK, ProjectRow
  <2>2. \A q \in Project : projects'[q].current # Null => MadeFor(projects[q].current, q)'
    BY <1>2, <1>3, <2>1 DEF TransactionsInv, RowsAgree, Onward
  <2>3. ASSUME NEW c \in Checkpoint, checkpoints'[c].status = "deleted"
        PROVE  \E q \in Project : checkpoints'[c].project = q /\ projects'[q].life = "deleted"
    <3>1. CASE c \in k.listed
      BY <1>1, <1>2, <3>1 DEF MadeFor
    <3>2. CASE c \notin k.listed
      BY <1>2, <1>3, <2>3, <3>2 DEF TransactionsInv, RowsAgree, Onward
    <3> QED BY <3>1, <3>2
  <2> QED BY <1>2, <2>2, <2>3 DEF RowsAgree, MadeFor
<1>5. /\ call'[t].method = "rmtree" /\ call'[t].project = p /\ call'[t].row = NoRow
      /\ \A u \in Thread \ {t} : call'[u] = call[u]
  <2>1. [Idle EXCEPT !.method = "rmtree", !.project = p].method = "rmtree"
    BY DEF Idle
  <2>2. /\ [Idle EXCEPT !.method = "rmtree", !.project = p].project = p
        /\ [Idle EXCEPT !.method = "rmtree", !.project = p].row = NoRow
    BY DEF Idle
  <2> QED BY <1>0, <2>1, <2>2 DEF CommitDelete, TransactionsInv, TransactionsTyped
<1>6. Arguments' /\ Drawn'
  BY <1>1, <1>5 DEF TransactionsInv, Arguments, Drawn
<1>7. \A u \in Thread \ {t} : Holds(u)'
  <2>1. ASSUME NEW u \in Thread \ {t}, call[u].method = "create"
        PROVE  checkpoints'[call[u].cp].status = "free"
    <3>1. call[u].cp \in Checkpoint /\ checkpoints[call[u].cp].status = "free"
      BY <2>1 DEF TransactionsInv, Arguments, Holds
    <3> QED BY <1>1, <1>2, <3>1 DEF MadeFor
  <2> QED BY <1>2, <1>3, <1>5, <2>1, OthersHold
<1>8. Holds(t)'
  <2>1. made[t] # Null => made[t] \in Checkpoint /\ checkpoints[made[t]].status # "free"
    BY DEF TransactionsInv, TransactionsTyped, Holds
  <2> QED BY <1>2, <1>3, <1>5, <2>1 DEF Holds, Onward
<1> QED BY <1>4, <1>6, <1>7, <1>8

LEMMA CreateProjectInv ==
  ASSUME TransactionsInv, NEW p \in Project, CreateProject(p)
  PROVE  TransactionsInv'
<1>1. /\ UNCHANGED <<call, made, checkpoints>>
      /\ projects[p].life = "unborn" /\ projects'[p].life = "live" /\ projects'[p].current = Null
      /\ \A q \in Project \ {p} : projects'[q] = projects[q]
  BY DEF CreateProject, InsertProject, TransactionsInv, TransactionsTyped, StoreTypeOK
<1>2. Onward
  BY <1>1 DEF Onward, MadeFor
<1>3. RowsAgree'
  <2>1. \A q \in Project : projects'[q].current # Null => MadeFor(projects'[q].current, q)
    BY <1>1 DEF TransactionsInv, RowsAgree
  <2>2. \A c \in Checkpoint : checkpoints[c].status = "deleted" =>
          \E q \in Project : checkpoints[c].project = q /\ projects'[q].life = "deleted"
    BY <1>2 DEF TransactionsInv, RowsAgree, Onward
  <2> QED BY <1>1, <2>1, <2>2 DEF RowsAgree, MadeFor
<1>4. \A u \in Thread : Holds(u)'
  <2>1. ASSUME NEW u \in Thread PROVE call[u].method = "create" => checkpoints'[call[u].cp].status = "free"
    BY <1>1 DEF TransactionsInv, Holds
  <2> QED BY <1>1, <1>2, <2>1, OthersHold
<1>5. TransactionsTyped'
  BY OtherTyped DEF TransactionsInv
<1> QED BY <1>1, <1>3, <1>4, <1>5 DEF TransactionsInv, Arguments, Drawn

\* Removing the directory and giving a method up touch no table.
LEMMA GivenUpInv ==
  ASSUME TransactionsInv, NEW t \in Thread, RemoveTree(t) \/ Abort(t)
  PROVE  TransactionsInv'
<1>1. UNCHANGED <<projects, checkpoints, made>> /\ call' = [call EXCEPT ![t] = Idle]
  BY DEF RemoveTree, RemoveProjectRoot, Abort, store
<1>2. Onward
  BY <1>1 DEF Onward, MadeFor
<1>3. Arguments' /\ Drawn' /\ \A u \in Thread : Holds(u)'
  BY <1>1, <1>2, EndedAsBefore
<1>4. RowsAgree'
  BY <1>1 DEF TransactionsInv, RowsAgree, MadeFor
<1>5. TransactionsTyped'
  BY OtherTyped DEF TransactionsInv
<1> QED BY <1>3, <1>4, <1>5 DEF TransactionsInv

LEMMA UnchangedInv ==
  ASSUME TransactionsInv, UNCHANGED <<store, call, made>>,
         card' \in [project : Project \cup {Null}, row : ProjectRow],
         UNCHANGED overlap
  PROVE  TransactionsInv'
<1>1. UNCHANGED <<projects, checkpoints, sessions, disk, call, made>>
  BY DEF store
<1> QED BY <1>1 DEF TransactionsInv, TransactionsTyped, StoreTypeOK, Arguments, RowsAgree,
     Holds, Drawn, MadeFor

LEMMA CommitInv ==
  ASSUME TransactionsInv, NEW t \in Thread, Commit(t)
  PROVE  TransactionsInv'
<1>1. TransactionsTyped'
  BY CommitTyped DEF TransactionsInv
<1>2. RowsAgree' /\ Arguments' /\ Drawn' /\ \A u \in Thread : Holds(u)'
  BY CreateInv, FlowInv, RefreshInv, ResolveInv, DeleteInv DEF Commit
<1> QED BY <1>1, <1>2 DEF TransactionsInv

LEMMA StepInv ==
  ASSUME TransactionsInv, [Next]_vars
  PROVE  TransactionsInv'
<1>1. ASSUME NEW p \in Project, ShowCard(p) PROVE TransactionsInv'
  <2>1. card' \in [project : Project \cup {Null}, row : ProjectRow]
    BY <1>1 DEF ShowCard, TransactionsInv, TransactionsTyped, StoreTypeOK
  <2> QED BY <1>1, <2>1, UnchangedInv DEF ShowCard
<1>2. CASE UNCHANGED vars
  <2>1. card' \in [project : Project \cup {Null}, row : ProjectRow]
    BY <1>2 DEF vars, TransactionsInv, TransactionsTyped
  <2> QED BY <1>2, <2>1, UnchangedInv DEF vars
<1> QED BY <1>1, <1>2, CreateProjectInv, BeginInv, CommitInv, GivenUpInv DEF Next

LEMMA InvHolds == Spec => []TransactionsInv
  BY InitInv, StepInv, PTL DEF Spec

-----------------------------------------------------------------------------
(* What requests rely on                                                   *)

\* A live project's current checkpoint is a row of the project's own, however
\* methods of the store overlap and whichever of them fail.
THEOREM CurrentExistsHolds == Spec => []CurrentExists
<1>1. TransactionsInv => CurrentExists
  <2> SUFFICES ASSUME TransactionsInv, NEW p \in Project, Live(p), projects[p].current # Null
               PROVE  projects[p].current \in CheckpointsOf(p)
    BY DEF CurrentExists
  <2> DEFINE c == projects[p].current
  <2>1. c \in Checkpoint /\ checkpoints[c] \in CheckpointRow
    BY DEF TransactionsInv, TransactionsTyped, StoreTypeOK, ProjectRow
  <2>2. MadeFor(c, p)
    BY DEF TransactionsInv, RowsAgree
  <2>3. checkpoints[c].status # "deleted"
    BY <2>1, <2>2 DEF TransactionsInv, RowsAgree, MadeFor, Live
  <2>4. Exists(c)
    BY <2>1, <2>2, <2>3 DEF CheckpointRow, MadeFor, Exists
  <2> QED BY <2>1, <2>2, <2>4 DEF CheckpointsOf, MadeFor
<1> QED BY <1>1, InvHolds, PTL

\* What a step may do to p once p is deleted.
StaysGone(p) ==
  projects'[p] = projects[p] /\ CheckpointsOf(p)' \subseteq CheckpointsOf(p)

LEMMA CommitStaysGone ==
  ASSUME TransactionsInv, NEW t \in Thread, Commit(t),
         NEW p \in Project, projects[p].life = "deleted"
  PROVE  StaysGone(p)
<1> DEFINE k == call[t]
<1>1. ASSUME \A c \in Checkpoint : Exists(c)' /\ checkpoints'[c].project = p =>
                Exists(c) /\ checkpoints[c].project = p
      PROVE  CheckpointsOf(p)' \subseteq CheckpointsOf(p)
  BY <1>1 DEF CheckpointsOf
<1>2. ASSUME NEW cs, \A c \in cs : Exists(c), checkpoints' = Resolved(cs)
      PROVE  CheckpointsOf(p)' \subseteq CheckpointsOf(p)
  <2>1. \A c \in Checkpoint : checkpoints'[c].project = checkpoints[c].project
                               /\ (c \notin cs => checkpoints'[c] = checkpoints[c])
    BY <1>2 DEF Resolved, TransactionsInv, TransactionsTyped, StoreTypeOK, CheckpointRow
  <2> QED BY <1>1, <1>2, <2>1 DEF Exists
<1>3. CASE CommitCreate(t)
  <2>1. k.project \in Project /\ k.project # p /\ k.cp \in Checkpoint
    BY <1>3 DEF CommitCreate, TransactionsInv, Arguments, Live
  <2>2. projects'[p] = projects[p]
    BY <1>3, <2>1 DEF CommitCreate, TransactionsInv, TransactionsTyped, StoreTypeOK
  <2>3. /\ checkpoints'[k.cp].project = k.project
        /\ \A c \in Checkpoint \ {k.cp} : checkpoints'[c] = checkpoints[c]
    BY <1>3, <2>1 DEF CommitCreate, TransactionsInv, TransactionsTyped, StoreTypeOK
  <2> QED BY <1>1, <2>1, <2>2, <2>3 DEF StaysGone, Exists
<1>4. CASE CommitFlow(t)
  <2>1. k.project \in Project /\ k.project # p
    BY <1>4 DEF CommitFlow, TransactionsInv, Arguments, Live
  <2>2. projects'[p] = projects[p] /\ UNCHANGED checkpoints
    BY <1>4, <2>1 DEF CommitFlow, TransactionsInv, TransactionsTyped, StoreTypeOK
  <2> QED BY <1>1, <2>2 DEF StaysGone, Exists
<1>5. CASE CommitRefresh(t)
  <2>1. k.project \in Project /\ k.project # p
    BY <1>5 DEF CommitRefresh, TransactionsInv, Arguments, Live
  <2>2. projects'[p] = projects[p]
    BY <1>5, <2>1 DEF CommitRefresh, TransactionsInv, TransactionsTyped, StoreTypeOK
  <2>3. CheckpointsOf(p)' \subseteq CheckpointsOf(p)
    BY <1>2, <1>5 DEF CommitRefresh
  <2> QED BY <2>2, <2>3 DEF StaysGone
<1>6. CASE CommitResolve(t)
  <2> DEFINE cs == {k.cp}
  <2>1. checkpoints' = Resolved(cs) /\ (\A c \in cs : Exists(c)) /\ UNCHANGED projects
    BY <1>6 DEF CommitResolve
  <2> HIDE DEF cs
  <2> QED BY <1>2, <2>1 DEF StaysGone
<1>7. CASE CommitDelete(t)
  <2>1. k.project \in Project
    BY <1>7 DEF CommitDelete, TransactionsInv, Arguments
  <2>2. projects[p] \in ProjectRow /\ projects[p] = [projects[p] EXCEPT !.life = "deleted"]
    BY DEF TransactionsInv, TransactionsTyped, StoreTypeOK, ProjectRow
  <2>3. projects'[p] = projects[p]
    BY <1>7, <2>1, <2>2 DEF CommitDelete, TransactionsInv, TransactionsTyped, StoreTypeOK
  <2>4. \A c \in Checkpoint : checkpoints'[c].project = checkpoints[c].project
          /\ (c \in k.listed => checkpoints'[c].status = "deleted")
          /\ (c \notin k.listed => checkpoints'[c] = checkpoints[c])
    BY <1>7 DEF CommitDelete, TransactionsInv, TransactionsTyped, StoreTypeOK, CheckpointRow
  <2> QED BY <1>1, <2>3, <2>4 DEF StaysGone, Exists
<1> QED BY <1>3, <1>4, <1>5, <1>6, <1>7 DEF Commit

\* A deleted project stays deleted, keeps its row and gets no checkpoint, also
\* from methods that had read it before delete_project removed it.
THEOREM GoneStaysGoneHolds == Spec => GoneStaysGone
<1>1. ASSUME TransactionsInv, [Next]_vars, NEW p \in Project, projects[p].life = "deleted"
      PROVE  StaysGone(p)
  <2>1. ASSUME UNCHANGED <<projects, checkpoints>> PROVE StaysGone(p)
    BY <2>1 DEF StaysGone, CheckpointsOf, Exists
  <2>2. ASSUME NEW q \in Project, CreateProject(q) PROVE StaysGone(p)
    BY <1>1, <2>2 DEF CreateProject, InsertProject, TransactionsInv, TransactionsTyped,
       StoreTypeOK, StaysGone, CheckpointsOf, Exists
  <2>3. ASSUME NEW q \in Project, ShowCard(q) PROVE StaysGone(p)
    BY <2>1, <2>3 DEF ShowCard, store
  <2>4. ASSUME NEW t \in Thread, Begin(t) PROVE StaysGone(p)
    BY <1>1, <2>1, <2>4, BeginTyped DEF TransactionsInv, store
  <2>5. ASSUME NEW t \in Thread, RemoveTree(t) \/ Abort(t) PROVE StaysGone(p)
    BY <2>1, <2>5 DEF RemoveTree, RemoveProjectRoot, Abort, store
  <2>6. ASSUME UNCHANGED vars PROVE StaysGone(p)
    BY <2>1, <2>6 DEF vars, store
  <2> QED BY <1>1, <2>2, <2>3, <2>4, <2>5, <2>6, CommitStaysGone DEF Next
<1>2. TransactionsInv /\ [Next]_vars =>
        [\A p \in Project : projects[p].life = "deleted" =>
           projects'[p] = projects[p] /\ CheckpointsOf(p)' \subseteq CheckpointsOf(p)]_vars
  BY <1>1 DEF StaysGone
<1> QED BY <1>2, InvHolds, PTL DEF Spec, GoneStaysGone

LEMMA CommitAsOneStep ==
  ASSUME TransactionsInv, NEW t \in Thread, Commit(t), ~Overtaken(t)
  PROVE  AsOneStep(t)
<1> DEFINE k == call[t]
<1>1. CASE CommitCreate(t)
  <2>1. k.method = "create" /\ Live(k.project) /\ checkpoints[k.cp].status = "free"
    BY <1>1 DEF CommitCreate, TransactionsInv, Holds
  <2>2. k.row = projects[k.project]
    BY <2>1 DEF Overtaken
  <2>3. CreateCheckpoint(k.project, k.cp, k.type)
    BY <1>1, <2>1, <2>2 DEF CommitCreate, CreateCheckpoint
  <2> QED BY <2>1, <2>3 DEF AsOneStep
<1>2. CASE CommitFlow(t)
  <2>1. k.method = "flow" /\ Live(k.project) /\ k.project \in Project
    BY <1>2 DEF CommitFlow, TransactionsInv, Arguments
  <2>2. k.row = projects[k.project]
    BY <2>1 DEF Overtaken
  <2>3. UpdateProjectFlowState(k.project, k.status, k.current)
    BY <1>2, <2>1, <2>2 DEF CommitFlow, UpdateProjectFlowState, Column
  <2> QED BY <2>1, <2>3 DEF AsOneStep
<1>3. CASE CommitRefresh(t)
  <2>1. k.method = "refresh" /\ Live(k.project) /\ k.project \in Project
    BY <1>3 DEF CommitRefresh, TransactionsInv, Arguments
  <2>2. k.row = projects[k.project]
    BY <2>1 DEF Overtaken
  <2>3. /\ k.listed \subseteq {projects[k.project].current} \ {Null}
        /\ \A c \in {projects[k.project].current} \ {Null} :
             c \in k.listed \/ checkpoints[c].status # "pending"
        /\ \A c \in k.listed : Exists(c)
    BY <1>3, <2>1, <2>2 DEF TransactionsInv, Holds, CommitRefresh
  <2>4. Resolved(k.listed) = [c \in Checkpoint |->
          IF c = projects[k.project].current /\ checkpoints[c].status = "pending"
            THEN [checkpoints[c] EXCEPT !.status = "resolved"]
            ELSE checkpoints[c]]
    <3>1. ASSUME NEW c \in Checkpoint
          PROVE  Resolved(k.listed)[c] =
                   IF c = projects[k.project].current /\ checkpoints[c].status = "pending"
                     THEN [checkpoints[c] EXCEPT !.status = "resolved"]
                     ELSE checkpoints[c]
      <4>1. c # Null /\ checkpoints[c] \in CheckpointRow
        BY NullIsNothing DEF TransactionsInv, TransactionsTyped, StoreTypeOK
      <4>2. checkpoints[c].status = "resolved" =>
              [checkpoints[c] EXCEPT !.status = "resolved"] = checkpoints[c]
        BY <4>1 DEF CheckpointRow
      <4>3. CASE c \in k.listed
        <5>1. c = projects[k.project].current /\ checkpoints[c].status \in {"pending", "resolved"}
          BY <2>3, <4>3 DEF Exists
        <5> QED BY <4>2, <4>3, <5>1 DEF Resolved
      <4>4. CASE c \notin k.listed
        BY <2>3, <4>1, <4>4 DEF Resolved
      <4> QED BY <4>3, <4>4
    <3> QED BY <3>1 DEF Resolved
  <2>5. RefreshActiveProjectRequirement(k.project)
    BY <1>3, <2>1, <2>2, <2>4 DEF CommitRefresh, RefreshActiveProjectRequirement, Column
  <2> QED BY <2>1, <2>5 DEF AsOneStep
<1>4. CASE CommitResolve(t)
  <2>1. k.method = "resolve" /\ Exists(k.cp) /\ k.cp \in Checkpoint
    BY <1>4 DEF CommitResolve, TransactionsInv, Arguments
  <2>2. Resolved({k.cp}) = [checkpoints EXCEPT ![k.cp].status = "resolved"]
    BY <2>1 DEF Resolved, TransactionsInv, TransactionsTyped, StoreTypeOK
  <2>3. ResolveCheckpoint(k.cp)
    BY <1>4, <2>1, <2>2 DEF CommitResolve, ResolveCheckpoint
  <2> QED BY <2>1, <2>3 DEF AsOneStep
<1>5. CASE CommitDelete(t)
  <2>1. k.method = "delete"
    BY <1>5 DEF CommitDelete
  <2>2. ASSUME NEW c \in Checkpoint
        PROVE  (IF c \in k.listed THEN [checkpoints[c] EXCEPT !.status = "deleted"]
                                  ELSE checkpoints[c])
                 = Removed(k.project, k.listed)[c]
    <3>1. checkpoints[c] \in CheckpointRow
      BY DEF TransactionsInv, TransactionsTyped, StoreTypeOK
    <3>2. checkpoints[c].status = "deleted" =>
            [checkpoints[c] EXCEPT !.status = "deleted"] = checkpoints[c]
      BY <3>1 DEF CheckpointRow
    <3>3. c \in k.listed =>
            c \in CheckpointsOf(k.project) \/ checkpoints[c].status = "deleted"
      BY <2>1, <3>1 DEF TransactionsInv, Holds, MadeFor, CheckpointsOf, Exists, CheckpointRow
    <3> QED BY <3>2, <3>3 DEF Removed
  <2>3. checkpoints' = Removed(k.project, k.listed)
    BY <1>5, <2>2 DEF CommitDelete, Removed
  <2>4. DeleteRows(k.project, k.listed)
    BY <1>5, <2>3 DEF CommitDelete, DeleteRows
  <2> QED BY <2>1, <2>4 DEF AsOneStep
<1> QED BY <1>1, <1>2, <1>3, <1>4, <1>5 DEF Commit

\* A method of the store whose reads are still true when it commits does what
\* the one step does that WorkflowService takes it for.
THEOREM OneStepUnlessOvertakenHolds == Spec => OneStepUnlessOvertaken
<1> DEFINE Alone == \A t \in Thread :
             (call'[t] # call[t] /\ store' # store /\ ~Overtaken(t)) => AsOneStep(t)
<1>1. ASSUME TransactionsInv, Next, NEW t \in Thread,
             call'[t] # call[t], store' # store, ~Overtaken(t)
      PROVE  AsOneStep(t)
  <2>1. ASSUME NEW p \in Project, CreateProject(p) \/ ShowCard(p) PROVE FALSE
    BY <1>1, <2>1 DEF CreateProject, ShowCard
  <2>2. ASSUME NEW u \in Thread, Begin(u) PROVE FALSE
    BY <1>1, <2>2, BeginTyped DEF TransactionsInv
  <2>3. ASSUME NEW u \in Thread, Abort(u) PROVE FALSE
    BY <1>1, <2>3 DEF Abort
  <2>4. ASSUME NEW u \in Thread, RemoveTree(u) PROVE AsOneStep(t)
    <3>1. u = t
      BY <1>1, <2>4 DEF RemoveTree, TransactionsInv, TransactionsTyped
    <3> QED BY <2>4, <3>1 DEF RemoveTree, AsOneStep
  <2>5. ASSUME NEW u \in Thread, Commit(u) PROVE AsOneStep(t)
    <3>1. u = t
      BY <1>1, <2>5 DEF Commit, CommitCreate, CommitFlow, CommitRefresh, CommitResolve,
         CommitDelete, Ends, TransactionsInv, TransactionsTyped
    <3> QED BY <1>1, <2>5, <3>1, CommitAsOneStep
  <2> QED BY <1>1, <2>1, <2>2, <2>3, <2>4, <2>5 DEF Next
<1>2. TransactionsInv /\ [Next]_vars => [Alone]_vars
  BY <1>1
<1> QED BY <1>2, InvHolds, PTL DEF Spec, OneStepUnlessOvertaken

\* What has been shown of a project is of its past: an older version, or the
\* version it has, and then the same state.
CardsAgree ==
  LET p == card.project
  IN  p # Null =>
        /\ projects[p].life # "unborn"
        /\ p \notin overlap /\ Live(p) =>
             \/ card.row.version < projects[p].version
             \/ /\ card.row.version = projects[p].version
                /\ card.row.status = projects[p].status
                /\ card.row.current = projects[p].current

\* A commit leaves a project's row as to version, status and checkpoint, or
\* takes its version one on, or is remembered as overtaking.
LEMMA CommitMovesOn ==
  ASSUME TransactionsInv, NEW t \in Thread, Commit(t), NEW p \in Project
  PROVE  /\ card' = card /\ overlap \subseteq overlap'
         /\ projects[p].life # "unborn" => projects'[p].life # "unborn"
         /\ Live(p)' /\ p \notin overlap' =>
              \/ projects'[p] = projects[p]
              \/ projects'[p].version = projects[p].version + 1 /\ Live(p)
<1> DEFINE k == call[t]
<1>1. card' = card /\ overlap \subseteq overlap'
  BY DEF Commit, CommitCreate, CommitFlow, CommitRefresh, CommitResolve, CommitDelete, Ends
<1>2. ASSUME k.method \in {"create", "flow", "refresh"}, Ends(t), k.project = p, p \notin overlap'
      PROVE  k.row = projects[p]
  BY <1>2 DEF Ends, Overtaken
<1>3. CASE CommitCreate(t) \/ CommitFlow(t) \/ CommitRefresh(t)
  <2>1. /\ k.method \in {"create", "flow", "refresh"} /\ Ends(t)
        /\ k.project \in Project /\ Live(k.project)
    BY <1>3 DEF CommitCreate, CommitFlow, CommitRefresh, TransactionsInv, Arguments
  <2>2. /\ \A q \in Project \ {k.project} : projects'[q] = projects[q]
        /\ projects'[k.project].version = k.row.version + 1
        /\ projects'[k.project].life = projects[k.project].life
    BY <1>3, <2>1 DEF CommitCreate, CommitFlow, CommitRefresh, TransactionsInv,
       TransactionsTyped, StoreTypeOK, ProjectRow
  <2> QED BY <1>1, <1>2, <2>1, <2>2 DEF Live
<1>4. CASE CommitResolve(t)
  BY <1>1, <1>4 DEF CommitResolve
<1>5. CASE CommitDelete(t)
  <2>1. k.project \in Project
    BY <1>5 DEF CommitDelete, TransactionsInv, Arguments
  <2>2. /\ \A q \in Project \ {k.project} : projects'[q] = projects[q]
        /\ projects'[k.project].life = "deleted"
    BY <1>5, <2>1 DEF CommitDelete, TransactionsInv, TransactionsTyped, StoreTypeOK, ProjectRow
  <2> QED BY <1>1, <2>2 DEF Live
<1> QED BY <1>3, <1>4, <1>5 DEF Commit

LEMMA CardsStep ==
  ASSUME TransactionsInv, CardsAgree, [Next]_vars
  PROVE  CardsAgree'
<1>1. card.project \in Project \cup {Null} /\ card.row.version \in Nat
  BY DEF TransactionsInv, TransactionsTyped, ProjectRow
<1>2. \A p \in Project : projects[p].version \in Nat
  BY DEF TransactionsInv, TransactionsTyped, StoreTypeOK, ProjectRow
<1>3. ASSUME UNCHANGED <<projects, card, overlap>> PROVE CardsAgree'
  BY <1>3 DEF CardsAgree, Live
<1>4. ASSUME NEW p \in Project, CreateProject(p) PROVE CardsAgree'
  <2>1. /\ UNCHANGED <<card, overlap>> /\ projects[p].life = "unborn"
        /\ \A q \in Project \ {p} : projects'[q] = projects[q]
    BY <1>4 DEF CreateProject, InsertProject, TransactionsInv, TransactionsTyped, StoreTypeOK
  <2> QED BY <1>1, <2>1 DEF CardsAgree, Live
<1>5. ASSUME NEW p \in Project, ShowCard(p) PROVE CardsAgree'
  BY <1>5 DEF ShowCard, store, CardsAgree, Live
<1>6. ASSUME NEW t \in Thread, Begin(t) PROVE CardsAgree'
  BY <1>3, <1>6, BeginTyped DEF TransactionsInv, store
<1>7. ASSUME NEW t \in Thread, RemoveTree(t) \/ Abort(t) PROVE CardsAgree'
  BY <1>3, <1>7 DEF RemoveTree, RemoveProjectRoot, Abort, store
<1>8. ASSUME NEW t \in Thread, Commit(t) PROVE CardsAgree'
  <2>1. card' = card
    BY <1>8 DEF Commit, CommitCreate, CommitFlow, CommitRefresh, CommitResolve,
       CommitDelete, Ends
  <2>2. CASE card.project = Null
    BY <2>1, <2>2 DEF CardsAgree
  <2>3. CASE card.project # Null
    <3>1. PICK p \in Project : p = card.project
      BY <1>1, <2>3
    <3>2. /\ overlap \subseteq overlap'
          /\ projects[p].life # "unborn" => projects'[p].life # "unborn"
          /\ Live(p)' /\ p \notin overlap' =>
               \/ projects'[p] = projects[p]
               \/ projects'[p].version = projects[p].version + 1 /\ Live(p)
      BY <1>8, CommitMovesOn
    <3>3. /\ projects[p].life # "unborn"
          /\ p \notin overlap /\ Live(p) =>
               \/ card.row.version < projects[p].version
               \/ /\ card.row.version = projects[p].version
                  /\ card.row.status = projects[p].status
                  /\ card.row.current = projects[p].current
      BY <2>3, <3>1 DEF CardsAgree
    <3>4. Live(p)' /\ p \notin overlap' =>
             \/ card.row.version < projects'[p].version
             \/ /\ card.row.version = projects'[p].version
                /\ card.row.status = projects'[p].status
                /\ card.row.current = projects'[p].current
      BY <1>1, <1>2, <3>2, <3>3 DEF Live
    <3> QED BY <2>1, <3>1, <3>2, <3>3, <3>4 DEF CardsAgree, Live
  <2> QED BY <2>2, <2>3
<1> QED BY <1>3, <1>4, <1>5, <1>6, <1>7, <1>8 DEF Next, vars, store

\* Who compares the version of a card with the version of the row, as
\* apply_feedback does, compares status and checkpoint, unless two methods on
\* that project have overlapped.
THEOREM VersionNamesOneStateHolds == Spec => []VersionNamesOneState
<1>1. Init => CardsAgree
  BY DEF Init, CardsAgree
<1>2. TransactionsInv /\ CardsAgree => VersionNamesOneState
  <2>1. ASSUME TransactionsInv, CardsAgree, card.project # Null
        PROVE  VersionNamesOneState
    <3>1. card.row.version \in Nat /\ card.project \in Project
      BY <2>1 DEF TransactionsInv, TransactionsTyped, ProjectRow
    <3> QED BY <2>1, <3>1 DEF CardsAgree, VersionNamesOneState
  <2> QED BY <2>1 DEF VersionNamesOneState
<1> QED BY <1>1, <1>2, InvHolds, CardsStep, PTL DEF Spec

=============================================================================
