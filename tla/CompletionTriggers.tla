------------------------- MODULE CompletionTriggers -------------------------
(***************************************************************************)
(* The tasks of one space, the triggers relations between them, and the    *)
(* PATCH requests that complete them.                                      *)
(*                                                                         *)
(* A PATCH locks its task (FOR UPDATE), and if it completes it, resets the *)
(* on_dependency tasks it triggers one by one, locking each, all in one    *)
(* READ COMMITTED transaction: its statements are the actions here, what   *)
(* it has written shows to others when it commits, and its locks last till *)
(* then.  Two such transactions may wait for each other; the database then *)
(* ends one.  A fixed_accumulating task is left to AccumulatingSeries.     *)
(***************************************************************************)
EXTENDS Integers

CONSTANTS
  Tasks, Requests,
  NoTask, None,  \* a task that was deleted; no request, no task, no change
  PoolSize,      \* members of the rotation pool of every recurring task
  Asks,          \* the PATCHes requests make
  StartTasks, StartTriggers,
  MaxChanges     \* bounds the changes of relations, and deletions

Statuses == {"initial", "intermediate", "completion"}
Types    == {"one_off", "on_dependency", "recurring"}
Members  == 0 .. PoolSize - 1

Row == [status : Statuses, type : Types, assignee : Members]

\* None keeps what is there; over: the rule has no occurrence left.
Ask == [status : Statuses \cup {None}, type : Types \cup {None},
        assignee : Members \cup {None}, over : BOOLEAN]

ASSUME TriggersAssumption ==
  /\ NoTask \notin Row
  /\ None \notin Statuses \cup Types /\ None \notin Members
  /\ None \notin Requests \cup Tasks
  /\ PoolSize \in Nat \ {0}
  /\ Asks \subseteq Ask
  /\ StartTasks \in [Tasks -> Row]
  /\ StartTriggers \subseteq {p \in Tasks \X Tasks : p[1] # p[2]}
  /\ MaxChanges \in Nat

VARIABLES
  tasks,     \* the committed rows
  triggers,  \* task_relations of kind triggers: <<source, target>>
  locks,     \* per task: the transaction that holds its row lock
  req,       \* per PATCH: how far it is
  moved,     \* history, per PATCH: tasks others changed since it has its lock
  changes    \* relations and deletions so far

vars == <<tasks, triggers, locks, req, moved, changes>>

Idle == [pc |-> "idle", task |-> None, ask |-> None, existing |-> None,
         left |-> {}, target |-> None, resets |-> {}]

Request ==
  [pc : {"idle", "lock", "list", "targets", "reset", "wait", "done", "failed"},
   task : Tasks \cup {None}, ask : Asks \cup {None},
   existing : Row \cup {None}, left : SUBSET Tasks,
   target : Tasks \cup {None}, resets : SUBSET Tasks]

TypeOK ==
  /\ tasks \in [Tasks -> Row \cup {NoTask}]
  /\ triggers \subseteq Tasks \X Tasks
  /\ locks \in [Tasks -> Requests \cup {None}]
  /\ req \in [Requests -> Request]
  /\ moved \in [Requests -> SUBSET Tasks]
  /\ changes \in 0 .. MaxChanges

Init ==
  /\ tasks = StartTasks
  /\ triggers = StartTriggers
  /\ locks = [t \in Tasks |-> None]
  /\ req = [r \in Requests |-> Idle]
  /\ moved = [r \in Requests |-> {}]
  /\ changes = 0

Targets(t) == {x \in Tasks : <<t, x>> \in triggers}
Given(new, old) == IF new = None THEN old ELSE new

-----------------------------------------------------------------------------
(***************************************************************************)
(* HandleCompletionTransition and ApplyPoolRotation, for a task that       *)
(* recurs in place or not at all.                                          *)
(***************************************************************************)
\* Mutant: the status the task had is not looked at.
EndsDone(row, ask) == Given(ask.status, row.status) = "completion"

Completes(row, ask) ==
  row.status # "completion" /\ Given(ask.status, row.status) = "completion"

Recurs(row, ask) ==
  Completes(row, ask) /\ Given(ask.type, row.type) = "recurring"

AdvanceRotation(member) == (member + 1) % PoolSize

\* The row UpdateTask and setTaskAssignees leave; assignees given in the
\* request win over the rotation.
Patched(row, ask) ==
  [status   |-> IF Recurs(row, ask) /\ ~ ask.over THEN "initial"
                ELSE Given(ask.status, row.status),
   type     |-> Given(ask.type, row.type),
   assignee |-> Given(ask.assignee, IF Recurs(row, ask)
                                    THEN AdvanceRotation(row.assignee)
                                    ELSE row.assignee)]

ResetTaskToInitial(row) == [row EXCEPT !.status = "initial"]

-----------------------------------------------------------------------------
(***************************************************************************)
(* SpaceTasksUpdate.                                                       *)
(***************************************************************************)
Start(r, t, ask) ==
  /\ req[r].pc = "idle"
  /\ req' = [req EXCEPT ![r] = [Idle EXCEPT !.pc = "lock", !.task = t,
                                            !.ask = ask]]
  /\ UNCHANGED <<tasks, triggers, locks, moved, changes>>

\* Mutant: the rows are read without FOR UPDATE.
NotWaiting(r, t) == TRUE

Free(r, t) == locks[t] \in {None, r}

\* GetTaskForUpdate.
Lock(r) ==
  LET t == req[r].task
  IN  /\ req[r].pc = "lock" /\ tasks[t] # NoTask /\ Free(r, t)
      /\ locks' = [locks EXCEPT ![t] = r]
      /\ req' = [req EXCEPT ![r].pc = "list", ![r].existing = tasks[t]]
      /\ UNCHANGED <<tasks, triggers, moved, changes>>

Completing(r) == Completes(req[r].existing, req[r].ask)

\* ListTriggerTargets, once UpdateTask has run.
ListTargets(r) ==
  /\ req[r].pc = "list"
  /\ req' = [req EXCEPT ![r].pc = "targets",
               ![r].left = IF Completing(r) THEN Targets(req[r].task) ELSE {}]
  /\ UNCHANGED <<tasks, triggers, locks, moved, changes>>

Dependent(row) == row.type = "on_dependency"

\* GetTask, of the next target: no lock, and not what it is reset by.
ReadTarget(r, x) ==
  /\ req[r].pc = "targets" /\ x \in req[r].left /\ tasks[x] # NoTask
  /\ req' = [req EXCEPT ![r].left = @ \ {x},
               ![r].pc     = IF Dependent(tasks[x]) THEN "reset" ELSE @,
               ![r].target = IF Dependent(tasks[x]) THEN x ELSE @]
  /\ UNCHANGED <<tasks, triggers, locks, moved, changes>>

NextTarget(r) == [req[r] EXCEPT !.pc = "targets", !.target = None]

\* ResetTaskToInitial finds its row by status: one that is initial is left.
FindTarget(r) ==
  LET x == req[r].target
  IN  /\ req[r].pc = "reset"
      /\ req' = [req EXCEPT ![r] =
                   IF tasks[x] = NoTask \/ tasks[x].status = "initial"
                   THEN NextTarget(r) ELSE [@ EXCEPT !.pc = "wait"]]
      /\ UNCHANGED <<tasks, triggers, locks, moved, changes>>

\* It waits for the row, then looks at the status again, not at the type.
ResetTarget(r) ==
  LET x == req[r].target
  IN  /\ req[r].pc = "wait" /\ Free(r, x)
      /\ locks' = IF tasks[x] = NoTask THEN locks
                  ELSE [locks EXCEPT ![x] = r]
      /\ req' = [req EXCEPT ![r] =
                   [NextTarget(r) EXCEPT !.resets = @ \cup
                      (IF tasks[x] = NoTask \/ tasks[x].status = "initial"
                       THEN {} ELSE {x})]]
      /\ UNCHANGED <<tasks, triggers, moved, changes>>

\* Mutant: the loop over the targets ends early.
FirstOnly(r) == req[r].resets # {} \/ req[r].left = {}

AllHandled(r) == req[r].left = {}

\* Mutant: the connection goes back to the pool, its transaction open.
KeepLocks(r) == locks

ReleaseLocks(r) == [t \in Tasks |-> IF locks[t] = r THEN None ELSE locks[t]]

Ended(answer) == [Idle EXCEPT !.pc = answer]
Past(r) == req[r].pc \in {"list", "targets", "reset", "wait"}

\* For the other open PATCHes, the tasks in S have moved.
Moves(r, S) == [s \in Requests |->
                  IF s # r /\ Past(s) THEN moved[s] \cup S ELSE moved[s]]

Commit(r) ==
  LET t == req[r].task
  IN  /\ req[r].pc = "targets" /\ AllHandled(r)
      /\ tasks' = [x \in Tasks |->
                     IF x = t THEN Patched(req[r].existing, req[r].ask)
                     ELSE IF x \in req[r].resets THEN ResetTaskToInitial(tasks[x])
                     ELSE tasks[x]]
      /\ locks' = ReleaseLocks(r)
      /\ req' = [req EXCEPT ![r] = Ended("done")]
      /\ moved' = Moves(r, {t} \cup req[r].resets)
      /\ UNCHANGED <<triggers, changes>>

\* Without a trace.
Rollback(r) ==
  /\ locks' = ReleaseLocks(r)
  /\ req' = [req EXCEPT ![r] = Ended("failed")]
  /\ UNCHANGED <<tasks, triggers, moved, changes>>

\* The task, or a target that was listed, is gone: 404.
NotFound(r) ==
  /\ \/ req[r].pc = "lock" /\ tasks[req[r].task] = NoTask
     \/ req[r].pc = "targets" /\ \E x \in req[r].left : tasks[x] = NoTask
  /\ Rollback(r)

\* The row r waits for, if it waits.
Wanted(r) == CASE req[r].pc = "lock" -> req[r].task
               [] req[r].pc = "wait" -> req[r].target
               [] OTHER              -> None

WaitsFor(r, s) == s # r /\ Wanted(r) \in Tasks /\ locks[Wanted(r)] = s

Circle(D) == \A r \in D : /\ \E s \in D : WaitsFor(r, s)
                          /\ \E s \in D : WaitsFor(s, r)

\* The database ends one of those who wait in a circle.
BreakDeadlock(r) ==
  /\ \E D \in SUBSET Requests : r \in D /\ Circle(D)
  /\ Rollback(r)

\* A lost connection, a cancelled request, a failed statement, a crash.
Fail(r) == req[r].pc \notin {"idle", "done", "failed"} /\ Rollback(r)

-----------------------------------------------------------------------------
(***************************************************************************)
(* Requests that change relations and delete tasks, each one step: they    *)
(* hold no row lock a PATCH could wait for while they wait themselves.     *)
(***************************************************************************)

\* The foreign keys take KEY SHARE locks, which FOR UPDATE excludes.
\* Mutant: FOR NO KEY UPDATE, which excludes no KEY SHARE.
Unshared(t) == TRUE
Referable(t) == \A r \in Requests : Past(r) => req[r].task # t

\* SpaceTaskRelationsCreate.
CreateRelation(t, x) ==
  /\ changes < MaxChanges /\ t # x /\ <<t, x>> \notin triggers
  /\ tasks[t] # NoTask /\ tasks[x] # NoTask
  /\ Referable(t) /\ Referable(x)
  /\ triggers' = triggers \cup {<<t, x>>}
  /\ changes' = changes + 1
  /\ UNCHANGED <<tasks, locks, req, moved>>

\* SpaceTaskRelationsDelete.
DeleteRelation(t, x) ==
  /\ changes < MaxChanges /\ <<t, x>> \in triggers
  /\ triggers' = triggers \ {<<t, x>>}
  /\ moved' = [r \in Requests |-> IF Past(r) /\ req[r].task = t
                                  THEN moved[r] \cup {x} ELSE moved[r]]
  /\ changes' = changes + 1
  /\ UNCHANGED <<tasks, locks, req>>

\* SpaceTasksDelete: the relations go with the task.
DeleteTask(t) ==
  /\ changes < MaxChanges /\ tasks[t] # NoTask /\ locks[t] = None
  /\ tasks' = [tasks EXCEPT ![t] = NoTask]
  /\ triggers' = {p \in triggers : p[1] # t /\ p[2] # t}
  /\ moved' = Moves(None, {t})
  /\ changes' = changes + 1
  /\ UNCHANGED <<locks, req>>

Step(r) ==
  \/ Lock(r) \/ ListTargets(r) \/ FindTarget(r) \/ ResetTarget(r)
  \/ \E x \in Tasks : ReadTarget(r, x)
  \/ Commit(r) \/ NotFound(r) \/ BreakDeadlock(r)

Next ==
  \/ \E r \in Requests :
       Step(r) \/ Fail(r) \/ \E t \in Tasks, ask \in Asks : Start(r, t, ask)
  \/ \E t \in Tasks :
       \/ DeleteTask(t)
       \/ \E x \in Tasks : CreateRelation(t, x) \/ DeleteRelation(t, x)

\* A server that runs goes on with its requests; the database grants a lock
\* that stays free and ends deadlocks (deadlock_timeout).
Fairness == \A r \in Requests : WF_vars(Step(r))

Spec == Init /\ [][Next]_vars /\ Fairness
-----------------------------------------------------------------------------
(***************************************************************************)
(* Properties.                                                             *)
(***************************************************************************)

\* No two transactions count on one row: what a PATCH read of its own task
\* and what it found to reset is what it commits over.
OwnsWhatItWrites ==
  \A r \in Requests : Past(r) =>
    /\ tasks[req[r].task] = req[r].existing
    /\ \A x \in req[r].resets : tasks[x] # NoTask /\ tasks[x].status # "initial"

\* A task that is done is not completed again before it is reopened or reset:
\* whatever runs at once, every committed completion starts from a row that was
\* not done, and hands a recurring task to the next in the pool, once.
CompletedOnce ==
  [][\A r \in Requests :
       Commit(r) /\ Completing(r) =>
         LET t == req[r].task
         IN  /\ tasks[t].status # "completion"
             /\ Recurs(tasks[t], req[r].ask) /\ req[r].ask.assignee = None =>
                  tasks'[t].assignee = AdvanceRotation(tasks[t].assignee)]_vars

\* Every PATCH is one step of Dependencies: it completes its task and resets
\* every on_dependency task that it triggers when it commits, or does nothing.
\* Only a task that others changed, or no longer relate to it, since it has its
\* lock may be reset, or left, against the letter.
DP == INSTANCE Dependencies WITH
        rows  <- tasks,
        Reset <- ResetTaskToInitial,
        open  <- [r \in Requests |->
                    IF Past(r) THEN {[task |-> req[r].task, ask |-> req[r].ask,
                                      moved |-> moved[r]]} ELSE {}],
        answered <- {r \in Requests : req[r].pc = "done"}
PatchIsAtomic == DP!Spec

\* No PATCH waits for ever: those that wait for each other are told apart,
\* and locks outlive no transaction.
RequestsEnd ==
  \A r \in Requests :
    req[r].pc # "idle" ~> req[r].pc \in {"done", "failed"}
=============================================================================
