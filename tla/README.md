# Horologia: verification project

Horologia is a task tracker for households and small teams: a Go server with a
REST API on PostgreSQL, two background crons, a command line client, a mobile
client and a web client. This directory holds TLA+ models of the server's core
and of the two clients that keep state of their own, the TLC configurations that
check them and TLAPS proofs about them.

Contents: [inventory](#inventory) · [modelling conventions](#modelling-conventions)
· [modules](#modules) · [runs](#runs) · [findings](#findings) · [proofs](#proofs) ·
[what is not modelled](#what-is-not-modelled) · [what is left](#what-is-left)

## Inventory

Paths are under `src/server/internal/` unless they say otherwise.

| Component | State | Operations | What is hard | What makes it correct | Model |
|---|---|---|---|---|---|
| Recurrence, due dates, rotation (`taskengine/recurrence.go`, `rotation.go`, `types/duedate.go`) | none: functions of a rule, a due date, a timezone and an instant | next and missed occurrences, next assignee | UTC dates against local midnights; the ends of intervals | missed and next occurrences neither overlap nor leave a gap | `Recurrence` |
| `fixed_accumulating` tasks and their cron (`taskengine/spawn.go`, `overdue.go`, `cron/cron.go`) | rows of `tasks`, `task_assignees`, `task_rotation_pools`, "spawns" relations | list overdue, convert one task per transaction into a backlog and a successor | several servers; rows read before the lock; requests that give type, rule, date, assignees or pool meanwhile; batches; crashes | one head per series, continued once, never lost, one task per occurrence, turns in order, backlog drains | `AccumulatingSeries`, `Series` |
| Overdue actions and their cron (`taskengine/overdue_action.go`) | `overdue_action*` columns of `tasks` | advance, set status, clear due date | acts on listed rows, re-checks only part of them | rules stay valid, a schedule neither drifts nor loses a day nor ends early, every action is taken | `OverdueActions` |
| Task requests and completion (`api/task_handlers.go`, `relation_handlers.go`, `taskengine/completion.go`) | one row under `FOR UPDATE`, its assignees, tags, relations | create, patch, delete, complete; relate | crons at the same time; a completion resets the tasks it triggers, so two PATCHes take two row locks in no order | as above; a completion with its resets is one step, no PATCH waits for ever | the two modules above, and `CompletionTriggers` with `Dependencies` |
| Statuses, effort and priority levels (`api/task_level_handlers.go`) | three tables of ordered rows; tasks refer to them | PUT of a whole list | sync by difference from names listed without a lock | the table is the list asked for; one initial and at least one completion status; no dangling level | `TaskLevels`, `LevelList` |
| Users and members (`api/admin_handlers.go`, `member_handlers.go`, `space_access.go`) | `users`, `space_members`, assignees and pools | create, update, delete users; add, promote, remove members; assign | guards that count before they write; updates that write back what they read | an owner and an admin remain, only members are assigned, owner status changes only on request | `Membership`, `Roster` |
| Space and user creation (`taskengine/space_creation.go`, `user_creation.go`) | default levels, the creator's membership | create | all in one transaction | - | initial states of `TaskLevels` and `Membership` |
| Spaces (`api/space_handlers.go`) | `spaces` | rename, delete | the slug is a key: renames cascade | the schema's cascades reach every table | no: one statement on one row |
| Tags, recipes, custom fields (`api/tag_handlers.go`, `recipe_handlers.go`) | rows of their own | CRUD | uniqueness is the database's | - | no |
| OAuth, sessions, OIDC and linking (`api/oauth.go`, `oidc.go`, `link.go`, `auth/`) | tokens, codes, consents | authorize, exchange, refresh, revoke, link | lost answers, retries and concurrent use of one token | a login has one refresh token, and a client that kept to the protocol is never left without one | `Tokens`: the token endpoints |
| Command line client (`src/clients/cli/internal/runtime/`) | a keychain entry shared by all commands | login, call, refresh, logout | commands of several terminals at once | the entry is the login that works; only a dead one is deleted | `Tokens`: its use of a login |
| Mobile client (`src/clients/mobile/`) | credential store, cache, work and widget of an account; the state on the screen | restore, authorize, refresh, load more, edit, sign out; background refresh | commands queue on a mutex, are decided before they have it, and are killed at any point | the list is the account's, nothing is left of a session, an acknowledged edit stays | `MobileApp`: the Android app |
| Web client (`src/clients/web`, `src/packages/client-core`) | a library's query cache | requests | - | - | no |
| Activity log (`activitylog/`) | append-only rows | insert in the caller's transaction | old values from rows read early | nothing reads it back to decide anything | no |
| MCP server, configuration, web UI host, API description | none of their own | forward, start, serve | - | - | no |

**How they interact.** Everything goes through PostgreSQL. An HTTP request is
authorised on its own connection, then runs one transaction. The two crons run
in every server process, tick at once at the start and then at an interval, list
up to 100 rows outside any transaction and process each in a transaction of its
own. Several servers may share a database, so each cron may exist several times.
Nothing is queued and nothing is cached in the server: the database is the only
shared state, and its isolation level the only coordination. That is where the
hard behaviours are: READ COMMITTED transactions that read without locks, decide
and write; and crons whose decisions are older than their writes. A client meets
the server by its access token, which it renews with a refresh token that is good
once. What a client keeps outlives its process, in a keychain, a cache or a
widget, and several parts of one client read and write it without a lock.

The complete list of hazards, each with its line and the properties aimed at it,
is `hazards` in `PROJECT.json`.

## Modelling conventions

*Transactions.* PostgreSQL runs all transactions at READ COMMITTED. A plain
SELECT sees the rows committed when it runs; an UPDATE, DELETE or SELECT ... FOR
UPDATE waits for the row's lock and re-evaluates its WHERE on the committed row.
A transaction is modelled as its reads, each an action of its own where what it
read can be stale when it is used, and one last action *write and commit*. The
reduction is sound: from its first write on a transaction holds the lock of
every row it wrote, no other transaction sees the writes before the commit, and
what it still reads after that point is protected by that lock or treated as an
earlier read. Where two transactions could deadlock on two rows the database
rolls one of them back, which is the same as `Fail`, `Rollback` or `FailTask`.
`CompletionTriggers` does without the reduction: there each statement is an
action, the locks are a variable and a circle of waiting transactions is a state.

*Row locks held across steps* exist only where the code takes `FOR UPDATE`
(`GetTaskForUpdate`): `Unlocked(i)` says no client holds row `i`, and
`locks` in `CompletionTriggers` says who does.

*Crashes and errors.* A crash undoes the open transaction and loses the cron's
list; an error in a cron's transaction is reported and the tick goes on.

*Time.* `Recurrence` counts instants in ticks, `DayLen` to a UTC day. One
timezone is the constant distance `Offset` of its midnights from UTC's. A rule
is the function `Occurs` from a DTSTART day to the days `rrule-go` enumerates
from it; the enumeration itself is external. `COUNT` is rejected by the code, so
a rule ends only by `UNTIL`.

*History variables.* `overlap` (in `TaskLevels` and `Membership`) records whether
two requests have ever been in progress at once. It constrains nothing; properties
named `...InTurn` promise something while it is FALSE, and the other properties
whatever happens. `origin` (a field of the rows of `OverdueActions` and
`AccumulatingSeries`) is the day a fixed schedule counts from: the due day a request
gave, for as long as type, rule and date are continued from it. A request that gives
another of the three sets it anew, and so does a cron that writes a date it computed
from an outdated one. `series`, `prev` and `own` in a row of `AccumulatingSeries`
say which series the task is in, which task had the turn before it, and whether its
assignees or pool were changed after it was spawned; `started` counts series.
`origin` in `Tokens` is the pair a login began with. `moved`, `raced`, `withdrawn`,
`loose` and `broken` record the circumstances a property excepts; they are described
with their module. `edits`, `changes`, `faults` and `deaths` only bound the runs.

*Mutants.* An operator with a comment "Mutant:" is a plausible bug of the
definition under it. It is used nowhere in the specification: replacing the
definition by it must make the run that names it fail.

## Modules

| Module | Models |
|---|---|
| `Recurrence` | the types of recurrence; `ComputeNextDueAt` for all of them, `allOverdueOccurrences`, `MidnightInTz`, the overdue test, `AdvanceRotation` |
| `AccumulatingSeries` (EXTENDS `Recurrence`), `Series` | `fixed_accumulating` tasks and what they are continued to; the accumulating cron; PATCH, DELETE and create of tasks; and the abstract specification of how a series goes on |
| `OverdueActions` (EXTENDS `Recurrence`) | tasks, their overdue action, its cron; PATCH and DELETE; deletion of a status a rule names |
| `TaskLevels`, `LevelList` | `replaceLevels` for the three PUT endpoints, and the abstract specification it implements |
| `Membership`, `Roster` | users, members of one space, assignees, and the requests that change them; and the abstract specification, in which a request is one step on one user or one task |
| `CompletionTriggers`, `Dependencies` | PATCHes that complete tasks and reset the tasks they trigger, statement by statement; and the abstract specification, in which a PATCH is one step |
| `Tokens` | a user's token pairs on the server, and the command line client's commands that share one of them in the keychain |
| `MobileApp` | the Android app: core, view model, background refresh and widget, with what survives the process |
| `MC...` | small instances |
| `..._proofs` | theorems |

### AccumulatingSeries and Series

`tasks` is the table, a sequence indexed by the BIGSERIAL id (a deleted row
keeps its place). A row has the task its "spawns" relation comes from (`from`), its
type, rule, due day, whether its status is a completion status, whether it
carries an overdue action (`ruled`), assignees and pool. `cron[w]` is one cron
goroutine: `ListOverdue` takes `now` once and lists the first `BatchSize` overdue
ids; `ReadTask` is the unlocked re-read and re-check of `processOneOverdueTask`;
`Convert` is `ProcessAccumulatingTask`, whose guarded UPDATE (`CanConvert`) looks at
the committed row while the occurrences are counted by the rule and the due date
read before, which the successor gets.

`client[c]` is one PATCH: `GetTaskForUpdate` locks and reads the row, `Rollback`
gives up, and `Patch` writes what the request asks for, any `Body`: status, type,
rule, due date, overdue action, assignees and rotation pool, subject to the
validation and the CHECKs (`Valid`). `Updated` is the row afterwards:
`HandleCompletionTransition` on the type and rule asked for (a
`fixed_accumulating` task is handed over to a successor, one that resets in place is
reset and rotated), then `applyTaskCollections`, which writes the assignees and
the pool of the request over those of the rotation.

*Series.* A PATCH may make any task `fixed_accumulating`, also one that was
converted or completed before and has its successors. The code then starts over:
the task is overdue or completed once more, and spawns once more. So that is where a
series begins (`Begins`), as with a created task, and "one head", "continued
once" and "in the order of turns" are said of each series. What a request may do to a
series is part of the properties, not left out: it may end it, give a task of it
to others (`own`), give a spent task a pool, and it changes rule and date between a
cron's read and its write.

`Series` knows neither crons nor requests, locks nor failures: a series starts with
one live task and goes on only from a live one, in a step in which that task ends
and all that follow it appear, later days after earlier ones, each in the turn
after the one before. Between such steps the day, assignees and pool of a task may
change and it may end; it comes back to life only to begin a series of its own
(`Restart`). `SeriesGoesOn` is `Series!Spec` under the mapping of a row to its series,
whether it is a head, its day, assignees and pool.

### OverdueActions

`rows[i]` is a task's type, recurrence rule, due day, status and overdue action.
`cron[w].seen` holds the *whole rows* the cron listed, as the code does.
`ApplyOverdueAction` computes from the listed row and writes to the committed one
if its action is still of the same kind (`StillRuled`, the WHERE of the four
statements). A `set_status` rule names its status without a foreign key; `late`
says whether that status exists, and `Skipped` is the silent skip when it does not.
`Patch` gives the row any status, type, rule, due date and overdue action that
validation accepts (`Asked`), and completes (`AfterTransition`). All types of
recurrence are included; for `fixed_accumulating` tasks the accumulating cron is
the one action `ConvertAccumulating`, and the successor a conversion or completion
creates is a task of its own, outside of the fixed set `Tasks`. The rotation of
assignees is left to `AccumulatingSeries`, and the activity log is left out.

### TaskLevels and LevelList

`levels` is one table, as a set of rows; `task` the level each task refers to.
`ListNames` is the unlocked read of the names, `Replace` the deletes, updates and
inserts that follow with the commit: `ToRemove` and `ToCreate` come from the names
listed, `Written` from the table at that time (an UPDATE of a name that is gone
matches no row and nobody looks), `UniquePositions` is the deferred UNIQUE
constraint and `Used` the count of tasks in a status. `Statuses` tells the
endpoint of statuses from the other two, whose deletes set tasks' levels to
NULL. `LevelList` says what the endpoint promises: the table is exactly one list
some request gave, or is left alone; after an overlap, only that no row appears
from nowhere. `ReplaceIsAssignment` is `LevelList!Spec` under the mapping
`rows <- levels`.

### Membership and Roster

`account` is a user's row with `is_owner`, `role` the row in `space_members`,
`assigned` a task's assignees and pool. A request goes `Authorize` (before its
transaction), `Read` (what it reads and counts: the target's account, the number
of owners or admins, the target's tasks, the members) and one action that writes
and commits, or `Refuse`. The last-admin guard is part of its statement, but as a
subquery on the statement's snapshot, so it counts in `Read` too. `spawn` is the
accumulating cron copying assignees to a task it creates.

`Roster` has no requests: a user is enrolled, made an owner or not, removed, given a
role or leaves, a task is assigned. While nothing has overlapped, whoever leaves
takes all assignments along, only members are assigned and the last owner and admin
stay; afterwards only foreign keys and cascades are left, and a step may keep
assignments of somebody who left the space or assign somebody who is no member.
`RosterKept` is `Roster!Spec` with its four variables mapped to those of the same
names.

### CompletionTriggers and Dependencies

`tasks` are the committed rows, `triggers` the relations, `locks` the row locks
and `req[r]` one PATCH with the place it has come to: `Start`, `Lock`
(`GetTaskForUpdate`), `ListTargets` (the relations, read once), `ReadTarget`
(`GetTask`, without a lock: `NotFound` fails the whole PATCH), `FindTarget` and
`ResetTarget` (the UPDATE that waits for the target's lock; a reset is remembered
in `resets` and shows at the commit), `Commit`, and `Fail`. `BreakDeadlock` is
PostgreSQL's choice of one transaction in a circle of waiting ones. Creating a
relation waits for the row lock of its source through its foreign key
(`Referable`), which is why a PATCH cannot miss a target. `moved[r]` remembers the
tasks that others changed while `r` had its own task.

`Dependencies` says what a user may rely on: a PATCH that succeeds changes its
task as asked and, if it completes it, resets every `on_dependency` task it
triggers and no other, in one step; one that fails does nothing. A task in
`moved` may have been reset or not. `PatchIsAtomic` is `Dependencies!Spec` under
the mapping `rows <- tasks`, `open[r]` the PATCH in progress, `answered` the
requests done.

### Tokens

Pairs are numbered as they are issued (`issued`); `access` and `refresh` are those
still good, `stored` the keychain's entry, `cmd[c]` one command: the place it has
come to and the pair in its memory. A refresh is two steps, as in
`oauthTokenRefresh`: `Authenticate` looks for the token, `Rotate` deletes it,
there or not, and issues a pair. An answer may be lost after the commit
(`arrives`), a request may fail before it, the keychain may fail, a token may
expire whenever a command is about to present it, and a password may change.
`raced` is set when two commands have one token authenticated at once,
`withdrawn` when a refresh token went without its command (expiry, password, lost
answer) or what a command got was not saved.

### MobileApp

`version` is the server's task; `bundles`, `active` and `cache` the device's stores;
`registered` and `snapshots` the background work and the widget of an account;
`worker` the refresh in progress. `screen` and `creds` are the core's state and
`queue` its mutex: the command at its head has the mutex and the others wait, each
decided when it was pressed. A command is a step per suspension point (`Restore`,
`Restored`; `Authorize`, `Callback`, `Activated`, `Authorized`; `Begin`, `Serve`,
`Listed`, ...). A sign in is saved by two commits, the bundle (`Callback`) and the
active account (`Activated`), and a kill or a failure may come between them.
`SignedOut` clears the core, and `Cancel` is what the view model does afterwards, so
a `Kill` fits between the two. `Throw` is a `refresh` that waited behind a sign out:
`authenticatedScope` throws outside of the `loading` that would have caught it, and
the process ends. `acked` remembers the latest version an edit of the user's was
answered with, `loose` the accounts a property on leftovers excepts, with the
circumstances named at the property, `broken` that a bundle could not be deleted.

A list of tasks is a version of one of them; a bundle is an account; one server; one
background refresh at a time. `scheduledScopeKey` only spares a repetition of
`scheduleAfterAuthorization` and is left out. The credential store may fail wherever
it is used in a command: when it is read at the start (`RestoreUnreadable`), in
either commit of a sign in (`NotAuthorized`; what a failed commit wrote may be seen
by the process all the same) and when it deletes at a sign out (`kept`). `Close` is
the end of the activity, which cancels the view model's commands while the process
and its workers live on: a sign out that waits for the server deletes bundle and
cache all the same and rethrows, and nobody cancels the work.

## Runs

| Run | Configuration | Question and result |
|---|---|---|
| `users` | `AS_users.cfg`: 2 crons, 2 requests that give status, due date, type, rule (daily, with an UNTIL or not), overdue action, assignees or pool, or delete; 1 created task with a pool of 3, 2 edits, 1 fault | Is a series continued exactly once, by one head, in the order of its pool, whatever crons and users do, is no day passed over before it has come, and is every change one step of `Series`? Yes. |
| `crons` | `AS_crons.cfg`: 2 crons, 2 series, a daily one and one of every second day, east of UTC, 2 faults | Does each occurrence get exactly one task where crons alone advance a series? Yes, away from midnights and not west of UTC. |
| `drain` | `AS_drain.cfg`: 1 cron, 1 request that completes, reopens, reschedules, stops or gives another type or rule, 2 series, batch of 1, 1 edit, a fault | Is every overdue task without an overdue action converted in the end? Yes. |
| `west` | `AS_west.cfg` | `NoDuplicateDue` fails west of UTC: see findings. |
| `stuck` | `AS_stuck.cfg` | `BacklogDrains` fails when tasks carry a `set_status` rule: see findings. |
| `actions` | `OA_actions.cfg`: 2 tasks of every recurring type with every pair of overdue actions, 2 crons, 1 request that gives status, due date, type, rule or action, or deletes, 1 edit, 1 fault | Are rules valid, schedules free of drift, gaps and early ends, and actions taken in the end? Yes. |
| `puts` | `TL_puts.cfg`: 2 PUTs of any lists of up to 3 names, 1 task | Is the sync by difference an assignment, are statuses complete after PUTs in turn, is there never a second initial status nor a dangling one? Yes. |
| `requests` | `MB_requests.cfg`: 2 users, 2 tasks, 2 requests of any kind | Do the handlers' checks suffice for requests in turn, and the schema for requests at once, and is every request one step of `Roster`? Yes. |
| `admins` | `MB_admins.cfg` | `AdminKept` fails when requests overlap: see findings. |
| `triggers` | `CT_triggers.cfg`: 3 tasks of every type, two of which trigger each other, 2 PATCHes of every kind, 1 change of relations or deletion | Is a completion with its resets one step, are no writes lost, nothing completed twice, and does every PATCH end? Yes. |
| `tokens` | `TK_tokens.cfg`: 3 commands of any kind, any number of pairs | Has a login one refresh token, is the keychain's login alive, and is only a dead one given up? Yes, but for the races and losses named. |
| `app` | `MA_app.cfg`: 2 accounts, 2 commands at once, 1 edit, 1 kill or end of the activity | Are the tasks shown the account's, is nothing left of a session, are acknowledged edits kept? Yes, but for the circumstances named. |

**Bounds and why they are enough.** The races modelled are between two transactions
on one row or one table, so two crons and two requests show each order of their
steps; the third in a row meets the state the first two left. `MaxFields = 1` lets a
request change one kind of thing besides the status (due date; type and rule;
overdue action; assignees; pool): what two of them do together in the code is what
each does, and a second request may give the other. The theorems have no such bound.
In `drain` a request gives no overdue action: enough tasks with one keep all others
out of the batch, which is the finding `stuck`. A series of four days has room for a
backlog of two and a successor, so the turn of each is distinct in a pool of three.
A fault more than the number of steps between two commits of one tick adds no new
state to return to. Lists of three names over three names contain every way to keep,
drop, add, reorder and recategorise; the invalid ones are included and refused.
Three tasks in `triggers` are a circle of two, the smallest in which completions
deadlock, and a third whose relation to the others comes and goes. Three commands in
`tokens` are two that race and one that logs in or out beside them; pairs are not
bounded, since each command gets at most two. In `app` a second command is one that
was decided before the first had its answer; a third one waits for the same. One
mishap per behaviour, a kill, the end of the activity or a bundle that cannot be
deleted (`OneMishap`): after the last of these the properties promise nothing of
bundles any more. The theorems have none of these bounds. Two
tasks in `actions` are two different actions in one batch, so that one may fail or be
skipped and the other not. Symmetry is used among crons, requests, users and tasks
that nothing tells apart, and never in a run with a liveness property.

The effort and priority endpoints (`Statuses = FALSE`) differ from the statuses'
by `ON DELETE SET NULL` alone; `NoDanglingLevel` is proved for both, the runs
instantiate the statuses. The crowded case of `ActionsAreTaken` (as many
`set_status` tasks as a batch holds) is excepted in the property itself.

**Fairness.** `FairSpec` of `AccumulatingSeries` and `OverdueActions` asks for weak
fairness of each cron's step, because a cron goroutine runs for as long as its
server does, errors of one task do not end it and a restarted server ticks at once;
and for weak fairness of a request's end, because a handler that has locked a row
commits or rolls back. The action that writes a task needs strong fairness: its
UPDATE waits in the row's lock queue, and PostgreSQL does not let later requests
pass it for ever, although the row is not free all the time. Users, faults and the
clock owe nothing. `CompletionTriggers` asks for weak fairness of each PATCH's next
step, whichever it is: a handler goes on unless it waits for a lock, and what it
waits for in a circle is `BreakDeadlock`'s, a step of its own. `Fail` is no part of
that step, so nothing ends by failing. Weak fairness is enough for `RequestsEnd`
because nobody overtakes a waiting PATCH for ever: there are finitely many, and each
releases what it holds. `Tokens` and `MobileApp` have no fairness and state no
liveness: a user may never come back from the browser, and an answer may never
arrive. Deadlock is checked in every run but `triggers` and `tokens`, where each
request or command is made once and the system stops when all are over.

## Findings

Each is a run with `"expect": "violation"`; the counterexample is TLC's.

* **west** - `due_at <= now` is decided on UTC dates, occurrences on local
  midnights. West of UTC a task is listed before its own midnight: the next
  occurrence after now is its own due date, the successor is due the same day and
  overdue again, and every tick adds one more task.
* **stuck** - validation lets a `fixed_accumulating` task carry a `set_status` or
  `clear_due_date` action, but a CHECK forbids it on the `one_off` task a
  conversion makes. Each attempt fails and the task keeps its place at the front
  of the batch; a batch full of them keeps all others out (those with
  `clear_due_date` until their grace period ends).
* **admins** - two admins demoted or removed at once leave the space without one:
  the guard counts in the statement's snapshot.

Disagreements that have no run of their own, because they repeat the causes
above or concern a behaviour no text of the repository denies:

* *Overlapping PUTs of statuses.* `replaceLevels` chooses between UPDATE, INSERT
  and DELETE by names it listed without a lock. Two valid PUTs at once may leave a
  space without an initial or a completion status, although each was refused
  unless it had both (`task_level_handlers.go:103`). `CompleteInTurn` holds.
* *Assignees.* `fetchMemberSet` takes no lock (`task_handlers.go:745`): a user is
  assigned while being removed from the space, and stays assigned.
  `AssigneesInTurn` holds.
* *Requests beside the overdue action cron.* `advanceOverdueTask` computes a due date
  from the row the cron listed and re-checks only the kind of action
  (`overdue_action.go:106`). A due date, rule or type the user gave in between is
  answered with a date of the old schedule, or with none if the old rule was
  exhausted, although the new one is not. The model does the same, and the
  properties say what is left to promise: `StaysOnSchedule` and
  `NothingAheadSkipped` count anew from a date written over another schedule, and
  `EndsExhausted` speaks of rows given no other schedule since they were listed.
* *Requests beside the accumulating cron.* The conversion counts by the rule and the
  date of `GetTask` (`overdue.go:46`), which takes no lock, and hands them to the
  successor. A rule changed before the UPDATE is lost, and if the change was to
  extend its UNTIL, the series is lost with it. `SeriesNeverDropped` speaks of the
  rule the cron went by, and `SkippedDaysHavePassed` counts from what the cron
  wrote.
* *Made `fixed_accumulating` again.* A task that was converted or completed may be
  given its old type by a PATCH (`task_handlers.go:431`). It is converted or
  completed a second time, beside the successors it has, and two tasks then stand
  for one series of the user's. The model calls the second a series of its own
  (see above); no text says whether that is meant.
* *Owners.* Two owners demoted or deleted at once leave the server without one, and
  a profile update restores the owner status it read (`OwnerLeft`,
  `StatusAsked`; as `admins`).
* *Midnight.* With `StartTime` on a local midnight (`Offset = 0` in
  `AS_crons.cfg`) `NoOccurrenceSkipped` fails: an occurrence whose midnight is the
  very instant of a tick is neither missed (strictly before now) nor next
  (strictly after). `OnlyTheInstantIsLost` proves that nothing else is lost.
* *Completing early.* A fixed task that is completed before its due date's midnight
  has that very date as the next occurrence after now (`recurrence.go`): it is due
  again on the day it was completed for. `StaysOnSchedule` and `NothingAheadSkipped`
  hold; no text says otherwise.
* *Overlapping completions.* Two PATCHes that complete tasks triggering one another
  may each reset the other's task or not, by the order of their commits. A task
  made `one_off` after its type was read is reset all the same, and the comment at
  `recurrence.go:178-181` speaks of `on_dependency` tasks only; `Dependencies` allows
  it for tasks in `moved`.
* *Two terminals.* A command that is refused for an old token deletes the keychain's
  entry, also one another command has saved since
  (`http.go:283`). `ForgetsOnlyDead` speaks of the login the command loaded.
* *Mobile app.* A `refresh` that waits behind a sign out throws outside of `loading`
  and ends the process, possibly before the work is cancelled: the widget then shows
  tasks although `strings.xml:128` says one has to sign in again. `loadMore` behind
  a cached list marks the mixture as fresh (`MobileAppCore.kt:335-353`).
  `refreshMyTasks` shows the cache first, which an edit does not write, and so may
  show an older version than one the user was told of. A background refresh that has
  its answer when the user signs out writes cache and snapshot afterwards. An
  authorization that fails at `currentUser` leaves an active bundle in the store
  while the screen says signed out; one that fails or is killed between its two
  commits leaves a bundle that is not the active one and that nothing deletes
  (`OAuthClient.kt:141-142`). When the activity ends during a sign out, the work and
  the widget of the account stay (`MobileAppCore.kt:302`). The properties except
  these, each by name.

## Proofs

All theorems hold for every value of the constants allowed by the named ASSUMEs:
`CalendarAssumption` (a rule's occurrences are not before its DTSTART),
`SeriesAssumption`, `ActionsAssumption`, `LevelsAssumption`,
`MembershipAssumption`, `TriggersAssumption`, `TokensAssumption` and
`MobileAssumption`, which say no more than what type a constant has, that the
initial list of levels is valid, that created tasks have valid rules, that no task
triggers itself and that commands and PATCHes are finitely many.

* `Recurrence_proofs`: `MissedBeforeNext` (missed occurrences lie strictly between
  the due date and the next), `OnlyTheInstantIsLost` and `RotationIsFair`: from
  whoever is assigned, or nobody, in as many turns as the pool has members each has
  exactly one. The minimum of a set of days comes from the well-foundedness of `<`
  on Nat; that each day of a backlog has one number in it (`EveryDayHasItsNumber`)
  from counting the days before it.
* `AccumulatingSeries_proofs`: `TypeCorrect`, `AtMostOneHead`, `ContinuedOnce`,
  `TurnsFollowThePool`, `PoolsMoveOn`, `NoDayTwice`, `NoDayLeftOut`,
  `NoDayAheadLeftOut`, `NoSeriesDropped` and the refinement `ImplementsSeries`.
  Requests are any the handler accepts; where a theorem supposes less, its ASSUME
  says so. A step changes the table in one of three ways: it starts a series, edits
  one row, or continues one task (`Starts`, `Edits`, `Continues`), and each way
  preserves the invariant `IInv`. `OneHead` alone is not inductive: a request that
  completes a task relies on the row still being what it read (`RowAsRead`), which
  holds because it has the only lock (`OneLockPerRow`); a new series must not
  collide with an old one (`Numbered`); and what a task spawns comes after all
  others of its series (`HeadLast`), so that a task that has spawned is no head of
  that series any more.
  - *Turns.* `TurnsInOrder` compares a task with the one that had the turn before
    it. The invariant `TurnInv` is `TurnsInOrder` with `PoolMovesOn`; `Linked` keeps
    the two tasks apart, `own` tells where a request has stepped in. No hypothesis.
  - *Refinement.* `ImplementsSeries` takes the three ways to the steps of `Series`
    (`StartsSeries`, `EditsSeries`, `ContinuesSeries`). What is new is the order
    inside one continuation: the k-th missed day is before the k+1-st and the
    successor's after all of them (`NthDayOrder`, `ContinuesDays`), and the turns of
    neighbours are one apart (`ContinuesInTurn`). No hypothesis.
  - *Days ahead.* `NoDayAheadLeftOut` supposes only that a rule counts alike from
    each of its days (`CountsAlike`, as one without COUNT does). It is inductive
    with a head being due on a day of the schedule it counts from (`OnRule`): what
    lies between a due date and the next one after an instant had passed by then
    (`NothingAheadBetween`), and the instants processes hold have passed
    (`HeldInstants`). `TakesOver` says when a successor goes on with the schedule of
    the task before it, and when it counts from a date of its own.
  - *One task per day.* `NoDayTwice` and `NoDayLeftOut` suppose `CronsOnly`:
    requests neither complete nor reschedule; they may do everything else. Then due
    dates never change and what a cron holds is still the row's date (`HeldDues`),
    although it read it without a lock. `NoDayTwice` is inductive with a head being
    due after all others of its series (`HeadLatest`), for `Offset <= 0`; the `west`
    run shows why. `NoDayLeftOut` adds that no tick falls on a local midnight
    (`OffMidnight`), that rules count alike, and that requests make no task
    `fixed_accumulating` (`NobodyRestarts`): a series begun by a request has no
    tasks for the days before it.
  - *Endings.* `NoSeriesDropped` needs that the instants processes hold have passed:
    what was exhausted then is exhausted now. `EndsForGood` says so of the rules,
    also when they count from the clock because there is no due date; `NobodyStops`
    that requests give no type but `fixed_accumulating`. Rules may change: a series
    ends only if the rule that was read has ended.
* `OverdueActions_proofs`: `ActionsTypeCorrect`, `RulesStayValid`,
  `SchedulesDoNotDrift`, `NoDayAheadIsSkipped`, `SchedulesEndExhausted`. Every write
  puts one *sound* row in the place of another (`WriteSound`); the two that compute
  what they write are sound because an empty recurrence leads to `Cleared`, never to
  an action without due date (`AppliedSound`, `TransitionSound`). What is listed may
  be stale, so the invariant says of it no more than that it was valid
  (`SeenValid`). The three theorems on schedules add `SchedInv`: every row, and
  every listed one, is due on a day of the schedule it had and not past an
  occurrence to come (`AllOnCourse`, `SeenOnCourse`), and the instants held have
  passed (`HeldInstants`), so that what is ahead of the clock is among the days a
  cron or a completion chooses the first of (`AheadIsLater`). They suppose
  `CountsAlike` and nothing of the requests, which may give any type, rule, date and
  action; a date off the rule is allowed.
* `TaskLevels_proofs`: `LevelsTypeCorrect`, `NeverTwoInitial`, `NoDanglingLevel`,
  `ImplementsLevelList`, `CompleteWithoutOverlap`. There are never two initial
  statuses because in a valid list the initial one comes first, so every row that
  ever gets the initial category has position 0 (`InitialComesFirst`), and positions
  are unique at each commit - two overlapping PUTs included. The refinement adds
  that without overlap at most one request is open and the names it listed are those
  in the table (`OneAtATime`, `ListedIsCurrent`).
* `Membership_proofs`: `MembershipTypeCorrect`; `OnlyUsersAlways` needs nothing but
  foreign keys and cascades. `ImplementsRoster` is the refinement of `Roster`, by a
  step for each kind of request (`WriteIsOneStep`). The four `...WithoutOverlap`
  theorems share the invariant that, without overlap, what the one open request has
  read is current (`OneAtATime`, `ReadIsCurrent`).

* `CompletionTriggers_proofs`: `TriggersTypeCorrect`, `NothingLost`,
  `NeverCompletedTwice` and the refinement `EachPatchIsOneStep`. The invariant
  `TInv` says per PATCH that its task is locked by it and still what it read
  (`Mine`), that every target it has listed is one or has moved since (`Listed`),
  and that those it is through with were reset and locked, or need no reset, or
  have moved (`Handled`). At the commit these add up to `Outcomes`; all other steps
  stutter, or are `Delete` or `Relate`.
* `Tokens_proofs`: `TokensTypeCorrect`, `OneTokenPerLogin`, `KeychainKeepsUp`,
  `GivesUpOnlyDeadLogins`. A login has one refresh token because, without a race, no
  other command is about to swap a token of that login (`Alone`); the keychain comes
  to hold a good one because nobody else has a pair before it is saved (`Fresh`);
  and a refused token stays dead because no pair is issued twice (`Refused`).
* `MobileApp_proofs`: `AppTypeCorrect`, `ListsAreTheAccounts`,
  `EditsAreNotTakenBack`, `SignOutLeavesNothing`. All rest on the mutex: who waits
  for it has done nothing yet (`Waiting`), so a command finds what the one before it
  left, and its answer is not older than what was acknowledged before it asked
  (`Ahead`, `Signed`, `Acks`). `Placed` says what may be waiting in every phase of
  the app; `Kept` and `Tidy` what an account that is not loose has on the device,
  and who will take it away: the session that holds its bundle, the sign in that has
  saved it and not yet made it active (`HalfSaved`), or the view model that is about
  to cancel its work.

The hypotheses of these theorems are what the runs that check the same property
instantiate: `crons` is one tick east of UTC, has rules of every day and every
second day, no requests, midnights at odd instants and ticks at even ones; in
`users` requests give no type but `fixed_accumulating`, and a daily rule or one with
an UNTIL; `actions` has rules of every day and of every second day. Of `crons`, the
theorem is wider than the run: it lets requests reassign, configure, stop and
delete.

The type invariants are proved for all seven state modules. The runs check those of
`OverdueActions`, `Tokens` and `MobileApp`; in the four others a run checks that an
abstract specification is implemented, which says more of the same variables.

**Only model-checked.** The liveness properties `BacklogDrains`, `ActionsAreTaken`
and `RequestsEnd`, which the prover does not treat. Every invariant and action
property of the passing runs is proved.

## What is not modelled

Daylight saving (midnights at a varying distance from UTC) and several timezones
in one table; the enumeration of an RRULE; titles, descriptions, icons, tags and
the activity log; search, sorting and pagination, which change nothing; password
hashing and breach checks; the MCP adapter, generated code, configuration and the
web UI host, which keep no state; the web client. Deleting a whole space, which
removes its rows by cascade. Authorization codes beyond their one use, consent
pages, OIDC login, account linking, web sessions and the password throttle. In the
mobile client: spaces, recipes, search, selection, deletion, profile, deep links,
notifications and the iOS app. Components marked `partly` or `not_modelled` in
`PROJECT.json` say what is missing.

About three quarters of the repository's lines are generated (the API client,
server and validators under `src/api/gen`, the queries under `database/gen`) or
user interface. They copy, encode and draw; a definition that claimed them would
translate nothing. The models stand for the code that decides.

## What is left

* Spaces renamed and deleted beside requests that have read their slug, and the
  activity log as the history of the tables.
* Two first logins of one person at once (`oidc.go`), and account linking, where the
  consent of one session is used by another.
* Several servers and several refreshes at a time in `MobileApp`; the iOS app,
  which clears selections without the mutex.
* Longer runs of series in different timezones of one space.
