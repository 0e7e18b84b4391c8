------------------------- MODULE AccumulatingSeries -------------------------
(***************************************************************************)
(* fixed_accumulating tasks: the rows of the tasks table, the server       *)
(* processes whose cron turns an overdue one into a backlog of one-off     *)
(* tasks and one successor, and the users whose PATCH requests complete,   *)
(* reschedule, reassign or reconfigure a task at the same time.            *)
(*                                                                         *)
(* Several servers may run on one database, so there are several crons.    *)
(* PostgreSQL runs the transactions at READ COMMITTED: a plain SELECT sees *)
(* the committed rows, an UPDATE or a SELECT ... FOR UPDATE waits for the  *)
(* row's lock and then re-evaluates its WHERE on the committed row.        *)
(*                                                                         *)
(* A series is what one fixed_accumulating task was continued to.  A task  *)
(* that a request makes fixed_accumulating again starts a series anew.     *)
(***************************************************************************)
EXTENDS Recurrence

CONSTANTS
  Crons,      \* one RunAccumulatingCron goroutine per server process
  Clients,    \* concurrent PATCH requests
  Users,      \* user ids, for assignees and pools
  NewTasks,   \* the bodies tasks may be created with
  \* what PATCH requests give
  UserOps, DueDates, TypesGiven, Assignees, Pools,
  BatchSize,  \* LIMIT of ListOverdueAccumulatingTasks (100 in the code)
  StartTime, ClockStep,
  \* bounds; MaxFields: how much else than the status one request changes
  MaxClock, MaxSeries, MaxEdits, MaxFields, MaxFaults

Ops == {"complete", "reopen", "reschedule", "rule", "overdue", "assign", "pool",
        "delete"}

\* Something that a request may leave out: <<>>, or <<x>>.
Maybe(S) == {<<>>} \cup {<<x>> : x \in S}

\* What a request leaves in the row, read values merged in, and the assignees
\* and the pool it gives.
Body ==
  [type  : Types \cup {Deleted},
   rule  : RRules \cup {NoRRule},
   due   : Days \cup {NoDay},
   done  : BOOLEAN,        \* is the status of category completion?
   ruled : BOOLEAN,        \* is overdue_action set (to set_status)?
   who   : Seq(SUBSET Users),
   pool  : Seq(Seq(Users))]

\* ValidateRecurrence, ValidateOverdueActionRule and the table's CHECKs.
Valid(b) ==
  /\ b.type \in Recurring <=> b.rule # NoRRule
  /\ b.ruled => b.due # NoDay /\ b.type \in Recurring

ASSUME SeriesAssumption ==
  /\ Users \subseteq Nat
  /\ NewTasks \subseteq Body
  /\ \A b \in NewTasks : Valid(b) /\ b.type # Deleted
  /\ UserOps \subseteq Ops
  /\ DueDates \subseteq Days \cup {NoDay}
  /\ TypesGiven \subseteq Types
  /\ Assignees \subseteq SUBSET Users
  /\ Pools \subseteq Seq(Users)
  /\ BatchSize \in Nat \ {0}
  /\ {StartTime, MaxClock} \subseteq Times
  /\ ClockStep \in Nat \ {0}
  /\ {MaxSeries, MaxEdits, MaxFields, MaxFaults} \subseteq Nat

VARIABLES
  tasks,    \* the table: a sequence indexed by the BIGSERIAL id
  clock,
  cron,     \* per cron: where it is in its tick and what it holds
  client,   \* per request: the row it locked and read
  started,  \* history: how many series there have been
  edits, faults   \* counted only to bound them

vars == <<tasks, clock, cron, client, started, edits, faults>>

Task ==
  [from   : Nat,            \* source of its "spawns" relation, 0 if none
   type   : Types \cup {Deleted},
   rule   : RRules \cup {NoRRule},
   due    : Days \cup {NoDay},
   done   : BOOLEAN,
   ruled  : BOOLEAN,
   who    : SUBSET Users,   \* assignees
   pool   : Seq(Users),
   \* history
   series : Nat,
   prev   : Nat,            \* the task whose turn came before, 0 if none
   own    : BOOLEAN,        \* assignees or pool are not those it was spawned
                            \* with or handed on, but changed since
   origin : Days \cup {NoDay}]  \* the day the schedule of a head counts from

NoTask == [from |-> 0, type |-> Deleted, rule |-> NoRRule, due |-> NoDay,
           done |-> FALSE, ruled |-> FALSE, who |-> {}, pool |-> <<>>,
           series |-> 0, prev |-> 0, own |-> FALSE, origin |-> NoDay]

IdleCron   == [pc |-> "idle", now |-> 0, list |-> {}, id |-> 0,
               rule |-> NoRRule, due |-> NoDay]
IdleClient == [pc |-> "idle", id |-> 0, now |-> 0, read |-> NoTask]

TypeOK ==
  /\ tasks \in Seq(Task)
  /\ clock \in Times
  /\ cron \in [Crons -> [pc : {"idle", "listed", "read"}, now : Times,
                         list : SUBSET Nat, id : Nat,
                         rule : RRules \cup {NoRRule}, due : Days \cup {NoDay}]]
  /\ client \in [Clients -> [pc : {"idle", "locked"}, id : Nat, now : Times,
                             read : Task]]
  /\ started \in Nat
  /\ edits \in Nat
  /\ faults \in Nat

Ids         == DOMAIN tasks
IsHead(i)   == tasks[i].type = Accumulating

\* Mutant: the row is read with GetTask, which takes no lock.
NeverLocked(i) == TRUE

Unlocked(i) == \A c \in Clients : client[c].pc = "locked" => client[c].id # i

Init ==
  /\ tasks = <<>>
  /\ clock = StartTime
  /\ cron = [w \in Crons |-> IdleCron]
  /\ client = [c \in Clients |-> IdleClient]
  /\ started = 0
  /\ edits = 0
  /\ faults = 0

-----------------------------------------------------------------------------
(***************************************************************************)
(* Spawning.  A spawned task never carries an overdue action; its          *)
(* assignees are the pool's next turn or else those of the source task.    *)
(***************************************************************************)
Turn(i, step) ==
  LET next == AdvanceRotation(tasks[i].pool, tasks[i].who, step)
  IN  IF next = {} THEN tasks[i].who ELSE next

\* A schedule counts from the day it was given, for as long as it goes on from
\* the rule and the due date in the row.  Otherwise it counts from next.
OriginOf(i, rule, due, next) ==
  IF tasks[i].origin # NoDay /\ tasks[i].rule = rule /\ tasks[i].due = due
  THEN tasks[i].origin ELSE next

SpawnTaskFromTemplate(i, type, rule, due, step) ==
  [from |-> i, type |-> type, rule |-> rule, due |-> due,
   done |-> FALSE, ruled |-> FALSE, who |-> Turn(i, step),
   pool |-> tasks[i].pool,
   series |-> tasks[i].series, prev |-> IF step = 0 THEN i ELSE Len(tasks) + step,
   own |-> FALSE, origin |-> NoDay]

\* The rotation pool of a task that is handed over is deleted.
\* Mutant: it is kept.
KeepPool(i, handedOver) == tasks[i].pool

PoolAfter(i, handedOver) == IF handedOver THEN <<>> ELSE tasks[i].pool

\* Mutant: without missed occurrences nothing is spawned.
SuccessorOfBacklog(i, series, rule, due, next, step) ==
  IF next = NoDay \/ step = 0 THEN <<>>
  ELSE <<[SpawnTaskFromTemplate(i, Accumulating, rule, next, step)
            EXCEPT !.series = series, !.origin = OriginOf(i, rule, due, next)]>>

\* The task that takes over, next being the rule's day after the date due.
Successor(i, series, rule, due, next, step) ==
  IF next = NoDay THEN <<>>
  ELSE <<[SpawnTaskFromTemplate(i, Accumulating, rule, next, step)
            EXCEPT !.series = series, !.origin = OriginOf(i, rule, due, next)]>>

\* Mutant: turns counted from one.
BacklogFromOne(i, days) ==
  [k \in 1 .. Cardinality(days) |->
     SpawnTaskFromTemplate(i, OneOff, NoRRule, NthDay(days, k), k)]

\* Mutant: the latest missed day first.
BacklogBackwards(i, days) ==
  [k \in 1 .. Cardinality(days) |->
     SpawnTaskFromTemplate(i, OneOff, NoRRule,
                           NthDay(days, Cardinality(days) + 1 - k), k - 1)]

Backlog(i, days) ==
  [k \in 1 .. Cardinality(days) |->
     SpawnTaskFromTemplate(i, OneOff, NoRRule, NthDay(days, k), k - 1)]

(***************************************************************************)
(* SpaceTasksCreate.                                                       *)
(***************************************************************************)
CreateTask(b) ==
  /\ started < MaxSeries
  /\ started' = started + 1
  /\ tasks' = Append(tasks,
       [from |-> 0, type |-> b.type, rule |-> b.rule, due |-> b.due,
        done |-> b.done, ruled |-> b.ruled,
        who |-> IF b.who = <<>> THEN {} ELSE b.who[1],
        pool |-> IF b.pool = <<>> THEN <<>> ELSE b.pool[1],
        series |-> started + 1, prev |-> 0, own |-> FALSE,
        origin |-> IF b.type = Accumulating THEN b.due ELSE NoDay])
  /\ UNCHANGED <<clock, cron, client, edits, faults>>

Tick ==
  /\ clock + ClockStep <= MaxClock
  /\ clock' = clock + ClockStep
  /\ UNCHANGED <<tasks, cron, client, started, edits, faults>>

-----------------------------------------------------------------------------
(***************************************************************************)
(* The accumulating cron.                                                  *)
(***************************************************************************)
\* Mutant: due today is not overdue.
OverdueBefore(t) == {i \in Ids : IsHead(i) /\ tasks[i].due # NoDay
                                          /\ tasks[i].due * DayLen < t}

OverdueIds(t) == {i \in Ids : IsHead(i) /\ IsDue(tasks[i].due, t)}

\* process: take the time once, list the first BatchSize overdue ids.
ListOverdue(w) ==
  /\ cron[w].pc = "idle"
  /\ LET overdue == OverdueIds(clock)
     IN cron' = [cron EXCEPT ![w] =
          [IdleCron EXCEPT !.pc = "listed", !.now = clock,
           !.list = {i \in overdue :
                       Cardinality({j \in overdue : j <= i}) <= BatchSize}]]
  /\ UNCHANGED <<tasks, clock, client, started, edits, faults>>

\* processOneOverdueTask: re-read the next task of the list without a lock,
\* and re-check it.
ReadTask(w) ==
  /\ cron[w].pc = "listed"
  /\ \E i \in cron[w].list :
       /\ \A j \in cron[w].list : i <= j
       /\ cron' = IF IsHead(i) /\ IsDue(tasks[i].due, cron[w].now)
                  THEN [cron EXCEPT ![w].pc = "read", ![w].id = i,
                                    ![w].rule = tasks[i].rule,
                                    ![w].due = tasks[i].due,
                                    ![w].list = @ \ {i}]
                  ELSE [cron EXCEPT ![w].list = @ \ {i}]
  /\ UNCHANGED <<tasks, clock, client, started, edits, faults>>

\* The transaction is over, committed or not: on to the next task.
Leave(w) == [cron EXCEPT ![w].pc = "listed", ![w].id = 0,
                         ![w].rule = NoRRule, ![w].due = NoDay]

\* Mutant: without AND recurrence_type = 'fixed_accumulating'.
CanConvertAny(i) == ~ tasks[i].ruled

\* The statement ConvertAccumulatingToOneOff matches the committed row, and
\* the table's CHECK (no overdue_action on a one_off task) lets it through.
CanConvert(i) == IsHead(i) /\ ~ tasks[i].ruled

(***************************************************************************)
(* ProcessAccumulatingTask up to the commit.  The UPDATE waits for the row *)
(* lock and holds it from then on, so the rest runs on a stable row; but   *)
(* the rule and the due date it counts by are those it read before.        *)
(***************************************************************************)
Convert(w) ==
  /\ cron[w].pc = "read"
  /\ LET i      == cron[w].id
         rule   == cron[w].rule
         due    == cron[w].due
         missed == MissedOccurrences(rule, due, cron[w].now)
         next   == NextDue(rule, due, cron[w].now)
     IN /\ Unlocked(i)
        /\ tasks' = IF CanConvert(i)
                    THEN [tasks EXCEPT ![i] =
                            [@ EXCEPT !.type = OneOff, !.rule = NoRRule,
                                      !.pool = PoolAfter(i, TRUE),
                                      !.own = FALSE, !.origin = NoDay]]
                           \o Backlog(i, missed)
                           \o Successor(i, tasks[i].series, rule, due, next,
                                        Cardinality(missed))
                    ELSE tasks
  /\ cron' = Leave(w)
  /\ UNCHANGED <<clock, client, started, edits, faults>>

FinishTick(w) ==
  /\ cron[w].pc = "listed"
  /\ cron[w].list = {}
  /\ cron' = [cron EXCEPT ![w] = IdleCron]
  /\ UNCHANGED <<tasks, clock, client, started, edits, faults>>

\* The transaction of one task fails: it is rolled back and reported, and the
\* tick goes on with the next task.
FailTask(w) ==
  /\ faults < MaxFaults
  /\ cron[w].pc = "read"
  /\ cron' = Leave(w)
  /\ faults' = faults + 1
  /\ UNCHANGED <<tasks, clock, client, started, edits>>

\* The server dies: the open transaction is rolled back, and the cron fires
\* again as soon as the process is back.
Crash(w) ==
  /\ faults < MaxFaults
  /\ cron[w].pc # "idle"
  /\ cron' = [cron EXCEPT ![w] = IdleCron]
  /\ faults' = faults + 1
  /\ UNCHANGED <<tasks, clock, client, started, edits>>

-----------------------------------------------------------------------------
(***************************************************************************)
(* SpaceTasksUpdate.  GetTaskForUpdate locks the row; the request then     *)
(* takes the time, works on what it read and commits or fails.             *)
(***************************************************************************)
GetTaskForUpdate(c, i) ==
  /\ edits < MaxEdits
  /\ client[c].pc = "idle"
  /\ tasks[i].type # Deleted
  /\ Unlocked(i)
  /\ client' = [client EXCEPT ![c] =
       [pc |-> "locked", id |-> i, now |-> clock, read |-> tasks[i]]]
  /\ edits' = edits + 1
  /\ UNCHANGED <<tasks, clock, cron, started, faults>>

Given(op, S) == IF op \in UserOps THEN S ELSE {}

\* What else than the status b changes in a row.
Changes(row, b) ==
     (IF b.due # row.due THEN {"due"} ELSE {})
  \cup (IF b.type # row.type \/ b.rule # row.rule THEN {"recurrence"} ELSE {})
  \cup (IF b.ruled # row.ruled THEN {"overdue"} ELSE {})
  \cup (IF b.who # <<>> THEN {"who"} ELSE {})
  \cup (IF b.pool # <<>> THEN {"pool"} ELSE {})

\* What request c may ask of the row it read.  A type without a rule clears it.
Asked(c) ==
  LET row == client[c].read
  IN  {b \in
        [type  : {row.type} \cup TypesGiven,
         rule  : {row.rule, NoRRule} \cup Given("rule", RRules),
         due   : {row.due} \cup Given("reschedule", DueDates),
         done  : {row.done} \cup Given("complete", {TRUE}) \cup Given("reopen", {FALSE}),
         ruled : {row.ruled} \cup Given("overdue", BOOLEAN),
         who   : Maybe(Given("assign", Assignees)),
         pool  : Maybe(Given("pool", Pools))] :
        Valid(b) /\ Cardinality(Changes(row, b)) <= MaxFields}

\* HandleCompletionTransition: the status enters the completion category.  The
\* next due date is counted from the old one, by the type and rule asked for.
Completes(c, b) == b.done /\ ~ client[c].read.done
HandsOver(c, b) == Completes(c, b) /\ b.type = Accumulating
Rotates(c, b)   == Completes(c, b) /\ b.type \in InPlace
NextAfter(c, b) ==
  ComputeNextDueAt(b.type, b.rule, client[c].read.due, client[c].now)
Resets(c, b)    == Rotates(c, b) /\ NextAfter(c, b) # NoDay

\* A request that makes a task fixed_accumulating begins a series.
Begins(c, b) == b.type = Accumulating /\ client[c].read.type # Accumulating
SeriesOf(c, b) == IF Begins(c, b) THEN started + 1 ELSE tasks[client[c].id].series

\* The row of task i after the request: UpdateTask, and applyTaskCollections,
\* which writes the assignees and the pool given over those of the rotation.
Updated(c, b, i) ==
  [tasks[i] EXCEPT
    !.type   = IF HandsOver(c, b) THEN OneOff ELSE b.type,
    !.rule   = IF HandsOver(c, b) THEN NoRRule ELSE b.rule,
    !.due    = IF Resets(c, b) THEN NextAfter(c, b) ELSE b.due,
    !.done   = b.done /\ ~ Resets(c, b),
    !.ruled  = b.ruled,
    !.who    = IF b.who # <<>> THEN b.who[1]
               ELSE IF Rotates(c, b) THEN Turn(i, 0) ELSE @,
    !.pool   = IF b.pool # <<>> THEN b.pool[1] ELSE PoolAfter(i, HandsOver(c, b)),
    !.series = SeriesOf(c, b),
    !.own    = \/ b.who # <<>> \/ b.pool # <<>> \/ Rotates(c, b)
               \/ @ /\ ~ HandsOver(c, b),
    !.origin = IF b.type = Accumulating /\ ~ HandsOver(c, b)
               THEN OriginOf(i, b.rule, b.due, b.due) ELSE NoDay]

\* A task that is handed over becomes one_off, which the table's CHECK refuses
\* with an overdue action.
UpdateTask(c, b) ==
  LET i == client[c].id
  IN  /\ HandsOver(c, b) => ~ b.ruled
      /\ tasks' = [tasks EXCEPT ![i] = Updated(c, b, i)]
                  \o (IF HandsOver(c, b)
                      THEN Successor(i, SeriesOf(c, b), b.rule, client[c].read.due,
                                     NextAfter(c, b), 0)
                      ELSE <<>>)
      /\ started' = IF Begins(c, b) THEN started + 1 ELSE started

Patch(c) ==
  /\ client[c].pc = "locked"
  /\ \E b \in Asked(c) : UpdateTask(c, b)
  /\ client' = [client EXCEPT ![c] = IdleClient]
  /\ UNCHANGED <<clock, cron, edits, faults>>

\* A validation error, a constraint violation or a crash: rolled back.
Rollback(c) ==
  /\ client[c].pc = "locked"
  /\ client' = [client EXCEPT ![c] = IdleClient]
  /\ UNCHANGED <<tasks, clock, cron, started, edits, faults>>

\* SpaceTasksDelete: one DELETE, which waits for the row lock.
DeleteTask(i) ==
  /\ "delete" \in UserOps
  /\ edits < MaxEdits
  /\ tasks[i].type # Deleted
  /\ Unlocked(i)
  /\ tasks' = [tasks EXCEPT ![i] = [@ EXCEPT !.type = Deleted, !.origin = NoDay]]
  /\ edits' = edits + 1
  /\ UNCHANGED <<clock, cron, client, started, faults>>

-----------------------------------------------------------------------------
CronStep(w) == ListOverdue(w) \/ ReadTask(w) \/ Convert(w) \/ FinishTick(w)

Next ==
  \/ \E b \in NewTasks : CreateTask(b)
  \/ Tick
  \/ \E w \in Crons : CronStep(w) \/ FailTask(w) \/ Crash(w)
  \/ \E c \in Clients, i \in Ids : GetTaskForUpdate(c, i)
  \/ \E c \in Clients : Patch(c) \/ Rollback(c)
  \/ \E i \in Ids : DeleteTask(i)

Spec == Init /\ [][Next]_vars

(***************************************************************************)
(* A cron goroutine keeps ticking and its waits end; a request ends.  The  *)
(* UPDATE of Convert waits in the row's lock queue, so it cannot be passed *)
(* over for ever: strong fairness.  Clients and the clock owe nothing.     *)
(***************************************************************************)
Fairness ==
  /\ \A w \in Crons : WF_vars(CronStep(w)) /\ SF_vars(Convert(w))
  /\ \A c \in Clients : WF_vars(Patch(c) \/ Rollback(c))

FairSpec == Spec /\ Fairness
-----------------------------------------------------------------------------
(***************************************************************************)
(* Properties.                                                             *)
(***************************************************************************)

\* A series has at most one live head: whatever crons of several servers and
\* requests do to a task at the same time, it is continued by one task only.
OneHead ==
  \A i, j \in Ids :
    IsHead(i) /\ IsHead(j) /\ tasks[i].series = tasks[j].series => i = j

\* A task is turned into its successors once in a series: a step that adds tasks
\* spawned from i finds none spawned from i in that series, and adds all at once.
SpawnedBefore(i) ==
  \E j \in Ids : tasks[j].from = i /\ tasks[j].series = tasks[i].series
SpawnsOnce ==
  [][\A i \in Ids : SpawnedBefore(i) =>
       \A j \in DOMAIN tasks' \ Ids :
         tasks'[j].from = i => tasks'[j].series # tasks[i].series]_vars

\* Where requests give tasks no other type, a head disappears without a successor
\* only if a user deleted it or, now, no occurrence is left of the rule that the
\* cron or the completing request went by: neither a crash nor a lost race nor
\* a stale date ends a series.
Continued(i) ==
  \E j \in DOMAIN tasks' :
    tasks'[j].series = tasks[i].series /\ tasks'[j].type = Accumulating
RanOut(i) ==
  \/ \E w \in Crons : /\ cron[w].pc = "read" /\ cron'[w].pc = "listed"
                      /\ cron[w].id = i
                      /\ LaterOccurrences(cron[w].rule, cron[w].due, clock) = {}
  \/ \E c \in Clients : /\ client[c].pc = "locked" /\ client[c].id = i
                        /\ \E b \in Asked(c) :
                             /\ UpdateTask(c, b)
                             /\ LaterOccurrences(b.rule, tasks[i].due, clock) = {}
SeriesNeverDropped ==
  [][\A i \in Ids : IsHead(i) /\ ~ Continued(i) =>
       tasks'[i].type = Deleted \/ RanOut(i)]_vars

\* A task with a rotation pool is given to the next in the pool after those who
\* had the task before it in the series, or to the first if none of those is in
\* the pool, whether a cron or a completion created it; unless a request, or a
\* rotation in place, has given one of the two tasks to somebody else since.
Follows(pool, prev, who) ==
  \E p \in DOMAIN pool :
    /\ who = {pool[p]}
    /\ IF \E q \in DOMAIN pool : pool[q] \in prev
       THEN pool[IF p = 1 THEN Len(pool) ELSE p - 1] \in prev
       ELSE p = 1
Neighbours(i, j) == tasks[j].prev = i /\ tasks[j].series = tasks[i].series
TurnsInOrder ==
  \A i, j \in Ids :
    Neighbours(i, j) /\ tasks[j].pool # <<>> /\ ~ tasks[i].own /\ ~ tasks[j].own =>
      Follows(tasks[j].pool, tasks[i].who, tasks[j].who)

\* A rotation pool is handed on, never shared: a task that has spawned others
\* keeps none, until a request gives it one.
PoolMovesOn ==
  \A j \in Ids : tasks[j].from # 0 =>
    LET source == tasks[tasks[j].from]
    IN  source.pool = <<>> \/ source.own

\* No two tasks of a series stand for the same day.
NoDuplicateDue ==
  \A i, j \in Ids :
    tasks[i].series = tasks[j].series /\ tasks[i].due = tasks[j].due => i = j

\* Every occurrence between the day a schedule counts from and the head has its
\* task: the crons skip none, however long the servers were down.
NoOccurrenceSkipped ==
  \A i \in Ids : tasks[i].origin # NoDay =>
    \A e \in Occurs[tasks[i].rule][tasks[i].origin] : e < tasks[i].due =>
      \E j \in Ids : tasks[j].series = tasks[i].series /\ tasks[j].due = e

\* Completing a task passes over the days it was late for, but neither a cron
\* nor a completion, at whatever instant it decides, takes a schedule past one
\* of its days whose midnight is still to come.  (Where a cron goes by a rule
\* or a date that a request has replaced since it read the row, the schedule
\* counts from what the cron makes of it.)
SkippedDaysHavePassed ==
  \A i \in Ids : tasks[i].origin # NoDay =>
    \A e \in Occurs[tasks[i].rule][tasks[i].origin] :
      Midnight(e) > clock => tasks[i].due <= e

\* The table as Series sees it.  Every change of it, by crons and requests in
\* any order, is one step of Series: a series goes on from its live task only,
\* and with all that follows at once, in order of days and of turns.
SR == INSTANCE Series WITH
  rows <- [i \in Ids |-> [series |-> tasks[i].series, live |-> IsHead(i),
                          day |-> tasks[i].due, who |-> tasks[i].who,
                          pool |-> tasks[i].pool]]
SeriesGoesOn == SR!Spec

\* An overdue task of the given kind does not stay overdue: the crons convert
\* it, also when more tasks are overdue than one tick takes.
Pending(i, ruled) ==
  /\ i \in Ids
  /\ IsHead(i)
  /\ tasks[i].ruled = ruled
  /\ IsDue(tasks[i].due, clock)
BacklogDrains ==
  \A i \in 1 .. 2 * MaxSeries : Pending(i, FALSE) ~> ~ Pending(i, FALSE)
=============================================================================
