--------------------------- MODULE OverdueActions ---------------------------
(***************************************************************************)
(* Recurring tasks, the overdue action one may carry, the cron that        *)
(* applies it after a grace period, and the PATCH requests that complete,  *)
(* reschedule or reconfigure a task at the same time.                      *)
(*                                                                         *)
(* The cron lists whole rows and later acts on what it listed: its UPDATE  *)
(* waits for the row's lock and is re-evaluated on the committed row, but  *)
(* re-checks no more than the kind of the action.  So it may write what    *)
(* follows from a due date or a rule that a request has replaced since.    *)
(***************************************************************************)
EXTENDS Recurrence

CONSTANTS
  Tasks,      \* task ids
  NewRows,    \* the rows there are at first
  Crons,      \* one RunOverdueActionCron goroutine per server process
  Clients,    \* concurrent PATCH requests
  \* what PATCH requests give
  UserOps, DueDates, TypesGiven, ActionsGiven,
  BatchSize,  \* LIMIT of ListTasksWithOverdueActionDue (100 in the code)
  StartTime, ClockStep,
  \* bounds; MaxFields: how much else than the status one request changes
  MaxClock, MaxEdits, MaxFields, MaxFaults

Ops == {"complete", "reopen", "reschedule", "rule", "overdue", "delete"}

\* The initial status, the one set_status rules name, and a completion one.
Statuses == {"todo", "late", "done"}

Advance   == "advance_recurrence"
SetStatus == "set_status"
ClearDue  == "clear_due_date"
NoAction  == "-"
Actions == {Advance, SetStatus, ClearDue, NoAction}

Overdue == [action : Actions, after : Nat]      \* after: days of grace

NotOverdue == [action |-> NoAction, after |-> 0]

Row ==
  [type    : Types \cup {Deleted},
   rule    : RRules \cup {NoRRule},
   due     : Days \cup {NoDay},
   status  : Statuses,
   overdue : Overdue,
   origin  : Days \cup {NoDay}]   \* history: the due day that a fixed
                                  \* schedule counts from, while it has one

HasAction(row) == row.overdue.action # NoAction

\* ValidateRecurrence, ValidateOverdueActionRule and the table's CHECKs.
Valid(row) ==
  /\ row.type \in Recurring <=> row.rule # NoRRule
  /\ HasAction(row) => row.due # NoDay /\ row.type \in Recurring
  /\ row.overdue.action = Advance => row.type # Accumulating

\* Where a schedule that is given a due day starts.
Start(type, due) == IF type = Fixed THEN due ELSE NoDay

ASSUME ActionsAssumption ==
  /\ Tasks \subseteq Nat /\ IsFiniteSet(Tasks)
  /\ NewRows \subseteq Row
  /\ \A row \in NewRows : /\ Valid(row) /\ row.type # Deleted
                          /\ row.origin = Start(row.type, row.due)
  /\ UserOps \subseteq Ops
  /\ DueDates \subseteq Days \cup {NoDay}
  /\ TypesGiven \subseteq Types
  /\ ActionsGiven \subseteq Overdue
  /\ BatchSize \in Nat \ {0}
  /\ {StartTime, MaxClock} \subseteq Times
  /\ ClockStep \in Nat \ {0}
  /\ {MaxEdits, MaxFields, MaxFaults} \subseteq Nat

VARIABLES
  rows,     \* the table
  late,     \* is there still a status "late"?
  clock,
  cron,     \* per cron: its tick and the rows it listed and has not acted on
  client,   \* per request: the row it locked
  edits, faults   \* counted only to bound them

vars == <<rows, late, clock, cron, client, edits, faults>>

IdleCron   == [pc |-> "idle", now |-> 0, seen |-> {}]
IdleClient == [pc |-> "idle", id |-> 0, now |-> 0]

TypeOK ==
  /\ rows \in [Tasks -> Row]
  /\ late \in BOOLEAN
  /\ clock \in Times
  /\ cron \in [Crons -> [pc : {"idle", "listed"}, now : Times,
                         seen : SUBSET [id : Tasks, row : Row]]]
  /\ client \in [Clients -> [pc : {"idle", "locked"}, id : Tasks \cup {0},
                             now : Times]]
  /\ edits \in Nat
  /\ faults \in Nat

Init ==
  /\ rows \in [Tasks -> NewRows]
  /\ late = TRUE
  /\ clock = StartTime
  /\ cron = [w \in Crons |-> IdleCron]
  /\ client = [c \in Clients |-> IdleClient]
  /\ edits = 0
  /\ faults = 0

Unlocked(i) == \A c \in Clients : client[c].pc = "locked" => client[c].id # i

Tick ==
  /\ clock + ClockStep <= MaxClock
  /\ clock' = clock + ClockStep
  /\ UNCHANGED <<rows, late, cron, client, edits, faults>>

-----------------------------------------------------------------------------
(***************************************************************************)
(* The overdue action cron.                                                *)
(***************************************************************************)
\* Mutant: the grace period must have been over yesterday.
ElapsedBefore(row, t) == HasAction(row) /\ row.due # NoDay /\ row.type \in Recurring
                         /\ row.due + row.overdue.after < UTCDate(t)

\* The WHERE of ListTasksWithOverdueActionDue.
GraceElapsed(row, t) == HasAction(row) /\ row.due # NoDay /\ row.type \in Recurring
                        /\ row.due + row.overdue.after <= UTCDate(t)

ListDue(w) ==
  /\ cron[w].pc = "idle"
  /\ LET due   == {i \in Tasks : GraceElapsed(rows[i], clock)}
         batch == {i \in due : Cardinality({j \in due : j <= i}) <= BatchSize}
     IN  cron' = [cron EXCEPT ![w] = [pc |-> "listed", now |-> clock,
                                      seen |-> {[id |-> i, row |-> rows[i]] : i \in batch}]]
  /\ UNCHANGED <<rows, late, clock, client, edits, faults>>

\* Mutant: only the due date is cleared.
WithoutDue(row) == [row EXCEPT !.due = NoDay, !.origin = NoDay]

\* UpdateTaskOverdueActionClearDueDate and ...Exhausted.
Cleared(row) == [row EXCEPT !.due = NoDay, !.overdue = NotOverdue, !.origin = NoDay]

\* Nobody has given the row another schedule since it was listed.  It may have
\* been advanced.
SameSchedule(row, seen) ==
  row.type = seen.type /\ row.rule = seen.rule /\ row.origin = seen.origin

\* UpdateTaskOverdueActionAdvanceRecurrence.  A date computed from an outdated
\* schedule replaces the one in the row, which then counts from that date.
Advanced(row, seen, next) ==
  [row EXCEPT !.due = next,
              !.origin = IF SameSchedule(row, seen) THEN @ ELSE Start(row.type, next)]

\* Mutant: set_status writes the action's name instead of the status.
WritesActionName(row, seen, t) == [row EXCEPT !.status = seen.overdue.action]

\* applyAdvanceRecurrence, applySetStatus, applyClearDueDate, at time t, with
\* what they compute from the row they listed.
Applied(row, seen, t) ==
  LET next == ComputeNextDueAt(seen.type, seen.rule, seen.due, t)
  IN  CASE seen.overdue.action = Advance   -> IF next = NoDay THEN Cleared(row)
                                              ELSE Advanced(row, seen, next)
        [] seen.overdue.action = SetStatus -> [row EXCEPT !.status = "late"]
        [] OTHER                           -> Cleared(row)

\* The WHERE of the four statements.
StillRuled(row, seen) ==
  row.type # Deleted /\ row.overdue.action = seen.overdue.action

\* A set_status rule whose status was deleted is skipped.
Skipped(seen) == seen.overdue.action = SetStatus /\ ~ late

\* One transaction per task, in the order listed.
NextListed(w) == {x \in cron[w].seen : \A y \in cron[w].seen : x.id <= y.id}

Done(w, x) == [cron EXCEPT ![w].seen = @ \ {x}]

ApplyOverdueAction(w) ==
  /\ cron[w].pc = "listed"
  /\ \E x \in NextListed(w) :
       LET i == x.id
       IN  /\ Skipped(x.row) \/ Unlocked(i)
           /\ rows' = [rows EXCEPT ![i] =
                          IF StillRuled(@, x.row) /\ ~ Skipped(x.row)
                          THEN Applied(@, x.row, cron[w].now) ELSE @]
           /\ cron' = Done(w, x)
  /\ UNCHANGED <<late, clock, client, edits, faults>>

FinishTick(w) ==
  /\ cron[w].pc = "listed"
  /\ cron[w].seen = {}
  /\ cron' = [cron EXCEPT ![w] = IdleCron]
  /\ UNCHANGED <<rows, late, clock, client, edits, faults>>

\* An error, reported; the tick goes on with the next task.
FailTask(w) ==
  /\ faults < MaxFaults
  /\ cron[w].pc = "listed"
  /\ \E x \in NextListed(w) : cron' = Done(w, x)
  /\ faults' = faults + 1
  /\ UNCHANGED <<rows, late, clock, client, edits>>

\* The server dies and comes back; the cron ticks at once.
Crash(w) ==
  /\ faults < MaxFaults
  /\ cron[w].pc # "idle"
  /\ cron' = [cron EXCEPT ![w] = IdleCron]
  /\ faults' = faults + 1
  /\ UNCHANGED <<rows, late, clock, client, edits>>

-----------------------------------------------------------------------------
(***************************************************************************)
(* SpaceTasksUpdate: lock and read the row, take the time, write, commit.  *)
(***************************************************************************)
GetTaskForUpdate(c, i) ==
  /\ edits < MaxEdits
  /\ client[c].pc = "idle"
  /\ rows[i].type # Deleted
  /\ Unlocked(i)
  /\ client' = [client EXCEPT ![c] = [pc |-> "locked", id |-> i, now |-> clock]]
  /\ edits' = edits + 1
  /\ UNCHANGED <<rows, late, clock, cron, faults>>

Given(op, S) == IF op \in UserOps THEN S ELSE {}

\* What else than the status changes from row to b.
Changes(row, b) ==
     (IF b.due # row.due THEN {"due"} ELSE {})
  \cup (IF b.type # row.type \/ b.rule # row.rule THEN {"recurrence"} ELSE {})
  \cup (IF b.overdue # row.overdue THEN {"overdue"} ELSE {})

\* A due date, a type or a rule other than the row's begins a schedule.
Begun(row, b) ==
  [b EXCEPT !.origin = IF {"due", "recurrence"} \cap Changes(row, b) = {}
                       THEN row.origin ELSE Start(b.type, b.due)]

\* The rows a request may ask for, from the one it read.  A type without a rule
\* clears it.
Asked(row) ==
  {Begun(row, b) : b \in {b \in
     [type    : {row.type} \cup TypesGiven,
      rule    : {row.rule, NoRRule} \cup Given("rule", RRules),
      due     : {row.due} \cup Given("reschedule", DueDates),
      status  : {row.status} \cup Given("complete", {"done"}) \cup Given("reopen", {"todo"}),
      overdue : {row.overdue} \cup Given("overdue", ActionsGiven),
      origin  : {NoDay}] :
     Valid(b) /\ Cardinality(Changes(row, b)) <= MaxFields}}

\* HandleCompletionTransition.  The next due date is counted from the one that
\* was read, by the type and rule asked for.  It reopens a task that resets in
\* place; a fixed_accumulating one is handed over to a successor, a task of its
\* own (AccumulatingSeries), and goes on as one_off.
AfterTransition(read, asked, t) ==
  LET next == ComputeNextDueAt(asked.type, asked.rule, read.due, t)
      kept == asked.type = read.type /\ asked.rule = read.rule /\ read.origin # NoDay
  IN  IF asked.status # "done" \/ read.status = "done" THEN asked
      ELSE IF asked.type = Accumulating
           THEN [asked EXCEPT !.type = OneOff, !.rule = NoRRule]
      ELSE IF next = NoDay THEN asked
      ELSE [asked EXCEPT !.due = next, !.status = "todo",
                         !.origin = IF kept THEN read.origin
                                    ELSE Start(asked.type, next)]

\* The CHECKs refuse a one_off row with an overdue action.
UpdateTask(c, asked) ==
  LET i   == client[c].id
      row == AfterTransition(rows[i], asked, client[c].now)
  IN  /\ Valid(row)
      /\ rows' = [rows EXCEPT ![i] = row]

Patch(c) ==
  /\ client[c].pc = "locked"
  /\ client' = [client EXCEPT ![c] = IdleClient]
  /\ UNCHANGED <<late, clock, cron, edits, faults>>
  /\ \E asked \in Asked(rows[client[c].id]) : UpdateTask(c, asked)

Rollback(c) ==
  /\ client[c].pc = "locked"
  /\ client' = [client EXCEPT ![c] = IdleClient]
  /\ UNCHANGED <<rows, late, clock, cron, edits, faults>>

DeleteTask(i) ==
  /\ "delete" \in UserOps
  /\ edits < MaxEdits
  /\ rows[i].type # Deleted
  /\ Unlocked(i)
  /\ rows' = [rows EXCEPT ![i] = [@ EXCEPT !.type = Deleted, !.origin = NoDay]]
  /\ edits' = edits + 1
  /\ UNCHANGED <<late, clock, cron, client, faults>>

\* SpaceTaskStatusesReplace drops a status no task is in, or adds it again.
\* Rules name it without a foreign key.
ReplaceStatuses ==
  /\ edits < MaxEdits
  /\ \A i \in Tasks : rows[i].status = "late" => rows[i].type = Deleted
  /\ late' = ~ late
  /\ edits' = edits + 1
  /\ UNCHANGED <<rows, clock, cron, client, faults>>

\* ConvertAccumulatingToOneOff, which the accumulating cron runs on a task that
\* was due when it read it.  The CHECKs let it through without an action.
ConvertAccumulating(i) ==
  /\ rows[i].type = Accumulating
  /\ rows[i].due # NoDay
  /\ ~ HasAction(rows[i])
  /\ Unlocked(i)
  /\ rows' = [rows EXCEPT ![i] = [@ EXCEPT !.type = OneOff, !.rule = NoRRule]]
  /\ UNCHANGED <<late, clock, cron, client, edits, faults>>

-----------------------------------------------------------------------------
CronStep(w) == ListDue(w) \/ ApplyOverdueAction(w) \/ FinishTick(w)

Next ==
  \/ Tick
  \/ \E w \in Crons : CronStep(w) \/ FailTask(w) \/ Crash(w)
  \/ \E c \in Clients, i \in Tasks : GetTaskForUpdate(c, i)
  \/ \E c \in Clients : Patch(c) \/ Rollback(c)
  \/ \E i \in Tasks : DeleteTask(i) \/ ConvertAccumulating(i)
  \/ ReplaceStatuses

Spec == Init /\ [][Next]_vars

(***************************************************************************)
(* As in AccumulatingSeries: cron goroutines run on, requests end, and a   *)
(* statement in a row's lock queue is not passed over for ever.            *)
(***************************************************************************)
Fairness ==
  /\ \A w \in Crons : WF_vars(CronStep(w)) /\ SF_vars(ApplyOverdueAction(w))
  /\ \A c \in Clients : WF_vars(Rollback(c) \/ Patch(c))

FairSpec == Spec /\ Fairness
-----------------------------------------------------------------------------
(***************************************************************************)
(* Properties.                                                             *)
(***************************************************************************)

\* An action always has the due date and the recurrence it needs, and a
\* recurring task its rule: no statement of a cron or a request, in any order,
\* trips over the table's CHECKs, or leaves a fixed_accumulating task with an
\* advance action, which only validation refuses.
RuleHasDue == \A i \in Tasks : rows[i].type # Deleted => Valid(rows[i])

\* Task i is fixed_non_accumulating and has a schedule: one that a request gave
\* it or, if a cron wrote over that from a row listed before, what it wrote.
Scheduled(i) == rows[i].origin # NoDay

\* The days of task i's schedule.
Schedule(i) == Occurs[rows[i].rule][rows[i].origin]

\* A fixed schedule does not drift: the due day stays on the days that the
\* task's rule counts from where its schedule started, however often crons and
\* completions advance it, late or twice, and however old the due date is that
\* a cron computes from.
StaysOnSchedule ==
  \A i \in Tasks : Scheduled(i) =>
    rows[i].due \in Schedule(i) \cup {rows[i].origin}

\* Occurrences of task i's schedule whose midnight is still to come.
Ahead(i) == {e \in Schedule(i) : Midnight(e) > clock}

\* Nor does it lose a day: no advance, late, repeated, or computed from a due
\* date that has changed since, takes a task past an occurrence still to come.
NothingAheadSkipped ==
  \A i \in Tasks : Scheduled(i) => \A e \in Ahead(i) : rows[i].due <= e

\* What cron w acts on in this step.
ActedOn(w) == {x \in cron[w].seen \ cron'[w].seen : rows'[x.id] # rows[x.id]}

\* A cron that advances a recurrence ends it only when nothing of it is left,
\* from however old a due date it concludes so; unless it listed the task
\* before a request gave it another schedule.
EndsExhausted ==
  [][\A w \in Crons : \A x \in ActedOn(w) :
       Scheduled(x.id) /\ SameSchedule(rows[x.id], x.row)
         /\ x.row.overdue.action = Advance /\ rows'[x.id].due = NoDay
         => Ahead(x.id) = {}]_vars

\* Every action that takes a task off the list is carried out, unless tasks
\* with a set_status rule, which stay on it, fill the batch.
Waiting(i) ==
  /\ rows[i].type # Deleted
  /\ rows[i].overdue.action \in {Advance, ClearDue}
  /\ rows[i].due # NoDay
  /\ rows[i].due + rows[i].overdue.after <= UTCDate(clock)
Crowded == Cardinality({i \in Tasks : rows[i].overdue.action = SetStatus}) >= BatchSize
ActionsAreTaken == \A i \in Tasks : Waiting(i) ~> ~ Waiting(i) \/ Crowded
=============================================================================
