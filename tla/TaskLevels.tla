----------------------------- MODULE TaskLevels -----------------------------
(***************************************************************************)
(* The statuses of one space, or its effort or priority levels, the PUT    *)
(* requests that replace them and the tasks that refer to them.            *)
(*                                                                         *)
(* A PUT lists the names in the table, deletes those it does not keep,     *)
(* updates those it keeps and inserts the others, in one READ COMMITTED    *)
(* transaction.  The rows it writes stay locked until it commits, so two   *)
(* such transactions write one after the other (or deadlock, and one is    *)
(* rolled back): writing and committing are one action.  The names it      *)
(* listed are not locked, and may be out of date by then.                  *)
(***************************************************************************)
EXTENDS Integers, Sequences, FiniteSets

CONSTANTS
  Names,      \* names a level may have
  None,       \* no level: a NULL, or a task that does not exist
  Statuses,   \* TRUE: statuses; FALSE: effort or priority levels
  Lists,      \* the lists requests give
  Start,      \* the list the space was created with
  Tasks, Requests

\* Categories, by their place in the required order.
Initial      == 0
Intermediate == 1
Completion   == 2
Phases == IF Statuses THEN {Initial, Intermediate, Completion} ELSE {Initial}

Item == [name : Names, phase : Phases]
Row  == [name : Names, phase : Phases, position : Nat]

\* Mutant: any order of categories.
AnyOrder(list) == TRUE

\* validateStatusCategoryOrdering.
OrderedCategories(list) ==
  \A i, j \in DOMAIN list : i < j => list[i].phase <= list[j].phase

\* SpaceTaskStatusesReplace: exactly one initial, at least one completion.
ValidStatuses(list) ==
  /\ \E i \in DOMAIN list : list[i].phase = Initial
  /\ \A i, j \in DOMAIN list :
       list[i].phase = Initial /\ list[j].phase = Initial => i = j
  /\ \E i \in DOMAIN list : list[i].phase = Completion
  /\ OrderedCategories(list)

DistinctNames(list) ==
  \A i, j \in DOMAIN list : list[i].name = list[j].name => i = j

Valid(list) == DistinctNames(list) /\ (Statuses => ValidStatuses(list))

\* Any other request is refused without a trace.
ValidLists == {list \in Lists : Valid(list)}

ASSUME LevelsAssumption ==
  /\ None \notin Names
  /\ Statuses \in BOOLEAN
  /\ Lists \subseteq Seq(Item)
  /\ Start \in Lists /\ Valid(Start)

VARIABLES
  levels,    \* the table: a set of rows
  task,      \* per task: the name of its level
  req,       \* per PUT: what it asks for and the names it listed
  overlap    \* history: have two PUTs ever been open at once?

vars == <<levels, task, req, overlap>>

NamesIn(list) == {list[k].name : k \in DOMAIN list}
LevelNames    == {x.name : x \in levels}

RowOf(list, k) == [name |-> list[k].name, phase |-> list[k].phase,
                   position |-> k - 1]

Idle == [pc |-> "idle", items |-> <<>>, listed |-> {}]

TypeOK ==
  /\ levels \subseteq Row
  /\ task \in [Tasks -> Names \cup {None}]
  /\ req \in [Requests -> [pc : {"idle", "listed"}, items : Lists \cup {<<>>},
                           listed : SUBSET Names]]
  /\ overlap \in BOOLEAN

Init ==
  /\ levels = {RowOf(Start, k) : k \in DOMAIN Start}
  /\ task = [t \in Tasks |-> None]
  /\ req = [r \in Requests |-> Idle]
  /\ overlap = FALSE

-----------------------------------------------------------------------------
(***************************************************************************)
(* replaceLevels.                                                          *)
(***************************************************************************)
ListNames(r, items) ==
  /\ req[r].pc = "idle"
  /\ req' = [req EXCEPT ![r] = [pc |-> "listed", items |-> items,
                                listed |-> LevelNames]]
  /\ overlap' = (overlap \/ \E s \in Requests : req[s].pc # "idle")
  /\ UNCHANGED <<levels, task>>

\* Mutant: what the list leaves out stays.
RemoveNothing(r) == {}

ToRemove(r) == req[r].listed \ NamesIn(req[r].items)
ToCreate(r) == NamesIn(req[r].items) \ req[r].listed

\* Mutant: an update sets the position and the icon only.
KeepingCategory(r, k) ==
  LET items == req[r].items
  IN  IF \E x \in levels : x.name = items[k].name
      THEN {[x EXCEPT !.position = k - 1] :
              x \in {y \in levels : y.name = items[k].name}}
      ELSE IF items[k].name \in req[r].listed THEN {} ELSE {RowOf(items, k)}

\* The row item k leaves: an UPDATE of a name that is gone matches no row.
Written(r, k) ==
  LET items == req[r].items
  IN  IF items[k].name \in req[r].listed \ LevelNames
      THEN {} ELSE {RowOf(items, k)}

\* Mutant: the count of tasks is not taken.
NeverUsed(name) == FALSE

Used(name) == \E t \in Tasks : task[t] = name

After(r) ==
  {x \in levels : x.name \notin ToRemove(r) \cup NamesIn(req[r].items)}
    \cup UNION {Written(r, k) : k \in DOMAIN req[r].items}

\* UNIQUE (space_slug, position), checked at the commit.
UniquePositions(rows) ==
  \A x, y \in rows : x.position = y.position => x = y

\* ON DELETE SET NULL, for effort and priority levels.
TasksAfter(r) ==
  [t \in Tasks |-> IF task[t] \in ToRemove(r) THEN None ELSE task[t]]

\* A status some task has cannot be deleted; a name cannot be created twice.
Replace(r) ==
  /\ req[r].pc = "listed"
  /\ Statuses => \A n \in ToRemove(r) : ~ Used(n)
  /\ ToCreate(r) \cap LevelNames = {}
  /\ UniquePositions(After(r))
  /\ levels' = After(r)
  /\ task' = IF Statuses THEN task ELSE TasksAfter(r)
  /\ req' = [req EXCEPT ![r] = Idle]
  /\ UNCHANGED overlap

\* A validation error, a constraint, a deadlock or a crash: rolled back.
Fail(r) ==
  /\ req[r].pc = "listed"
  /\ req' = [req EXCEPT ![r] = Idle]
  /\ UNCHANGED <<levels, task, overlap>>

(***************************************************************************)
(* Task requests: the foreign key admits names in the table only.  None    *)
(* deletes the task, or clears its effort or priority.                     *)
(***************************************************************************)
SetLevel(t, name) ==
  /\ name # task[t]
  /\ task' = [task EXCEPT ![t] = name]
  /\ UNCHANGED <<levels, req, overlap>>

Next ==
  \/ \E r \in Requests :
       Replace(r) \/ Fail(r) \/ \E items \in ValidLists : ListNames(r, items)
  \/ \E t \in Tasks, name \in LevelNames \cup {None} : SetLevel(t, name)

Spec == Init /\ [][Next]_vars
-----------------------------------------------------------------------------
(***************************************************************************)
(* Properties.                                                             *)
(***************************************************************************)

\* A space never has two initial statuses, however many PUTs run at once,
\* although none of them looks at the categories other PUTs leave.
AtMostOneInitial ==
  Statuses => \A x, y \in levels :
                x.phase = Initial /\ y.phase = Initial => x = y

\* The other half of what a PUT validates: a space has an initial status and
\* a completion status.  Completions of recurring tasks need both.
InitialAndCompletion ==
  Statuses => /\ \E x \in levels : x.phase = Initial
              /\ \E x \in levels : x.phase = Completion

\* That is so at least until two PUTs overlap.
CompleteInTurn == ~ overlap => InitialAndCompletion

\* A task has no level that is not in the table: neither a concurrent PUT nor
\* a concurrent PATCH leaves a dangling name.
TasksKeepLevel == \A t \in Tasks : task[t] # None => task[t] \in LevelNames

\* A PUT acts as one assignment of its list: the sync by difference leaves
\* exactly the rows asked for, or is refused as a whole; and where PUTs overlap
\* it leaves no row that neither was there nor was asked for.
LL == INSTANCE LevelList WITH
        Lists <- ValidLists,
        rows  <- levels,
        asked <- [r \in Requests |-> IF req[r].pc = "listed"
                                     THEN {req[r].items} ELSE {}]
ReplaceIsAssignment == LL!Spec
=============================================================================
