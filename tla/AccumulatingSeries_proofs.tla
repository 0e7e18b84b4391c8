---------------------- MODULE AccumulatingSeries_proofs ----------------------
(***************************************************************************)
(* Theorems about AccumulatingSeries, for any number of crons, clients and *)
(* series, any requests, rules and clock: the type invariant, OneHead and  *)
(* SpawnsOnce, the order of turns, the refinement of Series and, where the *)
(* named hypotheses hold, that no day is left out or taken twice and that  *)
(* no series is dropped.                                                   *)
(*                                                                         *)
(* A step changes the table in one of three ways: it starts a series, it   *)
(* edits one row, or it continues one task (Starts, Edits, Continues       *)
(* below).  The invariant is preserved by each of the three, whichever     *)
(* action takes it.                                                        *)
(***************************************************************************)
EXTENDS AccumulatingSeries, Recurrence_proofs

\* What the processes hold refers to rows of the table, and recurring tasks
\* have a rule.
Known ==
  /\ \A w \in Crons : /\ cron[w].list \subseteq Ids
                      /\ cron[w].pc = "read" => /\ cron[w].id \in Ids
                                                /\ cron[w].rule \in RRules
                                                /\ cron[w].due \in Days
  /\ \A c \in Clients : client[c].pc = "locked" => client[c].id \in Ids
  /\ \A i \in Ids : tasks[i].type \in Recurring => tasks[i].rule \in RRules

\* A locked row still is what its client read, and has one client.
RowAsRead ==
  \A c \in Clients : client[c].pc = "locked" =>
    client[c].read = tasks[client[c].id]

OneLockPerRow ==
  \A c, d \in Clients :
    /\ client[c].pc = "locked"
    /\ client[d].pc = "locked"
    /\ client[c].id = client[d].id
    => c = d

\* Series are numbered, and what a task came from and after has a lower id.
Numbered == \A i \in Ids : tasks[i].series <= started
Linked   == \A i \in Ids : tasks[i].from < i /\ tasks[i].prev < i

\* A head is the last of its series, so that what it spawns comes next.
HeadLast ==
  \A i, j \in Ids :
    tasks[i].type = Accumulating /\ tasks[j].series = tasks[i].series => j <= i

TypeInv  == TypeOK /\ Known
TableInv == Numbered /\ Linked /\ HeadLast

-----------------------------------------------------------------------------
(***************************************************************************)
(* The rows that the actions write.                                        *)
(***************************************************************************)
LEMMA TableShape ==
  ASSUME TypeOK
  PROVE  /\ Ids = 1 .. Len(tasks) /\ Len(tasks) \in Nat
         /\ \A i \in Ids : tasks[i] \in Task
BY LenProperties, ElementOfSeq DEF TypeOK, Ids

LEMMA TableFacts ==
  ASSUME TypeOK, Numbered, Linked
  PROVE  /\ Ids = 1 .. Len(tasks) /\ Len(tasks) \in Nat /\ started \in Nat
         /\ \A j \in Ids : /\ tasks[j].series \in Nat /\ tasks[j].series # started + 1
                           /\ tasks[j].from \in Nat /\ tasks[j].from < j
                           /\ tasks[j].prev \in Nat /\ tasks[j].prev < j
<1>1. /\ Ids = 1 .. Len(tasks) /\ Len(tasks) \in Nat
      /\ \A j \in Ids : tasks[j] \in Task
  BY TableShape
<1>2. started \in Nat
  BY DEF TypeOK
<1>3. ASSUME NEW j \in Ids
      PROVE  /\ tasks[j].series \in Nat /\ tasks[j].series # started + 1
             /\ tasks[j].from \in Nat /\ tasks[j].from < j
             /\ tasks[j].prev \in Nat /\ tasks[j].prev < j
  <2>1. tasks[j].series \in Nat /\ tasks[j].from \in Nat /\ tasks[j].prev \in Nat
    BY <1>1 DEF Task
  <2>2. tasks[j].series <= started /\ tasks[j].from < j /\ tasks[j].prev < j
    BY DEF Numbered, Linked
  <2>3. tasks[j].series # started + 1
    BY <1>2, <2>1, <2>2
  <2> QED BY <2>1, <2>2, <2>3
<1> QED BY <1>1, <1>2, <1>3

LEMMA KnownConstants ==
  /\ NoDay \notin Days /\ 0 \in Times /\ Days \subseteq Nat
  /\ OneOff \notin Recurring /\ Deleted \notin Recurring
  /\ Accumulating \in Recurring /\ Accumulating \notin InPlace
  /\ OneOff # Accumulating /\ Deleted # Accumulating
  /\ OneOff \in Types /\ Accumulating \in Types
<1>1. (LastDay + 1) * DayLen \in Nat \ {0}
  BY CalendarAssumption
<1>2. NoDay \notin Days /\ 0 \in Times /\ Days \subseteq Nat
  BY <1>1, CalendarAssumption DEF Days, NoDay, Times
<1> QED
  BY <1>2
     DEF OneOff, OnDependency, Completion, Fixed, Accumulating, Deleted,
         InPlace, Recurring, Types

\* The assignees of a spawned task are users.
LEMMA TurnType ==
  ASSUME TypeOK, NEW i \in Ids, NEW step \in Nat
  PROVE  Turn(i, step) \subseteq Users
<1> DEFINE pool == tasks[i].pool
           who  == tasks[i].who
<1>1. pool \in Seq(Users) /\ who \in SUBSET Users /\ Users \subseteq Nat
  BY TableShape, SeriesAssumption DEF Task
<1>2. AdvanceRotation(pool, who, step) \subseteq Users
  <2> HIDE DEF pool, who
  <2> QED BY <1>1, AdvanceRotationType
<1> QED BY <1>1, <1>2 DEF Turn

LEMMA OriginType ==
  ASSUME TypeOK, NEW i \in Ids, NEW rule, NEW due, NEW next \in Days \cup {NoDay}
  PROVE  OriginOf(i, rule, due, next) \in Days \cup {NoDay}
BY TableShape DEF OriginOf, Task

LEMMA SpawnType ==
  ASSUME TypeOK, NEW i \in Ids, NEW type \in Types,
         NEW rule \in RRules \cup {NoRRule},
         NEW due \in Days \cup {NoDay}, NEW step \in Nat
  PROVE  SpawnTaskFromTemplate(i, type, rule, due, step) \in Task
<1>1. Turn(i, step) \in SUBSET Users
  BY TurnType
<1>2. /\ tasks[i].pool \in Seq(Users) /\ tasks[i].series \in Nat
      /\ i \in Nat /\ Len(tasks) + step \in Nat
  BY TableShape DEF Task
<1> QED BY <1>1, <1>2 DEF SpawnTaskFromTemplate, Task

\* What is spawned from i has its pool and its next turn.
LEMMA Spawned ==
  ASSUME NEW i, NEW type, NEW rule, NEW due, NEW step
  PROVE  LET task == SpawnTaskFromTemplate(i, type, rule, due, step)
         IN  /\ task.series = tasks[i].series /\ task.from = i
             /\ task.type = type /\ task.rule = rule
             /\ task.due = due /\ task.pool = tasks[i].pool
             /\ task.who = Turn(i, step)
             /\ task.prev = IF step = 0 THEN i ELSE Len(tasks) + step
             /\ ~ task.own /\ task.origin = NoDay /\ ~ task.ruled
BY DEF SpawnTaskFromTemplate

\* The task that Successor adds.
Heir(i, series, rule, due, next, step) ==
  [SpawnTaskFromTemplate(i, Accumulating, rule, next, step)
     EXCEPT !.series = series, !.origin = OriginOf(i, rule, due, next)]

LEMMA HeirShape ==
  ASSUME TypeOK, NEW i \in Ids, NEW series \in Nat, NEW rule \in RRules,
         NEW due, NEW next \in Days \cup {NoDay}, NEW step \in Nat
  PROVE  LET task == Heir(i, series, rule, due, next, step)
         IN  /\ task \in Task
             /\ task.series = series /\ task.from = i
             /\ task.type = Accumulating /\ task.rule = rule
             /\ task.due = next /\ task.pool = tasks[i].pool
             /\ task.who = Turn(i, step)
             /\ task.prev = IF step = 0 THEN i ELSE Len(tasks) + step
             /\ ~ task.own /\ ~ task.ruled
             /\ task.origin = OriginOf(i, rule, due, next)
<1> DEFINE task == SpawnTaskFromTemplate(i, Accumulating, rule, next, step)
           origin == OriginOf(i, rule, due, next)
<1>1. task \in Task
  BY SpawnType, KnownConstants
<1>2. origin \in Days \cup {NoDay}
  BY OriginType
<1>3. /\ task.from = i /\ task.type = Accumulating /\ task.rule = rule
      /\ task.due = next /\ task.pool = tasks[i].pool /\ task.who = Turn(i, step)
      /\ task.prev = IF step = 0 THEN i ELSE Len(tasks) + step
      /\ ~ task.own /\ ~ task.ruled
  BY Spawned
<1>4. Heir(i, series, rule, due, next, step)
        = [task EXCEPT !.series = series, !.origin = origin]
  BY DEF Heir
<1> HIDE DEF task, origin
<1>5. [task EXCEPT !.series = series, !.origin = origin] \in Task
  BY <1>1, <1>2 DEF Task
<1> QED BY <1>1, <1>3, <1>4, <1>5 DEF Task, origin

\* One successor at most.
LEMMA SuccessorShape ==
  ASSUME TypeOK, NEW i \in Ids, NEW series \in Nat, NEW rule \in RRules,
         NEW due, NEW next \in Days \cup {NoDay}, NEW step \in Nat
  PROVE  LET new == Successor(i, series, rule, due, next, step)
         IN  /\ new \in Seq(Task)
             /\ Len(new) = (IF next = NoDay THEN 0 ELSE 1)
             /\ next # NoDay => new[1] = Heir(i, series, rule, due, next, step)
<1> DEFINE task == Heir(i, series, rule, due, next, step)
<1>1. task \in Task
  BY HeirShape
<1> HIDE DEF task
<1>2. CASE next = NoDay
  <2>1. Successor(i, series, rule, due, next, step) = <<>>
    BY <1>2 DEF Successor
  <2> QED BY <1>2, <2>1, EmptySeq
<1>3. CASE next # NoDay
  <2>1. Successor(i, series, rule, due, next, step) = <<task>>
    BY <1>3 DEF Successor, task, Heir
  <2>2. <<task>> \in Seq(Task) /\ Len(<<task>>) = 1 /\ <<task>>[1] = task
    BY <1>1
  <2> QED BY <1>3, <2>1, <2>2 DEF task
<1> QED BY <1>2, <1>3

\* The backlog consists of one-off tasks, one for each day.
LEMMA BacklogShape ==
  ASSUME TypeOK, NEW i \in Ids, NEW days, days \subseteq Days
  PROVE  LET new == Backlog(i, days)
             n   == Cardinality(days)
         IN  /\ n \in Nat /\ new \in Seq(Task) /\ Len(new) = n
             /\ \A k \in 1 .. n :
                  new[k] = SpawnTaskFromTemplate(i, OneOff, NoRRule,
                                                 NthDay(days, k), k - 1)
<1> DEFINE n == Cardinality(days)
           task(k) == SpawnTaskFromTemplate(i, OneOff, NoRRule,
                                            NthDay(days, k), k - 1)
<1>1. n \in Nat
  BY DaysFinite
<1>2. \A k \in 1 .. n : task(k) \in Task
  <2>1. ASSUME NEW k \in 1 .. n PROVE task(k) \in Task
    <3>1. k - 1 \in Nat
      BY <1>1
    <3>2. NthDay(days, k) \in Days \cup {NoDay}
      BY NthDayType
    <3>3. OneOff \in Types /\ NoRRule \in RRules \cup {NoRRule}
      BY KnownConstants
    <3> QED BY <3>1, <3>2, <3>3, SpawnType
  <2> QED BY <2>1
<1>3. Backlog(i, days) = [k \in 1 .. n |-> task(k)]
  BY DEF Backlog
<1> HIDE DEF task, n
<1>4. Backlog(i, days) \in [1 .. n -> Task]
  BY <1>2, <1>3
<1>5. Backlog(i, days) \in Seq(Task)
  BY <1>1, <1>4, SeqDef
<1>6. Len(Backlog(i, days)) = n
  BY <1>1, <1>4, <1>5, LenProperties
<1>7. \A k \in 1 .. n : Backlog(i, days)[k] = task(k)
  BY <1>3
<1> QED BY <1>1, <1>5, <1>6, <1>7 DEF task, n

-----------------------------------------------------------------------------
(***************************************************************************)
(* The three ways to change the table.                                     *)
(***************************************************************************)
Starts ==
  /\ started' = started + 1
  /\ \E row \in Task : /\ tasks' = Append(tasks, row)
                       /\ row.series = started + 1
                       /\ row.from = 0 /\ row.prev = 0
                       /\ row.type \in Recurring => row.rule \in RRules

\* A row goes on in its series, a head only if it was one; or, if it was none,
\* in a series of its own.
GoesOn(row, i) ==
  \/ /\ row.series = tasks[i].series
     /\ started' = started
     /\ row.type = Accumulating => IsHead(i)
  \/ /\ row.series = started + 1
     /\ started' = started + 1
     /\ ~ IsHead(i)

Edits(i) ==
  \E row \in Task :
    /\ tasks' = [tasks EXCEPT ![i] = row]
    /\ row.from = tasks[i].from /\ row.prev = tasks[i].prev
    /\ row.type \in Recurring => row.rule \in RRules
    /\ GoesOn(row, i)
    /\ ~ row.own => /\ ~ tasks[i].own
                    /\ row.who = tasks[i].who /\ row.pool = tasks[i].pool

\* Task i ends in the series given, with a task for each of the days and a new
\* head, if any is next.
ContinuedWith(i, series, rule, due, days, next) ==
  /\ IF IsHead(i) THEN series = tasks[i].series /\ started' = started
     ELSE series = started + 1 /\ started' = started + 1 /\ days = {}
  /\ \E row \in Task :
       /\ tasks' = [tasks EXCEPT ![i] = row]
                     \o Backlog(i, days)
                     \o Successor(i, series, rule, due, next, Cardinality(days))
       /\ row.from = tasks[i].from /\ row.prev = tasks[i].prev
       /\ row.series = series
       /\ row.type = OneOff
       /\ row.origin = NoDay
       /\ ~ row.own => row.who = tasks[i].who /\ row.pool = <<>>

Continues(i) ==
  \E series \in Nat, rule \in RRules, due, next \in Days \cup {NoDay},
     days \in SUBSET Days :
    /\ ContinuedWith(i, series, rule, due, days, next)
    /\ next # NoDay => \A e \in days : e < next

\* A conversion that takes place continues the head it converts.
LEMMA ConvertContinues ==
  ASSUME TypeInv, NEW w \in Crons, Convert(w)
  PROVE  LET i == cron[w].id
         IN  \/ UNCHANGED <<tasks, started>>
             \/ /\ CanConvert(i)
                /\ ContinuedWith(i, tasks[i].series, cron[w].rule, cron[w].due,
                     MissedOccurrences(cron[w].rule, cron[w].due, cron[w].now),
                     NextDue(cron[w].rule, cron[w].due, cron[w].now))
                /\ Continues(i)
<1> DEFINE i      == cron[w].id
           rule   == cron[w].rule
           due    == cron[w].due
           missed == MissedOccurrences(rule, due, cron[w].now)
           next   == NextDue(rule, due, cron[w].now)
           series == tasks[i].series
           row    == [tasks[i] EXCEPT !.type = OneOff, !.rule = NoRRule,
                        !.pool = <<>>, !.own = FALSE, !.origin = NoDay]
<1>1. /\ i \in Ids /\ tasks[i] \in Task /\ rule \in RRules
      /\ due \in Days /\ due # NoDay /\ cron[w].now \in Times
      /\ started' = started
  <2>1. cron[w].pc = "read" /\ cron[w].now \in Times /\ started' = started
    BY DEF Convert, TypeInv, TypeOK
  <2> QED BY <2>1, TableShape, KnownConstants DEF TypeInv, Known
<1>2. CASE ~ CanConvert(i)
  BY <1>1, <1>2 DEF Convert
<1>3. CASE CanConvert(i)
  <2>1. /\ IsHead(i)
        /\ tasks' = [tasks EXCEPT ![i] = row]
                      \o Backlog(i, missed)
                      \o Successor(i, series, rule, due, next, Cardinality(missed))
    BY <1>3 DEF Convert, CanConvert, PoolAfter
  <2>2. missed \in SUBSET Days /\ next \in Days \cup {NoDay}
    BY <1>1, OccurrencesType, NextDueType
  <2>3. /\ row \in Task /\ row.from = tasks[i].from /\ row.prev = tasks[i].prev
        /\ row.series = series /\ series \in Nat
        /\ row.type = OneOff /\ row.origin = NoDay
        /\ row.who = tasks[i].who /\ row.pool = <<>>
    <3>1. <<>> \in Seq(Users) /\ OneOff \in Types
      BY EmptySeq, KnownConstants
    <3> QED BY <1>1, <3>1 DEF Task
  <2> HIDE DEF row
  <2>4. ContinuedWith(i, series, rule, due, missed, next)
    <3> HIDE DEF missed, next, rule, due
    <3> QED BY <1>1, <2>1, <2>3 DEF ContinuedWith
  <2>5. next # NoDay => \A e \in missed : e < next
    BY <1>1, MissedBeforeNext
  <2>6. Continues(i)
    <3> HIDE DEF missed, next, rule, due, series
    <3> QED BY <1>1, <2>2, <2>3, <2>4, <2>5 DEF Continues
  <2> QED BY <1>3, <2>4, <2>6
<1> QED BY <1>2, <1>3

\* What a request may ask for.
LEMMA AskedShape ==
  ASSUME TypeOK, NEW c \in Clients, NEW b \in Asked(c)
  PROVE  /\ b.type \in Types \cup {Deleted} /\ b.rule \in RRules \cup {NoRRule}
         /\ b.due \in Days \cup {NoDay} /\ b.done \in BOOLEAN /\ b.ruled \in BOOLEAN
         /\ b.who # <<>> => b.who[1] \in SUBSET Users
         /\ b.pool # <<>> => b.pool[1] \in Seq(Users)
         /\ b.type \in Recurring <=> b.rule \in RRules
         /\ b.rule # NoRRule <=> b.rule \in RRules
<1> DEFINE row == client[c].read
<1>1. row \in Task
  BY DEF TypeOK
<1>2. /\ b.type \in {row.type} \cup TypesGiven
      /\ b.rule \in {row.rule, NoRRule} \cup Given("rule", RRules)
      /\ b.due \in {row.due} \cup Given("reschedule", DueDates)
      /\ b.done \in {row.done} \cup Given("complete", {TRUE}) \cup Given("reopen", {FALSE})
      /\ b.ruled \in {row.ruled} \cup Given("overdue", BOOLEAN)
      /\ b.who \in Maybe(Given("assign", Assignees))
      /\ b.pool \in Maybe(Given("pool", Pools))
      /\ Valid(b)
  BY DEF Asked
<1> HIDE DEF row
<1>3. /\ b.type \in Types \cup {Deleted} /\ b.rule \in RRules \cup {NoRRule}
      /\ b.done \in BOOLEAN /\ b.ruled \in BOOLEAN
  BY <1>1, <1>2, SeriesAssumption DEF Task, Given
<1>4. b.due \in Days \cup {NoDay}
  BY <1>1, <1>2, SeriesAssumption DEF Task, Given
<1>5. b.who # <<>> => b.who[1] \in SUBSET Users
  <2> SUFFICES ASSUME b.who # <<>> PROVE b.who[1] \in SUBSET Users
    OBVIOUS
  <2>1. PICK x \in Assignees : b.who = <<x>>
    BY <1>2 DEF Maybe, Given
  <2> QED BY <2>1, SeriesAssumption
<1>6. b.pool # <<>> => b.pool[1] \in Seq(Users)
  <2> SUFFICES ASSUME b.pool # <<>> PROVE b.pool[1] \in Seq(Users)
    OBVIOUS
  <2>1. PICK x \in Pools : b.pool = <<x>>
    BY <1>2 DEF Maybe, Given
  <2>2. Pools \subseteq Seq(Users)
    BY SeriesAssumption
  <2> QED BY <2>1, <2>2
<1>7. b.rule # NoRRule <=> b.rule \in RRules
  BY <1>3, CalendarAssumption
<1> QED BY <1>2, <1>3, <1>4, <1>5, <1>6, <1>7 DEF Valid

\* The row that a request writes.
LEMMA UpdatedShape ==
  ASSUME TypeInv, NEW c \in Clients, client[c].pc = "locked", NEW b \in Asked(c)
  PROVE  LET i    == client[c].id
             row  == Updated(c, b, i)
             over == HandsOver(c, b)
         IN  /\ row \in Task
             /\ row.from = tasks[i].from /\ row.prev = tasks[i].prev
             /\ row.series = SeriesOf(c, b)
             /\ row.type = IF over THEN OneOff ELSE b.type
             /\ row.rule = IF over THEN NoRRule ELSE b.rule
             /\ row.due = IF Resets(c, b) THEN NextAfter(c, b) ELSE b.due
             /\ row.ruled = b.ruled
             /\ row.origin = IF b.type = Accumulating /\ ~ over
                             THEN OriginOf(i, b.rule, b.due, b.due) ELSE NoDay
             /\ ~ row.own => /\ row.who = tasks[i].who
                             /\ row.pool = IF over THEN <<>> ELSE tasks[i].pool
                             /\ ~ over => ~ tasks[i].own
<1> DEFINE i    == client[c].id
           over == HandsOver(c, b)
           old  == tasks[i]
           type == IF over THEN OneOff ELSE b.type
           rule == IF over THEN NoRRule ELSE b.rule
           due  == IF Resets(c, b) THEN NextAfter(c, b) ELSE b.due
           done == b.done /\ ~ Resets(c, b)
           who  == IF b.who # <<>> THEN b.who[1]
                   ELSE IF Rotates(c, b) THEN Turn(i, 0) ELSE old.who
           pool == IF b.pool # <<>> THEN b.pool[1] ELSE PoolAfter(i, over)
           series == SeriesOf(c, b)
           own  == \/ b.who # <<>> \/ b.pool # <<>> \/ Rotates(c, b)
                   \/ old.own /\ ~ over
           origin == IF b.type = Accumulating /\ ~ over
                     THEN OriginOf(i, b.rule, b.due, b.due) ELSE NoDay
<1>1. i \in Ids /\ old \in Task /\ client[c].read \in Task /\ client[c].now \in Times
      /\ TypeOK
  BY TableShape DEF TypeInv, TypeOK, Known
<1>2. /\ b.type \in Types \cup {Deleted} /\ b.rule \in RRules \cup {NoRRule}
      /\ b.due \in Days \cup {NoDay} /\ b.done \in BOOLEAN /\ b.ruled \in BOOLEAN
      /\ b.who # <<>> => b.who[1] \in SUBSET Users
      /\ b.pool # <<>> => b.pool[1] \in Seq(Users)
      /\ b.type \in Recurring => b.rule \in RRules
  BY <1>1, AskedShape
<1>3. /\ type \in Types \cup {Deleted} /\ rule \in RRules \cup {NoRRule}
      /\ done \in BOOLEAN /\ b.ruled \in BOOLEAN /\ own \in BOOLEAN
  BY <1>2, KnownConstants
<1>4. due \in Days \cup {NoDay}
  <2>1. client[c].read.due \in Days \cup {NoDay}
    BY <1>1 DEF Task
  <2>2. NextAfter(c, b) \in Days \cup {NoDay}
    BY <1>1, <1>2, <2>1, NextType DEF NextAfter
  <2> QED BY <1>2, <2>2
<1>5. who \in SUBSET Users
  <2>1. old.who \in SUBSET Users /\ 0 \in Nat
    BY <1>1 DEF Task
  <2>2. Turn(i, 0) \in SUBSET Users
    BY <1>1, <2>1, TurnType
  <2> QED BY <1>2, <2>1, <2>2
<1>6. pool \in Seq(Users)
  <2>1. old.pool \in Seq(Users) /\ <<>> \in Seq(Users)
    BY <1>1, EmptySeq DEF Task
  <2> QED BY <1>2, <2>1 DEF PoolAfter
<1>7. series \in Nat
  BY <1>1 DEF SeriesOf, TypeOK, Task
<1>8. origin \in Days \cup {NoDay}
  BY <1>1, <1>2, OriginType
<1>9. ~ own => /\ who = old.who /\ pool = (IF over THEN <<>> ELSE old.pool)
               /\ ~ over => ~ old.own
  BY DEF PoolAfter
<1>10. Updated(c, b, i)
         = [old EXCEPT !.type = type, !.rule = rule, !.due = due, !.done = done,
              !.ruled = b.ruled, !.who = who, !.pool = pool, !.series = series,
              !.own = own, !.origin = origin]
  BY <1>1 DEF Updated, Task
<1> HIDE DEF type, rule, due, done, who, pool, series, own, origin, old
<1> DEFINE row == Updated(c, b, i)
<1>11. /\ row.from = old.from /\ row.prev = old.prev
       /\ row.series = series /\ row.type = type /\ row.rule = rule
       /\ row.due = due /\ row.ruled = b.ruled /\ row.origin = origin
       /\ row.own = own /\ row.who = who /\ row.pool = pool /\ row.done = done
  BY <1>1, <1>10 DEF Task
<1>12. row \in Task
  <2>1. row = [from |-> old.from, type |-> type, rule |-> rule, due |-> due,
               done |-> done, ruled |-> b.ruled, who |-> who, pool |-> pool,
               series |-> series, prev |-> old.prev, own |-> own,
               origin |-> origin]
    BY <1>1, <1>10 DEF Task
  <2>2. old.from \in Nat /\ old.prev \in Nat
    BY <1>1 DEF Task
  <2> HIDE DEF row
  <2> QED BY <1>3, <1>4, <1>5, <1>6, <1>7, <1>8, <2>1, <2>2 DEF Task
<1> HIDE DEF row
<1> QED
  BY <1>9, <1>11, <1>12 DEF type, rule, due, series, origin, old, row

\* A PATCH continues the task it hands over, or edits its row.
LEMMA UpdateTaskShape ==
  ASSUME TypeInv, RowAsRead, NEW c \in Clients, client[c].pc = "locked",
         NEW b \in Asked(c), UpdateTask(c, b)
  PROVE  LET i    == client[c].id
             next == NextDue(b.rule, client[c].read.due, client[c].now)
         IN  \/ /\ HandsOver(c, b)
                /\ ContinuedWith(i, SeriesOf(c, b), b.rule, client[c].read.due,
                                 {}, next)
                /\ Continues(i)
             \/ /\ ~ HandsOver(c, b)
                /\ tasks' = [tasks EXCEPT ![i] = Updated(c, b, i)]
                /\ Edits(i)
<1> DEFINE i      == client[c].id
           series == SeriesOf(c, b)
           due    == client[c].read.due
           next   == NextDue(b.rule, due, client[c].now)
           row    == Updated(c, b, i)
           old    == [tasks EXCEPT ![i] = row]
           over   == HandsOver(c, b)
<1>1. /\ i \in Ids /\ tasks[i] \in Task /\ client[c].read = tasks[i]
      /\ due \in Days \cup {NoDay} /\ client[c].now \in Times
      /\ TypeOK /\ started \in Nat /\ tasks \in Seq(Task)
      /\ IsHead(i) <=> client[c].read.type = Accumulating
  BY TableShape DEF TypeInv, TypeOK, Known, RowAsRead, Task, IsHead
<1>2. /\ row \in Task
      /\ row.from = tasks[i].from /\ row.prev = tasks[i].prev
      /\ row.series = series
      /\ row.type = IF over THEN OneOff ELSE b.type
      /\ row.rule = IF over THEN NoRRule ELSE b.rule
      /\ row.origin = IF b.type = Accumulating /\ ~ over
                      THEN OriginOf(i, b.rule, b.due, b.due) ELSE NoDay
      /\ ~ row.own => /\ row.who = tasks[i].who
                      /\ row.pool = IF over THEN <<>> ELSE tasks[i].pool
                      /\ ~ over => ~ tasks[i].own
  BY UpdatedShape
<1>3. b.type \in Recurring => b.rule \in RRules
  BY <1>1, AskedShape
<1>4. /\ tasks' = old \o (IF over THEN Successor(i, series, b.rule, due,
                                                 NextAfter(c, b), 0) ELSE <<>>)
      /\ started' = IF Begins(c, b) THEN started + 1 ELSE started
  BY DEF UpdateTask
<1>5. old \in Seq(Task)
  <2> HIDE DEF row
  <2>1. i \in 1 .. Len(tasks)
    BY <1>1, TableShape
  <2> QED BY <1>1, <1>2, <2>1, ExceptSeq
<1>6. /\ series = IF Begins(c, b) THEN started + 1 ELSE tasks[i].series
      /\ Begins(c, b) <=> b.type = Accumulating /\ ~ IsHead(i)
  BY <1>1 DEF SeriesOf, Begins
<1>7. CASE over
  <2>1. b.type = Accumulating /\ b.rule \in RRules /\ NextAfter(c, b) = next
    <3>1. b.type = Accumulating
      BY <1>7 DEF HandsOver
    <3>2. b.rule \in RRules
      BY <1>3, <3>1, KnownConstants
    <3> QED
      BY <3>1, <3>2
         DEF NextAfter, ComputeNextDueAt, Fixed, Completion, Accumulating
  <2>2. {} \in SUBSET Days /\ Cardinality({}) = 0
    BY FS_EmptySet
  <2>3. Backlog(i, {}) = <<>>
    <3>1. Backlog(i, {}) \in Seq(Task) /\ Len(Backlog(i, {})) = 0
      BY <1>1, <2>2, BacklogShape
    <3> QED BY <3>1, EmptySeq
  <2>4. next \in Days \cup {NoDay}
    BY <1>1, <2>1, NextDueType
  <2>5. series \in Nat
    BY <1>2 DEF Task
  <2>6. /\ row.type = OneOff /\ row.origin = NoDay
        /\ ~ row.own => row.who = tasks[i].who /\ row.pool = <<>>
    BY <1>2, <1>7
  <2>7. tasks' = old \o Successor(i, series, b.rule, due, next, 0)
    BY <1>4, <1>7, <2>1
  <2> HIDE DEF row, next, series, due, i, old, over
  <2>8. tasks' = old \o Backlog(i, {})
                     \o Successor(i, series, b.rule, due, next, Cardinality({}))
    BY <1>5, <2>2, <2>3, <2>7, ConcatEmptySeq
  <2>9. IF IsHead(i) THEN series = tasks[i].series /\ started' = started
        ELSE series = started + 1 /\ started' = started + 1
    BY <1>4, <1>6, <2>1
  <2>10. ContinuedWith(i, series, b.rule, due, {}, next)
    BY <1>2, <2>6, <2>8, <2>9 DEF ContinuedWith, old
  <2>11. /\ series \in Nat /\ b.rule \in RRules /\ {} \in SUBSET Days
         /\ due \in Days \cup {NoDay} /\ next \in Days \cup {NoDay}
         /\ next # NoDay => \A e \in {} : e < next
    BY <1>1, <2>1, <2>2, <2>4, <2>5
  <2>12. Continues(i)
    BY <2>10, <2>11 DEF Continues
  <2> QED BY <1>7, <2>10, <2>12 DEF over, i, series, due, next
<1>8. CASE ~ over
  <2>1. /\ row.type = b.type /\ row.rule = b.rule
        /\ ~ row.own => /\ ~ tasks[i].own
                        /\ row.who = tasks[i].who /\ row.pool = tasks[i].pool
    BY <1>2, <1>8
  <2>2. tasks' = old \o <<>>
    BY <1>4, <1>8
  <2> HIDE DEF row, i, old, series, over
  <2>3. tasks' = old
    BY <1>5, <2>2, ConcatEmptySeq
  <2>4. GoesOn(row, i)
    BY <1>2, <1>4, <1>6, <2>1 DEF GoesOn
  <2>5. Edits(i)
    BY <1>2, <1>3, <2>1, <2>3, <2>4 DEF Edits, old
  <2> QED BY <1>8, <2>3, <2>5 DEF old, row, i, over
<1> QED BY <1>7, <1>8

-----------------------------------------------------------------------------
(***************************************************************************)
(* What the three kinds of step leave in the table.                        *)
(***************************************************************************)
LEMMA StartsTable ==
  ASSUME TypeOK, Starts
  PROVE  /\ tasks' \in Seq(Task) /\ started' = started + 1
         /\ Ids' = Ids \cup {Len(tasks) + 1} /\ Len(tasks') = Len(tasks) + 1
         /\ \A j \in Ids : tasks'[j] = tasks[j]
         /\ tasks'[Len(tasks) + 1].series = started + 1
         /\ tasks'[Len(tasks) + 1].from = 0
         /\ tasks'[Len(tasks) + 1].prev = 0
         /\ tasks'[Len(tasks) + 1].type \in Recurring =>
              tasks'[Len(tasks) + 1].rule \in RRules
<1>1. PICK row \in Task : /\ tasks' = Append(tasks, row)
                          /\ row.series = started + 1
                          /\ row.from = 0 /\ row.prev = 0
                          /\ row.type \in Recurring => row.rule \in RRules
  BY DEF Starts
<1>2. tasks \in Seq(Task)
  BY DEF TypeOK
<1>3. /\ tasks' \in Seq(Task) /\ Len(tasks') = Len(tasks) + 1
      /\ \A j \in 1 .. Len(tasks) : tasks'[j] = tasks[j]
      /\ tasks'[Len(tasks) + 1] = row
  BY <1>1, <1>2, AppendProperties
<1>4. Ids = 1 .. Len(tasks) /\ Ids' = 1 .. Len(tasks') /\ Len(tasks) \in Nat
  BY <1>2, <1>3, LenProperties DEF Ids
<1>5. Ids' = Ids \cup {Len(tasks) + 1}
  BY <1>3, <1>4
<1> QED BY <1>1, <1>3, <1>4, <1>5 DEF Starts

LEMMA ExceptTable ==
  ASSUME TypeOK, NEW i \in Ids, NEW row \in Task, tasks' = [tasks EXCEPT ![i] = row]
  PROVE  /\ tasks' \in Seq(Task)
         /\ Ids' = Ids /\ Len(tasks') = Len(tasks)
         /\ tasks'[i] = row
         /\ \A j \in Ids \ {i} : tasks'[j] = tasks[j]
<1>1. tasks \in Seq(Task) /\ i \in 1 .. Len(tasks) /\ Ids = 1 .. Len(tasks)
  BY TableShape DEF TypeOK
<1>2. /\ tasks' \in Seq(Task) /\ Len(tasks') = Len(tasks)
      /\ \A j \in 1 .. Len(tasks) :
           tasks'[j] = IF j = i THEN row ELSE tasks[j]
  BY <1>1, ExceptSeq
<1>3. Ids' = 1 .. Len(tasks')
  BY <1>2, LenProperties DEF Ids
<1> QED BY <1>1, <1>2, <1>3

LEMMA EditsTable ==
  ASSUME TypeOK, NEW i \in Ids, Edits(i)
  PROVE  /\ tasks' \in Seq(Task)
         /\ Ids' = Ids /\ Len(tasks') = Len(tasks)
         /\ \A j \in Ids \ {i} : tasks'[j] = tasks[j]
         /\ tasks'[i].from = tasks[i].from /\ tasks'[i].prev = tasks[i].prev
         /\ tasks'[i].type \in Recurring => tasks'[i].rule \in RRules
         /\ GoesOn(tasks'[i], i)
         /\ ~ tasks'[i].own => /\ ~ tasks[i].own
                               /\ tasks'[i].who = tasks[i].who
                               /\ tasks'[i].pool = tasks[i].pool
<1>1. PICK row \in Task :
        /\ tasks' = [tasks EXCEPT ![i] = row]
        /\ row.from = tasks[i].from /\ row.prev = tasks[i].prev
        /\ row.type \in Recurring => row.rule \in RRules
        /\ GoesOn(row, i)
        /\ ~ row.own => /\ ~ tasks[i].own
                        /\ row.who = tasks[i].who /\ row.pool = tasks[i].pool
  BY DEF Edits
<1> QED BY <1>1, ExceptTable

LEMMA ContinuedTable ==
  ASSUME TypeOK, NEW i \in Ids, NEW series \in Nat, NEW rule \in RRules,
         NEW due, NEW days \in SUBSET Days, NEW next \in Days \cup {NoDay},
         ContinuedWith(i, series, rule, due, days, next)
  PROVE  LET n   == Cardinality(days)
             len == Len(tasks)
         IN  /\ tasks' \in Seq(Task) /\ n \in Nat
             /\ Len(tasks') = len + n + (IF next = NoDay THEN 0 ELSE 1)
             /\ Ids' = 1 .. Len(tasks')
             /\ IF IsHead(i) THEN series = tasks[i].series /\ started' = started
                ELSE series = started + 1 /\ started' = started + 1 /\ days = {}
             /\ \A j \in Ids \ {i} : tasks'[j] = tasks[j]
             /\ tasks'[i].from = tasks[i].from /\ tasks'[i].prev = tasks[i].prev
             /\ tasks'[i].series = series /\ tasks'[i].type = OneOff
             /\ tasks'[i].origin = NoDay
             /\ ~ tasks'[i].own => tasks'[i].who = tasks[i].who /\ tasks'[i].pool = <<>>
             /\ \A k \in 1 .. n : tasks'[len + k]
                  = SpawnTaskFromTemplate(i, OneOff, NoRRule, NthDay(days, k), k - 1)
             /\ next # NoDay => tasks'[len + n + 1]
                  = Heir(i, series, rule, due, next, n)
<1> DEFINE n    == Cardinality(days)
           back == Backlog(i, days)
           succ == Successor(i, series, rule, due, next, n)
<1>1. PICK row \in Task :
        /\ tasks' = [tasks EXCEPT ![i] = row] \o back \o succ
        /\ row.from = tasks[i].from /\ row.prev = tasks[i].prev
        /\ row.series = series /\ row.type = OneOff /\ row.origin = NoDay
        /\ ~ row.own => row.who = tasks[i].who /\ row.pool = <<>>
  BY DEF ContinuedWith
<1> DEFINE old == [tasks EXCEPT ![i] = row]
<1>2. tasks \in Seq(Task) /\ i \in 1 .. Len(tasks) /\ Len(tasks) \in Nat
      /\ Ids = 1 .. Len(tasks)
  BY TableShape DEF TypeOK
<1>3. /\ old \in Seq(Task) /\ Len(old) = Len(tasks)
      /\ \A j \in 1 .. Len(tasks) : old[j] = IF j = i THEN row ELSE tasks[j]
  BY <1>1, <1>2, ExceptSeq
<1>4. /\ n \in Nat /\ back \in Seq(Task) /\ Len(back) = n
      /\ \A k \in 1 .. n : back[k]
           = SpawnTaskFromTemplate(i, OneOff, NoRRule, NthDay(days, k), k - 1)
  BY BacklogShape
<1>5. /\ succ \in Seq(Task)
      /\ Len(succ) = (IF next = NoDay THEN 0 ELSE 1)
      /\ next # NoDay => succ[1] = Heir(i, series, rule, due, next, n)
  BY <1>4, SuccessorShape
<1>6. tasks' = (old \o back) \o succ
  BY <1>1
<1> HIDE DEF old, back, succ, n
<1>7. /\ old \o back \in Seq(Task) /\ Len(old \o back) = Len(tasks) + n
      /\ \A j \in 1 .. Len(tasks) + n : (old \o back)[j]
           = IF j <= Len(tasks) THEN old[j] ELSE back[j - Len(tasks)]
  <2>1. /\ old \o back \in Seq(Task) /\ Len(old \o back) = Len(old) + Len(back)
        /\ \A j \in 1 .. Len(old) + Len(back) : (old \o back)[j]
             = IF j <= Len(old) THEN old[j] ELSE back[j - Len(old)]
    BY <1>3, <1>4, ConcatProperties
  <2>2. Len(old) = Len(tasks) /\ Len(back) = n
    BY <1>3, <1>4
  <2> QED BY <2>1, <2>2
<1>8. /\ tasks' \in Seq(Task) /\ Len(tasks') = Len(tasks) + n + Len(succ)
      /\ \A j \in 1 .. Len(tasks) + n + Len(succ) : tasks'[j]
           = IF j <= Len(tasks) + n THEN (old \o back)[j]
                                    ELSE succ[j - (Len(tasks) + n)]
  <2> DEFINE first == old \o back
  <2>1. first \in Seq(Task) /\ Len(first) = Len(tasks) + n /\ tasks' = first \o succ
    BY <1>6, <1>7
  <2> HIDE DEF first
  <2>2. /\ first \o succ \in Seq(Task)
        /\ Len(first \o succ) = Len(first) + Len(succ)
        /\ \A j \in 1 .. Len(first) + Len(succ) : (first \o succ)[j]
             = IF j <= Len(first) THEN first[j] ELSE succ[j - Len(first)]
    BY <1>5, <2>1, ConcatProperties
  <2> QED BY <2>1, <2>2 DEF first
<1>9. Len(succ) \in Nat
  BY <1>5, LenProperties
<1>10. \A j \in Ids : tasks'[j] = IF j = i THEN row ELSE tasks[j]
  <2> SUFFICES ASSUME NEW j \in Ids
               PROVE  tasks'[j] = IF j = i THEN row ELSE tasks[j]
    OBVIOUS
  <2>1. j \in 1 .. Len(tasks) + n + Len(succ) /\ j \in 1 .. Len(tasks) + n
        /\ j <= Len(tasks) + n /\ j <= Len(tasks) /\ j \in 1 .. Len(tasks)
    BY <1>2, <1>4, <1>9
  <2> QED BY <1>3, <1>7, <1>8, <2>1
<1>11. \A k \in 1 .. n : tasks'[Len(tasks) + k] = back[k]
  <2> SUFFICES ASSUME NEW k \in 1 .. n PROVE tasks'[Len(tasks) + k] = back[k]
    OBVIOUS
  <2> DEFINE j == Len(tasks) + k
  <2>1. j \in 1 .. Len(tasks) + n + Len(succ) /\ j \in 1 .. Len(tasks) + n
        /\ j <= Len(tasks) + n /\ ~ (j <= Len(tasks)) /\ j - Len(tasks) = k
    BY <1>2, <1>4, <1>9
  <2> HIDE DEF j
  <2>2. tasks'[j] = back[k]
    BY <1>7, <1>8, <2>1
  <2> QED BY <2>2 DEF j
<1>12. next # NoDay => tasks'[Len(tasks) + n + 1] = succ[1]
  <2> SUFFICES ASSUME next # NoDay PROVE tasks'[Len(tasks) + n + 1] = succ[1]
    OBVIOUS
  <2> DEFINE j == Len(tasks) + n + 1
  <2>1. j \in 1 .. Len(tasks) + n + Len(succ)
        /\ ~ (j <= Len(tasks) + n) /\ j - (Len(tasks) + n) = 1
    BY <1>2, <1>4, <1>5
  <2> HIDE DEF j
  <2>2. tasks'[j] = succ[1]
    BY <1>8, <2>1
  <2> QED BY <2>2 DEF j
<1>13. Ids' = 1 .. Len(tasks')
  BY <1>8, LenProperties DEF Ids
<1>14. IF IsHead(i) THEN series = tasks[i].series /\ started' = started
       ELSE series = started + 1 /\ started' = started + 1 /\ days = {}
  BY DEF ContinuedWith
<1> QED
  BY <1>1, <1>2, <1>4, <1>5, <1>8, <1>10, <1>11, <1>12, <1>13, <1>14 DEF n

\* The rows that are new are of the series that i ends in and take its pool
\* over, one turn after the other; only the last of them is a head.
LEMMA ContinuesTable ==
  ASSUME TypeOK, NEW i \in Ids, Continues(i)
  PROVE  /\ tasks' \in Seq(Task)
         /\ Ids = 1 .. Len(tasks) /\ Len(tasks) \in Nat
         /\ Ids' = 1 .. Len(tasks') /\ Len(tasks') \in Nat
         /\ Ids \subseteq Ids' /\ Len(tasks) <= Len(tasks')
         /\ IF IsHead(i) THEN tasks'[i].series = tasks[i].series /\ started' = started
            ELSE tasks'[i].series = started + 1 /\ started' = started + 1
         /\ \A j \in Ids \ {i} : tasks'[j] = tasks[j]
         /\ tasks'[i].from = tasks[i].from /\ tasks'[i].prev = tasks[i].prev
         /\ tasks'[i].type = OneOff /\ tasks'[i].origin = NoDay
         /\ ~ tasks'[i].own => tasks'[i].who = tasks[i].who /\ tasks'[i].pool = <<>>
         /\ \A j \in Ids' \ Ids :
              /\ tasks'[j].series = tasks'[i].series
              /\ tasks'[j].from = i
              /\ tasks'[j].prev = IF j = Len(tasks) + 1 THEN i ELSE j - 1
              /\ tasks'[j].pool = tasks[i].pool
              /\ ~ tasks'[j].own
              /\ j - Len(tasks) \in Nat \ {0}
              /\ tasks'[j].who = Turn(i, j - Len(tasks) - 1)
              /\ tasks'[j].type = Accumulating =>
                   j = Len(tasks') /\ tasks'[j].rule \in RRules
              /\ tasks'[j].type \in {OneOff, Accumulating}
<1>1. PICK series \in Nat, rule \in RRules,
           due \in Days \cup {NoDay}, next \in Days \cup {NoDay},
           days \in SUBSET Days : ContinuedWith(i, series, rule, due, days, next)
  BY DEF Continues
<1> DEFINE n == Cardinality(days)
<1>2. /\ tasks' \in Seq(Task) /\ n \in Nat
      /\ Len(tasks') = Len(tasks) + n + (IF next = NoDay THEN 0 ELSE 1)
      /\ Ids' = 1 .. Len(tasks')
      /\ IF IsHead(i) THEN series = tasks[i].series /\ started' = started
         ELSE series = started + 1 /\ started' = started + 1 /\ days = {}
      /\ \A j \in Ids \ {i} : tasks'[j] = tasks[j]
      /\ tasks'[i].from = tasks[i].from /\ tasks'[i].prev = tasks[i].prev
      /\ tasks'[i].series = series /\ tasks'[i].type = OneOff
      /\ tasks'[i].origin = NoDay
      /\ ~ tasks'[i].own => tasks'[i].who = tasks[i].who /\ tasks'[i].pool = <<>>
      /\ \A k \in 1 .. n : tasks'[Len(tasks) + k]
           = SpawnTaskFromTemplate(i, OneOff, NoRRule, NthDay(days, k), k - 1)
      /\ next # NoDay => tasks'[Len(tasks) + n + 1]
           = Heir(i, series, rule, due, next, n)
  BY <1>1, ContinuedTable
<1>3. Ids = 1 .. Len(tasks) /\ Len(tasks) \in Nat
  BY TableShape
<1>4. n # 0 => series = tasks[i].series
  BY <1>2, FS_EmptySet
<1> HIDE DEF n
<1>5. ASSUME NEW j \in Ids' \ Ids
      PROVE  /\ tasks'[j].series = series
             /\ tasks'[j].from = i
             /\ tasks'[j].prev = IF j = Len(tasks) + 1 THEN i ELSE j - 1
             /\ tasks'[j].pool = tasks[i].pool
             /\ ~ tasks'[j].own
             /\ j - Len(tasks) \in Nat \ {0}
             /\ tasks'[j].who = Turn(i, j - Len(tasks) - 1)
             /\ tasks'[j].type = Accumulating =>
                  j = Len(tasks') /\ tasks'[j].rule \in RRules
             /\ tasks'[j].type \in {OneOff, Accumulating}
  <2> DEFINE k == j - Len(tasks)
  <2>1. k \in Nat \ {0} /\ j = Len(tasks) + k
        /\ (k \in 1 .. n \/ (k = n + 1 /\ next # NoDay))
    <3>1. /\ j \in Int /\ j > Len(tasks) /\ j <= Len(tasks')
          /\ Len(tasks') = Len(tasks) + n + (IF next = NoDay THEN 0 ELSE 1)
      <4>1. j \in 1 .. Len(tasks') /\ j \notin 1 .. Len(tasks) /\ Len(tasks') \in Nat
        BY <1>2, <1>3, LenProperties
      <4>2. Len(tasks') = Len(tasks) + n + (IF next = NoDay THEN 0 ELSE 1)
        BY <1>2
      <4> QED BY <1>3, <4>1, <4>2
    <3>2. n \in Nat /\ Len(tasks) \in Nat
      BY <1>2, <1>3
    <3>3. CASE next = NoDay
      BY <3>1, <3>2, <3>3
    <3>4. CASE next # NoDay
      BY <3>1, <3>2, <3>4
    <3> QED BY <3>3, <3>4
  <2>2. /\ k - 1 = 0 <=> j = Len(tasks) + 1
        /\ Len(tasks) + (k - 1) = j - 1
        /\ j - Len(tasks) - 1 = k - 1
    BY <1>3, <2>1
  <2> HIDE DEF k
  <2>3. CASE k \in 1 .. n
    <3>1. tasks'[j] = SpawnTaskFromTemplate(i, OneOff, NoRRule, NthDay(days, k), k - 1)
      BY <1>2, <2>1, <2>3
    <3>2. OneOff # Accumulating /\ j - Len(tasks) = k /\ series = tasks[i].series
      BY <1>2, <1>3, <1>4, <2>1, <2>3, KnownConstants
    <3>3. /\ tasks'[j].series = tasks[i].series /\ tasks'[j].from = i
          /\ tasks'[j].type = OneOff /\ tasks'[j].pool = tasks[i].pool
          /\ tasks'[j].who = Turn(i, k - 1) /\ ~ tasks'[j].own
          /\ tasks'[j].prev = IF k - 1 = 0 THEN i ELSE Len(tasks) + (k - 1)
      <4> DEFINE task == SpawnTaskFromTemplate(i, OneOff, NoRRule,
                                               NthDay(days, k), k - 1)
      <4>1. /\ task.series = tasks[i].series /\ task.from = i
            /\ task.type = OneOff /\ task.pool = tasks[i].pool
            /\ task.who = Turn(i, k - 1) /\ ~ task.own
            /\ task.prev = IF k - 1 = 0 THEN i ELSE Len(tasks) + (k - 1)
        BY DEF SpawnTaskFromTemplate
      <4> QED BY <3>1, <4>1
    <3> QED BY <2>1, <2>2, <3>2, <3>3
  <2>4. CASE k = n + 1 /\ next # NoDay
    <3>1. j = Len(tasks) + n + 1 /\ j - Len(tasks) - 1 = n /\ j = Len(tasks')
          /\ k - 1 = n /\ j - Len(tasks) = k
      BY <1>2, <1>3, <2>1, <2>4
    <3>2. tasks'[j] = Heir(i, series, rule, due, next, n)
      BY <1>2, <2>4, <3>1
    <3>3. /\ tasks'[j].series = series /\ tasks'[j].from = i
          /\ tasks'[j].rule = rule /\ tasks'[j].pool = tasks[i].pool
          /\ tasks'[j].type = Accumulating
          /\ tasks'[j].who = Turn(i, n) /\ ~ tasks'[j].own
          /\ tasks'[j].prev = IF n = 0 THEN i ELSE Len(tasks) + n
      <4> DEFINE task == Heir(i, series, rule, due, next, n)
      <4>1. /\ task.series = series /\ task.from = i
            /\ task.rule = rule /\ task.pool = tasks[i].pool
            /\ task.type = Accumulating
            /\ task.who = Turn(i, n) /\ ~ task.own
            /\ task.prev = IF n = 0 THEN i ELSE Len(tasks) + n
        BY DEF Heir, SpawnTaskFromTemplate
      <4> QED BY <3>2, <4>1
    <3> QED BY <2>1, <2>2, <3>1, <3>3
  <2> QED BY <2>1, <2>3, <2>4
<1>6. Len(tasks') \in Nat /\ Ids \subseteq Ids' /\ Len(tasks) <= Len(tasks')
  BY <1>2, <1>3
<1> QED BY <1>2, <1>3, <1>5, <1>6

\* The table part of the invariant is kept by each of the three.
TableStep ==
  UNCHANGED <<tasks, started>> \/ Starts \/ \E i \in Ids : Edits(i) \/ Continues(i)

LEMMA TableStepInv ==
  ASSUME TypeInv, TableInv, TableStep
  PROVE  /\ tasks' \in Seq(Task) /\ started' \in Nat
         /\ Ids \subseteq Ids' /\ Len(tasks) <= Len(tasks')
         /\ \A j \in Ids' : tasks'[j].type \in Recurring => tasks'[j].rule \in RRules
         /\ TableInv'
<1> USE DEF TableInv, Numbered, Linked, HeadLast
<1>0. /\ Ids = 1 .. Len(tasks) /\ Len(tasks) \in Nat /\ started \in Nat /\ TypeOK
      /\ \A j \in Ids : tasks[j].series \in Nat /\ tasks[j].from \in Nat
                        /\ tasks[j].prev \in Nat
      /\ \A j \in Ids : tasks[j].type \in Recurring => tasks[j].rule \in RRules
  BY TableShape DEF TypeInv, TypeOK, Known, Task
<1>1. CASE UNCHANGED <<tasks, started>>
  BY <1>0, <1>1 DEF TypeOK, Ids
<1>2. CASE Starts
  <2> DEFINE n == Len(tasks) + 1
  <2>1. /\ tasks' \in Seq(Task) /\ Ids' = Ids \cup {n}
        /\ Len(tasks') = n /\ n \notin Ids /\ n \in Nat /\ n > 0
        /\ started' = started + 1
        /\ \A j \in Ids : tasks'[j] = tasks[j] /\ j < n
        /\ tasks'[n].series = started + 1 /\ tasks'[n].from = 0
        /\ tasks'[n].prev = 0
        /\ tasks'[n].type \in Recurring => tasks'[n].rule \in RRules
    BY <1>0, <1>2, StartsTable
  <2>2. \A j \in Ids : tasks'[j].series < tasks'[n].series
    BY <1>0, <2>1
  <2>3. Numbered' /\ Linked' /\ started' \in Nat
    <3> HIDE DEF n
    <3>1. ASSUME NEW j \in Ids'
          PROVE  tasks'[j].series <= started' /\ tasks'[j].from < j /\ tasks'[j].prev < j
      <4>1. CASE j = n
        BY <1>0, <2>1, <4>1
      <4>2. CASE j \in Ids
        <5>1. /\ tasks'[j] = tasks[j] /\ tasks[j].series \in Nat
              /\ tasks[j].series <= started /\ tasks[j].from < j /\ tasks[j].prev < j
          BY <2>1, <4>2, <1>0
        <5> QED BY <1>0, <2>1, <5>1
      <4> QED BY <2>1, <4>1, <4>2
    <3> QED BY <1>0, <2>1, <3>1
  <2>5. \A j \in Ids' : tasks'[j].type \in Recurring => tasks'[j].rule \in RRules
    <3> HIDE DEF n
    <3> QED BY <1>0, <2>1
  <2>4. HeadLast'
    <3> HIDE DEF n
    <3> SUFFICES ASSUME NEW k \in Ids', NEW j \in Ids', tasks'[k].type = Accumulating,
                        tasks'[j].series = tasks'[k].series
                 PROVE  j <= k
      OBVIOUS
    <3>1. CASE k = n
      BY <2>1, <3>1
    <3>2. CASE k \in Ids
      <4>1. tasks'[k].series \in Nat /\ tasks'[n].series \in Nat /\ j # n
        BY <1>0, <2>1, <2>2, <3>2
      <4> QED BY <2>1, <3>2, <4>1
    <3> QED BY <2>1, <3>1, <3>2
  <2>6. TableInv'
    BY <2>3, <2>4
  <2>7. Ids \subseteq Ids' /\ Len(tasks) <= Len(tasks')
    BY <1>0, <2>1
  <2> QED BY <2>1, <2>3, <2>5, <2>6, <2>7
<1>3. ASSUME NEW i \in Ids, Edits(i)
      PROVE  /\ tasks' \in Seq(Task) /\ Ids' = Ids /\ Len(tasks') = Len(tasks)
             /\ started' \in Nat /\ TableInv'
             /\ \A j \in Ids' : tasks'[j].type \in Recurring => tasks'[j].rule \in RRules
  <2>1. /\ tasks' \in Seq(Task) /\ Ids' = Ids /\ Len(tasks') = Len(tasks)
        /\ \A j \in Ids \ {i} : tasks'[j] = tasks[j]
        /\ tasks'[i].from = tasks[i].from /\ tasks'[i].prev = tasks[i].prev
        /\ tasks'[i].type \in Recurring => tasks'[i].rule \in RRules
        /\ GoesOn(tasks'[i], i)
    BY <1>0, <1>3, EditsTable
  <2>2. CASE /\ tasks'[i].series = tasks[i].series /\ started' = started
             /\ tasks'[i].type = Accumulating => IsHead(i)
    <3>1. \A j \in Ids :
            /\ tasks'[j].series = tasks[j].series
            /\ tasks'[j].from = tasks[j].from
            /\ tasks'[j].prev = tasks[j].prev
            /\ (tasks'[j].type = Accumulating => tasks[j].type = Accumulating)
      BY <2>1, <2>2 DEF IsHead
    <3>2. \A j \in Ids : tasks'[j].type \in Recurring => tasks'[j].rule \in RRules
      BY <1>0, <2>1
    <3>3. Numbered' /\ Linked'
      BY <2>1, <2>2, <3>1
    <3>4. HeadLast'
      <4> SUFFICES ASSUME NEW k \in Ids, NEW j \in Ids, tasks'[k].type = Accumulating,
                          tasks'[j].series = tasks'[k].series
                   PROVE  j <= k
        BY <2>1
      <4>1. tasks[k].type = Accumulating /\ tasks[j].series = tasks[k].series
        BY <3>1
      <4> QED BY <4>1
    <3> QED BY <1>0, <2>1, <2>2, <3>2, <3>3, <3>4
  <2>3. CASE tasks'[i].series = started + 1 /\ started' = started + 1
    <3>1. Numbered' /\ Linked'
      <4> SUFFICES ASSUME NEW j \in Ids
                   PROVE  tasks'[j].series <= started' /\ tasks'[j].from < j
                          /\ tasks'[j].prev < j
        BY <2>1
      <4>1. /\ tasks[j].series \in Nat /\ tasks[j].series <= started
            /\ tasks[j].from < j /\ tasks[j].prev < j
        BY <1>0
      <4>2. tasks'[j].from = tasks[j].from /\ tasks'[j].prev = tasks[j].prev
        BY <2>1
      <4>3. tasks'[j].series \in {tasks[j].series, started + 1}
        BY <2>1, <2>3
      <4> QED BY <1>0, <2>3, <4>1, <4>2, <4>3
    <3>2. \A j \in Ids \ {i} : tasks'[j].series < tasks'[i].series
      BY <1>0, <2>1, <2>3
    <3>3. HeadLast'
      BY <1>0, <2>1, <3>2
    <3> QED BY <1>0, <2>1, <2>3, <3>1, <3>3
  <2> QED BY <2>1, <2>2, <2>3 DEF GoesOn
<1>4. ASSUME NEW i \in Ids, Continues(i)
      PROVE  /\ tasks' \in Seq(Task) /\ Ids \subseteq Ids'
             /\ Len(tasks) <= Len(tasks') /\ started' \in Nat /\ TableInv'
             /\ \A j \in Ids' : tasks'[j].type \in Recurring => tasks'[j].rule \in RRules
  <2>1. /\ tasks' \in Seq(Task) /\ Ids \subseteq Ids'
        /\ Ids' = 1 .. Len(tasks') /\ Len(tasks') \in Nat
        /\ Len(tasks) <= Len(tasks')
        /\ IF IsHead(i) THEN tasks'[i].series = tasks[i].series /\ started' = started
           ELSE tasks'[i].series = started + 1 /\ started' = started + 1
        /\ \A j \in Ids \ {i} : tasks'[j] = tasks[j]
        /\ tasks'[i].from = tasks[i].from /\ tasks'[i].prev = tasks[i].prev
        /\ tasks'[i].type = OneOff
        /\ \A j \in Ids' \ Ids :
             /\ tasks'[j].series = tasks'[i].series
             /\ tasks'[j].from = i
             /\ tasks'[j].prev = IF j = Len(tasks) + 1 THEN i ELSE j - 1
             /\ tasks'[j].type = Accumulating =>
                  j = Len(tasks') /\ tasks'[j].rule \in RRules
             /\ tasks'[j].type \in {OneOff, Accumulating}
    BY <1>0, <1>4, ContinuesTable
  <2>2. started' \in Nat /\ started <= started' /\ tasks'[i].series <= started'
    BY <1>0, <2>1
  <2>3. \A j \in Ids' \ Ids : j \in Nat /\ i < j /\ Len(tasks) < j
    BY <1>0, <2>1
  <2>4. Numbered'
    <3> SUFFICES ASSUME NEW j \in Ids' PROVE tasks'[j].series <= started'
      OBVIOUS
    <3>1. CASE j \in Ids' \ Ids
      BY <2>1, <2>2, <3>1
    <3>2. CASE j \in Ids \ {i}
      <4>1. tasks'[j] = tasks[j] /\ tasks[j].series \in Nat /\ tasks[j].series <= started
        BY <1>0, <2>1, <3>2
      <4> QED BY <1>0, <2>2, <4>1
    <3> QED BY <2>2, <3>1, <3>2
  <2>5. Linked'
    <3> SUFFICES ASSUME NEW j \in Ids' PROVE tasks'[j].from < j /\ tasks'[j].prev < j
      OBVIOUS
    <3>1. CASE j \in Ids' \ Ids
      <4>1. i < j /\ j \in Nat /\ j - 1 < j
        BY <2>3, <3>1
      <4>2. /\ tasks'[j].from = i
            /\ tasks'[j].prev = IF j = Len(tasks) + 1 THEN i ELSE j - 1
        BY <2>1, <3>1
      <4> QED BY <4>1, <4>2
    <3>2. CASE j \in Ids
      <4>1. tasks'[j].from = tasks[j].from /\ tasks'[j].prev = tasks[j].prev
        BY <2>1, <3>2
      <4> QED BY <3>2, <4>1
    <3> QED BY <3>1, <3>2
  <2>6. \A j \in Ids \ {i} : tasks'[j].type = Accumulating =>
          tasks[j].series # tasks'[i].series
    <3> SUFFICES ASSUME NEW j \in Ids \ {i}, tasks'[j].type = Accumulating,
                        tasks[j].series = tasks'[i].series
                 PROVE  FALSE
      OBVIOUS
    <3>1. tasks[j].type = Accumulating /\ tasks[j].series <= started
      BY <2>1
    <3>2. CASE IsHead(i)
      <4>1. tasks[j].series = tasks[i].series
        BY <2>1, <3>2
      <4>2. i <= j /\ j <= i
        BY <3>1, <3>2, <4>1 DEF IsHead
      <4> QED BY <1>0, <4>2
    <3>3. CASE ~ IsHead(i)
      BY <1>0, <2>1, <3>1, <3>3
    <3> QED BY <3>2, <3>3
  <2>7. HeadLast'
    <3> SUFFICES ASSUME NEW k \in Ids', NEW j \in Ids', tasks'[k].type = Accumulating,
                        tasks'[j].series = tasks'[k].series
                 PROVE  j <= k
      OBVIOUS
    <3>1. CASE k \in Ids' \ Ids
      BY <2>1, <3>1
    <3>2. CASE k \in Ids
      <4>1. k # i /\ tasks'[k] = tasks[k]
        BY <2>1, <3>2, KnownConstants
      <4>2. tasks[k].series # tasks'[i].series
        BY <2>6, <3>2, <4>1
      <4>3. j \in Ids \ {i}
        BY <2>1, <4>1, <4>2
      <4> QED BY <2>1, <3>2, <4>1, <4>3
    <3> QED BY <3>1, <3>2
  <2>8. \A j \in Ids' : tasks'[j].type \in Recurring => tasks'[j].rule \in RRules
    BY <1>0, <2>1, KnownConstants
  <2> QED BY <2>1, <2>2, <2>4, <2>5, <2>7, <2>8
<1> QED BY <1>0, <1>1, <1>2, <1>3, <1>4 DEF TableStep

-----------------------------------------------------------------------------
(***************************************************************************)
(* Every step of the system is one of the three, or leaves the table.      *)
(***************************************************************************)
LEMMA CreateStarts ==
  ASSUME NEW b \in NewTasks, TypeOK, CreateTask(b)
  PROVE  Starts /\ ~ tasks'[Len(tasks) + 1].own
         /\ tasks'[Len(tasks) + 1].rule = b.rule
         /\ tasks'[Len(tasks) + 1].due = b.due
         /\ tasks'[Len(tasks) + 1].ruled = b.ruled
         /\ tasks'[Len(tasks) + 1].type = b.type
         /\ tasks'[Len(tasks) + 1].origin
              = IF b.type = Accumulating THEN b.due ELSE NoDay
<1> DEFINE who  == IF b.who = <<>> THEN {} ELSE b.who[1]
           pool == IF b.pool = <<>> THEN <<>> ELSE b.pool[1]
           origin == IF b.type = Accumulating THEN b.due ELSE NoDay
           row  == [from |-> 0, type |-> b.type, rule |-> b.rule, due |-> b.due,
                    done |-> b.done, ruled |-> b.ruled, who |-> who, pool |-> pool,
                    series |-> started + 1, prev |-> 0, own |-> FALSE,
                    origin |-> origin]
<1>1. b \in Body /\ Valid(b)
  BY SeriesAssumption
<1>2. /\ b.type \in Types \cup {Deleted} /\ b.rule \in RRules \cup {NoRRule}
      /\ b.due \in Days \cup {NoDay} /\ b.done \in BOOLEAN /\ b.ruled \in BOOLEAN
      /\ b.who \in Seq(SUBSET Users) /\ b.pool \in Seq(Seq(Users))
  BY <1>1 DEF Body
<1>3. who \in SUBSET Users
  <2>1. ASSUME b.who # <<>> PROVE b.who[1] \in SUBSET Users
    <3>1. Len(b.who) \in Nat \ {0}
      BY <1>2, <2>1, EmptySeq
    <3> QED BY <1>2, <3>1, ElementOfSeq
  <2> QED BY <2>1
<1>4. pool \in Seq(Users)
  <2>1. ASSUME b.pool # <<>> PROVE b.pool[1] \in Seq(Users)
    <3> DEFINE S == Seq(Users)
    <3>1. b.pool \in Seq(S)
      BY <1>2
    <3> HIDE DEF S
    <3>2. Len(b.pool) \in Nat \ {0}
      BY <2>1, <3>1, EmptySeq
    <3>3. b.pool[1] \in S
      BY <3>1, <3>2, ElementOfSeq
    <3> QED BY <3>3 DEF S
  <2>2. <<>> \in Seq(Users)
    BY EmptySeq
  <2> QED BY <2>1, <2>2
<1>5. started + 1 \in Nat /\ origin \in Days \cup {NoDay}
  BY <1>2 DEF TypeOK
<1> HIDE DEF who, pool, origin
<1>6. row \in Task
  BY <1>2, <1>3, <1>4, <1>5 DEF Task
<1>7. tasks' = Append(tasks, row) /\ started' = started + 1
  BY DEF CreateTask, who, pool, origin
<1>8. /\ row.series = started + 1 /\ row.from = 0 /\ row.prev = 0 /\ ~ row.own
      /\ row.rule = b.rule /\ row.due = b.due /\ row.type = b.type
      /\ row.ruled = b.ruled /\ row.origin = origin
  OBVIOUS
<1>9. row.type \in Recurring => row.rule \in RRules
  BY <1>1, <1>2, <1>8 DEF Valid
<1> HIDE DEF row
<1>10. Starts
  BY <1>6, <1>7, <1>8, <1>9 DEF Starts
<1>11. tasks'[Len(tasks) + 1] = row
  BY <1>6, <1>7, AppendProperties DEF TypeOK
<1> QED BY <1>8, <1>10, <1>11 DEF origin

LEMMA DeleteEdits ==
  ASSUME TypeOK, NEW i \in Ids, DeleteTask(i)
  PROVE  /\ Edits(i)
         /\ tasks'[i] = [tasks[i] EXCEPT !.type = Deleted, !.origin = NoDay]
<1> DEFINE row == [tasks[i] EXCEPT !.type = Deleted, !.origin = NoDay]
<1>1. tasks[i] \in Task
  BY TableShape
<1>2. /\ row \in Task /\ row.from = tasks[i].from /\ row.prev = tasks[i].prev
      /\ row.type = Deleted /\ row.series = tasks[i].series
      /\ row.who = tasks[i].who /\ row.pool = tasks[i].pool
      /\ row.own = tasks[i].own
  BY <1>1 DEF Task
<1>3. tasks' = [tasks EXCEPT ![i] = row] /\ started' = started
  BY DEF DeleteTask
<1> HIDE DEF row
<1>4. tasks'[i] = row
  BY <1>2, <1>3, ExceptTable
<1>5. GoesOn(row, i) /\ ~ (row.type \in Recurring)
  BY <1>2, <1>3, KnownConstants DEF GoesOn
<1> QED BY <1>2, <1>3, <1>4, <1>5 DEF Edits, row

LEMMA PatchShape ==
  ASSUME TypeInv, RowAsRead, NEW c \in Clients, Patch(c)
  PROVE  \/ Continues(client[c].id)
         \/ Edits(client[c].id)
<1>1. PICK b \in Asked(c) : UpdateTask(c, b)
  BY DEF Patch
<1> QED BY <1>1, UpdateTaskShape DEF Patch

LEMMA EveryStepIsATableStep ==
  ASSUME TypeInv, RowAsRead, [Next]_vars
  PROVE  TableStep
<1> USE DEF TypeInv
<1>1. ASSUME NEW b \in NewTasks, CreateTask(b)
      PROVE  TableStep
  BY <1>1, CreateStarts DEF TableStep
<1>2. ASSUME Tick \/ UNCHANGED vars
      PROVE  TableStep
  BY <1>2 DEF Tick, vars, TableStep
<1>3. ASSUME NEW w \in Crons, CronStep(w) \/ FailTask(w) \/ Crash(w)
      PROVE  TableStep
  <2>1. CASE Convert(w)
    <3>1. cron[w].id \in Ids
      BY <2>1 DEF Convert, Known
    <3> QED BY <2>1, <3>1, ConvertContinues DEF TableStep
  <2>2. CASE ~ Convert(w)
    BY <1>3, <2>2
       DEF CronStep, ListOverdue, ReadTask, FinishTick, FailTask, Crash,
           TableStep
  <2> QED BY <2>1, <2>2
<1>4. ASSUME NEW c \in Clients, NEW i \in Ids, GetTaskForUpdate(c, i)
      PROVE  TableStep
  BY <1>4 DEF GetTaskForUpdate, TableStep
<1>5. ASSUME NEW c \in Clients, Patch(c) \/ Rollback(c)
      PROVE  TableStep
  <2>1. CASE Patch(c)
    <3>1. client[c].id \in Ids
      BY <2>1 DEF Patch, Known
    <3> QED BY <2>1, <3>1, PatchShape DEF TableStep
  <2>2. CASE Rollback(c)
    BY <2>2 DEF Rollback, TableStep
  <2> QED BY <1>5, <2>1, <2>2
<1>6. ASSUME NEW i \in Ids, DeleteTask(i)
      PROVE  TableStep
  BY <1>6, DeleteEdits DEF TableStep
<1> QED BY <1>1, <1>2, <1>3, <1>4, <1>5, <1>6 DEF Next

-----------------------------------------------------------------------------
(***************************************************************************)
(* What the processes hold.                                                *)
(***************************************************************************)
Cron == [pc : {"idle", "listed", "read"}, now : Times, list : SUBSET Nat,
         id : Nat, rule : RRules \cup {NoRRule}, due : Days \cup {NoDay}]

\* One cron moves: to a record that is typed and known.
CronMoves(w) ==
  \E new \in Cron :
    /\ cron' = [cron EXCEPT ![w] = new]
    /\ new.list \subseteq Ids
    /\ new.pc = "read" => new.id \in Ids /\ new.rule \in RRules /\ new.due \in Days

LEMMA CronMovesInv ==
  ASSUME TypeInv, NEW w \in Crons, CronMoves(w), Ids \subseteq Ids'
  PROVE  /\ cron' \in [Crons -> Cron]
         /\ \A v \in Crons : /\ cron'[v].list \subseteq Ids'
                             /\ cron'[v].pc = "read" => /\ cron'[v].id \in Ids'
                                                        /\ cron'[v].rule \in RRules
                                                        /\ cron'[v].due \in Days
<1>1. PICK new \in Cron :
        /\ cron' = [cron EXCEPT ![w] = new]
        /\ new.list \subseteq Ids
        /\ new.pc = "read" => new.id \in Ids /\ new.rule \in RRules /\ new.due \in Days
  BY DEF CronMoves
<1>2. cron \in [Crons -> Cron]
  BY DEF TypeInv, TypeOK, Cron
<1>3. cron' \in [Crons -> Cron]
  BY <1>1, <1>2
<1>4. ASSUME NEW v \in Crons
      PROVE  /\ cron'[v].list \subseteq Ids'
             /\ cron'[v].pc = "read" => /\ cron'[v].id \in Ids'
                                        /\ cron'[v].rule \in RRules
                                        /\ cron'[v].due \in Days
  <2>1. CASE v = w
    BY <1>1, <1>2, <2>1
  <2>2. CASE v # w
    <3>1. cron'[v] = cron[v]
      BY <1>1, <1>2, <2>2
    <3> QED BY <3>1 DEF TypeInv, Known
  <2> QED BY <2>1, <2>2
<1> QED BY <1>3, <1>4

LEMMA CronActionsMove ==
  ASSUME TypeInv, NEW w \in Crons, CronStep(w) \/ FailTask(w) \/ Crash(w)
  PROVE  CronMoves(w)
<1>1. /\ cron \in [Crons -> Cron] /\ cron[w] \in Cron /\ clock \in Times
      /\ Ids \subseteq Nat /\ \A i \in Ids : tasks[i] \in Task
      /\ cron[w].list \subseteq Ids
      /\ \A i \in Ids : tasks[i].type \in Recurring => tasks[i].rule \in RRules
  BY TableShape DEF TypeInv, TypeOK, Known, Cron
<1>2. CASE ListOverdue(w)
  <2> DEFINE overdue == OverdueIds(clock)
             batch == {i \in overdue :
                         Cardinality({j \in overdue : j <= i}) <= BatchSize}
             new == [IdleCron EXCEPT !.pc = "listed", !.now = clock, !.list = batch]
  <2>1. batch \subseteq Ids
    BY DEF OverdueIds
  <2>2. cron' = [cron EXCEPT ![w] = new]
    BY <1>2 DEF ListOverdue
  <2> HIDE DEF batch
  <2>3. new \in Cron /\ new.list = batch /\ new.pc = "listed"
    BY <1>1, <2>1 DEF Cron, IdleCron
  <2> QED BY <2>1, <2>2, <2>3 DEF CronMoves
<1>3. CASE ReadTask(w)
  <2>1. PICK i \in cron[w].list :
          cron' = IF IsHead(i) /\ IsDue(tasks[i].due, cron[w].now)
                  THEN [cron EXCEPT ![w].pc = "read", ![w].id = i,
                                    ![w].rule = tasks[i].rule,
                                    ![w].due = tasks[i].due,
                                    ![w].list = @ \ {i}]
                  ELSE [cron EXCEPT ![w].list = @ \ {i}]
    BY <1>3 DEF ReadTask
  <2>2. i \in Ids /\ tasks[i].due \in Days \cup {NoDay}
    BY <1>1 DEF Task
  <2>3. CASE IsHead(i) /\ IsDue(tasks[i].due, cron[w].now)
    <3> DEFINE new == [cron[w] EXCEPT !.pc = "read", !.id = i,
                                      !.rule = tasks[i].rule,
                                      !.due = tasks[i].due, !.list = @ \ {i}]
    <3>1. tasks[i].due \in Days /\ tasks[i].rule \in RRules
      BY <1>1, <2>2, <2>3, KnownConstants DEF IsDue, IsHead
    <3>2. cron' = [cron EXCEPT ![w] = new]
      BY <1>1, <2>1, <2>3
    <3>3. new \in Cron /\ new.list \subseteq Ids /\ new.id \in Ids
          /\ new.rule \in RRules /\ new.due \in Days
      BY <1>1, <2>2, <3>1 DEF Cron
    <3> QED BY <3>2, <3>3 DEF CronMoves
  <2>4. CASE ~ (IsHead(i) /\ IsDue(tasks[i].due, cron[w].now))
    <3> DEFINE new == [cron[w] EXCEPT !.list = @ \ {i}]
    <3>1. cron' = [cron EXCEPT ![w] = new]
      BY <1>1, <2>1, <2>4
    <3>2. new \in Cron /\ new.list \subseteq Ids /\ new.pc # "read"
      BY <1>1, <1>3 DEF Cron, ReadTask
    <3> QED BY <3>1, <3>2 DEF CronMoves
  <2> QED BY <2>3, <2>4
<1>4. CASE Convert(w) \/ FailTask(w)
  <2> DEFINE new == [cron[w] EXCEPT !.pc = "listed", !.id = 0,
                                    !.rule = NoRRule, !.due = NoDay]
  <2>1. cron' = [cron EXCEPT ![w] = new]
    BY <1>1, <1>4 DEF Convert, FailTask, Leave
  <2>2. new \in Cron /\ new.list \subseteq Ids /\ new.pc # "read"
    BY <1>1 DEF Cron
  <2> QED BY <2>1, <2>2 DEF CronMoves
<1>5. CASE FinishTick(w) \/ Crash(w)
  <2>1. cron' = [cron EXCEPT ![w] = IdleCron]
    BY <1>5 DEF FinishTick, Crash
  <2>2. IdleCron \in Cron /\ IdleCron.list \subseteq Ids /\ IdleCron.pc # "read"
    BY KnownConstants DEF IdleCron, Cron
  <2> QED BY <2>1, <2>2 DEF CronMoves
<1> QED BY <1>2, <1>3, <1>4, <1>5 DEF CronStep

Client == [pc : {"idle", "locked"}, id : Nat, now : Times, read : Task]

\* One client locks a row nobody has locked, as it stands, or lets go.
Locks(c) ==
  \E new \in Client :
    /\ client' = [client EXCEPT ![c] = new]
    /\ new.pc = "locked" =>
         /\ new.id \in Ids
         /\ new.read = tasks[new.id]
         /\ Unlocked(new.id)
         /\ UNCHANGED tasks

ClientInv ==
  /\ client \in [Clients -> Client]
  /\ \A c \in Clients : client[c].pc = "locked" => client[c].id \in Ids
  /\ RowAsRead
  /\ OneLockPerRow

\* The rows others have locked stay as they are.
Respects(S) ==
  \A d \in S : client[d].pc = "locked" => tasks'[client[d].id] = tasks[client[d].id]

LEMMA LocksInv ==
  ASSUME ClientInv, NEW c \in Clients, Locks(c), Ids \subseteq Ids',
         Respects(Clients \ {c})
  PROVE  ClientInv'
<1>1. PICK new \in Client :
        /\ client' = [client EXCEPT ![c] = new]
        /\ new.pc = "locked" => /\ new.id \in Ids
                                /\ new.read = tasks[new.id]
                                /\ Unlocked(new.id)
                                /\ UNCHANGED tasks
  BY DEF Locks
<1>2. /\ client' \in [Clients -> Client] /\ client'[c] = new
      /\ \A d \in Clients \ {c} : client'[d] = client[d]
  BY <1>1 DEF ClientInv
<1>3. ASSUME NEW d \in Clients, client'[d].pc = "locked"
      PROVE  /\ client'[d].id \in Ids'
             /\ client'[d].read = tasks'[client'[d].id]
  <2>1. CASE d = c
    BY <1>1, <1>2, <1>3, <2>1
  <2>2. CASE d # c
    BY <1>2, <1>3, <2>2 DEF ClientInv, RowAsRead, Respects
  <2> QED BY <2>1, <2>2
<1>4. ASSUME NEW d \in Clients, NEW e \in Clients,
             client'[d].pc = "locked", client'[e].pc = "locked",
             client'[d].id = client'[e].id
      PROVE  d = e
  BY <1>1, <1>2, <1>4 DEF ClientInv, OneLockPerRow, Unlocked
<1> QED BY <1>2, <1>3, <1>4 DEF ClientInv, RowAsRead, OneLockPerRow

LEMMA ClientsStand ==
  ASSUME ClientInv, UNCHANGED client, Ids \subseteq Ids', Respects(Clients)
  PROVE  ClientInv'
BY DEF ClientInv, RowAsRead, OneLockPerRow, Respects

\* A row that changes was locked by no other client.
LEMMA OthersRespected ==
  ASSUME TypeInv, RowAsRead, OneLockPerRow, [Next]_vars
  PROVE  \/ UNCHANGED client /\ Respects(Clients)
         \/ \E c \in Clients : Locks(c) /\ Respects(Clients \ {c})
<1> USE DEF Respects
<1>1. \A d \in Clients : client[d].pc = "locked" => client[d].id \in Ids
  BY DEF TypeInv, Known
<1>2. ASSUME NEW i \in Ids, Edits(i) \/ Continues(i)
      PROVE  \A j \in Ids \ {i} : tasks'[j] = tasks[j]
  BY <1>2, EditsTable, ContinuesTable DEF TypeInv
<1>3. CASE UNCHANGED <<tasks, client>>
  BY <1>3
<1>4. ASSUME NEW b \in NewTasks, CreateTask(b)
      PROVE  UNCHANGED client /\ Respects(Clients)
  <2>1. Starts /\ UNCHANGED client
    BY <1>4, CreateStarts DEF CreateTask, TypeInv
  <2>2. \A j \in Ids : tasks'[j] = tasks[j]
    BY <2>1, StartsTable DEF TypeInv
  <2> QED BY <1>1, <2>1, <2>2
<1>5. ASSUME NEW w \in Crons, CronStep(w) \/ FailTask(w) \/ Crash(w)
      PROVE  UNCHANGED client /\ Respects(Clients)
  <2>1. CASE Convert(w)
    <3> DEFINE i == cron[w].id
    <3>1. i \in Ids /\ Unlocked(i) /\ UNCHANGED client
      BY <2>1 DEF Convert, TypeInv, Known
    <3>2. tasks' = tasks \/ \A j \in Ids \ {i} : tasks'[j] = tasks[j]
      BY <2>1, <3>1, <1>2, ConvertContinues
    <3> QED BY <1>1, <3>1, <3>2 DEF Unlocked
  <2>2. CASE ~ Convert(w)
    BY <1>5, <2>2
       DEF CronStep, ListOverdue, ReadTask, FinishTick, FailTask, Crash
  <2> QED BY <2>1, <2>2
<1>6. ASSUME NEW c \in Clients, NEW i \in Ids, GetTaskForUpdate(c, i)
      PROVE  Locks(c) /\ Respects(Clients \ {c})
  <2> DEFINE new == [pc |-> "locked", id |-> i, now |-> clock, read |-> tasks[i]]
  <2>1. tasks[i] \in Task /\ i \in Nat /\ clock \in Times
    BY TableShape DEF TypeInv, TypeOK
  <2>2. new \in Client
    BY <2>1 DEF Client
  <2>3. /\ client' = [client EXCEPT ![c] = new] /\ Unlocked(i)
        /\ UNCHANGED tasks
    BY <1>6 DEF GetTaskForUpdate
  <2> QED BY <2>2, <2>3 DEF Locks
<1>7. ASSUME NEW c \in Clients, Patch(c) \/ Rollback(c)
      PROVE  Locks(c) /\ Respects(Clients \ {c})
  <2>1. client' = [client EXCEPT ![c] = IdleClient] /\ client[c].pc = "locked"
    BY <1>7 DEF Patch, Rollback
  <2>2. IdleClient \in Client /\ IdleClient.pc # "locked"
    <3>1. NoTask \in Task
      <4>1. <<>> \in Seq(Users)
        BY EmptySeq
      <4> QED BY <4>1 DEF NoTask, Task
    <3> QED BY <3>1, KnownConstants DEF IdleClient, Client
  <2>3. Respects(Clients \ {c})
    <3>1. CASE Rollback(c)
      BY <3>1 DEF Rollback
    <3>2. CASE Patch(c)
      <4>1. \A j \in Ids \ {client[c].id} : tasks'[j] = tasks[j]
        BY <1>1, <1>2, <2>1, <3>2, PatchShape
      <4> QED BY <1>1, <2>1, <4>1 DEF OneLockPerRow
    <3> QED BY <1>7, <3>1, <3>2
  <2> QED BY <2>1, <2>2, <2>3 DEF Locks
<1>8. ASSUME NEW i \in Ids, DeleteTask(i)
      PROVE  UNCHANGED client /\ Respects(Clients)
  <2>1. Unlocked(i) /\ UNCHANGED client
    BY <1>8 DEF DeleteTask
  <2>2. \A j \in Ids \ {i} : tasks'[j] = tasks[j]
    BY <1>2, <1>8, DeleteEdits DEF TypeInv
  <2> QED BY <1>1, <2>1, <2>2 DEF Unlocked
<1> QED
  BY <1>3, <1>4, <1>5, <1>6, <1>7, <1>8 DEF Next, Tick, vars

LEMMA CronsStep ==
  ASSUME TypeInv, [Next]_vars
  PROVE  UNCHANGED cron \/ \E w \in Crons : CronMoves(w)
BY CronActionsMove
   DEF Next, CreateTask, Tick, GetTaskForUpdate, Patch, Rollback, DeleteTask, vars

LEMMA CountersType ==
  ASSUME TypeOK, [Next]_vars
  PROVE  clock' \in Times /\ edits' \in Nat /\ faults' \in Nat /\ clock <= clock'
<1>1. clock \in Times /\ edits \in Nat /\ faults \in Nat
  BY DEF TypeOK
<1>2. /\ MaxClock \in Times /\ ClockStep \in Nat /\ Times \subseteq Nat
      /\ \A t \in Nat : t <= MaxClock => t \in Times
  <2>1. (LastDay + 1) * DayLen \in Int
    BY CalendarAssumption
  <2> QED BY <2>1, SeriesAssumption DEF Times
<1>3. CASE Tick
  BY <1>1, <1>2, <1>3 DEF Tick
<1>4. CASE UNCHANGED clock /\ edits' \in {edits, edits + 1}
           /\ faults' \in {faults, faults + 1}
  BY <1>1, <1>2, <1>4
<1> QED
  BY <1>3, <1>4
     DEF Next, CreateTask, CronStep, ListOverdue, ReadTask, Convert,
         FinishTick, FailTask, Crash, GetTaskForUpdate, Patch,
         Rollback, DeleteTask, vars

-----------------------------------------------------------------------------
(***************************************************************************)
(* The inductive invariant, and what follows from it.                      *)
(***************************************************************************)
IInv == TypeInv /\ RowAsRead /\ OneLockPerRow /\ TableInv

LEMMA InitIInv == Init => IInv
<1> SUFFICES ASSUME Init PROVE IInv
  OBVIOUS
<1>1. Ids = {} /\ tasks \in Seq(Task)
  BY EmptySeq DEF Init, Ids
<1>2. clock \in Times /\ edits \in Nat /\ faults \in Nat /\ started \in Nat
  BY SeriesAssumption DEF Init
<1>3. cron \in [Crons -> Cron] /\ \A w \in Crons : cron[w] = IdleCron
  BY KnownConstants DEF Init, IdleCron, Cron
<1>4. client \in [Clients -> Client] /\ \A c \in Clients : client[c] = IdleClient
  <2>1. <<>> \in Seq(Users)
    BY EmptySeq
  <2>2. NoTask \in Task
    BY <2>1 DEF NoTask, Task
  <2> QED BY <2>2, KnownConstants DEF Init, IdleClient, Client
<1>5. TypeOK
  BY <1>1, <1>2, <1>3, <1>4 DEF TypeOK, Cron, Client
<1>6. Known /\ RowAsRead /\ OneLockPerRow
  BY <1>1, <1>3, <1>4 DEF Known, RowAsRead, OneLockPerRow, IdleCron, IdleClient
<1>7. TableInv
  BY <1>1 DEF TableInv, Numbered, Linked, HeadLast
<1> QED BY <1>5, <1>6, <1>7 DEF IInv, TypeInv

LEMMA NextIInv == IInv /\ [Next]_vars => IInv'
<1> SUFFICES ASSUME IInv, [Next]_vars PROVE IInv'
  OBVIOUS
<1> USE DEF IInv
<1>1. TypeOK /\ TypeInv
  BY DEF TypeInv
<1>2. TableStep
  BY EveryStepIsATableStep
<1>3. /\ tasks' \in Seq(Task) /\ Ids \subseteq Ids' /\ TableInv' /\ started' \in Nat
      /\ \A j \in Ids' : tasks'[j].type \in Recurring => tasks'[j].rule \in RRules
  BY <1>1, <1>2, TableStepInv
<1>4. /\ cron' \in [Crons -> Cron]
      /\ \A v \in Crons : /\ cron'[v].list \subseteq Ids'
                          /\ cron'[v].pc = "read" => /\ cron'[v].id \in Ids'
                                                     /\ cron'[v].rule \in RRules
                                                     /\ cron'[v].due \in Days
  <2>1. CASE UNCHANGED cron
    BY <1>1, <1>3, <2>1 DEF TypeOK, TypeInv, Known, Cron
  <2>2. CASE \E w \in Crons : CronMoves(w)
    BY <1>1, <1>3, <2>2, CronMovesInv
  <2> QED BY <1>1, <2>1, <2>2, CronsStep
<1>5. ClientInv'
  <2>1. ClientInv
    BY <1>1 DEF ClientInv, TypeInv, TypeOK, Known, Client
  <2> QED BY <1>3, <2>1, OthersRespected, LocksInv, ClientsStand
<1>6. clock' \in Times /\ edits' \in Nat /\ faults' \in Nat
  BY <1>1, CountersType
<1>7. TypeInv'
  <2>1. TypeOK'
    BY <1>3, <1>4, <1>5, <1>6 DEF TypeOK, ClientInv, Cron, Client
  <2>2. Known'
    BY <1>3, <1>4, <1>5 DEF Known, ClientInv
  <2> QED BY <2>1, <2>2 DEF TypeInv
<1> QED BY <1>3, <1>5, <1>7 DEF ClientInv

LEMMA Invariance == Spec => []IInv
<1>1. Init => IInv
  BY InitIInv
<1>2. IInv /\ [Next]_vars => IInv'
  BY NextIInv
<1> QED BY <1>1, <1>2, PTL DEF Spec

\* Every variable keeps its type: no cron or client ever holds a rule or a due
\* date the calendar lacks, and every row written is a well-formed task.
THEOREM TypeCorrect == Spec => []TypeOK
<1>1. IInv => TypeOK
  BY DEF IInv, TypeInv
<1> QED BY <1>1, Invariance, PTL

\* A series never has two live heads, however many servers run the cron and
\* whatever requests, failures and crashes come between their steps.
THEOREM AtMostOneHead == Spec => []OneHead
<1>1. IInv => OneHead
  <2> SUFFICES ASSUME IInv, NEW i \in Ids, NEW j \in Ids, IsHead(i), IsHead(j),
                      tasks[i].series = tasks[j].series
               PROVE  i = j
    BY DEF OneHead
  <2>1. i <= j /\ j <= i /\ i \in Nat /\ j \in Nat
    BY TableShape DEF IInv, TypeInv, TableInv, HeadLast, IsHead
  <2> QED BY <2>1
<1> QED BY <1>1, Invariance, PTL

\* A task that has been continued in a series is not continued in it again:
\* neither by another server, nor after a crash, nor by a completion that raced
\* the cron, nor by a request that makes it fixed_accumulating again.
THEOREM ContinuedOnce == Spec => SpawnsOnce
<1>1. ASSUME IInv, [Next]_vars, NEW i \in Ids, SpawnedBefore(i),
             NEW j \in DOMAIN tasks' \ Ids, tasks'[j].from = i
      PROVE  tasks'[j].series # tasks[i].series
  <2>1. /\ ~ IsHead(i) /\ i # 0 /\ tasks[i].series < started + 1
    <3>1. /\ i \in Nat \ {0} /\ \A k \in Ids : k \in Nat
          /\ tasks[i].series \in Nat /\ started \in Nat
      <4>1. TypeOK
        BY <1>1 DEF IInv, TypeInv
      <4>2. /\ Ids = 1 .. Len(tasks) /\ Len(tasks) \in Nat /\ tasks[i] \in Task
            /\ started \in Nat
        BY <4>1, TableShape DEF TypeOK
      <4> QED BY <4>2 DEF Task
    <3>2. PICK k \in Ids : tasks[k].from = i /\ tasks[k].series = tasks[i].series
      BY <1>1 DEF SpawnedBefore
    <3>3. i < k /\ tasks[i].series <= started
      BY <1>1, <3>2 DEF IInv, TableInv, Linked, Numbered
    <3>4. IsHead(i) => k <= i
      BY <1>1, <3>2 DEF IInv, TableInv, HeadLast, IsHead
    <3> QED BY <3>1, <3>3, <3>4
  <2>2. TableStep /\ TypeOK
    BY <1>1, EveryStepIsATableStep DEF IInv, TypeInv
  <2>3. CASE UNCHANGED <<tasks, started>>
    BY <2>3, <1>1 DEF Ids
  <2>4. CASE Starts
    <3>1. j = Len(tasks) + 1 /\ tasks'[j].from = 0
      BY <1>1, <2>2, <2>4, StartsTable DEF Ids
    <3> QED BY <1>1, <2>1, <3>1
  <2>5. ASSUME NEW k \in Ids, Edits(k) PROVE FALSE
    BY <1>1, <2>2, <2>5, EditsTable DEF Ids
  <2>6. ASSUME NEW k \in Ids, Continues(k) PROVE tasks'[j].series # tasks[i].series
    <3>1. /\ tasks'[j].from = k /\ tasks'[j].series = tasks'[k].series
          /\ ~ IsHead(k) => tasks'[k].series = started + 1
      BY <1>1, <2>2, <2>6, ContinuesTable DEF Ids
    <3>2. tasks[i].series \in Nat /\ started \in Nat
      BY <2>2, TableShape DEF TypeOK, Task
    <3> QED BY <1>1, <2>1, <3>1, <3>2
  <2> QED BY <2>2, <2>3, <2>4, <2>5, <2>6 DEF TableStep
<1>2. IInv /\ [Next]_vars
        => [\A i \in Ids : SpawnedBefore(i) =>
              \A j \in DOMAIN tasks' \ Ids :
                tasks'[j].from = i => tasks'[j].series # tasks[i].series]_vars
  BY <1>1
<1> QED BY <1>2, Invariance, PTL DEF Spec, SpawnsOnce

-----------------------------------------------------------------------------
(***************************************************************************)
(* Pools and turns.                                                        *)
(***************************************************************************)
TurnInv == PoolMovesOn /\ TurnsInOrder

\* One step of a turn is one place in the pool.
LEMMA OneStep ==
  ASSUME NEW pool, NEW n \in Nat \ {0}, DOMAIN pool = 1 .. n, Len(pool) = n,
         NEW prev, NEW x \in Nat, prev = {pool[1 + (x % n)]}
  PROVE  Follows(pool, prev, {pool[1 + ((x + 1) % n)]})
<1> DEFINE q == 1 + (x % n)
           p == 1 + ((x + 1) % n)
<1>1. q \in 1 .. n /\ p = IF q = n THEN 1 ELSE q + 1
  BY NextPlace
<1> HIDE DEF q, p
<1>2. p \in DOMAIN pool /\ q \in DOMAIN pool /\ pool[q] \in {pool[q]}
      /\ (IF p = 1 THEN n ELSE p - 1) = q
  BY <1>1
<1>3. Follows(pool, {pool[q]}, {pool[p]})
  BY <1>2 DEF Follows
<1> QED BY <1>3 DEF q, p

\* The turns of the tasks spawned from i follow that of i, one by one.
LEMMA TurnsOf ==
  ASSUME TypeOK, NEW i \in Ids, tasks[i].pool # <<>>
  PROVE  /\ Follows(tasks[i].pool, tasks[i].who, Turn(i, 0))
         /\ \A m \in Nat : Follows(tasks[i].pool, Turn(i, m), Turn(i, m + 1))
<1> DEFINE pool == tasks[i].pool
           who  == tasks[i].who
           n    == Len(pool)
<1>1. /\ pool \in Seq(Users) /\ Users \subseteq Nat /\ who \in SUBSET Users
      /\ DOMAIN pool = 1 .. n /\ n \in Nat \ {0} /\ pool # <<>>
  <2>1. pool \in Seq(Users) /\ Users \subseteq Nat /\ who \in SUBSET Users
    BY TableShape, SeriesAssumption DEF Task
  <2> QED BY <2>1, LenProperties, EmptySeq
<1>2. PICK b \in 0 .. n :
        /\ IF b = 0 THEN \A q \in DOMAIN pool : pool[q] \notin who
           ELSE pool[b] \in who
        /\ \A step \in Nat : AdvanceRotation(pool, who, step)
                               = {pool[1 + ((b + step) % n)]}
  <2> HIDE DEF pool, who
  <2>1. pool \in Seq(Users) /\ Users \subseteq Nat /\ who \in SUBSET Users
        /\ pool # <<>>
    BY <1>1
  <2>2. \E b \in 0 .. Len(pool) : TurnsAfter(pool, who, b)
    BY <2>1, RotationGoesOn
  <2> QED BY <2>2 DEF TurnsAfter
<1>3. \A step \in Nat : Turn(i, step) = {pool[1 + ((b + step) % n)]}
  BY <1>2 DEF Turn
<1> HIDE DEF pool, who, n
<1>4. ASSUME NEW m \in Nat PROVE Follows(pool, Turn(i, m), Turn(i, m + 1))
  <2> DEFINE x == b + m
  <2>1. /\ x \in Nat /\ Turn(i, m) = {pool[1 + (x % n)]}
        /\ Turn(i, m + 1) = {pool[1 + ((x + 1) % n)]}
    <3>1. b + (m + 1) = (b + m) + 1 /\ b + m \in Nat /\ m + 1 \in Nat
      BY <1>1
    <3>2. Turn(i, m + 1) = {pool[1 + ((b + (m + 1)) % n)]}
      BY <1>3, <3>1
    <3> QED BY <1>3, <3>1, <3>2
  <2> HIDE DEF x
  <2>2. Len(pool) = n
    BY DEF n
  <2>3. Follows(pool, Turn(i, m), {pool[1 + ((x + 1) % n)]})
    <3> DEFINE prev == Turn(i, m)
    <3>1. prev = {pool[1 + (x % n)]}
      BY <2>1
    <3> HIDE DEF prev
    <3>2. Follows(pool, prev, {pool[1 + ((x + 1) % n)]})
      BY <1>1, <2>1, <2>2, <3>1, OneStep
    <3> QED BY <3>2 DEF prev
  <2> QED BY <2>1, <2>3
<1>5. Follows(pool, who, Turn(i, 0))
  <2>1. 0 \in Nat /\ b + 0 = b /\ Len(pool) = n
    BY <1>1 DEF n
  <2>2. Turn(i, 0) = {pool[1 + (b % n)]}
    BY <1>3, <2>1
  <2>3. CASE b = 0
    <3>1. 0 % n = 0
      <4>1. 0 = n * 0 + 0 /\ 0 < n
        BY <1>1
      <4> QED BY <1>1, <4>1, ModUnique
    <3>2. Turn(i, 0) = {pool[1]} /\ 1 \in DOMAIN pool
          /\ \A q \in DOMAIN pool : pool[q] \notin who
      BY <1>1, <1>2, <2>2, <2>3, <3>1
    <3> QED BY <3>2 DEF Follows
  <2>4. CASE b # 0
    <3> DEFINE p == 1 + (b % n)
    <3>1. b \in 1 .. n /\ p = IF b = n THEN 1 ELSE b + 1
      <4>1. b \in 1 .. n
        BY <1>1, <2>4
      <4> QED BY <1>1, <4>1, FirstPlace
    <3>2. pool[b] \in who /\ Turn(i, 0) = {pool[p]}
      BY <1>2, <2>2, <2>4
    <3> HIDE DEF p
    <3>3. p \in DOMAIN pool /\ (IF p = 1 THEN Len(pool) ELSE p - 1) = b
          /\ b \in DOMAIN pool
      BY <1>1, <2>1, <3>1
    <3> QED BY <3>2, <3>3 DEF Follows
  <2> QED BY <2>3, <2>4
<1> QED BY <1>4, <1>5 DEF pool, who

\* A task that follows takes the turn after the one before it.
LEMMA ContinuesInTurn ==
  ASSUME TypeOK, NEW h \in Ids, Continues(h), tasks[h].pool # <<>>,
         NEW j \in Ids' \ Ids
  PROVE  IF j = Len(tasks) + 1
         THEN Follows(tasks[h].pool, tasks[h].who, tasks'[j].who)
         ELSE /\ j - 1 \in Ids' \ Ids
              /\ Follows(tasks[h].pool, tasks'[j - 1].who, tasks'[j].who)
<1>1. /\ Ids = 1 .. Len(tasks) /\ Len(tasks) \in Nat
      /\ Ids' = 1 .. Len(tasks') /\ Len(tasks') \in Nat
      /\ \A k \in Ids' \ Ids : tasks'[k].who = Turn(h, k - Len(tasks) - 1)
  BY ContinuesTable
<1>2. CASE j = Len(tasks) + 1
  <2>1. tasks'[j].who = Turn(h, 0)
    BY <1>1, <1>2
  <2> QED BY <1>2, <2>1, TurnsOf
<1>3. CASE j # Len(tasks) + 1
  <2> DEFINE m == j - Len(tasks) - 2
  <2>1. m \in Nat /\ j - Len(tasks) - 1 = m + 1 /\ j - 1 \in Ids' \ Ids
        /\ (j - 1) - Len(tasks) - 1 = m
    BY <1>1, <1>3
  <2> HIDE DEF m
  <2>2. tasks'[j].who = Turn(h, m + 1) /\ tasks'[j - 1].who = Turn(h, m)
    BY <1>1, <2>1
  <2> QED BY <1>3, <2>1, <2>2, TurnsOf
<1> QED BY <1>2, <1>3

LEMMA StartsTurns ==
  ASSUME TypeInv, TableInv, TurnInv, Starts
  PROVE  TurnInv'
<1> DEFINE n == Len(tasks) + 1
<1>1. /\ Ids = 1 .. Len(tasks) /\ Len(tasks) \in Nat /\ started \in Nat /\ TypeOK
      /\ \A j \in Ids : /\ tasks[j].series \in Nat /\ tasks[j].series # started + 1
                        /\ tasks[j].from \in Nat /\ tasks[j].from < j
                        /\ tasks[j].prev \in Nat /\ tasks[j].prev < j
  BY TableFacts DEF TypeInv, TableInv
<1>2. /\ tasks' \in Seq(Task) /\ Ids' = Ids \cup {n} /\ n \notin Ids
      /\ \A j \in Ids : tasks'[j] = tasks[j]
      /\ tasks'[n].series = started + 1
      /\ tasks'[n].from = 0 /\ tasks'[n].prev = 0
      /\ \A j \in Ids : j # 0 /\ (tasks[j].from # 0 => tasks[j].from \in Ids)
  BY <1>1, StartsTable
<1>3. PoolMovesOn'
  <2> HIDE DEF n
  <2> QED BY <1>2 DEF TurnInv, PoolMovesOn
<1>4. TurnsInOrder'
  <2>1. n \in Nat /\ n # 0 /\ \A j \in Ids : tasks[j].prev # n
    BY <1>1
  <2> HIDE DEF n
  <2> QED BY <1>2, <2>1 DEF TurnInv, TurnsInOrder, Neighbours
<1> QED BY <1>3, <1>4 DEF TurnInv

\* Where a row goes on in another series, nobody is its neighbour.
LEMMA EditsTurns ==
  ASSUME TypeInv, TableInv, TurnInv, NEW e \in Ids, Edits(e)
  PROVE  TurnInv'
<1>1. /\ Ids = 1 .. Len(tasks) /\ Len(tasks) \in Nat /\ started \in Nat /\ TypeOK
      /\ \A j \in Ids : /\ tasks[j].series \in Nat /\ tasks[j].series # started + 1
                        /\ tasks[j].from \in Nat /\ tasks[j].from < j
                        /\ tasks[j].prev \in Nat /\ tasks[j].prev < j
  BY TableFacts DEF TypeInv, TableInv
<1>2. /\ Ids' = Ids
      /\ \A j \in Ids \ {e} : tasks'[j] = tasks[j]
      /\ \A j \in Ids : /\ tasks'[j].from = tasks[j].from
                        /\ tasks'[j].prev = tasks[j].prev
                        /\ ~ tasks'[j].own => /\ ~ tasks[j].own
                                              /\ tasks'[j].who = tasks[j].who
                                              /\ tasks'[j].pool = tasks[j].pool
      /\ tasks'[e].series = tasks[e].series \/ tasks'[e].series = started + 1
  BY <1>1, EditsTable DEF GoesOn
<1>3. PoolMovesOn'
  <2> SUFFICES ASSUME NEW j \in Ids, tasks[j].from # 0
               PROVE  \/ tasks'[tasks[j].from].pool = <<>>
                      \/ tasks'[tasks[j].from].own
    BY <1>2 DEF PoolMovesOn
  <2>1. tasks[j].from \in Ids
    BY <1>1
  <2>2. tasks[tasks[j].from].pool = <<>> \/ tasks[tasks[j].from].own
    BY DEF TurnInv, PoolMovesOn
  <2> QED BY <1>2, <2>1, <2>2
<1>4. TurnsInOrder'
  <2> SUFFICES ASSUME NEW i \in Ids, NEW j \in Ids, Neighbours(i, j)',
                      tasks'[j].pool # <<>>, ~ tasks'[i].own, ~ tasks'[j].own
               PROVE  Follows(tasks'[j].pool, tasks'[i].who, tasks'[j].who)
    BY <1>2 DEF TurnsInOrder
  <2>1. tasks[j].prev = i /\ tasks'[j].series = tasks'[i].series
    BY <1>2 DEF Neighbours
  <2>2. tasks[j].series = tasks[i].series
    BY <1>1, <1>2, <2>1
  <2>3. Neighbours(i, j)
    BY <2>1, <2>2 DEF Neighbours
  <2> QED BY <1>2, <2>3 DEF TurnInv, TurnsInOrder
<1> QED BY <1>3, <1>4 DEF TurnInv

LEMMA ContinuesTurns ==
  ASSUME TypeInv, TableInv, TurnInv, NEW h \in Ids, Continues(h)
  PROVE  TurnInv'
<1>1. /\ Ids = 1 .. Len(tasks) /\ Len(tasks) \in Nat /\ started \in Nat /\ TypeOK
      /\ \A j \in Ids : /\ tasks[j].series \in Nat /\ tasks[j].series # started + 1
                        /\ tasks[j].from \in Nat /\ tasks[j].from < j
                        /\ tasks[j].prev \in Nat /\ tasks[j].prev < j
  BY TableFacts DEF TypeInv, TableInv
<1>2. /\ Ids \subseteq Ids' /\ Len(tasks) <= Len(tasks')
      /\ Ids' = 1 .. Len(tasks') /\ Len(tasks') \in Nat
      /\ IF IsHead(h) THEN tasks'[h].series = tasks[h].series
         ELSE tasks'[h].series = started + 1
      /\ \A j \in Ids \ {h} : tasks'[j] = tasks[j]
      /\ tasks'[h].from = tasks[h].from /\ tasks'[h].prev = tasks[h].prev
      /\ ~ tasks'[h].own => tasks'[h].who = tasks[h].who /\ tasks'[h].pool = <<>>
      /\ \A j \in Ids' \ Ids :
           /\ tasks'[j].series = tasks'[h].series
           /\ tasks'[j].from = h
           /\ tasks'[j].prev = IF j = Len(tasks) + 1 THEN h ELSE j - 1
           /\ tasks'[j].pool = tasks[h].pool
  BY <1>1, <1>1, ContinuesTable
<1>3. PoolMovesOn'
  <2> SUFFICES ASSUME NEW j \in Ids', tasks'[j].from # 0
               PROVE  \/ tasks'[tasks'[j].from].pool = <<>>
                      \/ tasks'[tasks'[j].from].own
    BY DEF PoolMovesOn
  <2>1. CASE j \in Ids
    <3>1. tasks'[j].from = tasks[j].from /\ tasks[j].from \in Ids
      BY <1>1, <1>2, <2>1
    <3>2. tasks[tasks[j].from].pool = <<>> \/ tasks[tasks[j].from].own
      BY <2>1, <3>1 DEF TurnInv, PoolMovesOn
    <3>3. PICK k \in Ids : k = tasks[j].from
      BY <3>1
    <3>4. tasks'[k].pool = <<>> \/ tasks'[k].own
      <4>1. CASE k = h
        BY <1>2, <4>1
      <4>2. CASE k # h
        BY <1>2, <3>2, <3>3, <4>2
      <4> QED BY <4>1, <4>2
    <3> QED BY <3>1, <3>3, <3>4
  <2>2. CASE j \notin Ids
    BY <1>2, <2>2
  <2> QED BY <2>1, <2>2
<1>4. TurnsInOrder'
  <2> SUFFICES ASSUME NEW i \in Ids', NEW j \in Ids', Neighbours(i, j)',
                      tasks'[j].pool # <<>>, ~ tasks'[i].own, ~ tasks'[j].own
               PROVE  Follows(tasks'[j].pool, tasks'[i].who, tasks'[j].who)
    BY DEF TurnsInOrder
  <2>1. tasks'[j].prev = i /\ tasks'[j].series = tasks'[i].series
    BY DEF Neighbours
  <2>2. CASE j \in Ids
    <3>1. /\ j # h /\ tasks'[j] = tasks[j] /\ i \in Ids /\ tasks[j].prev = i
          /\ tasks[j].series = tasks'[i].series
      <4>1. j # h /\ tasks'[j] = tasks[j]
        BY <1>2, <2>2
      <4>2. i \in 1 .. Len(tasks') /\ tasks[j].prev = i /\ i < j
        BY <1>1, <1>2, <2>1, <2>2, <4>1
      <4> QED BY <1>1, <1>2, <2>1, <2>2, <4>1, <4>2
    <3>2. i # h
      <4>1. ASSUME i = h PROVE FALSE
        <5>1. IsHead(h) /\ tasks[j].series = tasks[h].series
          BY <1>1, <1>2, <2>2, <3>1, <4>1
        <5>2. j <= h
          BY <2>2, <5>1 DEF TableInv, HeadLast, IsHead
        <5> QED BY <1>1, <2>2, <3>1, <4>1, <5>2
      <4> QED BY <4>1
    <3>3. tasks'[i] = tasks[i] /\ Neighbours(i, j)
      BY <1>2, <3>1, <3>2 DEF Neighbours
    <3> QED BY <2>2, <3>1, <3>3 DEF TurnInv, TurnsInOrder
  <2>3. CASE j \notin Ids
    <3>1. tasks'[j].pool = tasks[h].pool /\ j \in Ids' \ Ids
      BY <1>2, <2>3
    <3>2. IF j = Len(tasks) + 1
          THEN Follows(tasks[h].pool, tasks[h].who, tasks'[j].who)
          ELSE /\ j - 1 \in Ids' \ Ids
               /\ Follows(tasks[h].pool, tasks'[j - 1].who, tasks'[j].who)
      BY <1>1, <3>1, ContinuesInTurn
    <3>3. i = IF j = Len(tasks) + 1 THEN h ELSE j - 1
      BY <1>2, <2>1, <3>1
    <3> QED BY <1>2, <3>1, <3>2, <3>3
  <2> QED BY <2>2, <2>3
<1> QED BY <1>3, <1>4 DEF TurnInv

LEMMA TurnInvariance == Spec => []TurnInv
<1>1. Init => TurnInv
  <2> SUFFICES ASSUME Init PROVE Ids = {}
    BY DEF TurnInv, PoolMovesOn, TurnsInOrder
  <2> QED BY DEF Init, Ids
<1>2. IInv /\ TurnInv /\ [Next]_vars => TurnInv'
  <2> SUFFICES ASSUME IInv, TurnInv, [Next]_vars PROVE TurnInv'
    OBVIOUS
  <2>1. TypeInv /\ TableInv /\ TableStep
    BY EveryStepIsATableStep DEF IInv
  <2>2. CASE UNCHANGED <<tasks, started>>
    BY <2>2 DEF TurnInv, PoolMovesOn, TurnsInOrder, Neighbours, Ids
  <2> QED BY <2>1, <2>2, StartsTurns, EditsTurns, ContinuesTurns DEF TableStep
<1> QED BY <1>1, <1>2, Invariance, PTL DEF Spec

\* The tasks of a series take the turns of their pool one after the other, over
\* a backlog of any length, its successor and later completions, for any pools
\* and whatever runs at once; where a request gives a task to others, the next
\* turn is counted from them.
THEOREM TurnsFollowThePool == Spec => []TurnsInOrder
<1>1. TurnInv => TurnsInOrder
  BY DEF TurnInv
<1> QED BY <1>1, TurnInvariance, PTL

\* A pool moves with its series: what was continued has none, except one that a
\* request gave it.
THEOREM PoolsMoveOn == Spec => []PoolMovesOn
<1>1. TurnInv => PoolMovesOn
  BY DEF TurnInv
<1> QED BY <1>1, TurnInvariance, PTL

-----------------------------------------------------------------------------
(***************************************************************************)
(* The refinement of Series.                                               *)
(***************************************************************************)
\* What Series sees of row i.
Seen(i) == [series |-> tasks[i].series, live |-> IsHead(i),
            day |-> tasks[i].due, who |-> tasks[i].who,
            pool |-> tasks[i].pool]
Rows == [i \in Ids |-> Seen(i)]

\* The days of what follows a task come one after the other.
LEMMA ContinuesDays ==
  ASSUME TypeOK, NEW i \in Ids, Continues(i), NEW j \in Ids' \ Ids
  PROVE  /\ tasks'[j].due # NoDay
         /\ j - 1 \in Ids' \ Ids => tasks'[j - 1].due < tasks'[j].due
<1>1. PICK series \in Nat, rule \in RRules,
           due \in Days \cup {NoDay}, next \in Days \cup {NoDay},
           days \in SUBSET Days :
        /\ ContinuedWith(i, series, rule, due, days, next)
        /\ next # NoDay => \A e \in days : e < next
  BY DEF Continues
<1> DEFINE n   == Cardinality(days)
           len == Len(tasks)
<1>2. /\ tasks' \in Seq(Task) /\ n \in Nat
      /\ Len(tasks') = len + n + (IF next = NoDay THEN 0 ELSE 1)
      /\ Ids' = 1 .. Len(tasks')
      /\ IF IsHead(i) THEN series = tasks[i].series /\ started' = started
         ELSE series = started + 1 /\ started' = started + 1 /\ days = {}
      /\ \A k \in Ids \ {i} : tasks'[k] = tasks[k]
      /\ tasks'[i].from = tasks[i].from /\ tasks'[i].prev = tasks[i].prev
      /\ tasks'[i].series = series /\ tasks'[i].type = OneOff
      /\ tasks'[i].origin = NoDay
      /\ ~ tasks'[i].own => tasks'[i].who = tasks[i].who /\ tasks'[i].pool = <<>>
      /\ \A k \in 1 .. n : tasks'[len + k]
           = SpawnTaskFromTemplate(i, OneOff, NoRRule, NthDay(days, k), k - 1)
      /\ next # NoDay => tasks'[len + n + 1]
           = Heir(i, series, rule, due, next, n)
  BY <1>1, ContinuedTable
<1>3. Ids = 1 .. len /\ len \in Nat
  BY TableShape
<1>4. \A k \in 1 .. n : NthDay(days, k) \in days /\ tasks'[len + k].due = NthDay(days, k)
  <2> SUFFICES ASSUME NEW k \in 1 .. n
               PROVE  NthDay(days, k) \in days /\ tasks'[len + k].due = NthDay(days, k)
    OBVIOUS
  <2>1. NthDay(days, k) \in days
    BY NthDayRank
  <2>2. tasks'[len + k] = SpawnTaskFromTemplate(i, OneOff, NoRRule,
                                                NthDay(days, k), k - 1)
    BY <1>2
  <2>3. tasks'[len + k].due = NthDay(days, k)
    <3> DEFINE d == NthDay(days, k)
    <3> HIDE DEF d
    <3>1. SpawnTaskFromTemplate(i, OneOff, NoRRule, d, k - 1).due = d
      BY DEF SpawnTaskFromTemplate
    <3> QED BY <2>2, <3>1 DEF d
  <2> QED BY <2>1, <2>3
<1>5. next # NoDay => tasks'[len + n + 1].due = next
  BY <1>2 DEF Heir, SpawnTaskFromTemplate
<1>6. \A k, m \in 1 .. n : k < m => NthDay(days, k) < NthDay(days, m)
  BY NthDayOrder
<1>7. NoDay \notin Days
  BY KnownConstants
<1> HIDE DEF n, len
<1>8. ASSUME NEW m \in Ids' \ Ids
      PROVE  \/ \E k \in 1 .. n : m = len + k
             \/ next # NoDay /\ m = len + n + 1
  <2>1. /\ m \in Int /\ m > len
        /\ m <= len + n + (IF next = NoDay THEN 0 ELSE 1)
    <3>1. Len(tasks') \in Nat
      BY <1>2, <1>3
    <3> QED BY <1>2, <1>3, <3>1
  <2>2. CASE m <= len + n
    <3>1. m - len \in 1 .. n /\ m = len + (m - len)
      BY <1>2, <1>3, <2>1, <2>2
    <3> QED BY <3>1
  <2>3. CASE ~ (m <= len + n)
    BY <1>2, <1>3, <2>1, <2>3
  <2> QED BY <2>2, <2>3
<1>9. tasks'[j].due # NoDay
  BY <1>4, <1>5, <1>7, <1>8
<1>10. ASSUME j - 1 \in Ids' \ Ids PROVE tasks'[j - 1].due < tasks'[j].due
  <2>1. PICK k \in 1 .. n : j - 1 = len + k
    <3>1. j \in 1 .. Len(tasks') /\ Len(tasks') \in Nat
      BY <1>2, <1>3
    <3>2. j - 1 # len + n + 1
      BY <1>2, <1>3, <3>1
    <3> QED BY <1>8, <1>10, <3>2
  <2>2. CASE \E m \in 1 .. n : j = len + m
    <3>1. PICK m \in 1 .. n : j = len + m
      BY <2>2
    <3>2. j \in Int /\ k < m
      BY <1>2, <1>3, <2>1, <3>1
    <3> QED BY <1>4, <1>6, <2>1, <3>1, <3>2
  <2>3. CASE next # NoDay /\ j = len + n + 1
    <3>1. tasks'[j - 1].due \in days /\ tasks'[j].due = next
      BY <1>4, <1>5, <2>1, <2>3
    <3> QED BY <1>1, <2>3, <3>1
  <2> QED BY <1>8, <2>2, <2>3
<1> QED BY <1>9, <1>10

\* Without a pool there is no turn to take.
LEMMA TurnWithoutPool ==
  ASSUME NEW i, tasks[i].pool = <<>>, NEW step
  PROVE  Turn(i, step) = tasks[i].who
BY DEF Turn, AdvanceRotation

LEMMA StartsSeries ==
  ASSUME TypeInv, TableInv, Starts
  PROVE  SR!Start
<1>1. /\ Ids = 1 .. Len(tasks) /\ Len(tasks) \in Nat /\ TypeOK
      /\ \A j \in Ids : tasks[j].series # started + 1
  <2>1. /\ TypeOK /\ started \in Nat
        /\ \A j \in Ids : tasks[j].series \in Nat /\ tasks[j].series <= started
    BY TableShape DEF TypeInv, TypeOK, Task, TableInv, Numbered
  <2> QED BY <2>1, TableShape
<1> PICK n \in Nat : n = Len(tasks) + 1
  BY <1>1
<1>2. /\ Ids' = Ids \cup {n} /\ n \notin Ids
      /\ \A j \in Ids : tasks'[j] = tasks[j]
      /\ tasks'[n].series = started + 1
  BY <1>1, StartsTable
<1>3. /\ DOMAIN Rows = Ids /\ DOMAIN Rows' = Ids'
      /\ \A j \in Ids : Rows'[j] = Rows[j]
      /\ \A j \in Ids : Rows[j].series = tasks[j].series
      /\ Rows'[n].series = started + 1
  BY <1>2 DEF Rows, Seen, IsHead
<1>4. SR!Old = Ids /\ SR!New = {n}
  BY <1>2, <1>3 DEF SR!Old, SR!New, Rows, Seen
<1>5. \A j \in Ids : SR!Kept(j)
  BY <1>3 DEF SR!Kept, Rows, Seen
<1>6. SR!Begins(n)
  <2>1. \A j \in Ids : Rows'[n].series # Rows[j].series
    BY <1>1, <1>3
  <2> QED BY <1>4, <2>1 DEF SR!Begins, Rows, Seen
<1>7. Ids \subseteq DOMAIN Rows'
  BY <1>2, <1>3
<1>8. \E m \in SR!New : SR!New = {m} /\ SR!Begins(m)
  BY <1>4, <1>6
<1> QED BY <1>4, <1>5, <1>7, <1>8 DEF SR!Start, Rows, Seen

LEMMA EditsSeries ==
  ASSUME TypeInv, TableInv, NEW i \in Ids, Edits(i)
  PROVE  SR!Edit(i) \/ SR!Restart(i)
<1>1. /\ TypeOK
      /\ \A j \in Ids : tasks[j].series # started + 1
  <2>1. /\ TypeOK /\ started \in Nat
        /\ \A j \in Ids : tasks[j].series \in Nat /\ tasks[j].series <= started
    BY TableShape DEF TypeInv, TypeOK, Task, TableInv, Numbered
  <2> QED BY <2>1
<1>2. /\ Ids' = Ids
      /\ \A j \in Ids \ {i} : tasks'[j] = tasks[j]
      /\ GoesOn(tasks'[i], i)
  BY <1>1, EditsTable
<1>3. /\ DOMAIN Rows = Ids /\ DOMAIN Rows' = Ids
      /\ \A j \in Ids \ {i} : Rows'[j] = Rows[j]
      /\ \A j \in Ids : Rows[j].series = tasks[j].series
      /\ Rows'[i].series = tasks'[i].series
      /\ Rows'[i].live <=> tasks'[i].type = Accumulating
      /\ Rows[i].live <=> IsHead(i)
  BY <1>2 DEF Rows, Seen, IsHead
<1>4. CASE /\ tasks'[i].series = tasks[i].series
           /\ tasks'[i].type = Accumulating => IsHead(i)
  BY <1>2, <1>3, <1>4 DEF SR!Edit, SR!Old, SR!Kept, Rows, Seen
<1>5. CASE tasks'[i].series = started + 1 /\ ~ IsHead(i)
  BY <1>1, <1>2, <1>3, <1>5
     DEF SR!Restart, SR!Old, SR!Kept, SR!Begins, Rows, Seen
<1> QED BY <1>2, <1>4, <1>5 DEF GoesOn

LEMMA ContinuesSeries ==
  ASSUME TypeInv, TableInv, NEW i \in Ids, Continues(i)
  PROVE  SR!Continue(i)
<1>1. /\ TypeOK
      /\ \A j \in Ids : tasks[j].series # started + 1
  <2>1. /\ TypeOK /\ started \in Nat
        /\ \A j \in Ids : tasks[j].series \in Nat /\ tasks[j].series <= started
    BY TableShape DEF TypeInv, TypeOK, Task, TableInv, Numbered
  <2> QED BY <2>1
<1>2. /\ Ids = 1 .. Len(tasks) /\ Len(tasks) \in Nat
      /\ Ids' = 1 .. Len(tasks') /\ Len(tasks') \in Nat
      /\ Ids \subseteq Ids'
      /\ IF IsHead(i) THEN tasks'[i].series = tasks[i].series
         ELSE tasks'[i].series = started + 1
      /\ \A j \in Ids \ {i} : tasks'[j] = tasks[j]
      /\ tasks'[i].type = OneOff
      /\ \A j \in Ids' \ Ids :
           /\ tasks'[j].series = tasks'[i].series
           /\ tasks'[j].pool = tasks[i].pool
           /\ tasks'[j].who = Turn(i, j - Len(tasks) - 1)
           /\ tasks'[j].type = Accumulating => j = Len(tasks')
  BY <1>1, ContinuesTable
<1>3. /\ DOMAIN Rows = Ids /\ DOMAIN Rows' = Ids'
      /\ \A j \in Ids \ {i} : Rows'[j] = Rows[j]
      /\ \A j \in Ids' : /\ Rows'[j].series = tasks'[j].series
                         /\ Rows'[j].pool = tasks'[j].pool
                         /\ Rows'[j].who = tasks'[j].who
                         /\ Rows'[j].day = tasks'[j].due
                         /\ Rows'[j].live <=> tasks'[j].type = Accumulating
      /\ \A j \in Ids : Rows[j].series = tasks[j].series
      /\ Rows[i].pool = tasks[i].pool /\ Rows[i].who = tasks[i].who
      /\ Rows[i].live <=> IsHead(i)
  BY <1>2 DEF Rows, Seen, IsHead
<1>4. SR!Old = Ids /\ SR!New = Ids' \ Ids
  BY DEF SR!Old, SR!New
<1>5. \A j \in Ids \ {i} : SR!Kept(j)
  BY <1>2 DEF SR!Kept, IsHead
<1>6. /\ ~ Rows'[i].live
      /\ IF Rows[i].live THEN Rows'[i].series = Rows[i].series ELSE SR!Begins(i)
  <2>1. ~ Rows'[i].live
    BY <1>2, <1>3, KnownConstants
  <2>2. CASE IsHead(i)
    BY <1>2, <1>3, <2>1, <2>2
  <2>3. CASE ~ IsHead(i)
    <3>1. \A j \in Ids : Rows'[i].series # Rows[j].series
      BY <1>1, <1>2, <1>3, <2>3
    <3>2. SR!Begins(i)
      BY <1>4, <3>1 DEF SR!Begins, Rows, Seen
    <3> QED BY <1>3, <2>1, <2>3, <3>2
  <2> QED BY <2>2, <2>3
<1>7. ASSUME NEW j \in Ids' \ Ids
      PROVE  SR!Follows(tasks[i].pool, SR!Before(i, j), tasks'[j].who)
  <2>1. SR!Before(i, j) = IF j - 1 \in Ids' \ Ids THEN tasks'[j - 1].who
                          ELSE tasks[i].who
    BY DEF SR!Before, SR!New
  <2>2. j - 1 \in Ids' \ Ids <=> j # Len(tasks) + 1
    BY <1>2
  <2>3. CASE tasks[i].pool = <<>>
    <3>1. \A k \in Ids' \ Ids : tasks'[k].who = tasks[i].who
      BY <1>2, <2>3, TurnWithoutPool
    <3> QED BY <2>1, <2>3, <3>1 DEF SR!Follows
  <2>4. CASE tasks[i].pool # <<>>
    <3>1. Follows(tasks[i].pool, SR!Before(i, j), tasks'[j].who)
      BY <1>1, <2>1, <2>2, <2>4, ContinuesInTurn
    <3> QED BY <2>4, <3>1 DEF Follows, SR!Follows
  <2> QED BY <2>3, <2>4
<1>8. ASSUME NEW j \in Ids' \ Ids
      PROVE  /\ Rows'[j].series = Rows'[i].series
             /\ Rows'[j].pool = Rows[i].pool
             /\ Rows'[j].day # NoDay
             /\ SR!Follows(Rows[i].pool, SR!Before(i, j), Rows'[j].who)
             /\ Rows'[j].live => \A k \in Ids' \ Ids : k <= j
             /\ j - 1 \in Ids' \ Ids => Rows'[j - 1].day < Rows'[j].day
  <2>1. /\ Rows'[j].series = tasks'[j].series
        /\ Rows'[j].pool = tasks'[j].pool
        /\ Rows'[j].who = tasks'[j].who
        /\ Rows'[j].day = tasks'[j].due
        /\ Rows'[j].live <=> tasks'[j].type = Accumulating
        /\ Rows'[i].series = tasks'[i].series
    BY <1>2, <1>3
  <2>2. j - 1 \in Ids' \ Ids => Rows'[j - 1].day = tasks'[j - 1].due
    BY <1>3
  <2>3. tasks'[j].series = tasks'[i].series /\ tasks'[j].pool = tasks[i].pool
    BY <1>2
  <2>4. SR!Follows(Rows[i].pool, SR!Before(i, j), Rows'[j].who)
    BY <1>3, <1>7, <2>1
  <2>5. /\ tasks'[j].due # NoDay
        /\ j - 1 \in Ids' \ Ids => tasks'[j - 1].due < tasks'[j].due
    BY <1>1, ContinuesDays
  <2>6. Rows'[j].live => \A k \in Ids' \ Ids : k <= j
    BY <1>2, <2>1
  <2> QED BY <1>3, <2>1, <2>2, <2>3, <2>4, <2>5, <2>6
<1>9. Ids \subseteq DOMAIN Rows'
  BY <1>2, <1>3
<1> QED BY <1>4, <1>5, <1>6, <1>8, <1>9 DEF SR!Continue, Rows, Seen

\* Whatever crons, requests and crashes do at once, the table goes through
\* steps of Series: tasks are added to a series only by a step that ends its
\* live task, all of them in that step, in the order of their days, and each
\* has the turn after the one before it.
THEOREM ImplementsSeries == Spec => SeriesGoesOn
<1>1. Init => SR!Init
  BY DEF Init, SR!Init, Ids
<1>2. IInv /\ [Next]_vars => [SR!Next]_Rows
  <2> SUFFICES ASSUME IInv, [Next]_vars PROVE [SR!Next]_Rows
    OBVIOUS
  <2>1. TypeInv /\ TableInv /\ TableStep
    BY EveryStepIsATableStep DEF IInv
  <2>2. CASE UNCHANGED <<tasks, started>>
    BY <2>2 DEF Rows, Seen, Ids, IsHead
  <2>3. CASE Starts
    BY <2>1, <2>3, StartsSeries DEF SR!Next
  <2>4. ASSUME NEW i \in Ids, Edits(i) \/ Continues(i) PROVE SR!Next
    BY <2>1, <2>4, EditsSeries, ContinuesSeries DEF SR!Next, SR!Old
  <2> QED BY <2>1, <2>2, <2>3, <2>4 DEF TableStep
<1> QED BY <1>1, <1>2, Invariance, PTL
       DEF Spec, SeriesGoesOn, SR!Spec, Rows, Seen

-----------------------------------------------------------------------------
(***************************************************************************)
(* Schedules: the day a head counts from, from step to step.               *)
(***************************************************************************)
OriginsOfHeads ==
  \A i \in Ids : tasks[i].origin # NoDay => IsHead(i) /\ tasks[i].due # NoDay

\* Instants that processes hold have passed.
HeldInstants ==
  /\ \A w \in Crons : cron[w].pc # "idle" => cron[w].now <= clock
  /\ \A c \in Clients : client[c].pc = "locked" => client[c].now <= clock

LEMMA HeldInstantsNext ==
  ASSUME TypeInv, HeldInstants, [Next]_vars
  PROVE  HeldInstants'
<1>1. /\ cron \in [Crons -> Cron] /\ client \in [Clients -> Client]
      /\ clock \in Nat /\ ClockStep \in Nat
      /\ \A w \in Crons : cron[w].now \in Nat
      /\ \A c \in Clients : client[c].now \in Nat
  <2>1. Times \subseteq Nat
    BY DEF Times
  <2> QED BY <2>1, SeriesAssumption DEF TypeInv, TypeOK, Cron, Client
<1>2. CASE Tick
  <2>1. clock' = clock + ClockStep /\ cron' = cron /\ client' = client
    BY <1>2 DEF Tick
  <2>2. \A t \in Nat : t <= clock => t <= clock'
    BY <1>1, <2>1
  <2> QED BY <1>1, <2>1, <2>2 DEF HeldInstants
<1>3. ASSUME NEW w \in Crons, CronStep(w) \/ FailTask(w) \/ Crash(w)
      PROVE  HeldInstants'
  <2>1. UNCHANGED <<clock, client>>
    BY <1>3 DEF CronStep, ListOverdue, ReadTask, Convert, FinishTick, FailTask, Crash
  <2>2. \A v \in Crons \ {w} : cron'[v] = cron[v]
    BY <1>1, <1>3
       DEF CronStep, ListOverdue, ReadTask, Convert, FinishTick, FailTask,
           Crash, Leave
  <2>3. ASSUME cron'[w].pc # "idle"
        PROVE  cron'[w].now <= clock
    <3>1. CASE ListOverdue(w)
      BY <1>1, <3>1 DEF ListOverdue, Cron
    <3>2. CASE ReadTask(w)
      BY <1>1, <3>2 DEF ReadTask, Cron, HeldInstants
    <3>3. CASE Convert(w) \/ FailTask(w)
      <4>1. cron' = Leave(w) /\ cron[w].pc # "idle"
        BY <3>3 DEF Convert, FailTask
      <4>2. cron'[w].now = cron[w].now
        BY <1>1, <4>1 DEF Leave, Cron
      <4> QED BY <4>1, <4>2 DEF HeldInstants
    <3>4. CASE FinishTick(w) \/ Crash(w)
      BY <1>1, <2>3, <3>4 DEF FinishTick, Crash, IdleCron, Cron
    <3> QED BY <1>3, <3>1, <3>2, <3>3, <3>4 DEF CronStep
  <2> QED BY <2>1, <2>2, <2>3 DEF HeldInstants
<1>4. ASSUME NEW c \in Clients, NEW i \in Ids, GetTaskForUpdate(c, i)
      PROVE  HeldInstants'
  <2>1. UNCHANGED <<clock, cron>>
    BY <1>4 DEF GetTaskForUpdate
  <2>2. client'[c].now = clock /\ \A d \in Clients \ {c} : client'[d] = client[d]
    BY <1>1, <1>4 DEF GetTaskForUpdate, Client
  <2> QED BY <1>1, <2>1, <2>2 DEF HeldInstants
<1>5. ASSUME NEW c \in Clients, Patch(c) \/ Rollback(c)
      PROVE  HeldInstants'
  <2>1. UNCHANGED <<clock, cron>> /\ client' = [client EXCEPT ![c] = IdleClient]
    BY <1>5 DEF Patch, Rollback
  <2>2. client'[c].pc = "idle" /\ \A d \in Clients \ {c} : client'[d] = client[d]
    BY <1>1, <2>1 DEF IdleClient
  <2> QED BY <2>1, <2>2 DEF HeldInstants
<1>6. CASE UNCHANGED <<clock, cron, client>>
  BY <1>6 DEF HeldInstants
<1> QED
  BY <1>2, <1>3, <1>4, <1>5, <1>6 DEF Next, CreateTask, DeleteTask, vars

\* A new row is one of the backlog or the heir.
LEMMA NewRow ==
  ASSUME TypeOK, NEW i \in Ids, NEW series \in Nat, NEW rule \in RRules,
         NEW due, NEW days \in SUBSET Days, NEW next \in Days \cup {NoDay},
         ContinuedWith(i, series, rule, due, days, next), NEW j \in Ids' \ Ids
  PROVE  \/ tasks'[j].type = OneOff /\ tasks'[j].origin = NoDay
         \/ /\ next # NoDay
            /\ tasks'[j].type = Accumulating /\ tasks'[j].series = series
            /\ tasks'[j].rule = rule /\ tasks'[j].due = next
            /\ tasks'[j].origin = OriginOf(i, rule, due, next)
<1> DEFINE n   == Cardinality(days)
           len == Len(tasks)
<1>1. /\ tasks' \in Seq(Task) /\ n \in Nat
      /\ Len(tasks') = len + n + (IF next = NoDay THEN 0 ELSE 1)
      /\ Ids' = 1 .. Len(tasks')
      /\ IF IsHead(i) THEN series = tasks[i].series /\ started' = started
         ELSE series = started + 1 /\ started' = started + 1 /\ days = {}
      /\ \A k \in Ids \ {i} : tasks'[k] = tasks[k]
      /\ tasks'[i].from = tasks[i].from /\ tasks'[i].prev = tasks[i].prev
      /\ tasks'[i].series = series /\ tasks'[i].type = OneOff
      /\ tasks'[i].origin = NoDay
      /\ ~ tasks'[i].own => tasks'[i].who = tasks[i].who /\ tasks'[i].pool = <<>>
      /\ \A k \in 1 .. n : tasks'[len + k]
           = SpawnTaskFromTemplate(i, OneOff, NoRRule, NthDay(days, k), k - 1)
      /\ next # NoDay => tasks'[len + n + 1]
           = Heir(i, series, rule, due, next, n)
  BY ContinuedTable
<1>2. Ids = 1 .. len /\ len \in Nat
  BY TableShape
<1> HIDE DEF n, len
<1>3. /\ j \in Int /\ j > len
      /\ j <= len + n + (IF next = NoDay THEN 0 ELSE 1)
  BY <1>1, <1>2
<1>4. CASE j <= len + n
  <2>1. j - len \in 1 .. n /\ j = len + (j - len)
    BY <1>1, <1>2, <1>3, <1>4
  <2>2. PICK k \in 1 .. n : j = len + k
    BY <2>1
  <2>3. tasks'[j] = SpawnTaskFromTemplate(i, OneOff, NoRRule, NthDay(days, k), k - 1)
    BY <1>1, <2>2
  <2> QED BY <2>3 DEF SpawnTaskFromTemplate
<1>5. CASE ~ (j <= len + n)
  <2>1. next # NoDay /\ j = len + n + 1
    BY <1>1, <1>2, <1>3, <1>5
  <2>2. tasks'[j] = Heir(i, series, rule, due, next, n)
    BY <1>1, <2>1
  <2>3. LET task == Heir(i, series, rule, due, next, n)
        IN  /\ task.series = series
            /\ task.type = Accumulating /\ task.rule = rule
            /\ task.due = next
            /\ task.origin = OriginOf(i, rule, due, next)
    BY DEF Heir, SpawnTaskFromTemplate
  <2> QED BY <2>1, <2>2, <2>3
<1> QED BY <1>4, <1>5

\* Task j takes over from head i at instant t, without a break in the schedule.
TakesOver(i, j, t) ==
  /\ tasks[i].origin # NoDay
  /\ tasks'[j].origin = tasks[i].origin
  /\ tasks'[j].rule = tasks[i].rule
  /\ tasks'[j].due = NextDue(tasks[i].rule, tasks[i].due, t)
  /\ tasks'[j].due # NoDay
  /\ \/ \E c \in Clients : /\ client[c].pc = "locked" /\ t = client[c].now
                           /\ "complete" \in UserOps
     \/ \E w \in Crons :
          /\ cron[w].pc = "read" /\ t = cron[w].now
          /\ ContinuedWith(i, tasks[i].series, tasks[i].rule, tasks[i].due,
                           MissedOccurrences(tasks[i].rule, tasks[i].due, t),
                           NextDue(tasks[i].rule, tasks[i].due, t))

LEMMA CompleteGiven ==
  ASSUME TypeOK, NEW c \in Clients, NEW b \in Asked(c), Completes(c, b)
  PROVE  "complete" \in UserOps
<1>1. /\ b.done \in {client[c].read.done} \cup Given("complete", {TRUE})
                    \cup Given("reopen", {FALSE})
      /\ b.done /\ ~ client[c].read.done
  BY DEF Asked, Completes
<1>2. client[c].read.done \in BOOLEAN
  BY DEF TypeOK, Task
<1>3. b.done \in Given("complete", {TRUE})
  BY <1>1, <1>2 DEF Given
<1> QED BY <1>3 DEF Given

\* Where the schedule of a row comes from: it begins anew on the day the row is
\* due, or is the row's own, or that of the head the row took over from.
LEMMA Origins ==
  ASSUME IInv, OriginsOfHeads, [Next]_vars, NEW j \in Ids', tasks'[j].origin # NoDay
  PROVE  /\ tasks'[j].type = Accumulating
         /\ \/ tasks'[j].due = tasks'[j].origin
            \/ /\ j \in Ids /\ tasks'[j].series = tasks[j].series
               /\ tasks'[j].origin = tasks[j].origin
               /\ tasks'[j].rule = tasks[j].rule /\ tasks'[j].due = tasks[j].due
            \/ \E i \in Ids, t \in Times :
                 j \notin Ids /\ TakesOver(i, j, t)
<1> DEFINE Same == /\ j \in Ids /\ tasks'[j].series = tasks[j].series
                   /\ tasks'[j].origin = tasks[j].origin
                   /\ tasks'[j].rule = tasks[j].rule /\ tasks'[j].due = tasks[j].due
           Goal == /\ tasks'[j].type = Accumulating
                   /\ \/ tasks'[j].due = tasks'[j].origin
                      \/ Same
                      \/ \E i \in Ids, t \in Times :
                           j \notin Ids /\ TakesOver(i, j, t)
<1>1. TypeOK /\ TypeInv /\ RowAsRead
  BY DEF IInv, TypeInv
<1>2. CASE j \in Ids /\ tasks'[j] = tasks[j]
  BY <1>2 DEF OriginsOfHeads, IsHead
<1>3. ASSUME NEW b \in NewTasks, CreateTask(b)
      PROVE  Goal
  <2>1. /\ Starts
        /\ tasks'[Len(tasks) + 1].due = b.due
        /\ tasks'[Len(tasks) + 1].type = b.type
        /\ tasks'[Len(tasks) + 1].origin
              = IF b.type = Accumulating THEN b.due ELSE NoDay
    BY <1>1, <1>3, CreateStarts
  <2>2. (j \in Ids /\ tasks'[j] = tasks[j]) \/ j = Len(tasks) + 1
    BY <1>1, <2>1, StartsTable
  <2> QED BY <1>2, <2>1, <2>2
<1>4. ASSUME NEW i \in Ids, NEW series \in Nat, NEW rule \in RRules,
             NEW due \in Days \cup {NoDay}, NEW days \in SUBSET Days, NEW t \in Times,
             ContinuedWith(i, series, rule, due, days, NextDue(rule, due, t))
      PROVE  \/ j \in Ids /\ tasks'[j] = tasks[j]
             \/ /\ j \notin Ids /\ tasks'[j].type = Accumulating
                /\ NextDue(rule, due, t) # NoDay
                /\ tasks'[j].rule = rule
                /\ tasks'[j].due = NextDue(rule, due, t)
                /\ tasks'[j].origin = OriginOf(i, rule, due, NextDue(rule, due, t))
  <2> DEFINE next == NextDue(rule, due, t)
  <2>1. next \in Days \cup {NoDay} /\ ContinuedWith(i, series, rule, due, days, next)
    BY <1>4, NextDueType
  <2> HIDE DEF next
  <2>2. /\ tasks'[i].origin = NoDay
        /\ \A k \in Ids \ {i} : tasks'[k] = tasks[k]
    BY <1>1, <2>1, ContinuedTable
  <2>3. CASE j \in Ids
    BY <2>2, <2>3
  <2>4. CASE j \in Ids' \ Ids
    <3>1. \/ tasks'[j].type = OneOff /\ tasks'[j].origin = NoDay
          \/ /\ next # NoDay
             /\ tasks'[j].type = Accumulating /\ tasks'[j].series = series
             /\ tasks'[j].rule = rule /\ tasks'[j].due = next
             /\ tasks'[j].origin = OriginOf(i, rule, due, next)
      BY <1>1, <2>1, <2>4, NewRow
    <3> QED BY <2>4, <3>1 DEF next
  <2> QED BY <2>3, <2>4
<1>5. ASSUME NEW w \in Crons, Convert(w)
      PROVE  Goal
  <2> DEFINE i    == cron[w].id
             rule == cron[w].rule
             due  == cron[w].due
             t    == cron[w].now
             days == MissedOccurrences(rule, due, t)
  <2>1. \/ UNCHANGED <<tasks, started>>
        \/ /\ CanConvert(i)
           /\ ContinuedWith(i, tasks[i].series, rule, due, days, NextDue(rule, due, t))
    BY <1>1, <1>5, ConvertContinues
  <2>2. /\ cron[w].pc = "read" /\ i \in Ids /\ rule \in RRules /\ due \in Days
        /\ due # NoDay /\ t \in Times /\ tasks[i].series \in Nat
    <3>1. cron[w].pc = "read" /\ t \in Times
      BY <1>1, <1>5 DEF Convert, TypeOK
    <3> QED BY <1>1, <3>1, TableShape, KnownConstants DEF TypeInv, Known, Task
  <2>3. days \in SUBSET Days
    BY <2>2, OccurrencesType
  <2>4. CASE UNCHANGED <<tasks, started>>
    BY <1>2, <2>4 DEF Ids
  <2>5. CASE /\ CanConvert(i)
             /\ ContinuedWith(i, tasks[i].series, rule, due, days, NextDue(rule, due, t))
    <3> HIDE DEF i, rule, due, t, days
    <3>1. \/ j \in Ids /\ tasks'[j] = tasks[j]
          \/ /\ j \notin Ids /\ tasks'[j].type = Accumulating
             /\ NextDue(rule, due, t) # NoDay
             /\ tasks'[j].rule = rule
             /\ tasks'[j].due = NextDue(rule, due, t)
             /\ tasks'[j].origin = OriginOf(i, rule, due, NextDue(rule, due, t))
      BY <1>4, <2>2, <2>3, <2>5
    <3>2. CASE j \notin Ids /\ tasks[i].origin # NoDay
               /\ tasks[i].rule = rule /\ tasks[i].due = due
      <4>1. /\ tasks'[j].type = Accumulating /\ tasks'[j].rule = rule
            /\ tasks'[j].due = NextDue(rule, due, t)
            /\ tasks'[j].due # NoDay
            /\ tasks'[j].origin = tasks[i].origin
        BY <3>1, <3>2 DEF OriginOf
      <4>2. \E v \in Crons :
              /\ cron[v].pc = "read" /\ t = cron[v].now
              /\ ContinuedWith(i, tasks[i].series, tasks[i].rule, tasks[i].due,
                               MissedOccurrences(tasks[i].rule, tasks[i].due, t),
                               NextDue(tasks[i].rule, tasks[i].due, t))
        BY <2>2, <2>5, <3>2 DEF t, days
      <4>3. TakesOver(i, j, t)
        BY <3>2, <4>1, <4>2 DEF TakesOver
      <4> QED BY <2>2, <3>2, <4>1, <4>3
    <3> QED BY <1>2, <3>1, <3>2 DEF OriginOf
  <2> QED BY <2>1, <2>4, <2>5
<1>6. ASSUME NEW c \in Clients, Patch(c)
      PROVE  Goal
  <2> DEFINE i == client[c].id
             t == client[c].now
  <2>1. PICK b \in Asked(c) : UpdateTask(c, b)
    BY <1>6 DEF Patch
  <2>2. /\ client[c].pc = "locked" /\ i \in Ids /\ t \in Times
        /\ client[c].read = tasks[i]
        /\ tasks[i].due \in Days \cup {NoDay} /\ tasks[i].series \in Nat
    <3>1. client[c].pc = "locked" /\ t \in Times
      BY <1>1, <1>6 DEF Patch, TypeOK
    <3> QED BY <1>1, <3>1, TableShape DEF TypeInv, Known, RowAsRead, Task
  <2>3. \/ /\ HandsOver(c, b)
           /\ ContinuedWith(i, SeriesOf(c, b), b.rule, tasks[i].due, {},
                            NextDue(b.rule, tasks[i].due, t))
        \/ /\ ~ HandsOver(c, b)
           /\ tasks' = [tasks EXCEPT ![i] = Updated(c, b, i)]
           /\ Edits(i)
    <3>1. LET next == NextDue(b.rule, client[c].read.due, client[c].now)
          IN  \/ /\ HandsOver(c, b)
                 /\ ContinuedWith(i, SeriesOf(c, b), b.rule, client[c].read.due,
                                  {}, next)
                 /\ Continues(i)
              \/ /\ ~ HandsOver(c, b)
                 /\ tasks' = [tasks EXCEPT ![i] = Updated(c, b, i)]
                 /\ Edits(i)
      BY <1>1, <2>1, <2>2, UpdateTaskShape
    <3> QED BY <2>2, <3>1
  <2>4. /\ Updated(c, b, i) \in Task
        /\ Updated(c, b, i).series = SeriesOf(c, b)
        /\ ~ HandsOver(c, b) => /\ Updated(c, b, i).type = b.type
                                /\ Updated(c, b, i).rule = b.rule
        /\ Updated(c, b, i).due = IF Resets(c, b) THEN NextAfter(c, b) ELSE b.due
        /\ Updated(c, b, i).origin = IF b.type = Accumulating /\ ~ HandsOver(c, b)
                             THEN OriginOf(i, b.rule, b.due, b.due) ELSE NoDay
    BY <1>1, <2>2, UpdatedShape
  <2>5. SeriesOf(c, b) \in Nat /\ (b.type \in Recurring => b.rule \in RRules)
    <3>1. SeriesOf(c, b) \in Nat
      BY <2>4 DEF Task
    <3> QED BY <1>1, <3>1, AskedShape
  <2> HIDE DEF i, t
  <2>6. CASE HandsOver(c, b)
    <3> DEFINE rule == b.rule
               due  == tasks[i].due
    <3>1. /\ ContinuedWith(i, SeriesOf(c, b), rule, due, {}, NextDue(rule, due, t))
          /\ rule \in RRules /\ {} \in SUBSET Days /\ due \in Days \cup {NoDay}
      BY <2>2, <2>3, <2>5, <2>6, KnownConstants DEF HandsOver
    <3>2. "complete" \in UserOps
      BY <1>1, <2>6, CompleteGiven DEF HandsOver
    <3> HIDE DEF rule, due
    <3>3. \/ j \in Ids /\ tasks'[j] = tasks[j]
          \/ /\ j \notin Ids /\ tasks'[j].type = Accumulating
             /\ NextDue(rule, due, t) # NoDay
             /\ tasks'[j].rule = rule
             /\ tasks'[j].due = NextDue(rule, due, t)
             /\ tasks'[j].origin = OriginOf(i, rule, due, NextDue(rule, due, t))
      BY <1>4, <2>2, <2>5, <3>1
    <3>4. CASE j \notin Ids /\ tasks[i].origin # NoDay
               /\ tasks[i].rule = rule /\ tasks[i].due = due
      <4>1. /\ tasks'[j].type = Accumulating /\ tasks'[j].rule = rule
            /\ tasks'[j].due = NextDue(rule, due, t)
            /\ tasks'[j].due # NoDay
            /\ tasks'[j].origin = tasks[i].origin
        BY <3>3, <3>4 DEF OriginOf
      <4>2. \E d \in Clients : /\ client[d].pc = "locked" /\ t = client[d].now
                               /\ "complete" \in UserOps
        BY <2>2, <3>2 DEF t
      <4>3. TakesOver(i, j, t)
        BY <3>4, <4>1, <4>2 DEF TakesOver
      <4> QED BY <2>2, <3>4, <4>1, <4>3
    <3> QED BY <1>2, <3>3, <3>4 DEF OriginOf
  <2>7. CASE ~ HandsOver(c, b)
    <3>1. /\ tasks'[i] = Updated(c, b, i) /\ Ids' = Ids
          /\ \A k \in Ids \ {i} : tasks'[k] = tasks[k]
      <4> DEFINE row == Updated(c, b, i)
      <4>1. row \in Task /\ tasks' = [tasks EXCEPT ![i] = row]
        BY <2>3, <2>4, <2>7
      <4> HIDE DEF row
      <4>2. /\ tasks'[i] = row /\ Ids' = Ids
            /\ \A k \in Ids \ {i} : tasks'[k] = tasks[k]
        BY <1>1, <2>2, <4>1, ExceptTable
      <4> QED BY <4>2 DEF row
    <3>2. CASE j # i
      BY <1>2, <3>1, <3>2
    <3>3. CASE j = i
      <4>1. /\ b.type = Accumulating
            /\ tasks'[i].origin = OriginOf(i, b.rule, b.due, b.due)
            /\ tasks'[i].type = b.type /\ tasks'[i].rule = b.rule
            /\ tasks'[i].series = SeriesOf(c, b)
        BY <2>4, <2>7, <3>1, <3>3
      <4>2. tasks'[i].due = b.due
        <5>1. ~ Resets(c, b)
          BY <4>1, KnownConstants DEF Resets, Rotates
        <5> QED BY <2>4, <3>1, <5>1
      <4>3. CASE tasks[i].origin # NoDay /\ tasks[i].rule = b.rule /\ tasks[i].due = b.due
        <5>1. IsHead(i)
          BY <2>2, <4>3 DEF OriginsOfHeads
        <5>2. SeriesOf(c, b) = tasks[i].series
          BY <2>2, <5>1 DEF SeriesOf, Begins, IsHead, i
        <5> QED BY <2>2, <3>3, <4>1, <4>2, <4>3, <5>2 DEF OriginOf
      <4> QED BY <3>3, <4>1, <4>2, <4>3 DEF OriginOf
    <3> QED BY <3>2, <3>3
  <2> QED BY <2>6, <2>7
<1>7. ASSUME NEW i \in Ids, DeleteTask(i)
      PROVE  Goal
  <2>1. /\ Edits(i) /\ tasks[i] \in Task
        /\ tasks'[i] = [tasks[i] EXCEPT !.type = Deleted, !.origin = NoDay]
    BY <1>1, <1>7, DeleteEdits, TableShape
  <2>2. tasks'[i].origin = NoDay
    BY <2>1 DEF Task
  <2>3. Ids' = Ids /\ \A k \in Ids \ {i} : tasks'[k] = tasks[k]
    BY <1>1, <2>1, EditsTable
  <2> QED BY <1>2, <2>2, <2>3
<1>8. \/ UNCHANGED tasks
      \/ \E b \in NewTasks : CreateTask(b)
      \/ \E w \in Crons : Convert(w)
      \/ \E c \in Clients : Patch(c)
      \/ \E i \in Ids : DeleteTask(i)
  BY DEF Next, Tick, CronStep, ListOverdue, ReadTask, FinishTick, FailTask,
         Crash, GetTaskForUpdate, Rollback, vars
<1>9. ASSUME UNCHANGED tasks PROVE Goal
  BY <1>2, <1>9 DEF Ids
<1> HIDE DEF Goal
<1>10. Goal
  BY <1>3, <1>5, <1>6, <1>7, <1>8, <1>9
<1> QED BY <1>10 DEF Goal
\* A schedule has reached the day it counts from, or one of its rule's days.
OnRule ==
  \A i \in Ids : tasks[i].origin # NoDay =>
    tasks[i].due \in Occurs[tasks[i].rule][tasks[i].origin] \cup {tasks[i].origin}

OriginInv == OriginsOfHeads /\ OnRule

\* The head of a schedule, in terms of the calendar.
LEMMA ScheduleType ==
  ASSUME IInv, OriginsOfHeads, NEW i \in Ids, tasks[i].origin # NoDay
  PROVE  /\ tasks[i].rule \in RRules /\ tasks[i].origin \in Days
         /\ tasks[i].due \in Days /\ IsHead(i)
<1>1. TypeOK /\ tasks[i] \in Task /\ IsHead(i) /\ tasks[i].due # NoDay
  BY TableShape DEF IInv, TypeInv, OriginsOfHeads
<1>2. tasks[i].type \in Recurring
  BY <1>1, KnownConstants DEF IsHead
<1> QED BY <1>1, <1>2 DEF Task, IInv, TypeInv, Known

\* What is taken over goes on with the rule.
LEMMA TakenOver ==
  ASSUME CountsAlike, IInv, OriginInv, NEW i \in Ids, NEW j, NEW t \in Times,
         TakesOver(i, j, t)
  PROVE  LET r == tasks[i].rule
             o == tasks[i].origin
             d == tasks[i].due
             n == NextDue(r, d, t)
         IN  /\ r \in RRules /\ o \in Days /\ d \in Days /\ n # NoDay
             /\ tasks'[j].rule = r /\ tasks'[j].origin = o /\ tasks'[j].due = n
             /\ n \in Occurs[r][o] /\ Occurs[r][o] \subseteq Days
             /\ \A e \in Occurs[r][o] : d <= e => e \in Occurs[r][d]
             /\ \A e \in Occurs[r][d] : Midnight(e) > t => n <= e
<1> DEFINE r == tasks[i].rule
           o == tasks[i].origin
           d == tasks[i].due
           n == NextDue(r, d, t)
<1>1. /\ o # NoDay /\ n # NoDay
      /\ tasks'[j].rule = r /\ tasks'[j].origin = o /\ tasks'[j].due = n
  BY DEF TakesOver
<1>2. r \in RRules /\ o \in Days /\ d \in Days
  BY <1>1, ScheduleType DEF OriginInv
<1>3. d \in Occurs[r][o] \cup {o}
  BY <1>1 DEF OriginInv, OnRule
<1> HIDE DEF r, o, d
<1>4. /\ Occurs[r][o] \subseteq Days /\ Occurs[r][d] \subseteq Occurs[r][o]
      /\ \A e \in Occurs[r][o] : d <= e => e \in Occurs[r][d]
  BY <1>2, <1>3, WhatIsLeft
<1>5. /\ n \in Occurs[r][d]
      /\ \A e \in Occurs[r][d] : Midnight(e) > t => n <= e
  BY <1>1, <1>2, NextOnRule
<1> QED BY <1>1, <1>2, <1>4, <1>5 DEF r, o, d

LEMMA OriginInvNext ==
  ASSUME CountsAlike, IInv, IInv', OriginInv, [Next]_vars
  PROVE  OriginInv'
<1>1. ASSUME NEW j \in Ids', tasks'[j].origin # NoDay
      PROVE  /\ IsHead(j)' /\ tasks'[j].due # NoDay
             /\ tasks'[j].due \in
                  Occurs[tasks'[j].rule][tasks'[j].origin] \cup {tasks'[j].origin}
  <2>1. tasks'[j].type = Accumulating
    BY <1>1, Origins DEF OriginInv
  <2>2. CASE tasks'[j].due = tasks'[j].origin
    BY <1>1, <2>1, <2>2 DEF IsHead
  <2>3. CASE /\ j \in Ids /\ tasks'[j].origin = tasks[j].origin
             /\ tasks'[j].rule = tasks[j].rule /\ tasks'[j].due = tasks[j].due
    BY <1>1, <2>1, <2>3 DEF OriginInv, OriginsOfHeads, OnRule, IsHead
  <2>4. ASSUME NEW i \in Ids, NEW t \in Times, TakesOver(i, j, t)
        PROVE  /\ tasks'[j].due # NoDay
               /\ tasks'[j].due \in Occurs[tasks'[j].rule][tasks'[j].origin]
    BY <2>4, TakenOver
  <2> QED BY <1>1, <2>1, <2>2, <2>3, <2>4, Origins DEF OriginInv, IsHead
<1> QED BY <1>1 DEF OriginInv, OriginsOfHeads, OnRule

LEMMA AheadNext ==
  ASSUME CountsAlike, IInv, IInv', OriginInv, HeldInstants, [Next]_vars,
         SkippedDaysHavePassed
  PROVE  SkippedDaysHavePassed'
<1> SUFFICES ASSUME NEW j \in Ids', tasks'[j].origin # NoDay,
                    NEW e \in Occurs[tasks'[j].rule][tasks'[j].origin],
                    Midnight(e) > clock'
             PROVE  tasks'[j].due <= e
  BY DEF SkippedDaysHavePassed, Midnight
<1>1. /\ clock \in Int /\ clock' \in Int /\ clock <= clock'
      /\ \A d \in Days : d \in Int /\ Midnight(d) \in Int
      /\ \A t \in Times : t \in Int
  <2>1. TypeOK /\ clock \in Times /\ clock' \in Times
    BY DEF IInv, TypeInv, TypeOK
  <2>2. clock <= clock'
    BY <2>1, CountersType
  <2> QED BY <2>1, <2>2, CalendarAssumption DEF Times, Days, Midnight
<1>2. /\ tasks'[j].rule \in RRules /\ tasks'[j].origin \in Days
      /\ tasks'[j].due \in Days
  <2>1. /\ tasks'[j] \in Task /\ tasks'[j].type = Accumulating
        /\ tasks'[j].due # NoDay
        /\ tasks'[j].type \in Recurring => tasks'[j].rule \in RRules
    <3>1. TypeOK' /\ OriginInv' /\ Known'
      BY OriginInvNext DEF IInv, TypeInv
    <3>2. tasks'[j] \in Task
      BY <3>1, ElementOfSeq, LenProperties DEF TypeOK, Ids
    <3> QED BY <3>1, <3>2 DEF OriginInv, OriginsOfHeads, Known, IsHead
  <2> QED BY <2>1, KnownConstants DEF Task
<1>3. e \in Days /\ tasks'[j].origin <= e
  BY <1>2, CalendarAssumption
<1>4. Midnight(e) > clock
  BY <1>1, <1>3
<1>5. CASE tasks'[j].due = tasks'[j].origin
  BY <1>3, <1>5
<1>6. CASE /\ j \in Ids /\ tasks'[j].origin = tasks[j].origin
           /\ tasks'[j].rule = tasks[j].rule /\ tasks'[j].due = tasks[j].due
  BY <1>4, <1>6 DEF SkippedDaysHavePassed
<1>7. ASSUME NEW i \in Ids, NEW t \in Times, TakesOver(i, j, t)
      PROVE  tasks'[j].due <= e
  <2> DEFINE r == tasks[i].rule
             o == tasks[i].origin
             d == tasks[i].due
             n == NextDue(r, d, t)
  <2>1. /\ tasks'[j].rule = r /\ tasks'[j].origin = o /\ tasks'[j].due = n
        /\ \A x \in Occurs[r][o] : d <= x => x \in Occurs[r][d]
        /\ \A x \in Occurs[r][d] : Midnight(x) > t => n <= x
    BY <1>7, TakenOver
  <2>2. t <= clock /\ o # NoDay
    BY <1>7 DEF TakesOver, HeldInstants
  <2>3. Midnight(e) > t
    BY <1>1, <1>3, <1>4, <2>2
  <2>4. d <= e
    BY <1>4, <2>1, <2>2 DEF SkippedDaysHavePassed
  <2> HIDE DEF r, o, d, n
  <2> QED BY <2>1, <2>3, <2>4
<1> QED BY <1>5, <1>6, <1>7, Origins DEF OriginInv

\* Where rules count alike from each of their days, neither a cron nor a
\* completion takes a schedule past a day of its rule whose midnight is still to
\* come, whatever requests do to rule, type and date in the meantime.
THEOREM NoDayAheadLeftOut ==
  ASSUME CountsAlike
  PROVE  Spec => []SkippedDaysHavePassed
<1>1. Init => OriginInv /\ HeldInstants /\ SkippedDaysHavePassed
  BY DEF Init, OriginInv, OriginsOfHeads, OnRule, SkippedDaysHavePassed, Ids,
         HeldInstants, IdleCron, IdleClient
<1>2. /\ IInv /\ IInv' /\ OriginInv /\ HeldInstants /\ SkippedDaysHavePassed
      /\ [Next]_vars
      => (OriginInv /\ HeldInstants /\ SkippedDaysHavePassed)'
  BY OriginInvNext, HeldInstantsNext, AheadNext DEF IInv
<1> QED BY <1>1, <1>2, Invariance, PTL DEF Spec
-----------------------------------------------------------------------------
(***************************************************************************)
(* No day twice.                                                           *)
(***************************************************************************)

\* Users complete and reschedule nothing: crons alone continue a series.
CronsOnly == UserOps \cap {"complete", "reschedule"} = {}

\* A cron goes by the due date the row has.
HeldDues ==
  \A w \in Crons : cron[w].pc = "read" =>
    /\ cron[w].due = tasks[cron[w].id].due
    /\ IsDue(cron[w].due, cron[w].now)

\* A cron converts head i at instant t, by some rule.
ConvertsAt(i, rule, t) ==
  /\ IsDue(tasks[i].due, t)
  /\ IsHead(i)
  /\ tasks'[i].due = tasks[i].due
  /\ ContinuedWith(i, tasks[i].series, rule, tasks[i].due,
                   MissedOccurrences(rule, tasks[i].due, t),
                   NextDue(rule, tasks[i].due, t))

DueStep ==
  \/ UNCHANGED <<tasks, started>>
  \/ Starts
  \/ \E i \in Ids : Edits(i) /\ tasks'[i].due = tasks[i].due
  \/ \E i \in Ids, rule \in RRules, t \in Times : ConvertsAt(i, rule, t)

LEMMA FirstOfThree ==
  ASSUME NEW T, NEW s \in Seq(T), NEW u \in Seq(T), NEW v \in Seq(T),
         NEW i \in 1 .. Len(s)
  PROVE  (s \o u \o v)[i] = s[i]
<1> DEFINE su == s \o u
<1>1. /\ Len(s) \in Nat /\ Len(u) \in Nat /\ Len(v) \in Nat
  BY LenProperties
<1>2. su \in Seq(T) /\ Len(su) = Len(s) + Len(u) /\ su[i] = s[i]
  <2>1. /\ su \in Seq(T) /\ Len(su) = Len(s) + Len(u)
        /\ \A k \in 1 .. Len(s) + Len(u) :
             su[k] = IF k <= Len(s) THEN s[k] ELSE u[k - Len(s)]
    BY ConcatProperties
  <2>2. i \in 1 .. Len(s) + Len(u) /\ i <= Len(s)
    BY <1>1
  <2> QED BY <2>1, <2>2
<1> HIDE DEF su
<1>3. (su \o v)[i] = su[i]
  <2>1. \A k \in 1 .. Len(su) + Len(v) :
          (su \o v)[k] = IF k <= Len(su) THEN su[k] ELSE v[k - Len(su)]
    BY <1>2, ConcatProperties
  <2>2. i \in 1 .. Len(su) + Len(v) /\ i <= Len(su)
    BY <1>1, <1>2
  <2> QED BY <2>1, <2>2
<1> QED BY <1>2, <1>3 DEF su

LEMMA ConvertKeepsDue ==
  ASSUME TypeInv, NEW w \in Crons, Convert(w), CanConvert(cron[w].id)
  PROVE  tasks'[cron[w].id].due = tasks[cron[w].id].due
<1> DEFINE i      == cron[w].id
           rule   == cron[w].rule
           due    == cron[w].due
           missed == MissedOccurrences(rule, due, cron[w].now)
           next   == NextDue(rule, due, cron[w].now)
           back   == Backlog(i, missed)
           succ   == Successor(i, tasks[i].series, rule, due, next,
                               Cardinality(missed))
           row    == [tasks[i] EXCEPT !.type = OneOff, !.rule = NoRRule,
                        !.pool = <<>>, !.own = FALSE, !.origin = NoDay]
           old    == [tasks EXCEPT ![i] = row]
<1>1. /\ i \in Ids /\ tasks[i] \in Task /\ rule \in RRules /\ TypeOK
      /\ due \in Days /\ due # NoDay /\ cron[w].now \in Times
  <2>1. cron[w].pc = "read" /\ cron[w].now \in Times
    BY DEF Convert, TypeInv, TypeOK
  <2> QED BY <2>1, TableShape, KnownConstants DEF TypeInv, Known
<1>2. tasks' = old \o back \o succ
  BY DEF Convert, PoolAfter
<1>3. missed \subseteq Days /\ next \in Days \cup {NoDay} /\ tasks[i].series \in Nat
  BY <1>1, OccurrencesType, NextDueType DEF Task
<1>4. row \in Task /\ row.due = tasks[i].due
  <2>1. <<>> \in Seq(Users) /\ OneOff \in Types
    BY EmptySeq, KnownConstants
  <2> QED BY <1>1, <2>1 DEF Task
<1> HIDE DEF row, missed, next, i, rule, due
<1>5. back \in Seq(Task) /\ Cardinality(missed) \in Nat
  BY <1>1, <1>3, BacklogShape
<1>6. succ \in Seq(Task)
  BY <1>1, <1>3, <1>5, SuccessorShape
<1>7. old \in Seq(Task) /\ i \in 1 .. Len(old) /\ old[i] = row
  <2>1. i \in 1 .. Len(tasks) /\ tasks \in Seq(Task)
    BY <1>1, TableShape DEF TypeOK
  <2>2. /\ old \in Seq(Task) /\ Len(old) = Len(tasks)
        /\ \A k \in 1 .. Len(tasks) : old[k] = IF k = i THEN row ELSE tasks[k]
    BY <1>4, <2>1, ExceptSeq
  <2> QED BY <2>1, <2>2
<1> HIDE DEF old, back, succ
<1>8. tasks'[i] = old[i]
  BY <1>2, <1>5, <1>6, <1>7, FirstOfThree
<1> QED BY <1>4, <1>7, <1>8 DEF i

LEMMA EveryStepIsADueStep ==
  ASSUME CronsOnly, TypeInv, RowAsRead, HeldDues, [Next]_vars
  PROVE  DueStep
<1>1. ASSUME NEW b \in NewTasks, CreateTask(b)
      PROVE  DueStep
  BY <1>1, CreateStarts DEF DueStep, TypeInv
<1>2. ASSUME NEW w \in Crons, Convert(w)
      PROVE  DueStep
  <2> DEFINE i == cron[w].id
             t == cron[w].now
  <2>1. /\ i \in Ids /\ cron[w].rule \in RRules /\ t \in Times
        /\ cron[w].due = tasks[i].due /\ IsDue(tasks[i].due, t)
    <3>1. cron[w].pc = "read" /\ t \in Times
      BY <1>2 DEF Convert, TypeInv, TypeOK
    <3> QED BY <3>1 DEF Known, TypeInv, HeldDues
  <2>2. \/ UNCHANGED <<tasks, started>>
        \/ /\ CanConvert(i)
           /\ ContinuedWith(i, tasks[i].series, cron[w].rule, tasks[i].due,
                MissedOccurrences(cron[w].rule, tasks[i].due, t),
                NextDue(cron[w].rule, tasks[i].due, t))
    BY <1>2, <2>1, ConvertContinues
  <2>3. CanConvert(i) => tasks'[i].due = tasks[i].due
    BY <1>2, ConvertKeepsDue
  <2>4. CanConvert(i) => IsHead(i)
    BY DEF CanConvert
  <2> HIDE DEF i, t
  <2> QED BY <2>1, <2>2, <2>3, <2>4 DEF DueStep, ConvertsAt
<1>3. ASSUME NEW c \in Clients, Patch(c)
      PROVE  DueStep
  <2> DEFINE i == client[c].id
  <2>1. PICK b \in Asked(c) : UpdateTask(c, b)
    BY <1>3 DEF Patch
  <2>2. /\ client[c].pc = "locked" /\ i \in Ids /\ TypeOK
        /\ client[c].read = tasks[i]
    BY <1>3 DEF Patch, TypeInv, Known, RowAsRead
  <2>3. ~ Completes(c, b)
    BY <2>2, CompleteGiven DEF CronsOnly
  <2>4. b.due = tasks[i].due
    BY <2>2 DEF Asked, Given, CronsOnly
  <2>5. ~ HandsOver(c, b) /\ ~ Resets(c, b)
    BY <2>3 DEF HandsOver, Resets, Rotates
  <2>6. Edits(i) /\ tasks' = [tasks EXCEPT ![i] = Updated(c, b, i)]
    BY <2>1, <2>2, <2>5, UpdateTaskShape
  <2>7. Updated(c, b, i) \in Task /\ Updated(c, b, i).due = tasks[i].due
    <3>1. LET row == Updated(c, b, i)
          IN  /\ row \in Task
              /\ row.due = IF Resets(c, b) THEN NextAfter(c, b) ELSE b.due
      BY <2>2, UpdatedShape
    <3> QED BY <2>4, <2>5, <3>1
  <2> DEFINE row == Updated(c, b, i)
  <2> HIDE DEF row
  <2>8. tasks'[i] = row
    <3>1. row \in Task /\ tasks' = [tasks EXCEPT ![i] = row]
      BY <2>6, <2>7 DEF row
    <3> QED BY <2>2, <3>1, ExceptTable
  <2> QED BY <2>2, <2>6, <2>7, <2>8 DEF DueStep, row
<1>4. ASSUME NEW i \in Ids, DeleteTask(i)
      PROVE  DueStep
  <2>1. /\ Edits(i) /\ tasks[i] \in Task
        /\ tasks'[i] = [tasks[i] EXCEPT !.type = Deleted, !.origin = NoDay]
    BY <1>4, DeleteEdits, TableShape DEF TypeInv
  <2>2. tasks'[i].due = tasks[i].due
    BY <2>1 DEF Task
  <2> QED BY <2>1, <2>2 DEF DueStep
<1>5. \/ UNCHANGED <<tasks, started>>
      \/ \E b \in NewTasks : CreateTask(b)
      \/ \E w \in Crons : Convert(w)
      \/ \E c \in Clients : Patch(c)
      \/ \E i \in Ids : DeleteTask(i)
  BY DEF Next, Tick, CronStep, ListOverdue, ReadTask, FinishTick, FailTask,
         Crash, GetTaskForUpdate, Rollback, vars
<1>6. ASSUME UNCHANGED <<tasks, started>> PROVE DueStep
  BY <1>6 DEF DueStep
<1> QED BY <1>1, <1>2, <1>3, <1>4, <1>5, <1>6

\* What follows a task, row by row.
LEMMA ContinuedRows ==
  ASSUME TypeOK, NEW i \in Ids, NEW series \in Nat, NEW rule \in RRules,
         NEW due \in Days \cup {NoDay}, NEW days \in SUBSET Days,
         NEW next \in Days \cup {NoDay},
         ContinuedWith(i, series, rule, due, days, next),
         next # NoDay => \A e \in days : e < next
  PROVE  LET n   == Cardinality(days)
             len == Len(tasks)
         IN  /\ n \in Nat /\ len \in Nat
             /\ Ids = 1 .. len /\ Ids \subseteq Ids'
             /\ Ids' = 1 .. len + n + (IF next = NoDay THEN 0 ELSE 1)
             /\ \A j \in Ids \ {i} : tasks'[j] = tasks[j]
             /\ tasks'[i].series = series /\ tasks'[i].type = OneOff
             /\ \A j \in Ids' \ Ids : tasks'[j].series = series
             /\ \A k \in 1 .. n : /\ tasks'[len + k].due = NthDay(days, k)
                                  /\ tasks'[len + k].type = OneOff
             /\ next # NoDay => /\ tasks'[len + n + 1].due = next
                                /\ tasks'[len + n + 1].rule = rule
                                /\ tasks'[len + n + 1].origin
                                     = OriginOf(i, rule, due, next)
<1> DEFINE n    == Cardinality(days)
           len  == Len(tasks)
<1>1. /\ tasks' \in Seq(Task) /\ n \in Nat
      /\ Len(tasks') = len + n + (IF next = NoDay THEN 0 ELSE 1)
      /\ Ids' = 1 .. Len(tasks')
      /\ IF IsHead(i) THEN series = tasks[i].series /\ started' = started
         ELSE series = started + 1 /\ started' = started + 1 /\ days = {}
      /\ \A k \in Ids \ {i} : tasks'[k] = tasks[k]
      /\ tasks'[i].from = tasks[i].from /\ tasks'[i].prev = tasks[i].prev
      /\ tasks'[i].series = series /\ tasks'[i].type = OneOff
      /\ tasks'[i].origin = NoDay
      /\ ~ tasks'[i].own => tasks'[i].who = tasks[i].who /\ tasks'[i].pool = <<>>
      /\ \A k \in 1 .. n : tasks'[len + k]
           = SpawnTaskFromTemplate(i, OneOff, NoRRule, NthDay(days, k), k - 1)
      /\ next # NoDay => tasks'[len + n + 1]
           = Heir(i, series, rule, due, next, n)
  BY ContinuedTable
<1>2. Continues(i)
  BY DEF Continues
<1>3. /\ Ids = 1 .. len /\ len \in Nat /\ Ids \subseteq Ids'
      /\ \A j \in Ids' \ Ids : tasks'[j].series = tasks'[i].series
  BY <1>2, ContinuesTable
<1>4. ASSUME NEW k \in 1 .. n
      PROVE  /\ tasks'[len + k].due = NthDay(days, k)
             /\ tasks'[len + k].type = OneOff
  <2> DEFINE day == NthDay(days, k)
  <2> HIDE DEF day, n, len
  <2>1. tasks'[len + k] = SpawnTaskFromTemplate(i, OneOff, NoRRule, day, k - 1)
    BY <1>1 DEF day
  <2>2. tasks'[len + k].due = day /\ tasks'[len + k].type = OneOff
    BY <2>1 DEF SpawnTaskFromTemplate
  <2> QED BY <2>2 DEF day
<1>5. next # NoDay => /\ tasks'[len + n + 1].due = next
                      /\ tasks'[len + n + 1].rule = rule
                      /\ tasks'[len + n + 1].origin = OriginOf(i, rule, due, next)
  <2> DEFINE row    == tasks'[len + n + 1]
             origin == OriginOf(i, rule, due, next)
  <2> SUFFICES ASSUME next # NoDay
               PROVE  row.due = next /\ row.rule = rule /\ row.origin = origin
    OBVIOUS
  <2>1. row = [SpawnTaskFromTemplate(i, Accumulating, rule, next, n)
                 EXCEPT !.series = series, !.origin = origin]
    BY <1>1 DEF Heir
  <2> HIDE DEF row, origin, n
  <2> QED BY <2>1 DEF SpawnTaskFromTemplate
<1>6. \A j \in Ids' \ Ids : tasks'[j].series = series
  BY <1>1, <1>3
<1>7. Ids' = 1 .. len + n + (IF next = NoDay THEN 0 ELSE 1)
  BY <1>1
<1> HIDE DEF n, len
<1> QED BY <1>1, <1>3, <1>4, <1>5, <1>6, <1>7 DEF n, len

\* A conversion, row by row.
LEMMA ConvertsTable ==
  ASSUME TypeOK, NEW i \in Ids, NEW rule \in RRules, NEW t \in Times,
         ConvertsAt(i, rule, t)
  PROVE  LET d    == tasks[i].due
             days == MissedOccurrences(rule, d, t)
             next == NextDue(rule, d, t)
             n    == Cardinality(days)
             len  == Len(tasks)
         IN  /\ d \in Days /\ days \subseteq Days /\ next \in Days \cup {NoDay}
             /\ n \in Nat /\ len \in Nat
             /\ IsHead(i)
             /\ Ids = 1 .. len /\ Ids \subseteq Ids'
             /\ Ids' = 1 .. len + n + (IF next = NoDay THEN 0 ELSE 1)
             /\ \A j \in Ids \ {i} : tasks'[j] = tasks[j]
             /\ \A j \in Ids : /\ tasks'[j].series = tasks[j].series
                               /\ tasks'[j].due = tasks[j].due
                               /\ IsHead(j)' => IsHead(j) /\ j # i
             /\ \A j \in Ids' \ Ids : tasks'[j].series = tasks[i].series
             /\ \A k \in 1 .. n : /\ tasks'[len + k].due = NthDay(days, k)
                                  /\ tasks'[len + k].type # Accumulating
             /\ next # NoDay => /\ tasks'[len + n + 1].due = next
                                /\ tasks'[len + n + 1].rule = rule
                                /\ tasks'[len + n + 1].origin
                                     = OriginOf(i, rule, d, next)
<1>0. PICK d \in Days \cup {NoDay}, series \in Nat :
        d = tasks[i].due /\ series = tasks[i].series
  BY TableShape DEF Task
<1>1. d \in Days /\ d # NoDay /\ IsHead(i) /\ tasks'[i].due = d
  BY <1>0 DEF ConvertsAt, IsDue
<1>2. PICK days \in SUBSET Days, next \in Days \cup {NoDay} :
        days = MissedOccurrences(rule, d, t) /\ next = NextDue(rule, d, t)
  BY <1>1, OccurrencesType, NextDueType
<1>3. ContinuedWith(i, series, rule, d, days, next)
  BY <1>0, <1>2 DEF ConvertsAt
<1>4. next # NoDay => \A e \in days : e < next
  BY <1>1, <1>2, MissedBeforeNext
<1> DEFINE n   == Cardinality(days)
           len == Len(tasks)
<1>5. /\ n \in Nat /\ len \in Nat
      /\ Ids = 1 .. len /\ Ids \subseteq Ids'
      /\ Ids' = 1 .. len + n + (IF next = NoDay THEN 0 ELSE 1)
      /\ \A j \in Ids \ {i} : tasks'[j] = tasks[j]
      /\ tasks'[i].series = series /\ tasks'[i].type = OneOff
      /\ \A j \in Ids' \ Ids : tasks'[j].series = series
      /\ \A k \in 1 .. n : /\ tasks'[len + k].due = NthDay(days, k)
                           /\ tasks'[len + k].type = OneOff
      /\ next # NoDay => /\ tasks'[len + n + 1].due = next
                         /\ tasks'[len + n + 1].rule = rule
                         /\ tasks'[len + n + 1].origin
                              = OriginOf(i, rule, d, next)
  BY <1>3, <1>4, ContinuedRows
<1> HIDE DEF n, len
<1>6. OneOff # Accumulating
  BY KnownConstants
<1>7. ASSUME NEW j \in Ids
      PROVE  /\ tasks'[j].series = tasks[j].series
             /\ tasks'[j].due = tasks[j].due
             /\ IsHead(j)' => IsHead(j) /\ j # i
  BY <1>0, <1>1, <1>5, <1>6 DEF IsHead
<1>8. \A k \in 1 .. n : /\ tasks'[len + k].due = NthDay(days, k)
                       /\ tasks'[len + k].type # Accumulating
  BY <1>5, <1>6
<1>9. \A j \in Ids' \ Ids : tasks'[j].series = tasks[i].series
  BY <1>0, <1>5
<1> QED BY <1>0, <1>1, <1>2, <1>5, <1>7, <1>8, <1>9 DEF n, len

\* Every row keeps its due date.
LEMMA DuesKept ==
  ASSUME TypeOK, DueStep
  PROVE  Ids \subseteq Ids' /\ \A j \in Ids : tasks'[j].due = tasks[j].due
<1>1. CASE UNCHANGED <<tasks, started>>
  BY <1>1 DEF Ids
<1>2. CASE Starts
  BY <1>2, StartsTable
<1>3. ASSUME NEW i \in Ids, Edits(i), tasks'[i].due = tasks[i].due
      PROVE  Ids \subseteq Ids' /\ \A j \in Ids : tasks'[j].due = tasks[j].due
  BY <1>3, EditsTable
<1>4. ASSUME NEW i \in Ids, NEW rule \in RRules, NEW t \in Times,
             ConvertsAt(i, rule, t)
      PROVE  Ids \subseteq Ids' /\ \A j \in Ids : tasks'[j].due = tasks[j].due
  BY <1>4, ConvertsTable
<1> QED BY <1>1, <1>2, <1>3, <1>4 DEF DueStep

LEMMA HeldDuesNext ==
  ASSUME CronsOnly, TypeInv, RowAsRead, HeldDues, [Next]_vars
  PROVE  HeldDues'
<1> SUFFICES ASSUME NEW v \in Crons, cron'[v].pc = "read"
             PROVE  /\ cron'[v].due = tasks'[cron'[v].id].due
                    /\ IsDue(cron'[v].due, cron'[v].now)
  BY DEF HeldDues
<1> DEFINE Goal == /\ cron'[v].due = tasks'[cron'[v].id].due
                   /\ IsDue(cron'[v].due, cron'[v].now)
<1>1. \A j \in Ids : tasks'[j].due = tasks[j].due
  BY EveryStepIsADueStep, DuesKept DEF TypeInv
<1>2. CASE cron'[v] = cron[v]
  BY <1>1, <1>2 DEF HeldDues, TypeInv, Known
<1>3. ASSUME NEW w \in Crons, CronStep(w) \/ FailTask(w) \/ Crash(w) PROVE Goal
  <2>1. cron \in [Crons -> Cron]
    BY DEF TypeInv, TypeOK, Cron
  <2>2. CASE ReadTask(w)
    <3>1. PICK i \in cron[w].list :
            cron' = IF IsHead(i) /\ IsDue(tasks[i].due, cron[w].now)
                    THEN [cron EXCEPT ![w].pc = "read", ![w].id = i,
                                      ![w].rule = tasks[i].rule,
                                      ![w].due = tasks[i].due,
                                      ![w].list = @ \ {i}]
                    ELSE [cron EXCEPT ![w].list = @ \ {i}]
      BY <2>2 DEF ReadTask
    <3>2. cron[w].pc = "listed" /\ UNCHANGED tasks
      BY <2>2 DEF ReadTask
    <3>3. CASE v # w
      <4>1. cron'[v] = cron[v]
        BY <2>1, <3>1, <3>3
      <4> QED BY <1>2, <4>1
    <3>4. CASE v = w
      <4>1. IsHead(i) /\ IsDue(tasks[i].due, cron[w].now)
        <5>1. ASSUME ~ (IsHead(i) /\ IsDue(tasks[i].due, cron[w].now))
              PROVE  cron'[v].pc = "listed"
          BY <2>1, <3>1, <3>2, <3>4, <5>1 DEF Cron
        <5> QED BY <5>1
      <4>2. /\ cron'[v].id = i /\ cron'[v].due = tasks[i].due
            /\ cron'[v].now = cron[w].now
        BY <2>1, <3>1, <3>4, <4>1 DEF Cron
      <4> QED BY <3>2, <4>1, <4>2
    <3> QED BY <3>3, <3>4
  <2>3. CASE ~ ReadTask(w)
    <3>1. CASE v # w
      <4>1. cron'[v] = cron[v]
        BY <1>3, <2>1, <2>3, <3>1
           DEF CronStep, ListOverdue, Convert, FinishTick, FailTask, Crash, Leave
      <4> QED BY <1>2, <4>1
    <3>2. CASE v = w
      <4>1. ASSUME ListOverdue(w) PROVE cron'[w].pc # "read"
        BY <2>1, <4>1 DEF ListOverdue, Cron
      <4>2. ASSUME Convert(w) \/ FailTask(w) PROVE cron'[w].pc # "read"
        <5>1. cron' = Leave(w)
          BY <4>2 DEF Convert, FailTask
        <5> QED BY <2>1, <5>1 DEF Leave, Cron
      <4>3. ASSUME FinishTick(w) \/ Crash(w) PROVE cron'[w].pc # "read"
        BY <2>1, <4>3 DEF FinishTick, Crash, IdleCron, Cron
      <4>4. cron'[w].pc # "read"
        BY <1>3, <2>3, <4>1, <4>2, <4>3 DEF CronStep
      <4> QED BY <3>2, <4>4
    <3> QED BY <3>1, <3>2
  <2> QED BY <2>2, <2>3
<1>4. UNCHANGED cron \/ \E w \in Crons : CronStep(w) \/ FailTask(w) \/ Crash(w)
  BY DEF Next, CreateTask, Tick, GetTaskForUpdate, Patch, Rollback, DeleteTask, vars
<1> QED BY <1>2, <1>3, <1>4

\* A head has the latest due date of its series.
HeadLatest ==
  \A i, j \in Ids : IsHead(i) /\ j # i /\ tasks[j].series = tasks[i].series =>
    tasks[j].due \in Days /\ tasks[j].due < tasks[i].due

DueOrder == HeadLatest /\ NoDuplicateDue

\* The tasks a conversion creates are due after the one it converts, on days of
\* their own, the new head last.
LEMMA ConvertsDues ==
  ASSUME Offset <= 0, TypeOK, NEW i \in Ids, NEW rule \in RRules,
         NEW t \in Times, ConvertsAt(i, rule, t)
  PROVE  /\ tasks[i].due \in Days
         /\ \A j \in Ids' \ Ids : /\ tasks'[j].due \in Days
                                  /\ tasks[i].due < tasks'[j].due
         /\ \A j, m \in Ids' \ Ids : j # m => tasks'[j].due # tasks'[m].due
         /\ \A j, m \in Ids' \ Ids : IsHead(j)' /\ m # j =>
              tasks'[m].due < tasks'[j].due
<1> DEFINE d    == tasks[i].due
           days == MissedOccurrences(rule, d, t)
           next == NextDue(rule, d, t)
           n    == Cardinality(days)
           len  == Len(tasks)
<1>1. /\ d \in Days /\ days \subseteq Days /\ next \in Days \cup {NoDay}
      /\ n \in Nat /\ len \in Nat
      /\ Ids = 1 .. len
      /\ Ids' = 1 .. len + n + (IF next = NoDay THEN 0 ELSE 1)
      /\ \A k \in 1 .. n : /\ tasks'[len + k].due = NthDay(days, k)
                           /\ tasks'[len + k].type # Accumulating
      /\ next # NoDay => tasks'[len + n + 1].due = next
  BY ConvertsTable
<1>2. IsDue(d, t)
  BY DEF ConvertsAt
<1>3. /\ \A e \in days : e \in Days /\ d < e
      /\ next # NoDay => next \in Days /\ d < next
  <2> HIDE DEF d
  <2> QED BY <1>1, <1>2, SpawnedLater
<1>4. next # NoDay => \A e \in days : e < next
  <2> HIDE DEF d
  <2> QED BY <1>1, MissedBeforeNext
<1>5. /\ \A k \in 1 .. n : NthDay(days, k) \in days
      /\ \A k, m \in 1 .. n : NthDay(days, k) = NthDay(days, m) => k = m
  <2> DEFINE rank(x) == Cardinality({e \in days : e <= x})
  <2> HIDE DEF days
  <2>1. ASSUME NEW k \in 1 .. n
        PROVE  NthDay(days, k) \in days /\ rank(NthDay(days, k)) = k
    BY <1>1, NthDayRank
  <2> HIDE DEF rank, n
  <2> QED BY <2>1
<1>6. Days \subseteq Nat
  BY CalendarAssumption DEF Days
<1> HIDE DEF d, days, next, n, len
<1>7. ASSUME NEW j \in Ids' \ Ids
      PROVE  \/ \E k \in 1 .. n : j = len + k
             \/ next # NoDay /\ j = len + n + 1
  <2>1. /\ j \in Int /\ j > len
        /\ j <= len + n + (IF next = NoDay THEN 0 ELSE 1)
    BY <1>1
  <2>2. CASE j <= len + n
    <3>1. j - len \in 1 .. n /\ j = len + (j - len)
      BY <1>1, <2>1, <2>2
    <3> QED BY <3>1
  <2>3. CASE ~ (j <= len + n)
    BY <1>1, <2>1, <2>3
  <2> QED BY <2>2, <2>3
<1>8. ASSUME NEW j \in Ids' \ Ids
      PROVE  tasks'[j].due \in Days /\ d < tasks'[j].due
  <2>1. CASE \E k \in 1 .. n : j = len + k
    <3>1. PICK k \in 1 .. n : j = len + k
      BY <2>1
    <3>2. tasks'[j].due = NthDay(days, k) /\ NthDay(days, k) \in days
      BY <1>1, <1>5, <3>1
    <3> QED BY <1>3, <3>2
  <2>2. CASE next # NoDay /\ j = len + n + 1
    BY <1>1, <1>3, <2>2
  <2> QED BY <1>7, <2>1, <2>2
<1>9. ASSUME NEW j \in Ids' \ Ids, NEW m \in Ids' \ Ids, j # m
      PROVE  tasks'[j].due # tasks'[m].due
  <2>1. CASE \E k \in 1 .. n : j = len + k
    <3>1. PICK k \in 1 .. n : j = len + k
      BY <2>1
    <3>2. tasks'[j].due = NthDay(days, k) /\ NthDay(days, k) \in days
      BY <1>1, <1>5, <3>1
    <3>3. CASE \E l \in 1 .. n : m = len + l
      <4>1. PICK l \in 1 .. n : m = len + l
        BY <3>3
      <4>2. tasks'[m].due = NthDay(days, l) /\ l # k
        BY <1>1, <1>9, <3>1, <4>1
      <4> QED BY <1>5, <3>2, <4>2
    <3>4. CASE next # NoDay /\ m = len + n + 1
      <4>1. tasks'[m].due = next /\ NthDay(days, k) < next
        BY <1>1, <1>4, <3>2, <3>4
      <4> QED BY <1>3, <1>6, <3>2, <3>4, <4>1
    <3> QED BY <1>7, <3>3, <3>4
  <2>2. CASE next # NoDay /\ j = len + n + 1
    <3>1. PICK k \in 1 .. n : m = len + k
      BY <1>7, <1>9, <2>2
    <3>2. tasks'[m].due = NthDay(days, k) /\ NthDay(days, k) \in days
          /\ tasks'[j].due = next
      BY <1>1, <1>5, <2>2, <3>1
    <3> QED BY <1>3, <1>4, <1>6, <2>2, <3>2
  <2> QED BY <1>7, <2>1, <2>2
<1>10. ASSUME NEW j \in Ids' \ Ids, NEW m \in Ids' \ Ids, IsHead(j)', m # j
       PROVE  tasks'[m].due < tasks'[j].due
  <2>1. next # NoDay /\ j = len + n + 1
    BY <1>1, <1>7, <1>10 DEF IsHead
  <2>2. PICK k \in 1 .. n : m = len + k
    BY <1>7, <1>10, <2>1
  <2> QED BY <1>1, <1>4, <1>5, <2>1, <2>2
<1> QED BY <1>1, <1>8, <1>9, <1>10 DEF d

LEMMA ConvertsOrder ==
  ASSUME Offset <= 0, TypeOK, TableInv, DueOrder,
         NEW i \in Ids, NEW rule \in RRules, NEW t \in Times, ConvertsAt(i, rule, t)
  PROVE  DueOrder'
<1>1. /\ IsHead(i) /\ Ids \subseteq Ids'
      /\ \A j \in Ids : /\ tasks'[j].series = tasks[j].series
                        /\ tasks'[j].due = tasks[j].due
                        /\ IsHead(j)' => IsHead(j) /\ j # i
      /\ \A j \in Ids' \ Ids : tasks'[j].series = tasks[i].series
  BY ConvertsTable
<1>2. /\ tasks[i].due \in Days
      /\ \A j \in Ids' \ Ids : /\ tasks'[j].due \in Days
                               /\ tasks[i].due < tasks'[j].due
      /\ \A j, m \in Ids' \ Ids : j # m => tasks'[j].due # tasks'[m].due
      /\ \A j, m \in Ids' \ Ids : IsHead(j)' /\ m # j =>
           tasks'[m].due < tasks'[j].due
  BY ConvertsDues
<1>3. Days \subseteq Nat
  BY CalendarAssumption DEF Days
<1>4. \A j \in Ids : tasks[j].series = tasks[i].series /\ j # i =>
        tasks[j].due \in Days /\ tasks[j].due < tasks[i].due
  BY <1>1 DEF DueOrder, HeadLatest
<1>5. ASSUME NEW j \in Ids, NEW m \in Ids' \ Ids, tasks[j].series = tasks[i].series
      PROVE  tasks[j].due \in Days /\ tasks[j].due < tasks'[m].due
  <2>1. /\ tasks'[m].due \in Nat /\ tasks[i].due \in Nat
        /\ tasks[i].due < tasks'[m].due
    BY <1>2, <1>3
  <2>2. CASE j = i
    BY <1>2, <2>1, <2>2
  <2>3. CASE j # i
    <3>1. tasks[j].due \in Days /\ tasks[j].due < tasks[i].due
      BY <1>4, <1>5, <2>3
    <3>2. tasks[j].due \in Nat
      BY <1>3, <3>1
    <3>3. \A x, y, z \in Nat : x < y /\ y < z => x < z
      OBVIOUS
    <3> QED BY <2>1, <3>1, <3>2, <3>3
  <2> QED BY <2>2, <2>3
<1>6. HeadLatest'
  <2> SUFFICES ASSUME NEW a \in Ids', NEW b \in Ids', IsHead(a)', b # a,
                      tasks'[b].series = tasks'[a].series
               PROVE  tasks'[b].due \in Days /\ tasks'[b].due < tasks'[a].due
    BY DEF HeadLatest
  <2>1. CASE a \in Ids
    <3>1. IsHead(a) /\ a # i
      BY <1>1, <2>1
    <3>2. tasks[a].series # tasks[i].series
      <4>1. tasks[a].series = tasks[i].series => a <= i /\ i <= a
        BY <1>1, <2>1, <3>1 DEF TableInv, HeadLast, IsHead
      <4>2. a \in Int /\ i \in Int
        BY <2>1, TableShape
      <4> QED BY <3>1, <4>1, <4>2
    <3>3. b \in Ids
      BY <1>1, <2>1, <3>2
    <3> QED BY <1>1, <2>1, <3>1, <3>3 DEF DueOrder, HeadLatest
  <2>2. CASE a \notin Ids
    <3>1. CASE b \in Ids
      BY <1>1, <1>5, <2>2, <3>1
    <3>2. CASE b \notin Ids
      BY <1>2, <2>2, <3>2
    <3> QED BY <3>1, <3>2
  <2> QED BY <2>1, <2>2
<1>7. NoDuplicateDue'
  <2> SUFFICES ASSUME NEW a \in Ids', NEW b \in Ids',
                      tasks'[a].series = tasks'[b].series, tasks'[a].due = tasks'[b].due
               PROVE  a = b
    BY DEF NoDuplicateDue
  <2>1. ASSUME NEW x \in Ids, NEW y \in Ids' \ Ids,
               tasks'[x].series = tasks'[y].series
        PROVE  tasks'[x].due # tasks'[y].due
    <3>1. tasks[x].due \in Days /\ tasks[x].due < tasks'[y].due
          /\ tasks'[y].due \in Days /\ tasks'[x].due = tasks[x].due
      BY <1>1, <1>2, <1>5, <2>1
    <3>2. tasks[x].due \in Nat /\ tasks'[y].due \in Nat
      BY <1>3, <3>1
    <3> QED BY <3>1, <3>2
  <2>2. CASE a \in Ids /\ b \in Ids
    BY <1>1, <2>2 DEF DueOrder, NoDuplicateDue
  <2>3. CASE a \notin Ids /\ b \notin Ids
    BY <1>2, <2>3
  <2> QED BY <2>1, <2>2, <2>3
<1> QED BY <1>6, <1>7 DEF DueOrder

LEMMA DueOrderNext ==
  ASSUME Offset <= 0, TypeOK, TableInv, DueOrder, DueStep
  PROVE  DueOrder'
<1>0. started \in Nat /\ \A j \in Ids : tasks[j].series \in Nat
                                        /\ tasks[j].series # started + 1
  <2>1. /\ started \in Nat
        /\ \A j \in Ids : tasks[j].series \in Nat /\ tasks[j].series <= started
    BY TableShape DEF TypeOK, Task, TableInv, Numbered
  <2> QED BY <2>1
<1>1. CASE UNCHANGED <<tasks, started>>
  BY <1>1 DEF DueOrder, HeadLatest, NoDuplicateDue, Ids, IsHead
<1>2. CASE Starts
  <2>1. PICK n \in Nat : n = Len(tasks) + 1
    BY TableShape
  <2>2. /\ Ids' = Ids \cup {n} /\ tasks'[n].series = started + 1
        /\ \A j \in Ids : tasks'[j] = tasks[j]
    BY <1>2, <2>1, StartsTable
  <2> QED BY <1>0, <2>2 DEF DueOrder, HeadLatest, NoDuplicateDue, IsHead
<1>3. ASSUME NEW i \in Ids, Edits(i), tasks'[i].due = tasks[i].due
      PROVE  DueOrder'
  <2>1. /\ Ids' = Ids /\ \A j \in Ids \ {i} : tasks'[j] = tasks[j]
        /\ GoesOn(tasks'[i], i)
    BY <1>3, EditsTable
  <2>2. CASE /\ tasks'[i].series = tasks[i].series
             /\ tasks'[i].type = Accumulating => IsHead(i)
    <3>1. \A j \in Ids : /\ tasks'[j].due = tasks[j].due
                         /\ tasks'[j].series = tasks[j].series
                         /\ IsHead(j)' => IsHead(j)
      BY <1>3, <2>1, <2>2 DEF IsHead
    <3> QED BY <2>1, <3>1 DEF DueOrder, HeadLatest, NoDuplicateDue
  <2>3. CASE tasks'[i].series = started + 1
    BY <1>0, <2>1, <2>3 DEF DueOrder, HeadLatest, NoDuplicateDue, IsHead
  <2> QED BY <2>1, <2>2, <2>3 DEF GoesOn
<1>4. ASSUME NEW i \in Ids, NEW rule \in RRules, NEW t \in Times,
             ConvertsAt(i, rule, t)
      PROVE  DueOrder'
  BY <1>4, ConvertsOrder
<1> QED BY <1>1, <1>2, <1>3, <1>4 DEF DueStep

DueInv == IInv /\ HeldDues

LEMMA DueInvariance ==
  ASSUME CronsOnly
  PROVE  Spec => []DueInv
<1>1. Init => DueInv
  <2> SUFFICES ASSUME Init PROVE HeldDues
    BY InitIInv DEF DueInv
  <2> QED BY DEF Init, HeldDues, IdleCron
<1>2. DueInv /\ [Next]_vars => DueInv'
  BY NextIInv, HeldDuesNext DEF DueInv, IInv
<1> QED BY <1>1, <1>2, PTL DEF Spec

\* Where only the crons continue series and due dates are not changed, no day
\* of a series has two tasks in any timezone that is not west of UTC, whatever
\* the rule and however often users change it or the type, however late the
\* crons come and wherever one crashes.
THEOREM NoDayTwice ==
  ASSUME Offset <= 0, CronsOnly
  PROVE  Spec => []NoDuplicateDue
<1>1. Init => DueOrder
  BY DEF Init, DueOrder, HeadLatest, NoDuplicateDue, Ids
<1>2. DueInv /\ DueOrder /\ [Next]_vars => DueOrder'
  BY EveryStepIsADueStep, DueOrderNext DEF DueInv, IInv, TypeInv
<1>3. DueOrder => NoDuplicateDue
  BY DEF DueOrder
<1> QED BY <1>1, <1>2, <1>3, DueInvariance, PTL DEF Spec

-----------------------------------------------------------------------------
(***************************************************************************)
(* No day left out.                                                        *)
(***************************************************************************)

\* No server reads its clock in the very instant of a local midnight.
Instants    == {StartTime + k * ClockStep : k \in Nat}
OffMidnight == \A t \in Instants : \A d \in Days : Midnight(d) # t

\* No request makes a task fixed_accumulating again.
NobodyRestarts == Accumulating \notin TypesGiven

ReadInstants ==
  /\ clock \in Instants
  /\ \A w \in Crons : cron[w].pc # "idle" => cron[w].now \in Instants

LEMMA ReadInstantsNext ==
  ASSUME TypeInv, ReadInstants, [Next]_vars
  PROVE  ReadInstants'
<1>1. cron \in [Crons -> Cron] /\ StartTime \in Nat /\ ClockStep \in Nat
  <2>1. Times \subseteq Nat
    BY DEF Times
  <2> QED BY <2>1, SeriesAssumption DEF TypeInv, TypeOK, Cron
<1>2. clock' \in Instants
  <2>1. CASE Tick
    <3>1. PICK k \in Nat : clock = StartTime + k * ClockStep
      BY DEF ReadInstants, Instants
    <3>2. clock' = StartTime + (k + 1) * ClockStep /\ k + 1 \in Nat
      <4>1. (k + 1) * ClockStep = k * ClockStep + ClockStep
            /\ k * ClockStep \in Nat
        BY <1>1
      <4> QED BY <1>1, <2>1, <3>1, <4>1 DEF Tick
    <3> QED BY <3>2 DEF Instants
  <2>2. CASE UNCHANGED clock
    BY <2>2 DEF ReadInstants
  <2> QED
    BY <2>1, <2>2
       DEF Next, CreateTask, CronStep, ListOverdue, ReadTask, Convert,
           FinishTick, FailTask, Crash, GetTaskForUpdate, Patch,
           Rollback, DeleteTask, vars
<1>3. ASSUME NEW v \in Crons, cron'[v].pc # "idle"
      PROVE  cron'[v].now \in Instants
  <2>1. CASE UNCHANGED cron
    BY <1>3, <2>1 DEF ReadInstants
  <2>2. ASSUME NEW w \in Crons, CronStep(w) \/ FailTask(w) \/ Crash(w)
        PROVE  cron'[v].now \in Instants
    <3>1. CASE v # w
      <4>1. cron'[v] = cron[v]
        BY <1>1, <2>2, <3>1
           DEF CronStep, ListOverdue, ReadTask, Convert, FinishTick, FailTask,
               Crash, Leave
      <4> QED BY <1>3, <4>1 DEF ReadInstants
    <3>2. CASE v = w /\ ListOverdue(w)
      <4>1. cron'[w].now = clock
        BY <1>1, <3>2 DEF ListOverdue, Cron
      <4> QED BY <3>2, <4>1 DEF ReadInstants
    <3>3. CASE v = w /\ (ReadTask(w) \/ Convert(w) \/ FailTask(w))
      <4>1. ASSUME ReadTask(w)
            PROVE  cron'[w].now = cron[w].now /\ cron[w].pc # "idle"
        BY <1>1, <4>1 DEF ReadTask, Cron
      <4>2. ASSUME Convert(w) \/ FailTask(w)
            PROVE  cron'[w].now = cron[w].now /\ cron[w].pc # "idle"
        <5>1. cron' = Leave(w) /\ cron[w].pc # "idle"
          BY <4>2 DEF Convert, FailTask
        <5> QED BY <1>1, <5>1 DEF Leave, Cron
      <4> QED BY <3>3, <4>1, <4>2 DEF ReadInstants
    <3>4. CASE v = w /\ (FinishTick(w) \/ Crash(w))
      BY <1>1, <1>3, <3>4 DEF FinishTick, Crash, IdleCron, Cron
    <3> QED BY <2>2, <3>1, <3>2, <3>3, <3>4 DEF CronStep
  <2> QED
    BY <2>1, <2>2
       DEF Next, CreateTask, Tick, GetTaskForUpdate, Patch,
           Rollback, DeleteTask, vars
<1> QED BY <1>2, <1>3 DEF ReadInstants

\* Every row keeps its series.
LEMMA SeriesKept ==
  ASSUME CronsOnly, NobodyRestarts, TypeInv, RowAsRead, HeldDues, [Next]_vars
  PROVE  \A j \in Ids : tasks'[j].series = tasks[j].series
<1>1. ASSUME NEW i \in Ids, Edits(i), tasks'[i].series = tasks[i].series
      PROVE  \A j \in Ids : tasks'[j].series = tasks[j].series
  BY <1>1, EditsTable DEF TypeInv
<1>2. ASSUME NEW c \in Clients, Patch(c)
      PROVE  \A j \in Ids : tasks'[j].series = tasks[j].series
  <2> DEFINE i == client[c].id
  <2>1. PICK b \in Asked(c) : UpdateTask(c, b)
    BY <1>2 DEF Patch
  <2>2. /\ client[c].pc = "locked" /\ i \in Ids /\ TypeOK
        /\ client[c].read = tasks[i]
    BY <1>2 DEF Patch, TypeInv, Known, RowAsRead
  <2>3. ~ HandsOver(c, b)
    BY <2>2, CompleteGiven DEF CronsOnly, HandsOver
  <2>4. Edits(i) /\ tasks' = [tasks EXCEPT ![i] = Updated(c, b, i)]
    BY <2>1, <2>2, <2>3, UpdateTaskShape
  <2>5. Updated(c, b, i) \in Task /\ Updated(c, b, i).series = SeriesOf(c, b)
    BY <2>2, UpdatedShape
  <2>6. SeriesOf(c, b) = tasks[i].series
    BY DEF Asked, SeriesOf, Begins, NobodyRestarts
  <2> DEFINE row == Updated(c, b, i)
  <2>7. row \in Task /\ tasks' = [tasks EXCEPT ![i] = row] /\ row.series = tasks[i].series
    BY <2>4, <2>5, <2>6
  <2> HIDE DEF row
  <2>8. tasks'[i] = row
    BY <2>2, <2>7, ExceptTable
  <2> QED BY <1>1, <2>2, <2>4, <2>7, <2>8
<1>3. ASSUME NEW i \in Ids, DeleteTask(i)
      PROVE  \A j \in Ids : tasks'[j].series = tasks[j].series
  <2>1. /\ Edits(i) /\ tasks[i] \in Task
        /\ tasks'[i] = [tasks[i] EXCEPT !.type = Deleted, !.origin = NoDay]
    BY <1>3, DeleteEdits, TableShape DEF TypeInv
  <2>2. tasks'[i].series = tasks[i].series
    BY <2>1 DEF Task
  <2> QED BY <1>1, <2>1, <2>2
<1>4. ASSUME NEW b \in NewTasks, CreateTask(b)
      PROVE  \A j \in Ids : tasks'[j].series = tasks[j].series
  BY <1>4, CreateStarts, StartsTable DEF TypeInv
<1>5. ASSUME NEW w \in Crons, Convert(w)
      PROVE  \A j \in Ids : tasks'[j].series = tasks[j].series
  <2> DEFINE i == cron[w].id
             t == cron[w].now
  <2>1. /\ i \in Ids /\ cron[w].rule \in RRules /\ t \in Times
        /\ cron[w].due = tasks[i].due /\ IsDue(tasks[i].due, t)
    <3>1. cron[w].pc = "read" /\ t \in Times
      BY <1>5 DEF Convert, TypeInv, TypeOK
    <3> QED BY <3>1 DEF Known, TypeInv, HeldDues
  <2>2. \/ UNCHANGED <<tasks, started>>
        \/ /\ CanConvert(i)
           /\ ContinuedWith(i, tasks[i].series, cron[w].rule, tasks[i].due,
                MissedOccurrences(cron[w].rule, tasks[i].due, t),
                NextDue(cron[w].rule, tasks[i].due, t))
    BY <1>5, <2>1, ConvertContinues
  <2>3. CanConvert(i) => tasks'[i].due = tasks[i].due /\ IsHead(i)
    BY <1>5, ConvertKeepsDue DEF CanConvert
  <2> HIDE DEF i, t
  <2>4. UNCHANGED tasks \/ ConvertsAt(i, cron[w].rule, t)
    BY <2>1, <2>2, <2>3 DEF ConvertsAt
  <2> QED BY <2>1, <2>4, ConvertsTable DEF TypeInv
<1>6. \/ UNCHANGED <<tasks, started>>
      \/ \E b \in NewTasks : CreateTask(b)
      \/ \E w \in Crons : Convert(w)
      \/ \E c \in Clients : Patch(c)
      \/ \E i \in Ids : DeleteTask(i)
  BY DEF Next, Tick, CronStep, ListOverdue, ReadTask, FinishTick, FailTask,
         Crash, GetTaskForUpdate, Rollback, vars
<1> QED BY <1>2, <1>3, <1>4, <1>5, <1>6

\* What a cron spawns between the day of the head it converts and the new head's.
LEMMA NothingBetween ==
  ASSUME OffMidnight, TypeOK, NEW i \in Ids, NEW series \in Nat, NEW r \in RRules,
         NEW d \in Days, NEW t \in Times, t \in Instants,
         ContinuedWith(i, series, r, d, MissedOccurrences(r, d, t), NextDue(r, d, t)),
         NEW e \in Occurs[r][d], d < e, e < NextDue(r, d, t), NextDue(r, d, t) # NoDay
  PROVE  \E k \in Ids' : tasks'[k].series = series /\ tasks'[k].due = e
<1>1. d # NoDay /\ e \in Days
  BY CalendarAssumption, KnownConstants
<1>2. PICK days \in SUBSET Days, next \in Days \cup {NoDay} :
        days = MissedOccurrences(r, d, t) /\ next = NextDue(r, d, t)
  BY <1>1, OccurrencesType, NextDueType
<1>3. ContinuedWith(i, series, r, d, days, next) /\ next # NoDay
  BY <1>2
<1>4. \A x \in days : x < next
  BY <1>2, MissedBeforeNext
<1>5. e \in days
  <2>1. Midnight(e) # t
    BY <1>1 DEF OffMidnight
  <2> QED BY <1>2, <2>1, OnlyTheInstantIsLost
<1>6. PICK k \in 1 .. Cardinality(days) : NthDay(days, k) = e
  BY <1>5, EveryDayHasItsNumber
<1> DEFINE n   == Cardinality(days)
           len == Len(tasks)
<1>7. /\ n \in Nat /\ len \in Nat
      /\ Ids = 1 .. len /\ Ids \subseteq Ids'
      /\ Ids' = 1 .. len + n + (IF next = NoDay THEN 0 ELSE 1)
      /\ \A j \in Ids \ {i} : tasks'[j] = tasks[j]
      /\ tasks'[i].series = series /\ tasks'[i].type = OneOff
      /\ \A j \in Ids' \ Ids : tasks'[j].series = series
      /\ \A m \in 1 .. n : /\ tasks'[len + m].due = NthDay(days, m)
                           /\ tasks'[len + m].type = OneOff
      /\ next # NoDay => /\ tasks'[len + n + 1].due = next
                         /\ tasks'[len + n + 1].rule = r
                         /\ tasks'[len + n + 1].origin
                              = OriginOf(i, r, d, next)
  BY <1>3, <1>4, ContinuedRows
<1> HIDE DEF n, len
<1>8. k \in 1 .. n
  BY DEF n
<1>9. len + k \in Ids' \ Ids
  BY <1>3, <1>7, <1>8
<1> QED BY <1>6, <1>7, <1>8, <1>9

LEMMA CoveredNext ==
  ASSUME CountsAlike, CronsOnly, NobodyRestarts, OffMidnight,
         IInv, HeldDues, OriginInv, ReadInstants, [Next]_vars, NoOccurrenceSkipped,
         IInv'
  PROVE  NoOccurrenceSkipped'
<1>1. /\ TypeOK /\ TypeInv /\ RowAsRead /\ OriginsOfHeads
      /\ Ids \subseteq Ids'
      /\ \A j \in Ids : /\ tasks'[j].due = tasks[j].due
                        /\ tasks'[j].series = tasks[j].series
  BY EveryStepIsADueStep, DuesKept, SeriesKept DEF IInv, TypeInv, OriginInv
<1> SUFFICES ASSUME NEW j \in Ids', tasks'[j].origin # NoDay,
                    NEW e \in Occurs[tasks'[j].rule][tasks'[j].origin],
                    e < tasks'[j].due
             PROVE  \E k \in Ids' : /\ tasks'[k].series = tasks'[j].series
                                    /\ tasks'[k].due = e
  BY DEF NoOccurrenceSkipped
<1> DEFINE Goal == \E k \in Ids' : /\ tasks'[k].series = tasks'[j].series
                                   /\ tasks'[k].due = e
<1>2. CASE tasks'[j].due = tasks'[j].origin
  <2>1. /\ tasks'[j].rule \in RRules /\ tasks'[j].origin \in Days
    <3>1. /\ tasks'[j] \in Task /\ tasks'[j].type = Accumulating
          /\ tasks'[j].type \in Recurring => tasks'[j].rule \in RRules
      <4>1. TypeOK' /\ Known' /\ tasks'[j].type = Accumulating
        BY <1>1, Origins DEF IInv, TypeInv
      <4>2. tasks'[j] \in Task
        BY <4>1, ElementOfSeq, LenProperties DEF TypeOK, Ids
      <4> QED BY <4>1, <4>2 DEF Known
    <3> QED BY <3>1, KnownConstants DEF Task
  <2>2. tasks'[j].origin <= e /\ e \in Int /\ tasks'[j].origin \in Int
    BY <2>1, CalendarAssumption DEF Days
  <2> QED BY <1>2, <2>2
<1>3. CASE /\ j \in Ids /\ tasks'[j].series = tasks[j].series
           /\ tasks'[j].origin = tasks[j].origin
           /\ tasks'[j].rule = tasks[j].rule /\ tasks'[j].due = tasks[j].due
  <2>1. PICK k \in Ids : tasks[k].series = tasks[j].series /\ tasks[k].due = e
    BY <1>3 DEF NoOccurrenceSkipped
  <2> QED BY <1>1, <1>3, <2>1
<1>4. ASSUME NEW i \in Ids, NEW t \in Times, j \notin Ids, TakesOver(i, j, t)
      PROVE  Goal
  <2>1. PICK r, o, d, s : /\ r = tasks[i].rule /\ o = tasks[i].origin
                          /\ d = tasks[i].due /\ s = tasks[i].series
    OBVIOUS
  <2>2. PICK next : next = NextDue(r, d, t)
    OBVIOUS
  <2>3. /\ r \in RRules /\ o \in Days /\ d \in Days /\ s \in Nat
        /\ next # NoDay /\ o # NoDay /\ next \in Days
        /\ tasks'[j].rule = r /\ tasks'[j].origin = o /\ tasks'[j].due = next
        /\ Occurs[r][o] \subseteq Days
        /\ \A x \in Occurs[r][o] : d <= x => x \in Occurs[r][d]
    <3>1. /\ tasks[i].rule \in RRules /\ tasks[i].origin \in Days
          /\ tasks[i].due \in Days
          /\ NextDue(tasks[i].rule, tasks[i].due, t) # NoDay
          /\ tasks'[j].rule = tasks[i].rule /\ tasks'[j].origin = tasks[i].origin
          /\ tasks'[j].due = NextDue(tasks[i].rule, tasks[i].due, t)
          /\ Occurs[tasks[i].rule][tasks[i].origin] \subseteq Days
          /\ \A x \in Occurs[tasks[i].rule][tasks[i].origin] :
               tasks[i].due <= x => x \in Occurs[tasks[i].rule][tasks[i].due]
      BY <1>4, TakenOver
    <3>2. tasks[i].series \in Nat
      BY <1>1, TableShape DEF Task
    <3>3. NextDue(r, d, t) \in Days \cup {NoDay}
      BY <2>1, <3>1, NextDueType
    <3> QED BY <2>1, <2>2, <3>1, <3>2, <3>3, KnownConstants
  <2>4. /\ t \in Instants
        /\ ContinuedWith(i, s, r, d, MissedOccurrences(r, d, t), NextDue(r, d, t))
    BY <1>4, <2>1 DEF TakesOver, CronsOnly, ReadInstants
  <2>5. tasks'[j].series = s
    <3>1. NextDue(r, d, t) # NoDay => \A x \in MissedOccurrences(r, d, t) : x < NextDue(r, d, t)
      BY <2>3, MissedBeforeNext
    <3>2. d # NoDay /\ MissedOccurrences(r, d, t) \in SUBSET Days
          /\ NextDue(r, d, t) \in Days \cup {NoDay} /\ d \in Days \cup {NoDay}
      BY <2>3, OccurrencesType, NextDueType, KnownConstants
    <3>3. Continues(i)
      BY <2>3, <2>4, <3>1, <3>2 DEF Continues
    <3>4. tasks'[j].series = tasks'[i].series
      BY <1>1, <1>4, <3>3, ContinuesTable
    <3> QED BY <1>1, <2>1, <3>4
  <2>6. e \in Occurs[r][o] /\ e \in Days /\ e < next
    BY <2>3
  <2>7. CASE e < d
    <3>1. PICK k \in Ids : tasks[k].series = tasks[i].series /\ tasks[k].due = e
      BY <2>1, <2>3, <2>6, <2>7 DEF NoOccurrenceSkipped
    <3> QED BY <1>1, <2>1, <2>5, <3>1
  <2>8. CASE e = d
    BY <1>1, <2>1, <2>5, <2>8
  <2>9. CASE d < e
    <3>1. e \in Occurs[r][d]
      BY <2>3, <2>6, <2>9 DEF Days
    <3>2. e < NextDue(r, d, t) /\ NextDue(r, d, t) # NoDay
      BY <2>2, <2>3, <2>6
    <3>3. \E k \in Ids' : tasks'[k].series = s /\ tasks'[k].due = e
      BY <1>1, <2>3, <2>4, <2>9, <3>1, <3>2, NothingBetween
    <3> QED BY <2>5, <3>3
  <2>10. d \in Int /\ e \in Int
    BY <2>3, <2>6 DEF Days
  <2> QED BY <2>7, <2>8, <2>9, <2>10
<1> HIDE DEF Goal
<1>5. Goal
  <2>1. \/ tasks'[j].due = tasks'[j].origin
        \/ /\ j \in Ids /\ tasks'[j].series = tasks[j].series
           /\ tasks'[j].origin = tasks[j].origin
           /\ tasks'[j].rule = tasks[j].rule /\ tasks'[j].due = tasks[j].due
        \/ \E i \in Ids, t \in Times : j \notin Ids /\ TakesOver(i, j, t)
    BY <1>1, Origins
  <2> QED BY <1>2, <1>3, <1>4, <2>1 DEF Goal
<1> QED BY <1>5 DEF Goal

\* Where the crons alone continue series, on rules that count alike from each of
\* their days, and no server ever reads its clock in the very instant of a local
\* midnight, every occurrence up to the head of a schedule has its task, however
\* late the crons come, wherever one crashes and whatever rules users give.
THEOREM NoDayLeftOut ==
  ASSUME CronsOnly, NobodyRestarts, CountsAlike, OffMidnight
  PROVE  Spec => []NoOccurrenceSkipped
<1>1. Init => OriginInv /\ ReadInstants /\ NoOccurrenceSkipped
  <2> SUFFICES ASSUME Init PROVE OriginInv /\ ReadInstants /\ NoOccurrenceSkipped
    OBVIOUS
  <2>1. StartTime \in Instants
    <3>1. StartTime = StartTime + 0 * ClockStep /\ 0 \in Nat
      BY SeriesAssumption DEF Times
    <3> QED BY <3>1 DEF Instants
  <2> QED BY <2>1 DEF Init, OriginInv, OriginsOfHeads, OnRule, NoOccurrenceSkipped,
                 Ids, ReadInstants, IdleCron
<1>2. /\ DueInv /\ DueInv' /\ OriginInv /\ ReadInstants /\ NoOccurrenceSkipped
      /\ [Next]_vars
      => (OriginInv /\ ReadInstants /\ NoOccurrenceSkipped)'
  BY OriginInvNext, ReadInstantsNext, CoveredNext DEF DueInv, IInv
<1> QED BY <1>1, <1>2, DueInvariance, PTL DEF Spec

-----------------------------------------------------------------------------
(***************************************************************************)
(* No series is dropped.                                                   *)
(***************************************************************************)
\* Requests give tasks no other type.
NobodyStops == TypesGiven \subseteq {Accumulating}

\* A rule that yields nothing any more, counted from one instant, yields nothing
\* later.  (Counted from a due date this is so for every rule.)
EndsForGood ==
  \A r \in RRules, t, u \in Times :
    t <= u /\ LaterOccurrences(r, NoDay, t) = {} => LaterOccurrences(r, NoDay, u) = {}

LEMMA NothingLater ==
  ASSUME EndsForGood, NEW r \in RRules, NEW d \in Days \cup {NoDay},
         NEW t \in Times, NEW u \in Times, t <= u, NextDue(r, d, t) = NoDay
  PROVE  LaterOccurrences(r, d, u) = {}
<1>1. LaterOccurrences(r, d, t) = {}
  BY OccurrencesType, EarliestProperty DEF NextDue
<1>2. CASE d = NoDay
  BY <1>1, <1>2 DEF EndsForGood
<1>3. CASE d # NoDay
  <2>1. t \in Int /\ u \in Int /\ \A e \in Occurs[r][d] : Midnight(e) \in Int
    BY <1>3, CalendarAssumption DEF Times, Days, Midnight
  <2>2. ASSUME NEW e \in Occurs[r][d], Midnight(e) > u PROVE FALSE
    <3>1. Midnight(e) > t
      BY <2>1, <2>2
    <3> QED BY <1>1, <1>3, <3>1 DEF LaterOccurrences
  <2> QED BY <1>3, <2>2 DEF LaterOccurrences
<1> QED BY <1>2, <1>3

\* A task that has been continued with a next day has its successor.
LEMMA ContinuedHasHead ==
  ASSUME TypeOK, NEW i \in Ids, NEW series \in Nat, NEW rule \in RRules,
         NEW due \in Days \cup {NoDay}, NEW days \in SUBSET Days,
         NEW next \in Days \cup {NoDay},
         ContinuedWith(i, series, rule, due, days, next)
  PROVE  next # NoDay =>
           \E j \in Ids' : tasks'[j].series = series /\ tasks'[j].type = Accumulating
<1> DEFINE n   == Cardinality(days)
           len == Len(tasks)
<1>1. /\ tasks' \in Seq(Task) /\ n \in Nat
      /\ Len(tasks') = len + n + (IF next = NoDay THEN 0 ELSE 1)
      /\ Ids' = 1 .. Len(tasks')
      /\ IF IsHead(i) THEN series = tasks[i].series /\ started' = started
         ELSE series = started + 1 /\ started' = started + 1 /\ days = {}
      /\ \A k \in Ids \ {i} : tasks'[k] = tasks[k]
      /\ tasks'[i].from = tasks[i].from /\ tasks'[i].prev = tasks[i].prev
      /\ tasks'[i].series = series /\ tasks'[i].type = OneOff
      /\ tasks'[i].origin = NoDay
      /\ ~ tasks'[i].own => tasks'[i].who = tasks[i].who /\ tasks'[i].pool = <<>>
      /\ \A k \in 1 .. n : tasks'[len + k]
           = SpawnTaskFromTemplate(i, OneOff, NoRRule, NthDay(days, k), k - 1)
      /\ next # NoDay => tasks'[len + n + 1]
           = Heir(i, series, rule, due, next, n)
  BY ContinuedTable
<1>2. len \in Nat
  BY TableShape
<1> HIDE DEF n, len
<1> SUFFICES ASSUME next # NoDay
             PROVE  \E j \in Ids' : /\ tasks'[j].series = series
                                    /\ tasks'[j].type = Accumulating
  OBVIOUS
<1> DEFINE j == len + n + 1
<1>3. j \in Ids' /\ tasks'[j] = Heir(i, series, rule, due, next, n)
  BY <1>1, <1>2
<1> HIDE DEF j
<1>4. LET task == Heir(i, series, rule, due, next, n)
      IN  task.series = series /\ task.type = Accumulating
  BY DEF Heir, SpawnTaskFromTemplate
<1> QED BY <1>3, <1>4

\* A head that ends without successor was deleted, or its rule ran out.
LEMMA HeadEnds ==
  ASSUME NobodyStops, EndsForGood, IInv, HeldInstants, [Next]_vars,
         NEW i \in Ids, IsHead(i), ~ Continued(i)
  PROVE  tasks'[i].type = Deleted \/ RanOut(i)
<1>1. /\ TypeOK /\ TypeInv /\ RowAsRead /\ clock \in Times
      /\ tasks[i].series \in Nat
  BY TableShape DEF IInv, TypeInv, TypeOK, Task
<1>2. \A j \in Ids' :
        ~ (tasks'[j].series = tasks[i].series /\ tasks'[j].type = Accumulating)
  BY DEF Continued, Ids
<1>3. ASSUME i \in Ids', tasks'[i] = tasks[i] PROVE FALSE
  BY <1>2, <1>3 DEF IsHead
<1>4. CASE UNCHANGED tasks
  BY <1>3, <1>4 DEF Ids
<1>5. ASSUME NEW b \in NewTasks, CreateTask(b) PROVE FALSE
  BY <1>1, <1>3, <1>5, CreateStarts, StartsTable
<1>6. ASSUME NEW k \in Ids, DeleteTask(k) PROVE tasks'[i].type = Deleted
  <2>1. /\ Edits(k) /\ tasks[k] \in Task
        /\ tasks'[k] = [tasks[k] EXCEPT !.type = Deleted, !.origin = NoDay]
    BY <1>1, <1>6, DeleteEdits, TableShape
  <2>2. k = i
    BY <1>1, <1>3, <2>1, EditsTable
  <2> QED BY <2>1, <2>2 DEF Task
<1>7. ASSUME NEW w \in Crons, Convert(w) PROVE RanOut(i)
  <2> DEFINE k    == cron[w].id
             rule == cron[w].rule
             due  == cron[w].due
             t    == cron[w].now
             days == MissedOccurrences(rule, due, t)
             next == NextDue(rule, due, t)
  <2>1. /\ cron[w].pc = "read" /\ k \in Ids /\ rule \in RRules
        /\ due \in Days /\ due # NoDay /\ t \in Times /\ t <= clock
        /\ tasks[k].series \in Nat
    <3>1. cron[w].pc = "read" /\ t \in Times
      BY <1>1, <1>7 DEF Convert, TypeOK
    <3> QED BY <1>1, <3>1, TableShape, KnownConstants
            DEF TypeInv, Known, HeldInstants, Task
  <2>2. /\ CanConvert(k)
        /\ ContinuedWith(k, tasks[k].series, rule, due, days, next)
        /\ Continues(k)
    <3>1. \/ UNCHANGED <<tasks, started>>
          \/ /\ CanConvert(k)
             /\ ContinuedWith(k, tasks[k].series, rule, due, days, next)
             /\ Continues(k)
      BY <1>1, <1>7, ConvertContinues
    <3>2. ~ UNCHANGED tasks
      BY <1>3 DEF Ids
    <3> QED BY <3>1, <3>2
  <2>3. days \in SUBSET Days /\ next \in Days \cup {NoDay}
    BY <2>1, OccurrencesType, NextDueType
  <2>4. cron'[w].pc = "listed"
    <3>1. cron' = Leave(w) /\ cron \in [Crons -> Cron]
      BY <1>1, <1>7 DEF Convert, TypeOK, Cron
    <3> QED BY <3>1 DEF Leave, Cron
  <2> HIDE DEF k, rule, due, t, days, next
  <2>5. k = i
    BY <1>1, <1>3, <2>1, <2>2, ContinuesTable
  <2>6. next = NoDay
    <3>1. ASSUME next # NoDay PROVE FALSE
      <4>1. \E j \in Ids' : /\ tasks'[j].series = tasks[k].series
                            /\ tasks'[j].type = Accumulating
        BY <1>1, <2>1, <2>2, <2>3, <3>1, ContinuedHasHead
      <4> QED BY <1>2, <2>5, <4>1
    <3> QED BY <3>1
  <2>7. LaterOccurrences(rule, due, clock) = {}
    BY <1>1, <2>1, <2>6, NothingLater DEF next
  <2> QED BY <2>1, <2>4, <2>5, <2>7 DEF RanOut, k, rule, due
<1>8. ASSUME NEW c \in Clients, Patch(c) PROVE RanOut(i)
  <2> DEFINE k == client[c].id
             t == client[c].now
             d == tasks[k].due
  <2>1. PICK b \in Asked(c) : UpdateTask(c, b)
    BY <1>8 DEF Patch
  <2>2. /\ client[c].pc = "locked" /\ k \in Ids /\ t \in Times /\ t <= clock
        /\ client[c].read = tasks[k]
        /\ d \in Days \cup {NoDay}
    <3>1. client[c].pc = "locked" /\ t \in Times
      BY <1>1, <1>8 DEF Patch, TypeOK
    <3> QED BY <1>1, <3>1, TableShape
            DEF TypeInv, Known, RowAsRead, HeldInstants, Task
  <2>3. \/ /\ HandsOver(c, b)
           /\ ContinuedWith(k, SeriesOf(c, b), b.rule, d, {}, NextDue(b.rule, d, t))
           /\ Continues(k)
        \/ /\ ~ HandsOver(c, b)
           /\ tasks' = [tasks EXCEPT ![k] = Updated(c, b, k)]
           /\ Edits(k)
    <3>1. LET next == NextDue(b.rule, client[c].read.due, client[c].now)
          IN  \/ /\ HandsOver(c, b)
                 /\ ContinuedWith(k, SeriesOf(c, b), b.rule, client[c].read.due,
                                  {}, next)
                 /\ Continues(k)
              \/ /\ ~ HandsOver(c, b)
                 /\ tasks' = [tasks EXCEPT ![k] = Updated(c, b, k)]
                 /\ Edits(k)
      BY <1>1, <2>1, <2>2, UpdateTaskShape
    <3> QED BY <2>2, <3>1
  <2>4. k = i
    BY <1>1, <1>3, <2>2, <2>3, EditsTable, ContinuesTable
  <2>5. b.type = Accumulating /\ SeriesOf(c, b) = tasks[i].series
    <3>1. client[c].read.type = Accumulating
      BY <2>2, <2>4 DEF IsHead
    <3> QED BY <2>4, <3>1 DEF Asked, NobodyStops, SeriesOf, Begins
  <2>6. b.rule \in RRules
    BY <1>1, <2>5, AskedShape, KnownConstants
  <2>7. CASE ~ HandsOver(c, b)
    <3> DEFINE row == Updated(c, b, k)
    <3>1. row \in Task /\ row.type = Accumulating /\ row.series = tasks[i].series
      BY <1>1, <2>2, <2>5, <2>7, UpdatedShape
    <3>2. tasks' = [tasks EXCEPT ![k] = row]
      BY <2>3, <2>7
    <3> HIDE DEF row, k
    <3>3. tasks'[k] = row /\ Ids' = Ids
      BY <1>1, <2>2, <3>1, <3>2, ExceptTable
    <3> QED BY <1>2, <2>4, <3>1, <3>3
  <2>8. CASE HandsOver(c, b)
    <3> DEFINE next == NextDue(b.rule, d, t)
    <3> HIDE DEF k, d, t
    <3>1. /\ ContinuedWith(k, tasks[i].series, b.rule, d, {}, next)
          /\ next \in Days \cup {NoDay} /\ {} \in SUBSET Days
      BY <2>2, <2>3, <2>5, <2>6, <2>8, NextDueType
    <3> HIDE DEF next
    <3>2. next = NoDay
      <4>1. ASSUME next # NoDay PROVE FALSE
        <5>1. \E j \in Ids' : /\ tasks'[j].series = tasks[i].series
                              /\ tasks'[j].type = Accumulating
          BY <1>1, <2>2, <2>6, <3>1, <4>1, ContinuedHasHead
        <5> QED BY <1>2, <5>1
      <4> QED BY <4>1
    <3>3. LaterOccurrences(b.rule, d, clock) = {}
      BY <1>1, <2>2, <2>6, <3>2, NothingLater DEF next
    <3> QED BY <2>1, <2>2, <2>4, <3>3 DEF RanOut, k, d
  <2> QED BY <2>7, <2>8
<1>9. \/ UNCHANGED tasks
      \/ \E b \in NewTasks : CreateTask(b)
      \/ \E w \in Crons : Convert(w)
      \/ \E c \in Clients : Patch(c)
      \/ \E k \in Ids : DeleteTask(k)
  BY DEF Next, Tick, CronStep, ListOverdue, ReadTask, FinishTick, FailTask,
         Crash, GetTaskForUpdate, Rollback, vars
<1> QED BY <1>4, <1>5, <1>6, <1>7, <1>8, <1>9

\* Neither a crash nor a lost race nor a stale date ends a series: where requests
\* give tasks no other type and a rule that has ended stays ended, a head that
\* goes without a successor was deleted, or the rule that the cron or the
\* completing request went by has no occurrence left.
THEOREM NoSeriesDropped ==
  ASSUME NobodyStops, EndsForGood
  PROVE  Spec => SeriesNeverDropped
<1> DEFINE Kept == \A i \in Ids : IsHead(i) /\ ~ Continued(i) =>
                     tasks'[i].type = Deleted \/ RanOut(i)
<1>1. Init => HeldInstants
  BY DEF Init, HeldInstants, IdleCron, IdleClient
<1>2. IInv /\ HeldInstants /\ [Next]_vars => HeldInstants'
  BY HeldInstantsNext DEF IInv
<1>3. IInv /\ HeldInstants /\ [Next]_vars => [Kept]_vars
  BY HeadEnds
<1> QED BY <1>1, <1>2, <1>3, Invariance, PTL DEF Spec, SeriesNeverDropped
=============================================================================
