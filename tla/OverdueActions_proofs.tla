------------------------ MODULE OverdueActions_proofs ------------------------
(***************************************************************************)
(* Theorems about OverdueActions, for any tasks, rows, requests, crons and *)
(* rules: the type invariant, RuleHasDue and, where rules count alike from *)
(* each of their days, StaysOnSchedule, NothingAheadSkipped and            *)
(* EndsExhausted.                                                          *)
(*                                                                         *)
(* Every statement that writes a row, whoever runs it, puts a row in its   *)
(* place that the CHECKs accept and that keeps to the schedule it is on;   *)
(* the rows a cron listed once kept to theirs, and time only shortens what *)
(* is ahead of them.                                                       *)
(***************************************************************************)
EXTENDS OverdueActions, Recurrence_proofs

\* A request that holds a lock holds it on a task.
LocksTasks == \A c \in Clients : client[c].pc = "locked" => client[c].id \in Tasks

\* What crons listed was valid.
SeenValid == \A w \in Crons : \A x \in cron[w].seen : Valid(x.row)

RInv == TypeOK /\ LocksTasks /\ SeenValid /\ RuleHasDue

\* A row may be deleted; otherwise it is valid.
Sound(row) == row \in Row /\ (row.type # Deleted => Valid(row))

USE DEF Actions, Statuses

-----------------------------------------------------------------------------
(***************************************************************************)
(* What the statements write.                                              *)
(***************************************************************************)

\* A row taken apart, and put together again.
LEMMA RowShape ==
  ASSUME NEW row \in Row
  PROVE  /\ row.type \in Types \cup {Deleted} /\ row.rule \in RRules \cup {NoRRule}
         /\ row.due \in Days \cup {NoDay} /\ row.origin \in Days \cup {NoDay}
         /\ row.status \in Statuses
         /\ row.overdue \in Overdue /\ row.overdue.action \in Actions
         /\ \A d \in Days \cup {NoDay}, o \in Days \cup {NoDay} :
              [row EXCEPT !.due = d, !.origin = o] \in Row
         /\ \A s \in Statuses : [row EXCEPT !.status = s] \in Row
         /\ [row EXCEPT !.type = Deleted, !.origin = NoDay] \in Row
         /\ [row EXCEPT !.type = OneOff, !.rule = NoRRule] \in Row
BY DEF Row, Overdue, Types

LEMMA StartType ==
  ASSUME NEW type, NEW d \in Days \cup {NoDay}
  PROVE  Start(type, d) \in Days \cup {NoDay}
BY DEF Start

\* The next due date of a valid row is a day or none.
LEMMA NextOfRow ==
  ASSUME NEW row \in Row, Valid(row), NEW d \in Days \cup {NoDay}, NEW t \in Times
  PROVE  ComputeNextDueAt(row.type, row.rule, d, t) \in Days \cup {NoDay}
<1>1. row.type \in Recurring => row.rule \in RRules
  BY RowShape DEF Valid
<1>2. row.type \in Types \cup {Deleted}
  BY RowShape
<1> QED BY <1>1, <1>2, NextType

LEMMA ClearedSound ==
  ASSUME NEW row, Sound(row)
  PROVE  /\ Sound(Cleared(row)) /\ Cleared(row).due = NoDay
         /\ Cleared(row).origin = NoDay
<1>1. row \in Row /\ NotOverdue \in Overdue
  BY DEF Sound, NotOverdue, Overdue
<1>2. Cleared(row) \in Row
  BY <1>1 DEF Cleared, Row
<1>3. /\ Cleared(row).overdue = NotOverdue /\ Cleared(row).due = NoDay
      /\ Cleared(row).origin = NoDay
      /\ Cleared(row).type = row.type /\ Cleared(row).rule = row.rule
  BY <1>1 DEF Cleared, Row
<1> QED BY <1>2, <1>3 DEF Sound, Valid, HasAction, NotOverdue, Advance, NoAction

\* The fields of an advanced row.
LEMMA AdvancedShape ==
  ASSUME NEW row \in Row, NEW seen \in Row, NEW next \in Days
  PROVE  LET new == Advanced(row, seen, next)
         IN  /\ new \in Row /\ new.type = row.type /\ new.rule = row.rule
             /\ new.due = next /\ new.overdue = row.overdue
             /\ new.origin = IF SameSchedule(row, seen) THEN row.origin
                             ELSE Start(row.type, next)
<1> DEFINE o == IF SameSchedule(row, seen) THEN row.origin ELSE Start(row.type, next)
<1>1. o \in Days \cup {NoDay}
  BY RowShape, StartType
<1>2. Advanced(row, seen, next) = [row EXCEPT !.due = next, !.origin = o]
  BY DEF Advanced, Row
<1> HIDE DEF o
<1>3. LET new == [row EXCEPT !.due = next, !.origin = o]
      IN  /\ new \in Row /\ new.type = row.type /\ new.rule = row.rule
          /\ new.due = next /\ new.overdue = row.overdue /\ new.origin = o
  BY <1>1 DEF Row
<1> QED BY <1>2, <1>3 DEF o

\* The four outcomes of ApplyOverdueAction for one row.
LEMMA AppliedCases ==
  ASSUME NEW row, NEW seen \in Row, NEW t
  PROVE  LET next == ComputeNextDueAt(seen.type, seen.rule, seen.due, t)
         IN  \/ /\ seen.overdue.action = Advance /\ next # NoDay
                /\ Applied(row, seen, t) = Advanced(row, seen, next)
             \/ /\ seen.overdue.action = SetStatus
                /\ Applied(row, seen, t) = [row EXCEPT !.status = "late"]
             \/ /\ seen.overdue.action = Advance => next = NoDay
                /\ Applied(row, seen, t) = Cleared(row)
<1> DEFINE next == ComputeNextDueAt(seen.type, seen.rule, seen.due, t)
<1>1. Applied(row, seen, t) =
        CASE seen.overdue.action = Advance   -> IF next = NoDay THEN Cleared(row)
                                                ELSE Advanced(row, seen, next)
          [] seen.overdue.action = SetStatus -> [row EXCEPT !.status = "late"]
          [] OTHER                           -> Cleared(row)
  BY DEF Applied
<1> HIDE DEF next
<1>2. CASE seen.overdue.action = Advance
  <2>1. seen.overdue.action # SetStatus
    BY <1>2 DEF Advance, SetStatus
  <2>2. Applied(row, seen, t) = IF next = NoDay THEN Cleared(row)
                                ELSE Advanced(row, seen, next)
    BY <1>1, <1>2, <2>1
  <2> QED BY <1>2, <2>2 DEF next
<1>3. CASE seen.overdue.action = SetStatus
  <2>1. seen.overdue.action # Advance
    BY <1>3 DEF Advance, SetStatus
  <2>2. Applied(row, seen, t) = [row EXCEPT !.status = "late"]
    BY <1>1, <1>3, <2>1
  <2> QED BY <1>3, <2>2
<1>4. CASE seen.overdue.action \notin {Advance, SetStatus}
  <2>1. Applied(row, seen, t) = Cleared(row)
    BY <1>1, <1>4
  <2> QED BY <1>4, <2>1
<1> QED BY <1>2, <1>3, <1>4

LEMMA AppliedSound ==
  ASSUME NEW row, Sound(row), row.type # Deleted, NEW seen \in Row, Valid(seen),
         NEW t \in Times, row.overdue.action = seen.overdue.action
  PROVE  Sound(Applied(row, seen, t))
<1> DEFINE next == ComputeNextDueAt(seen.type, seen.rule, seen.due, t)
           new  == Applied(row, seen, t)
<1>1. row \in Row /\ Valid(row)
  BY DEF Sound
<1>2. next \in Days \cup {NoDay}
  BY RowShape, NextOfRow
<1>3. \/ next # NoDay /\ new = Advanced(row, seen, next)
      \/ new = [row EXCEPT !.status = "late"]
      \/ new = Cleared(row)
  BY AppliedCases
<1> SUFFICES Sound(new)
  OBVIOUS
<1> HIDE DEF next, new
<1>4. CASE next # NoDay /\ new = Advanced(row, seen, next)
  <2>1. /\ new \in Row /\ new.type = row.type /\ new.rule = row.rule
        /\ new.due = next /\ new.overdue = row.overdue
    BY <1>1, <1>2, <1>4, AdvancedShape
  <2> QED BY <1>1, <1>4, <2>1 DEF Sound, Valid, HasAction
<1>5. CASE new = [row EXCEPT !.status = "late"]
  <2>1. /\ new \in Row /\ new.type = row.type /\ new.rule = row.rule
        /\ new.due = row.due /\ new.overdue = row.overdue
    BY <1>1, <1>5 DEF Row
  <2> QED BY <1>1, <2>1 DEF Sound, Valid, HasAction
<1>6. CASE new = Cleared(row)
  BY <1>6, ClearedSound
<1> QED BY <1>3, <1>4, <1>5, <1>6

\* What a request may ask for is a valid row.
LEMMA AskedType ==
  ASSUME NEW row \in Row, NEW asked \in Asked(row)
  PROVE  /\ asked \in Row /\ Valid(asked)
         /\ \/ /\ asked.due = row.due /\ asked.type = row.type
               /\ asked.rule = row.rule /\ asked.origin = row.origin
            \/ asked.origin = Start(asked.type, asked.due)
<1> DEFINE O == row.origin
           Bodies ==
             [type    : {row.type} \cup TypesGiven,
              rule    : {row.rule, NoRRule} \cup Given("rule", RRules),
              due     : {row.due} \cup Given("reschedule", DueDates),
              status  : {row.status} \cup Given("complete", {"done"})
                          \cup Given("reopen", {"todo"}),
              overdue : {row.overdue} \cup Given("overdue", ActionsGiven),
              origin  : {NoDay}]
<1>1. PICK b \in Bodies : Valid(b) /\ asked = Begun(row, b)
  BY DEF Asked
<1>2. /\ b.type \in Types \cup {Deleted} /\ b.rule \in RRules \cup {NoRRule}
      /\ b.due \in Days \cup {NoDay} /\ b.status \in Statuses /\ b.overdue \in Overdue
  <2>1. /\ TypesGiven \subseteq Types /\ DueDates \subseteq Days \cup {NoDay}
        /\ ActionsGiven \subseteq Overdue
    BY ActionsAssumption
  <2>2. /\ Given("rule", RRules) \subseteq RRules
        /\ Given("reschedule", DueDates) \subseteq DueDates
        /\ Given("complete", {"done"}) \subseteq {"done"}
        /\ Given("reopen", {"todo"}) \subseteq {"todo"}
        /\ Given("overdue", ActionsGiven) \subseteq ActionsGiven
    BY DEF Given
  <2>3. /\ b.type \in {row.type} \cup TypesGiven
        /\ b.rule \in {row.rule, NoRRule} \cup Given("rule", RRules)
        /\ b.due \in {row.due} \cup Given("reschedule", DueDates)
        /\ b.status \in {row.status} \cup Given("complete", {"done"})
                          \cup Given("reopen", {"todo"})
        /\ b.overdue \in {row.overdue} \cup Given("overdue", ActionsGiven)
    OBVIOUS
  <2> HIDE DEF Bodies
  <2> QED BY <2>1, <2>2, <2>3, RowShape
<1>3. b = [type |-> b.type, rule |-> b.rule, due |-> b.due, status |-> b.status,
           overdue |-> b.overdue, origin |-> b.origin]
  OBVIOUS
<1> HIDE DEF Bodies
<1> DEFINE o == IF {"due", "recurrence"} \cap Changes(row, b) = {}
                THEN O ELSE Start(b.type, b.due)
<1>4. o \in Days \cup {NoDay}
  BY <1>2, RowShape, StartType
<1>5. asked = [b EXCEPT !.origin = o]
  BY <1>1 DEF Begun
<1>6. \/ o = O /\ b.due = row.due /\ b.type = row.type /\ b.rule = row.rule
      \/ o = Start(b.type, b.due)
  <2>1. ASSUME {"due", "recurrence"} \cap Changes(row, b) = {}
        PROVE  b.due = row.due /\ b.type = row.type /\ b.rule = row.rule
    BY <2>1 DEF Changes
  <2> QED BY <2>1
<1> HIDE DEF o
<1>7. /\ asked = [type |-> b.type, rule |-> b.rule, due |-> b.due, status |-> b.status,
                  overdue |-> b.overdue, origin |-> o]
  BY <1>3, <1>5
<1>8. asked \in Row
  BY <1>2, <1>4, <1>7 DEF Row
<1>9. Valid(asked)
  BY <1>1, <1>7 DEF Valid, HasAction
<1> QED BY <1>6, <1>7, <1>8, <1>9

\* The four outcomes of HandleCompletionTransition.
LEMMA TransitionCases ==
  ASSUME NEW read, NEW asked, NEW t
  PROVE  LET next == ComputeNextDueAt(asked.type, asked.rule, read.due, t)
             row  == AfterTransition(read, asked, t)
             kept == /\ asked.type = read.type /\ asked.rule = read.rule
                     /\ read.origin # NoDay
         IN  \/ row = asked
             \/ /\ asked.type = Accumulating
                /\ row = [asked EXCEPT !.type = OneOff, !.rule = NoRRule]
             \/ /\ next # NoDay
                /\ row = [asked EXCEPT !.due = next, !.status = "todo",
                                       !.origin = IF kept THEN read.origin
                                                  ELSE Start(asked.type, next)]
BY DEF AfterTransition

LEMMA TransitionSound ==
  ASSUME NEW read \in Row, NEW asked \in Row, Valid(asked), NEW t \in Times,
         Valid(AfterTransition(read, asked, t))
  PROVE  Sound(AfterTransition(read, asked, t))
<1> DEFINE next == ComputeNextDueAt(asked.type, asked.rule, read.due, t)
           kept == /\ asked.type = read.type /\ asked.rule = read.rule
                   /\ read.origin # NoDay
           o    == IF kept THEN read.origin ELSE Start(asked.type, next)
           row  == AfterTransition(read, asked, t)
<1>1. next \in Days \cup {NoDay}
  BY RowShape, NextOfRow
<1>2. \/ row = asked
      \/ row = [asked EXCEPT !.type = OneOff, !.rule = NoRRule]
      \/ row = [asked EXCEPT !.due = next, !.status = "todo", !.origin = o]
  BY DEF AfterTransition
<1> HIDE DEF next, row, kept
<1>3. o \in Days \cup {NoDay}
  BY <1>1, RowShape, StartType
<1> HIDE DEF o
<1>4. row \in Row
  <2>1. CASE row = asked
    BY <2>1
  <2>2. CASE row = [asked EXCEPT !.type = OneOff, !.rule = NoRRule]
    BY <2>2, RowShape
  <2>3. CASE row = [asked EXCEPT !.due = next, !.status = "todo", !.origin = o]
    BY <1>1, <1>3, <2>3 DEF Row
  <2> QED BY <1>2, <2>1, <2>2, <2>3
<1> QED BY <1>4 DEF Sound, row

\* The table stays sound when one row makes place for a sound one.
LEMMA WriteSound ==
  ASSUME rows \in [Tasks -> Row], RuleHasDue, NEW i \in Tasks, NEW row,
         Sound(row), rows' = [rows EXCEPT ![i] = row]
  PROVE  rows' \in [Tasks -> Row] /\ RuleHasDue'
<1>1. rows' \in [Tasks -> Row]
  BY DEF Sound
<1>2. ASSUME NEW j \in Tasks, rows'[j].type # Deleted PROVE Valid(rows'[j])
  <2>1. CASE j = i
    BY <1>2, <2>1 DEF Sound
  <2>2. CASE j # i
    BY <1>2, <2>2 DEF RuleHasDue
  <2> QED BY <2>1, <2>2
<1> QED BY <1>1, <1>2 DEF RuleHasDue

-----------------------------------------------------------------------------
(***************************************************************************)
(* The invariant.                                                          *)
(***************************************************************************)
LEMMA ZeroTime == 0 \in Times
<1>1. (LastDay + 1) * DayLen \in Int
  BY CalendarAssumption
<1>2. MaxClock \in Int /\ 0 <= MaxClock /\ MaxClock <= (LastDay + 1) * DayLen - 1
  BY <1>1, ActionsAssumption DEF Times
<1> QED BY <1>1, <1>2 DEF Times

\* The parts of the type invariant.
CronType == cron \in [Crons -> [pc : {"idle", "listed"}, now : Times,
                                seen : SUBSET [id : Tasks, row : Row]]]
ClientType == client \in [Clients -> [pc : {"idle", "locked"}, id : Tasks \cup {0},
                                      now : Times]]

LEMMA RInit == Init => RInv
<1> SUFFICES ASSUME Init PROVE RInv
  OBVIOUS
<1>1. rows \in [Tasks -> Row]
  BY ActionsAssumption DEF Init
<1>2. TypeOK
  <2>1. CronType
    BY ZeroTime DEF Init, IdleCron, CronType
  <2>2. ClientType
    BY ZeroTime DEF Init, IdleClient, ClientType
  <2> QED BY <1>1, <2>1, <2>2, ActionsAssumption DEF Init, TypeOK, CronType, ClientType
<1>3. LocksTasks /\ SeenValid
  BY DEF Init, LocksTasks, IdleClient, SeenValid, IdleCron
<1>4. RuleHasDue
  BY ActionsAssumption DEF Init, RuleHasDue
<1> QED BY <1>2, <1>3, <1>4 DEF RInv

\* Crons take items off their lists, or list rows of the table.
LEMMA ListStep ==
  ASSUME RInv, NEW w \in Crons, ListDue(w)
  PROVE  \E S : /\ cron' = [cron EXCEPT ![w] = [pc |-> "listed", now |-> clock, seen |-> S]]
                /\ \A x \in S : \E i \in Tasks :
                     x = [id |-> i, row |-> rows[i]] /\ rows[i] \in Row /\ Valid(rows[i])
<1> DEFINE due   == {i \in Tasks : GraceElapsed(rows[i], clock)}
           batch == {i \in due : Cardinality({j \in due : j <= i}) <= BatchSize}
           items == {[id |-> i, row |-> rows[i]] : i \in batch}
<1>1. cron' = [cron EXCEPT ![w] = [pc |-> "listed", now |-> clock, seen |-> items]]
  BY DEF ListDue
<1>2. \A i \in batch : i \in Tasks /\ GraceElapsed(rows[i], clock)
  OBVIOUS
<1> HIDE DEF batch
<1>3. ASSUME NEW x \in items
      PROVE  \E i \in Tasks : x = [id |-> i, row |-> rows[i]] /\ rows[i] \in Row
                              /\ Valid(rows[i])
  <2>1. PICK i \in batch : x = [id |-> i, row |-> rows[i]]
    BY <1>3
  <2>2. i \in Tasks /\ rows[i].type \in Recurring
    BY <1>2 DEF GraceElapsed
  <2>3. rows[i] \in Row /\ Valid(rows[i])
    BY <2>2 DEF RInv, TypeOK, RuleHasDue, Recurring, InPlace, Deleted, Accumulating,
                Completion, Fixed
  <2> QED BY <2>1, <2>2, <2>3
<1> HIDE DEF items
<1> QED BY <1>1, <1>3

LEMMA CronSteps ==
  ASSUME CronType, SeenValid, NEW w \in Crons, clock \in Times,
         \/ cron' = [cron EXCEPT ![w] = IdleCron]
         \/ \E x \in NextListed(w) : cron' = Done(w, x)
         \/ \E S : /\ cron' = [cron EXCEPT ![w] = [pc |-> "listed", now |-> clock,
                                                   seen |-> S]]
                   /\ \A x \in S : \E i \in Tasks :
                        x = [id |-> i, row |-> rows[i]] /\ rows[i] \in Row
                        /\ Valid(rows[i])
  PROVE  CronType' /\ SeenValid'
<1>1. CASE cron' = [cron EXCEPT ![w] = IdleCron]
  <2>1. /\ IdleCron \in [pc : {"idle", "listed"}, now : Times,
                         seen : SUBSET [id : Tasks, row : Row]]
        /\ IdleCron.seen = {}
    BY ZeroTime DEF IdleCron
  <2> HIDE DEF IdleCron
  <2> QED BY <1>1, <2>1 DEF CronType, SeenValid
<1>2. CASE \E x \in NextListed(w) : cron' = Done(w, x)
  <2>1. PICK x \in NextListed(w) : cron' = [cron EXCEPT ![w].seen = @ \ {x}]
    BY <1>2 DEF Done
  <2> QED BY <2>1 DEF CronType, SeenValid
<1>3. ASSUME NEW S,
             cron' = [cron EXCEPT ![w] = [pc |-> "listed", now |-> clock, seen |-> S]],
             \A x \in S : \E i \in Tasks :
               x = [id |-> i, row |-> rows[i]] /\ rows[i] \in Row /\ Valid(rows[i])
      PROVE  CronType' /\ SeenValid'
  <2>1. \A x \in S : x \in [id : Tasks, row : Row] /\ Valid(x.row)
    BY <1>3
  <2>2. S \subseteq [id : Tasks, row : Row]
    BY <2>1
  <2>3. CronType'
    BY <1>3, <2>2 DEF CronType
  <2>4. SeenValid'
    BY <1>3, <2>1 DEF CronType, SeenValid
  <2> QED BY <2>3, <2>4
<1> QED BY <1>1, <1>2, <1>3

\* The row that ApplyOverdueAction acts on, and what it leaves there.
LEMMA ApplyStep ==
  ASSUME RInv, NEW w \in Crons, ApplyOverdueAction(w)
  PROVE  \E x \in NextListed(w), row \in Row :
           /\ x \in cron[w].seen /\ x.id \in Tasks /\ x.row \in Row /\ Valid(x.row)
           /\ Sound(row)
           /\ cron' = Done(w, x)
           /\ rows' = [rows EXCEPT ![x.id] = row]
           /\ \/ row = rows[x.id]
              \/ /\ row = Applied(rows[x.id], x.row, cron[w].now)
                 /\ StillRuled(rows[x.id], x.row)
<1>1. rows \in [Tasks -> Row] /\ RuleHasDue /\ CronType /\ SeenValid
  BY DEF RInv, TypeOK, CronType
<1>2. PICK x \in NextListed(w) :
        /\ rows' = [rows EXCEPT ![x.id] =
                      IF StillRuled(@, x.row) /\ ~ Skipped(x.row)
                      THEN Applied(@, x.row, cron[w].now) ELSE @]
        /\ cron' = Done(w, x)
  BY DEF ApplyOverdueAction
<1>3. /\ x \in cron[w].seen /\ x.id \in Tasks /\ x.row \in Row /\ Valid(x.row)
      /\ cron[w].now \in Times
  BY <1>1 DEF NextListed, CronType, SeenValid
<1> DEFINE old == rows[x.id]
           row == IF StillRuled(old, x.row) /\ ~ Skipped(x.row)
                  THEN Applied(old, x.row, cron[w].now) ELSE old
<1>4. Sound(old)
  BY <1>1, <1>3 DEF RuleHasDue, Sound
<1>5. rows' = [rows EXCEPT ![x.id] = row]
  BY <1>1, <1>2, <1>3
<1>6. \/ row = old
      \/ row = Applied(old, x.row, cron[w].now) /\ StillRuled(old, x.row)
  OBVIOUS
<1> HIDE DEF row
<1>7. Sound(row)
  <2>1. ASSUME StillRuled(old, x.row) PROVE Sound(Applied(old, x.row, cron[w].now))
    BY <1>3, <1>4, <2>1, AppliedSound DEF StillRuled
  <2> QED BY <1>4, <1>6, <2>1
<1>8. row \in Row
  BY <1>7 DEF Sound
<1> QED BY <1>2, <1>3, <1>5, <1>6, <1>7, <1>8

\* What a PATCH leaves.
LEMMA PatchStep ==
  ASSUME RInv, NEW c \in Clients, Patch(c)
  PROVE  \E asked \in Asked(rows[client[c].id]) :
           LET i   == client[c].id
               row == AfterTransition(rows[i], asked, client[c].now)
           IN  /\ i \in Tasks /\ client[c].now \in Times
               /\ Sound(row) /\ rows' = [rows EXCEPT ![i] = row]
<1> DEFINE i == client[c].id
<1>1. /\ rows \in [Tasks -> Row] /\ i \in Tasks /\ client[c].now \in Times
  BY DEF RInv, TypeOK, LocksTasks, Patch
<1>2. PICK asked \in Asked(rows[i]) : UpdateTask(c, asked)
  BY DEF Patch
<1> DEFINE row == AfterTransition(rows[i], asked, client[c].now)
<1>3. Valid(row) /\ rows' = [rows EXCEPT ![i] = row]
  BY <1>2 DEF UpdateTask
<1>4. asked \in Row /\ Valid(asked)
  BY <1>1, AskedType
<1>5. Sound(row)
  BY <1>1, <1>3, <1>4, TransitionSound
<1> QED BY <1>1, <1>3, <1>5

\* A row that goes, or becomes one_off.
LEMMA DeletedSound ==
  ASSUME NEW row \in Row
  PROVE  LET new == [row EXCEPT !.type = Deleted, !.origin = NoDay]
         IN  Sound(new) /\ new.origin = NoDay
<1> DEFINE new == [row EXCEPT !.type = Deleted, !.origin = NoDay]
<1>1. new \in Row
  BY RowShape
<1>2. new.type = Deleted /\ new.origin = NoDay
  BY DEF Row
<1> QED BY <1>1, <1>2 DEF Sound

LEMMA ConvertedSound ==
  ASSUME NEW row \in Row, ~ HasAction(row)
  PROVE  LET new == [row EXCEPT !.type = OneOff, !.rule = NoRRule]
         IN  Sound(new) /\ new.origin = row.origin
<1> DEFINE new == [row EXCEPT !.type = OneOff, !.rule = NoRRule]
<1>1. new \in Row
  BY RowShape
<1>2. /\ new.type = OneOff /\ new.rule = NoRRule /\ new.overdue = row.overdue
      /\ new.origin = row.origin
  BY DEF Row
<1>3. OneOff \notin Recurring
  BY DEF OneOff, Recurring, InPlace, Accumulating, Completion, Fixed
<1>4. Valid(new)
  BY <1>2, <1>3 DEF Valid, HasAction, Advance, NoAction
<1> QED BY <1>1, <1>2, <1>4 DEF Sound

\* A request that locks a row, and one that lets it go.
LEMMA ClientSteps ==
  ASSUME ClientType, LocksTasks, clock \in Times, NEW c \in Clients, NEW i \in Tasks,
         client' \in {[client EXCEPT ![c] = IdleClient],
                      [client EXCEPT ![c] = [pc |-> "locked", id |-> i, now |-> clock]]}
  PROVE  ClientType' /\ LocksTasks'
<1>1. CASE client' = [client EXCEPT ![c] = IdleClient]
  BY <1>1, ZeroTime DEF ClientType, LocksTasks, IdleClient
<1>2. CASE client' = [client EXCEPT ![c] = [pc |-> "locked", id |-> i, now |-> clock]]
  BY <1>2 DEF ClientType, LocksTasks
<1> QED BY <1>1, <1>2

LEMMA TickType ==
  ASSUME clock \in Times, Tick
  PROVE  clock' \in Times /\ clock <= clock'
<1>1. (LastDay + 1) * DayLen \in Int
  BY CalendarAssumption
<1>2. MaxClock \in Int /\ MaxClock <= (LastDay + 1) * DayLen - 1
  BY <1>1, ActionsAssumption DEF Times
<1>3. clock \in Int /\ 0 <= clock
  BY <1>1 DEF Times
<1> QED BY <1>1, <1>2, <1>3, ActionsAssumption DEF Tick, Times

LEMMA RNext == RInv /\ [Next]_vars => RInv'
<1> SUFFICES ASSUME RInv, [Next]_vars PROVE RInv'
  OBVIOUS
<1>0. /\ rows \in [Tasks -> Row] /\ late \in BOOLEAN /\ clock \in Times
      /\ CronType /\ ClientType /\ edits \in Nat /\ faults \in Nat
      /\ LocksTasks /\ SeenValid /\ RuleHasDue
  BY DEF RInv, TypeOK, CronType, ClientType
<1>a. ASSUME rows' \in [Tasks -> Row], late' \in BOOLEAN, clock' \in Times,
             CronType', ClientType', edits' \in Nat, faults' \in Nat,
             LocksTasks', SeenValid', RuleHasDue'
      PROVE  RInv'
  BY <1>a DEF RInv, TypeOK, CronType, ClientType
<1>b. ASSUME UNCHANGED cron PROVE CronType' /\ SeenValid'
  BY <1>0, <1>b DEF CronType, SeenValid
<1>c. ASSUME UNCHANGED client PROVE ClientType' /\ LocksTasks'
  BY <1>0, <1>c DEF ClientType, LocksTasks
<1>d. ASSUME UNCHANGED rows PROVE rows' \in [Tasks -> Row] /\ RuleHasDue'
  BY <1>0, <1>d DEF RuleHasDue
<1>1. CASE Tick
  <2>1. clock' \in Times /\ UNCHANGED <<rows, late, cron, client, edits, faults>>
    BY <1>0, <1>1, TickType DEF Tick
  <2> QED BY <1>0, <1>a, <1>b, <1>c, <1>d, <2>1
<1>2. ASSUME NEW w \in Crons, ListDue(w) PROVE RInv'
  <2>1. UNCHANGED <<rows, late, clock, client, edits, faults>>
    BY <1>2 DEF ListDue
  <2>2. CronType' /\ SeenValid'
    BY <1>0, <1>2, ListStep, CronSteps
  <2> QED BY <1>0, <1>a, <1>c, <1>d, <2>1, <2>2
<1>3. ASSUME NEW w \in Crons, ApplyOverdueAction(w) PROVE RInv'
  <2>1. UNCHANGED <<late, clock, client, edits, faults>>
    BY <1>3 DEF ApplyOverdueAction
  <2>2. PICK x \in NextListed(w), row \in Row :
          /\ x.id \in Tasks /\ Sound(row) /\ cron' = Done(w, x)
          /\ rows' = [rows EXCEPT ![x.id] = row]
    BY <1>3, ApplyStep
  <2>3. CronType' /\ SeenValid'
    BY <1>0, <2>2, CronSteps
  <2>4. rows' \in [Tasks -> Row] /\ RuleHasDue'
    BY <1>0, <2>2, WriteSound
  <2> QED BY <1>0, <1>a, <1>c, <2>1, <2>3, <2>4
<1>4. ASSUME NEW w \in Crons, FinishTick(w) \/ FailTask(w) \/ Crash(w) PROVE RInv'
  <2>1. /\ UNCHANGED <<rows, late, clock, client, edits>> /\ faults' \in Nat
        /\ \/ cron' = [cron EXCEPT ![w] = IdleCron]
           \/ \E x \in NextListed(w) : cron' = Done(w, x)
    BY <1>0, <1>4 DEF FinishTick, FailTask, Crash
  <2>2. CronType' /\ SeenValid'
    BY <1>0, <2>1, CronSteps
  <2> QED BY <1>0, <1>a, <1>c, <1>d, <2>1, <2>2
<1>5. ASSUME NEW c \in Clients, NEW i \in Tasks, GetTaskForUpdate(c, i) PROVE RInv'
  <2>1. UNCHANGED <<rows, late, clock, cron, faults>> /\ edits' \in Nat
    BY <1>0, <1>5 DEF GetTaskForUpdate
  <2>2. ClientType' /\ LocksTasks'
    BY <1>0, <1>5, ClientSteps DEF GetTaskForUpdate
  <2> QED BY <1>0, <1>a, <1>b, <1>d, <2>1, <2>2
<1>6. ASSUME NEW c \in Clients, Patch(c) \/ Rollback(c) PROVE RInv'
  <2>1. UNCHANGED <<late, clock, cron, edits, faults>>
        /\ client' = [client EXCEPT ![c] = IdleClient]
    BY <1>6 DEF Patch, Rollback
  <2>2. PICK i \in Tasks : client[c].id = i
    BY <1>0, <1>6 DEF Patch, Rollback, LocksTasks
  <2>3. ClientType' /\ LocksTasks'
    BY <1>0, <2>1, <2>2, ClientSteps
  <2>4. rows' \in [Tasks -> Row] /\ RuleHasDue'
    <3>1. CASE Patch(c)
      BY <1>0, <3>1, PatchStep, WriteSound
    <3>2. CASE Rollback(c)
      BY <1>d, <3>2 DEF Rollback
    <3> QED BY <1>6, <3>1, <3>2
  <2> QED BY <1>0, <1>a, <1>b, <2>1, <2>3, <2>4
<1>7. ASSUME NEW i \in Tasks, DeleteTask(i) \/ ConvertAccumulating(i) PROVE RInv'
  <2>1. UNCHANGED <<late, clock, cron, client, faults>> /\ edits' \in Nat
    BY <1>0, <1>7 DEF DeleteTask, ConvertAccumulating
  <2>2. rows[i] \in Row
    BY <1>0
  <2>3. \E row : Sound(row) /\ rows' = [rows EXCEPT ![i] = row]
    <3>1. CASE DeleteTask(i)
      BY <1>0, <2>2, <3>1, DeletedSound DEF DeleteTask
    <3>2. CASE ConvertAccumulating(i)
      BY <1>0, <2>2, <3>2, ConvertedSound DEF ConvertAccumulating
    <3> QED BY <1>7, <3>1, <3>2
  <2>4. rows' \in [Tasks -> Row] /\ RuleHasDue'
    BY <1>0, <2>3, WriteSound
  <2> QED BY <1>0, <1>a, <1>b, <1>c, <2>1, <2>4
<1>8. CASE ReplaceStatuses
  <2>1. /\ UNCHANGED <<rows, clock, cron, client, faults>> /\ edits' \in Nat
        /\ late' \in BOOLEAN
    BY <1>0, <1>8 DEF ReplaceStatuses
  <2> QED BY <1>0, <1>a, <1>b, <1>c, <1>d, <2>1
<1>9. CASE UNCHANGED vars
  <2>1. UNCHANGED <<rows, late, clock, cron, client, edits, faults>>
    BY <1>9 DEF vars
  <2> QED BY <1>0, <1>a, <1>b, <1>c, <1>d, <2>1
<1> QED BY <1>1, <1>2, <1>3, <1>4, <1>5, <1>6, <1>7, <1>8, <1>9 DEF Next, CronStep

LEMMA RInvAlways == Spec => []RInv
<1>1. Init => RInv
  BY RInit
<1>2. RInv /\ [Next]_vars => RInv'
  BY RNext
<1> QED BY <1>1, <1>2, PTL DEF Spec

-----------------------------------------------------------------------------
(***************************************************************************)
(* Types and rules.                                                        *)
(***************************************************************************)

\* Every variable keeps its type; in particular every statement of
\* overdue_action.go and of the PATCH handler writes a row of the table.
THEOREM ActionsTypeCorrect == Spec => []TypeOK
<1>1. RInv => TypeOK
  BY DEF RInv
<1> QED BY <1>1, RInvAlways, PTL

\* An action always has the due date and the recurrence it needs, whatever the
\* crons apply from rows they listed before: the CHECKs on tasks
\* (00001_initial.sql:92-113) fail no transaction of theirs.
THEOREM RulesStayValid == Spec => []RuleHasDue
<1>1. RInv => RuleHasDue
  BY DEF RInv
<1> QED BY <1>1, RInvAlways, PTL

-----------------------------------------------------------------------------
(***************************************************************************)
(* Schedules.                                                              *)
(***************************************************************************)

\* A due day d keeps to the schedule of rule r that starts on day o: it is on
\* it, and no occurrence that is still to come at t was passed over.
OnCourse(r, d, o, t) ==
  /\ d \in Occurs[r][o] \cup {o}
  /\ \A e \in Occurs[r][o] : Midnight(e) > t => d <= e

\* So does a row that has a schedule.
OnSchedule(row, t) ==
  row.origin # NoDay =>
    row.type = Fixed /\ row.rule \in RRules /\ OnCourse(row.rule, row.due, row.origin, t)

\* StaysOnSchedule and NothingAheadSkipped in one.
AllOnCourse == \A i \in Tasks : OnSchedule(rows[i], clock)

\* What a cron listed keeps to the schedule it had then.
SeenOnCourse == \A w \in Crons : \A x \in cron[w].seen : OnSchedule(x.row, clock)

\* The instants that crons and requests hold have passed.
HeldInstants ==
  /\ \A w \in Crons : cron[w].now <= clock
  /\ \A c \in Clients : client[c].now <= clock

SchedInv == AllOnCourse /\ SeenOnCourse /\ HeldInstants

LEMMA InstantsAreInts == Times \subseteq Int /\ \A d \in Days : Midnight(d) \in Int
<1>1. (LastDay + 1) * DayLen \in Int
  BY CalendarAssumption
<1>2. ASSUME NEW d \in Days PROVE Midnight(d) \in Int
  <2>1. d * DayLen \in Int
    BY CalendarAssumption DEF Days
  <2> QED BY <2>1, CalendarAssumption DEF Midnight
<1> QED BY <1>1, <1>2 DEF Times

\* Time passes no occurrence over.
LEMMA StillOnSchedule ==
  ASSUME NEW row \in Row, NEW t \in Times, NEW u \in Times, t <= u, OnSchedule(row, t)
  PROVE  OnSchedule(row, u)
<1> DEFINE r == row.rule
           o == row.origin
<1> SUFFICES ASSUME o \in Days, r \in RRules, NEW e \in Occurs[r][o], Midnight(e) > u
             PROVE  row.due <= e
  BY RowShape DEF OnSchedule, OnCourse
<1>1. e \in Days
  BY CalendarAssumption
<1>2. t \in Int /\ u \in Int /\ Midnight(e) \in Int
  BY <1>1, InstantsAreInts
<1>3. Midnight(e) > t
  BY <1>2
<1>4. o # NoDay
  BY CalendarAssumption DEF Days, NoDay
<1> QED BY <1>3, <1>4 DEF OnSchedule, OnCourse

\* A schedule that starts anew is on course.
LEMMA StartsOnCourse ==
  ASSUME NEW r \in RRules, NEW d \in Days, NEW t
  PROVE  OnCourse(r, d, d, t)
BY CalendarAssumption DEF OnCourse

\* What a schedule has ahead at u is among the days that come after t, counted
\* from any day of it that is on course.
LEMMA AheadIsLater ==
  ASSUME CountsAlike, NEW r \in RRules, NEW o \in Days, NEW d \in Days,
         NEW t \in Times, NEW u \in Times, t <= u, OnCourse(r, d, o, u),
         NEW e \in Occurs[r][o], Midnight(e) > u
  PROVE  e \in LaterOccurrences(r, d, t)
<1>1. e \in Days /\ d # NoDay
  BY CalendarAssumption DEF Days, NoDay
<1>2. t \in Int /\ u \in Int /\ Midnight(e) \in Int
  BY <1>1, InstantsAreInts
<1>3. Midnight(e) > t
  BY <1>2
<1>4. e \in Occurs[r][d]
  <2>1. CASE d = o
    BY <2>1
  <2>2. CASE d \in Occurs[r][o]
    <3>1. e >= d
      BY <1>1 DEF OnCourse, Days
    <3> QED BY <2>2, <3>1 DEF CountsAlike
  <2> QED BY <2>1, <2>2 DEF OnCourse
<1> QED BY <1>1, <1>3, <1>4 DEF LaterOccurrences

\* A schedule that advances, now or from an instant that has passed, stays on
\* course, or has nothing ahead.
LEMMA AdvanceOnCourse ==
  ASSUME CountsAlike, NEW r \in RRules, NEW d, NEW o \in Days, NEW t \in Times,
         NEW u \in Times, t <= u, OnCourse(r, d, o, u)
  PROVE  /\ ComputeNextDueAt(Fixed, r, d, t) # NoDay
              => OnCourse(r, ComputeNextDueAt(Fixed, r, d, t), o, u)
         /\ ComputeNextDueAt(Fixed, r, d, t) = NoDay
              => \A e \in Occurs[r][o] : ~ (Midnight(e) > u)
<1> DEFINE later == LaterOccurrences(r, d, t)
           next  == NextDue(r, d, t)
<1>1. d \in Days /\ d # NoDay
  BY CalendarAssumption DEF OnCourse, Days, NoDay
<1>2. ComputeNextDueAt(Fixed, r, d, t) = next
  BY DEF ComputeNextDueAt, Fixed, Completion, Accumulating
<1>3. later \subseteq Days
  BY <1>1, OccurrencesType
<1>4. /\ next = NoDay <=> later = {}
      /\ later # {} => next \in later /\ \A e \in later : next <= e
  BY <1>3, EarliestProperty DEF NextDue
<1>5. ASSUME NEW e \in Occurs[r][o], Midnight(e) > u PROVE e \in later
  BY <1>1, <1>5, AheadIsLater
<1>6. ASSUME next # NoDay PROVE OnCourse(r, next, o, u)
  <2>1. next \in later /\ \A e \in later : next <= e
    BY <1>4, <1>6
  <2>2. next \in Occurs[r][d]
    BY <1>1, <2>1 DEF LaterOccurrences
  <2>3. Occurs[r][d] \subseteq Occurs[r][o]
    BY DEF CountsAlike, OnCourse
  <2> HIDE DEF next, later
  <2> QED BY <1>5, <2>1, <2>2, <2>3 DEF OnCourse
<1>7. ASSUME next = NoDay, NEW e \in Occurs[r][o] PROVE ~ (Midnight(e) > u)
  BY <1>4, <1>5, <1>7
<1> HIDE DEF next
<1> QED BY <1>2, <1>6, <1>7

\* A row that a cron advances keeps to the schedule the cron listed, or starts
\* one where the cron put it.
LEMMA AdvancedOnSchedule ==
  ASSUME CountsAlike, NEW row \in Row, Valid(row), NEW seen \in Row,
         NEW t \in Times, NEW u \in Times, t <= u,
         OnSchedule(row, u), OnSchedule(seen, u),
         NEW next \in Days,
         next = ComputeNextDueAt(seen.type, seen.rule, seen.due, t)
  PROVE  OnSchedule(Advanced(row, seen, next), u)
<1> DEFINE new == Advanced(row, seen, next)
<1>1. /\ new.type = row.type /\ new.rule = row.rule /\ new.due = next
      /\ new.origin = IF SameSchedule(row, seen) THEN row.origin
                      ELSE Start(row.type, next)
  BY AdvancedShape
<1> HIDE DEF new
<1>2. next # NoDay
  BY CalendarAssumption DEF Days, NoDay
<1>3. CASE SameSchedule(row, seen)
  <2> SUFFICES ASSUME row.origin # NoDay
               PROVE  OnCourse(row.rule, next, row.origin, u)
    BY <1>1, <1>3 DEF OnSchedule, new
  <2>1. /\ seen.type = Fixed /\ seen.rule = row.rule /\ seen.origin = row.origin
        /\ row.rule \in RRules /\ row.origin \in Days
        /\ OnCourse(row.rule, seen.due, row.origin, u)
    BY <1>3, RowShape DEF OnSchedule, SameSchedule
  <2> QED BY <1>2, <2>1, AdvanceOnCourse
<1>4. CASE ~ SameSchedule(row, seen)
  <2> SUFFICES ASSUME row.type = Fixed
               PROVE  row.rule \in RRules /\ OnCourse(row.rule, next, next, u)
    BY <1>1, <1>4 DEF OnSchedule, Start, new
  <2>1. row.rule \in RRules
    BY RowShape DEF Valid, Recurring, InPlace
  <2> QED BY <2>1, StartsOnCourse
<1> QED BY <1>3, <1>4

\* So does every row that the cron writes.
LEMMA AppliedOnSchedule ==
  ASSUME CountsAlike, NEW row \in Row, Sound(row), row.type # Deleted,
         NEW seen \in Row, Valid(seen),
         NEW t \in Times, NEW u \in Times, t <= u,
         OnSchedule(row, u), OnSchedule(seen, u)
  PROVE  OnSchedule(Applied(row, seen, t), u)
<1> DEFINE next == ComputeNextDueAt(seen.type, seen.rule, seen.due, t)
           new  == Applied(row, seen, t)
<1>1. next \in Days \cup {NoDay}
  BY RowShape, NextOfRow
<1>2. \/ next # NoDay /\ new = Advanced(row, seen, next)
      \/ new = [row EXCEPT !.status = "late"]
      \/ new = Cleared(row)
  BY AppliedCases
<1>3. CASE next # NoDay /\ new = Advanced(row, seen, next)
  <2>1. next \in Days /\ Valid(row)
    BY <1>1, <1>3 DEF Sound
  <2>2. OnSchedule(Advanced(row, seen, next), u)
    BY <2>1, AdvancedOnSchedule
  <2> HIDE DEF new
  <2> QED BY <1>3, <2>2 DEF new
<1>4. CASE new = [row EXCEPT !.status = "late"]
  <2> SUFFICES OnSchedule(new, u)
    OBVIOUS
  <2> HIDE DEF new
  <2>1. /\ new.type = row.type /\ new.rule = row.rule /\ new.due = row.due
        /\ new.origin = row.origin
    BY <1>4 DEF Row
  <2> QED BY <2>1 DEF OnSchedule
<1>5. CASE new = Cleared(row)
  BY <1>5, ClearedSound DEF OnSchedule
<1> QED BY <1>2, <1>3, <1>4, <1>5

\* A request goes on with the row's schedule, or starts one.
LEMMA AskedOnSchedule ==
  ASSUME NEW row \in Row, NEW u, OnSchedule(row, u), NEW asked \in Asked(row)
  PROVE  OnSchedule(asked, u)
<1>1. /\ asked \in Row /\ Valid(asked)
      /\ \/ /\ asked.due = row.due /\ asked.type = row.type
            /\ asked.rule = row.rule /\ asked.origin = row.origin
         \/ asked.origin = Start(asked.type, asked.due)
  BY AskedType
<1>2. CASE /\ asked.due = row.due /\ asked.type = row.type
           /\ asked.rule = row.rule /\ asked.origin = row.origin
  BY <1>2 DEF OnSchedule
<1>3. CASE asked.origin = Start(asked.type, asked.due)
  <2> SUFFICES ASSUME asked.type = Fixed, asked.due # NoDay, asked.origin = asked.due
               PROVE  /\ asked.rule \in RRules
                      /\ OnCourse(asked.rule, asked.due, asked.due, u)
    BY <1>3 DEF OnSchedule, Start
  <2>1. asked.rule \in RRules /\ asked.due \in Days
    BY <1>1, RowShape DEF Valid, Recurring, InPlace
  <2> QED BY <2>1, StartsOnCourse
<1> QED BY <1>1, <1>2, <1>3

\* So does a completion.
LEMMA TransitionOnSchedule ==
  ASSUME CountsAlike, NEW read \in Row, NEW asked \in Row, Valid(asked),
         NEW t \in Times, NEW u \in Times, t <= u,
         OnSchedule(read, u), OnSchedule(asked, u)
  PROVE  OnSchedule(AfterTransition(read, asked, t), u)
<1> DEFINE next == ComputeNextDueAt(asked.type, asked.rule, read.due, t)
           kept == /\ asked.type = read.type /\ asked.rule = read.rule
                   /\ read.origin # NoDay
           o    == IF kept THEN read.origin ELSE Start(asked.type, next)
           row  == AfterTransition(read, asked, t)
<1>1. next \in Days \cup {NoDay}
  BY RowShape, NextOfRow
<1>2. \/ row = asked
      \/ /\ asked.type = Accumulating
         /\ row = [asked EXCEPT !.type = OneOff, !.rule = NoRRule]
      \/ /\ next # NoDay
         /\ row = [asked EXCEPT !.due = next, !.status = "todo", !.origin = o]
  BY DEF AfterTransition
<1> SUFFICES OnSchedule(row, u)
  OBVIOUS
<1> HIDE DEF row
<1>3. CASE row = asked
  BY <1>3
<1>4. CASE /\ asked.type = Accumulating
           /\ row = [asked EXCEPT !.type = OneOff, !.rule = NoRRule]
  <2>1. asked.origin = NoDay
    BY <1>4 DEF OnSchedule, Accumulating, Fixed
  <2>2. row.origin = asked.origin
    BY <1>4 DEF Row
  <2> QED BY <2>1, <2>2 DEF OnSchedule
<1>5. CASE /\ next # NoDay
           /\ row = [asked EXCEPT !.due = next, !.status = "todo", !.origin = o]
  <2>1. next \in Days
    BY <1>1, <1>5
  <2>2. ASSUME kept PROVE /\ asked.type = Fixed /\ asked.rule \in RRules
                          /\ OnCourse(asked.rule, next, read.origin, u)
    <3>1. /\ asked.type = Fixed /\ asked.rule \in RRules /\ read.origin \in Days
          /\ OnCourse(asked.rule, read.due, read.origin, u)
      BY <2>2, RowShape DEF OnSchedule
    <3>2. next = ComputeNextDueAt(Fixed, asked.rule, read.due, t)
      BY <3>1
    <3> HIDE DEF next
    <3> QED BY <1>5, <3>1, <3>2, AdvanceOnCourse
  <2>3. ASSUME ~ kept, asked.type = Fixed
        PROVE  asked.rule \in RRules /\ OnCourse(asked.rule, next, next, u)
    <3>1. asked.rule \in RRules
      BY <2>3, RowShape DEF Valid, Recurring, InPlace
    <3> HIDE DEF next
    <3> QED BY <2>1, <3>1, StartsOnCourse
  <2> HIDE DEF next, kept
  <2>4. /\ row.type = asked.type /\ row.rule = asked.rule
        /\ row.due = next /\ row.origin = o
    BY <1>5 DEF Row
  <2>5. CASE kept
    BY <2>2, <2>4, <2>5 DEF OnSchedule
  <2>6. CASE ~ kept
    BY <2>3, <2>4, <2>6 DEF OnSchedule, Start
  <2> QED BY <2>5, <2>6
<1> QED BY <1>2, <1>3, <1>4, <1>5

-----------------------------------------------------------------------------
(***************************************************************************)
(* Every step keeps tasks, and what crons listed, on their schedules.      *)
(***************************************************************************)
LEMMA WriteOnSchedule ==
  ASSUME rows \in [Tasks -> Row], AllOnCourse, UNCHANGED clock, NEW i \in Tasks,
         NEW row, OnSchedule(row, clock), rows' = [rows EXCEPT ![i] = row]
  PROVE  AllOnCourse'
<1> SUFFICES ASSUME NEW j \in Tasks PROVE OnSchedule(rows'[j], clock)
  BY DEF AllOnCourse, OnSchedule, OnCourse
<1>1. CASE j = i
  BY <1>1
<1>2. CASE j # i
  BY <1>2 DEF AllOnCourse
<1> QED BY <1>1, <1>2

\* No step sets the clock back.
LEMMA ClockGoesOn ==
  ASSUME RInv, [Next]_vars
  PROVE  clock \in Times /\ clock' \in Times /\ clock <= clock'
<1>1. clock \in Times /\ clock \in Int
  BY InstantsAreInts DEF RInv, TypeOK
<1>2. CASE Tick
  BY <1>1, <1>2, TickType
<1>3. CASE ~ Tick
  <2>1. UNCHANGED clock
    BY <1>3 DEF Next, CronStep, ListDue, ApplyOverdueAction, FinishTick, FailTask, Crash,
       GetTaskForUpdate, Patch, Rollback, DeleteTask, ConvertAccumulating,
       ReplaceStatuses, vars
  <2> QED BY <1>1, <2>1
<1> QED BY <1>2, <1>3

LEMMA TasksStayOnCourse ==
  ASSUME CountsAlike, RInv, SchedInv, [Next]_vars
  PROVE  AllOnCourse'
<1>1. /\ rows \in [Tasks -> Row] /\ CronType /\ RuleHasDue
      /\ AllOnCourse /\ SeenOnCourse
  BY DEF RInv, TypeOK, CronType, SchedInv
<1>2. clock \in Times /\ clock' \in Times /\ clock <= clock'
  BY ClockGoesOn
<1>3. CASE UNCHANGED rows
  <2>1. ASSUME NEW i \in Tasks PROVE OnSchedule(rows[i], clock')
    BY <1>1, <1>2, StillOnSchedule DEF AllOnCourse
  <2> QED BY <1>3, <2>1 DEF AllOnCourse, OnSchedule, OnCourse
<1>4. ASSUME NEW w \in Crons, ApplyOverdueAction(w) PROVE AllOnCourse'
  <2>1. PICK x \in NextListed(w), row \in Row :
          /\ x \in cron[w].seen /\ x.id \in Tasks /\ x.row \in Row /\ Valid(x.row)
          /\ Sound(row)
          /\ rows' = [rows EXCEPT ![x.id] = row]
          /\ \/ row = rows[x.id]
             \/ /\ row = Applied(rows[x.id], x.row, cron[w].now)
                /\ StillRuled(rows[x.id], x.row)
    BY <1>4, ApplyStep
  <2>2. /\ cron[w].now \in Times /\ cron[w].now <= clock /\ UNCHANGED clock
        /\ OnSchedule(rows[x.id], clock) /\ OnSchedule(x.row, clock)
    BY <1>1, <1>4, <2>1
       DEF CronType, SchedInv, HeldInstants, ApplyOverdueAction, AllOnCourse, SeenOnCourse
  <2>3. Sound(rows[x.id]) /\ rows[x.id] \in Row
    BY <1>1, <2>1 DEF RuleHasDue, Sound
  <2>4. ASSUME StillRuled(rows[x.id], x.row)
        PROVE  OnSchedule(Applied(rows[x.id], x.row, cron[w].now), clock)
    <3>1. rows[x.id].type # Deleted
      BY <2>4 DEF StillRuled
    <3> QED BY <1>2, <2>1, <2>2, <2>3, <3>1, AppliedOnSchedule
  <2>5. OnSchedule(row, clock)
    BY <2>1, <2>2, <2>4
  <2> QED BY <1>1, <2>1, <2>2, <2>5, WriteOnSchedule
<1>5. ASSUME NEW c \in Clients, Patch(c) PROVE AllOnCourse'
  <2> DEFINE i == client[c].id
  <2>1. PICK asked \in Asked(rows[i]) :
          /\ i \in Tasks /\ client[c].now \in Times
          /\ rows' = [rows EXCEPT ![i] = AfterTransition(rows[i], asked, client[c].now)]
    BY <1>5, PatchStep
  <2>2. /\ rows[i] \in Row /\ OnSchedule(rows[i], clock)
        /\ client[c].now <= clock /\ UNCHANGED clock
    BY <1>1, <1>5, <2>1 DEF SchedInv, HeldInstants, AllOnCourse, Patch
  <2> HIDE DEF i
  <2>3. asked \in Row /\ Valid(asked) /\ OnSchedule(asked, clock)
    BY <2>1, <2>2, AskedType, AskedOnSchedule
  <2>4. OnSchedule(AfterTransition(rows[i], asked, client[c].now), clock)
    BY <1>2, <2>1, <2>2, <2>3, TransitionOnSchedule
  <2> QED BY <1>1, <2>1, <2>2, <2>4, WriteOnSchedule
<1>6. ASSUME NEW i \in Tasks, DeleteTask(i) \/ ConvertAccumulating(i) PROVE AllOnCourse'
  <2>1. rows[i] \in Row /\ OnSchedule(rows[i], clock)
    BY <1>1 DEF AllOnCourse
  <2>2. \E row : /\ row.origin = NoDay
                 /\ rows' = [rows EXCEPT ![i] = row]
    <3>1. CASE DeleteTask(i)
      BY <2>1, <3>1, DeletedSound DEF DeleteTask
    <3>2. CASE ConvertAccumulating(i)
      <4>1. rows[i].origin = NoDay
        BY <2>1, <3>2 DEF ConvertAccumulating, OnSchedule, Accumulating, Fixed
      <4> QED BY <2>1, <3>2, <4>1, ConvertedSound DEF ConvertAccumulating
    <3> QED BY <1>6, <3>1, <3>2
  <2>3. UNCHANGED clock
    BY <1>6 DEF DeleteTask, ConvertAccumulating
  <2> QED BY <1>1, <2>2, <2>3, WriteOnSchedule DEF OnSchedule
<1>7. \/ UNCHANGED rows
      \/ \E w \in Crons : ApplyOverdueAction(w)
      \/ \E c \in Clients : Patch(c)
      \/ \E i \in Tasks : DeleteTask(i) \/ ConvertAccumulating(i)
  BY DEF Next, CronStep, Tick, ListDue, FinishTick, FailTask, Crash,
         GetTaskForUpdate, Rollback, ReplaceStatuses, vars
<1> QED BY <1>3, <1>4, <1>5, <1>6, <1>7

\* What happens to the crons in a step.
LEMMA CronsMove ==
  ASSUME RInv, [Next]_vars
  PROVE  \/ UNCHANGED cron
         \/ \E v \in Crons :
              \/ cron' = [cron EXCEPT ![v] = IdleCron]
              \/ \E y \in NextListed(v) : cron' = [cron EXCEPT ![v].seen = @ \ {y}]
              \/ /\ UNCHANGED clock
                 /\ \E S : /\ cron' = [cron EXCEPT ![v] = [pc |-> "listed", now |-> clock,
                                                           seen |-> S]]
                           /\ \A x \in S : \E i \in Tasks :
                                x = [id |-> i, row |-> rows[i]] /\ rows[i] \in Row
                                /\ Valid(rows[i])
<1>1. UNCHANGED cron \/ \E v \in Crons : CronStep(v) \/ FailTask(v) \/ Crash(v)
  BY DEF Next, Tick, GetTaskForUpdate, Patch, Rollback, DeleteTask,
         ConvertAccumulating, ReplaceStatuses, vars
<1>2. ASSUME NEW v \in Crons, ListDue(v)
      PROVE  /\ UNCHANGED clock
             /\ \E S : /\ cron' = [cron EXCEPT ![v] = [pc |-> "listed", now |-> clock,
                                                       seen |-> S]]
                       /\ \A x \in S : \E i \in Tasks :
                            x = [id |-> i, row |-> rows[i]] /\ rows[i] \in Row
                            /\ Valid(rows[i])
  BY <1>2, ListStep DEF ListDue
<1>3. ASSUME NEW v \in Crons,
             ApplyOverdueAction(v) \/ FinishTick(v) \/ FailTask(v) \/ Crash(v)
      PROVE  \/ cron' = [cron EXCEPT ![v] = IdleCron]
             \/ \E y \in NextListed(v) : cron' = [cron EXCEPT ![v].seen = @ \ {y}]
  BY <1>3 DEF ApplyOverdueAction, FinishTick, FailTask, Crash, Done
<1> QED BY <1>1, <1>2, <1>3 DEF CronStep

LEMMA SeenStays ==
  ASSUME RInv, SchedInv, [Next]_vars
  PROVE  SeenOnCourse'
<1>1. CronType /\ AllOnCourse /\ SeenOnCourse
  BY DEF RInv, TypeOK, CronType, SchedInv
<1>2. clock \in Times /\ clock' \in Times /\ clock <= clock'
  BY ClockGoesOn
<1> SUFFICES ASSUME NEW v \in Crons, NEW x \in cron'[v].seen
             PROVE  OnSchedule(x.row, clock')
  BY DEF SeenOnCourse, OnSchedule, OnCourse
<1>3. x.row \in Row /\ OnSchedule(x.row, clock)
  <2>1. \/ x \in cron[v].seen
        \/ \E i \in Tasks : x = [id |-> i, row |-> rows[i]] /\ rows[i] \in Row
    BY <1>1, CronsMove DEF CronType, IdleCron
  <2>2. CASE x \in cron[v].seen
    BY <1>1, <2>2 DEF CronType, SeenOnCourse
  <2>3. CASE \E i \in Tasks : x = [id |-> i, row |-> rows[i]] /\ rows[i] \in Row
    BY <1>1, <2>3 DEF AllOnCourse
  <2> QED BY <2>1, <2>2, <2>3
<1> QED BY <1>2, <1>3, StillOnSchedule

LEMMA InstantsStayHeld ==
  ASSUME RInv, HeldInstants, [Next]_vars
  PROVE  HeldInstants'
<1>1. CronType /\ ClientType
  BY DEF RInv, TypeOK, CronType, ClientType
<1>2. clock \in Int /\ clock' \in Int /\ clock <= clock' /\ 0 <= clock
  BY ClockGoesOn, InstantsAreInts, ZeroTime DEF Times
<1>3. ASSUME NEW w \in Crons PROVE cron'[w].now <= clock'
  <2>1. cron[w].now \in Int /\ cron[w].now <= clock
    BY <1>1, InstantsAreInts DEF CronType, HeldInstants
  <2>2. cron'[w].now \in {cron[w].now, clock, 0}
    BY <1>1, CronsMove DEF CronType, IdleCron
  <2> QED BY <1>2, <2>1, <2>2
<1>4. ASSUME NEW c \in Clients PROVE client'[c].now <= clock'
  <2>1. client[c].now \in Int /\ client[c].now <= clock
    BY <1>1, InstantsAreInts DEF ClientType, HeldInstants
  <2>2. client'[c].now \in {client[c].now, clock, 0}
    <3>1. \/ UNCHANGED client
          \/ \E d \in Clients :
               \/ client' = [client EXCEPT ![d] = IdleClient]
               \/ \E i \in Tasks : client' = [client EXCEPT ![d] =
                                   [pc |-> "locked", id |-> i, now |-> clock]]
      BY DEF Next, Tick, CronStep, ListDue, ApplyOverdueAction, FinishTick, FailTask,
             Crash, GetTaskForUpdate, Patch, Rollback, DeleteTask,
             ConvertAccumulating, ReplaceStatuses, vars
    <3> QED BY <1>1, <3>1 DEF ClientType, IdleClient
  <2> QED BY <1>2, <2>1, <2>2
<1> QED BY <1>3, <1>4 DEF HeldInstants

LEMMA SchedInvAlways ==
  ASSUME CountsAlike
  PROVE  Spec => [](RInv /\ SchedInv)
<1>1. Init => SchedInv
  <2> SUFFICES ASSUME Init PROVE SchedInv
    OBVIOUS
  <2>1. rows \in [Tasks -> Row] /\ clock \in Times
    BY RInit DEF RInv, TypeOK
  <2>2. ASSUME NEW i \in Tasks PROVE OnSchedule(rows[i], clock)
    <3>1. /\ rows[i] \in Row /\ Valid(rows[i])
          /\ rows[i].origin = Start(rows[i].type, rows[i].due)
      BY ActionsAssumption DEF Init
    <3> SUFFICES ASSUME rows[i].type = Fixed, rows[i].due # NoDay,
                        rows[i].origin = rows[i].due
                 PROVE  /\ rows[i].rule \in RRules
                        /\ OnCourse(rows[i].rule, rows[i].due, rows[i].due, clock)
      BY <3>1 DEF OnSchedule, Start
    <3>2. rows[i].rule \in RRules /\ rows[i].due \in Days
      BY <3>1, RowShape DEF Valid, Recurring, InPlace
    <3> QED BY <3>2, StartsOnCourse
  <2>3. SeenOnCourse
    BY DEF Init, SeenOnCourse, IdleCron
  <2>4. HeldInstants
    BY <2>1, InstantsAreInts DEF Init, HeldInstants, IdleCron, IdleClient, Times
  <2> QED BY <2>2, <2>3, <2>4 DEF SchedInv, AllOnCourse
<1>2. RInv /\ SchedInv /\ [Next]_vars => SchedInv'
  <2> SUFFICES ASSUME RInv, SchedInv, [Next]_vars PROVE SchedInv'
    OBVIOUS
  <2>1. AllOnCourse' /\ SeenOnCourse' /\ HeldInstants'
    BY TasksStayOnCourse, SeenStays, InstantsStayHeld DEF SchedInv
  <2> QED BY <2>1 DEF SchedInv
<1> QED BY <1>1, <1>2, RInvAlways, PTL DEF Spec

\* A fixed schedule does not drift: where rules count alike from each of their
\* days, a due day stays on the days counted from the one a request gave, for
\* any number of crons and requests, from however old a row a cron computes.
THEOREM SchedulesDoNotDrift ==
  ASSUME CountsAlike
  PROVE  Spec => []StaysOnSchedule
<1>1. SchedInv => StaysOnSchedule
  BY DEF SchedInv, AllOnCourse, StaysOnSchedule, Scheduled, Schedule, OnSchedule, OnCourse
<1> QED BY <1>1, SchedInvAlways, PTL

\* Nor does it lose a day: no cron and no completion takes a task past an
\* occurrence whose midnight is still to come (recurrence.go:118-150 counts
\* from the due date and never past the first day after now).
THEOREM NoDayAheadIsSkipped ==
  ASSUME CountsAlike
  PROVE  Spec => []NothingAheadSkipped
<1>1. SchedInv => NothingAheadSkipped
  BY DEF SchedInv, AllOnCourse, NothingAheadSkipped, Scheduled, Schedule, Ahead,
         OnSchedule, OnCourse
<1> QED BY <1>1, SchedInvAlways, PTL

\* A row that a cron's step changes is one it had listed, and becomes what the
\* action makes of it.
LEMMA ActsOnListed ==
  ASSUME RInv, [Next]_vars, NEW w \in Crons, NEW x \in ActedOn(w)
  PROVE  /\ x \in cron[w].seen /\ x.id \in Tasks /\ x.row \in Row /\ Valid(x.row)
         /\ rows' = [rows EXCEPT ![x.id] = Applied(rows[x.id], x.row, cron[w].now)]
<1>1. /\ x \in cron[w].seen /\ x \notin cron'[w].seen
      /\ rows'[x.id] # rows[x.id]
  BY DEF ActedOn
<1>2. rows' # rows /\ cron' # cron
  BY <1>1
<1>3. PICK v \in Crons : ApplyOverdueAction(v)
  BY <1>2 DEF Next, CronStep, vars, Tick, ListDue, FinishTick, FailTask, Crash,
     GetTaskForUpdate, Patch, Rollback, DeleteTask, ConvertAccumulating, ReplaceStatuses
<1>4. PICK y \in NextListed(v), row \in Row :
        /\ y \in cron[v].seen /\ y.id \in Tasks /\ y.row \in Row /\ Valid(y.row)
        /\ cron' = Done(v, y)
        /\ rows' = [rows EXCEPT ![y.id] = row]
        /\ \/ row = rows[y.id]
           \/ row = Applied(rows[y.id], y.row, cron[v].now)
  BY <1>3, ApplyStep
<1>5. rows \in [Tasks -> Row] /\ CronType
  BY DEF RInv, TypeOK, CronType
<1>6. v = w /\ x = y
  BY <1>1, <1>4, <1>5 DEF Done, CronType
<1>7. row # rows[x.id]
  BY <1>1, <1>4, <1>5, <1>6
<1> QED BY <1>4, <1>6, <1>7

\* And it ends late enough: a cron that clears the due date of a task it should
\* advance leaves no occurrence behind, from however old a due date it
\* concluded that there is none, unless a request gave the task another
\* schedule after the cron listed it.
THEOREM SchedulesEndExhausted ==
  ASSUME CountsAlike
  PROVE  Spec => EndsExhausted
<1> DEFINE Ends == \A w \in Crons : \A x \in ActedOn(w) :
                     Scheduled(x.id) /\ SameSchedule(rows[x.id], x.row)
                       /\ x.row.overdue.action = Advance /\ rows'[x.id].due = NoDay
                       => Ahead(x.id) = {}
<1>1. RInv /\ SchedInv /\ [Next]_vars => [Ends]_vars
  <2> SUFFICES ASSUME RInv, SchedInv, [Next]_vars, NEW w \in Crons,
                      NEW x \in ActedOn(w), Scheduled(x.id),
                      SameSchedule(rows[x.id], x.row),
                      x.row.overdue.action = Advance, rows'[x.id].due = NoDay
               PROVE  Ahead(x.id) = {}
    OBVIOUS
  <2> DEFINE next == ComputeNextDueAt(x.row.type, x.row.rule, x.row.due, cron[w].now)
             o    == x.row.origin
             r    == x.row.rule
  <2>1. /\ x \in cron[w].seen /\ x.id \in Tasks /\ x.row \in Row /\ Valid(x.row)
        /\ rows' = [rows EXCEPT ![x.id] = Applied(rows[x.id], x.row, cron[w].now)]
    BY ActsOnListed
  <2>2. /\ rows \in [Tasks -> Row] /\ clock \in Times /\ cron[w].now \in Times
        /\ cron[w].now <= clock
    BY DEF RInv, TypeOK, SchedInv, HeldInstants
  <2>3. /\ o \in Days /\ r \in RRules /\ x.row.type = Fixed
        /\ OnCourse(r, x.row.due, o, clock)
        /\ rows[x.id].origin = o /\ rows[x.id].rule = r
    BY <2>1, RowShape DEF Scheduled, SameSchedule, SchedInv, SeenOnCourse, OnSchedule
  <2>4. next \in Days \cup {NoDay}
    BY <2>1, <2>2, RowShape, NextOfRow
  <2>5. next = NoDay
    <3> SUFFICES ASSUME next # NoDay PROVE FALSE
      OBVIOUS
    <3>1. Applied(rows[x.id], x.row, cron[w].now) = Advanced(rows[x.id], x.row, next)
      BY <2>1, AppliedCases DEF Advance, SetStatus
    <3>2. next \in Days
      BY <2>4
    <3> HIDE DEF next
    <3>3. rows[x.id] \in Row
      BY <2>1, <2>2
    <3>4. Advanced(rows[x.id], x.row, next).due = next
      BY <2>1, <3>2, <3>3, AdvancedShape
    <3>5. rows'[x.id].due = next
      BY <2>1, <2>2, <3>1, <3>4
    <3> QED BY <3>5
  <2>6. next = ComputeNextDueAt(Fixed, r, x.row.due, cron[w].now)
    BY <2>3
  <2>7. \A e \in Occurs[r][o] : ~ (Midnight(e) > clock)
    <3> HIDE DEF next, o, r
    <3> QED BY <2>2, <2>3, <2>5, <2>6, AdvanceOnCourse
  <2> QED BY <2>3, <2>7 DEF Ahead, Schedule
<1> QED BY <1>1, SchedInvAlways, PTL DEF Spec, EndsExhausted
=============================================================================
