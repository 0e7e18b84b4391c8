----------------------------- MODULE Recurrence -----------------------------
(***************************************************************************)
(* The pure part of server/internal/taskengine: the types of recurrence,   *)
(* calendar days, due midnights in a task's timezone, the occurrences of   *)
(* recurrence rules and the turn of a rotation pool.                       *)
(*                                                                         *)
(* Time is counted in ticks, DayLen of them to a day, from a UTC midnight; *)
(* days are numbered.  One timezone is modelled by the constant distance   *)
(* Offset between its midnights and the UTC ones: positive west of         *)
(* Greenwich, negative east of it (no daylight saving).  Requests choose   *)
(* among the RRULEs named by RRules; Occurs[r] maps a DTSTART day to the   *)
(* days rrule-go enumerates from it.  BYHOUR and friends are rejected by   *)
(* validateRRule, so an occurrence has the time of day of its DTSTART.     *)
(***************************************************************************)
EXTENDS Integers, Sequences, FiniteSets

CONSTANTS
  LastDay,  \* the last day the model knows
  DayLen,   \* ticks per day
  Offset,   \* local midnight minus UTC midnight, in ticks
  RRules,   \* the recurrence rules there are
  NoRRule,  \* a NULL recurrence_rule
  Occurs    \* per rule: DTSTART day -> set of occurrence days

Days  == 0 .. LastDay
NoDay == -1            \* a NULL due_at
Times == 0 .. (LastDay + 1) * DayLen - 1

ASSUME CalendarAssumption ==
  /\ LastDay \in Nat
  /\ DayLen \in Nat \ {0}
  /\ Offset \in Int
  /\ NoRRule \notin RRules
  /\ Occurs \in [RRules -> [Days -> SUBSET Days]]
  /\ \A r \in RRules : \A d \in Days : \A e \in Occurs[r][d] : d <= e

(***************************************************************************)
(* The types of recurrence.                                                *)
(***************************************************************************)
OneOff       == "one_off"
OnDependency == "on_dependency"
Completion   == "completion_based"
Fixed        == "fixed_non_accumulating"
Accumulating == "fixed_accumulating"
Deleted      == "deleted"   \* of no type: the row is gone

InPlace   == {Completion, Fixed}           \* completing resets the task
Recurring == InPlace \cup {Accumulating}   \* exactly these carry a rule
Types     == Recurring \cup {OneOff, OnDependency}

(***************************************************************************)
(* Days and instants.                                                      *)
(***************************************************************************)
Midnight(d)  == d * DayLen + Offset    \* the day's midnight in the timezone
UTCDate(t)   == t \div DayLen
LocalDate(t) == (t - Offset) \div DayLen

\* due_at <= now, compared as UTC dates: what the cron queries and rechecks.
IsDue(d, t) == d # NoDay /\ d * DayLen <= t

(***************************************************************************)
(* Occurrences of rule r whose DTSTART is the due day d, at instant t.     *)
(***************************************************************************)
Least(S)    == CHOOSE x \in S : \A y \in S : x <= y
Earliest(S) == IF S = {} THEN NoDay ELSE Least(S)

\* Mutant: the due date itself counts as missed.
MissedFromDue(r, d, t) == {e \in Occurs[r][d] : Midnight(e) < t}

\* Strictly between the due midnight and t.
MissedOccurrences(r, d, t) ==
  {e \in Occurs[r][d] : Midnight(d) < Midnight(e) /\ Midnight(e) < t}

\* Mutant: the first day after t is passed over.
LaterByADay(r, d, t) == {e \in Occurs[r][IF d = NoDay THEN UTCDate(t) ELSE d] :
                           Midnight(e) > t + DayLen}

\* Strictly after t.  Without a due date the DTSTART is t itself, in UTC.
LaterOccurrences(r, d, t) ==
  IF d = NoDay THEN {e \in Occurs[r][UTCDate(t)] : e > UTCDate(t)}
               ELSE {e \in Occurs[r][d] : Midnight(e) > t}

\* Mutant: the day after, whatever the rule says.
NextDayDue(r, d, t) == 1 + (IF d = NoDay THEN UTCDate(t) ELSE d)

NextDue(r, d, t) == Earliest(LaterOccurrences(r, d, t))

\* Counted from the day of completion; without a due date that day is UTC's.
AfterCompletion(r, d, t) ==
  LET today == IF d = NoDay THEN UTCDate(t) ELSE LocalDate(t)
  IN  Earliest({e \in Days : today \in Days /\ e \in Occurs[r][today] /\ e > today})

\* Mutant: fixed schedules count from the completion too.
NextFromToday(type, r, d, t) ==
  IF type \in InPlace THEN AfterCompletion(r, d, t) ELSE NoDay

ComputeNextDueAt(type, r, d, t) ==
  CASE type \in {Fixed, Accumulating} -> NextDue(r, d, t)
    [] type = Completion              -> AfterCompletion(r, d, t)
    [] OTHER                          -> NoDay

\* The k-th day of a finite set of days, in calendar order.
NthDay(S, k) == Earliest({d \in S : Cardinality({e \in S : e <= d}) >= k})

(***************************************************************************)
(* Rotation.  A pool is a sequence of users without repetition; assignees  *)
(* are a set of users, which the queries return in ascending order of id.  *)
(***************************************************************************)
PlaceOf(pool, u) == CHOOSE i \in DOMAIN pool : pool[i] = u

AdvanceRotation(pool, current, step) ==
  LET known == {u \in current : \E i \in DOMAIN pool : pool[i] = u}
      base  == IF known = {} THEN 0 ELSE PlaceOf(pool, Least(known))
  IN  IF pool = <<>> THEN {} ELSE {pool[1 + ((base + step) % Len(pool))]}

=============================================================================
