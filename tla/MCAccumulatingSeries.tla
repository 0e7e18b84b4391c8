----------------------- MODULE MCAccumulatingSeries -----------------------
(***************************************************************************)
(* Small instances of AccumulatingSeries.                                  *)
(***************************************************************************)
EXTENDS AccumulatingSeries, TLC

\* Crons are interchangeable, and so are clients.
Processes == Permutations(Crons) \cup Permutations(Clients)

\* FREQ=DAILY, FREQ=DAILY;INTERVAL=2 and FREQ=DAILY with an UNTIL on day 1, each
\* counted from its DTSTART.
Calendar ==
  [r \in RRules |-> [d \in Days |->
     CASE r = "daily"     -> {e \in Days : d <= e}
       [] r = "alternate" -> {e \in Days : d <= e /\ (e - d) % 2 = 0}
       [] r = "until"     -> {e \in Days : d <= e /\ e <= 1}]]

NewTask(rule, due) ==
  [type |-> Accumulating, rule |-> rule, due |-> due, done |-> FALSE,
   ruled |-> FALSE, who |-> <<>>, pool |-> <<>>]

\* By two rules.
Early == {NewTask("alternate", 0), NewTask("daily", 1)}

DailyFrom0 == {NewTask("daily", 0)}
DailyFrom01 == {NewTask("daily", d) : d \in {0, 1}}

\* With a set_status overdue action or without.
WithAction == DailyFrom0 \cup {[NewTask("daily", 0) EXCEPT !.ruled = TRUE]}

\* With a pool, of which user 2 comes first.
InTurns == {[NewTask("daily", 0) EXCEPT !.who = <<{2}>>, !.pool = <<<<2, 3, 1>>>>]}

OneTickEast == -1
SomeDates   == {2, NoDay}
SomeUsers   == {{3, 1}}
SomePools   == {<<>>, <<1, 2>>}
Back        == {Accumulating}
Others      == {OneOff, Fixed}
=============================================================================
