-------------------------- MODULE MCOverdueActions --------------------------
(***************************************************************************)
(* Small instances of OverdueActions.                                      *)
(***************************************************************************)
EXTENDS OverdueActions

\* FREQ=DAILY and FREQ=DAILY;INTERVAL=2, each counted from its DTSTART.
Calendar ==
  [r \in RRules |-> [d \in Days |->
     {e \in Days : d <= e /\ (r = "alternate" => (e - d) % 2 = 0)}]]

Created(type, action, after) ==
  [type |-> type, rule |-> "alternate", due |-> 0, status |-> "todo",
   overdue |-> [action |-> action, after |-> after],
   origin |-> Start(type, 0)]

\* One of each kind of action, and one of each recurring type.
NewTasks == { Created(Fixed, Advance, 0), Created(Accumulating, SetStatus, 0),
              Created(Completion, ClearDue, 1) }

SomeDates   == {1}
SomeTypes   == {OneOff, Fixed}
SomeActions == { NotOverdue, [action |-> Advance, after |-> 1] }
=============================================================================
