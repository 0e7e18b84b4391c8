\* Crons alone, on two series, a timezone east of UTC; no instant is a midnight.
CONSTANTS
  LastDay = 4
  DayLen = 2
  Offset <- OneTickEast
  RRules = {"daily", "alternate"}
  NoRRule = "-"
  Occurs <- Calendar
  Crons = {c1, c2}
  Clients = {}
  Users = {}
  NewTasks <- Early
  UserOps = {}
  DueDates = {}
  TypesGiven = {}
  Assignees = {}
  Pools = {}
  BatchSize = 2
  StartTime = 0
  ClockStep = 2
  MaxClock = 8
  MaxSeries = 2
  MaxEdits = 0
  MaxFields = 0
  MaxFaults = 2
SPECIFICATION Spec
SYMMETRY Processes
INVARIANTS NoDuplicateDue NoOccurrenceSkipped
