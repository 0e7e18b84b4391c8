\* Two crons and two clients on one series with a rotation pool.
CONSTANTS
  LastDay = 3
  DayLen = 2
  Offset = 0
  RRules = {"daily", "until"}
  NoRRule = "-"
  Occurs <- Calendar
  Crons = {c1, c2}
  Clients = {u1, u2}
  Users = {1, 2, 3}
  NewTasks <- InTurns
  UserOps = {"complete", "reopen", "reschedule", "rule", "overdue", "assign", "pool", "delete"}
  DueDates <- SomeDates
  TypesGiven <- Back
  Assignees <- SomeUsers
  Pools <- SomePools
  BatchSize = 1
  StartTime = 1
  ClockStep = 4
  MaxClock = 5
  MaxSeries = 1
  MaxEdits = 2
  MaxFields = 1
  MaxFaults = 1
SPECIFICATION Spec
INVARIANTS OneHead TurnsInOrder PoolMovesOn SkippedDaysHavePassed
SYMMETRY Processes
PROPERTIES SpawnsOnce  SeriesGoesOn
