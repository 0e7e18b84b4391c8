\* Two series, one task per tick, a crash, a client that completes, reschedules and reconfigures.
CONSTANTS
  LastDay = 3
  DayLen = 2
  Offset <- OneTickEast
  RRules = {"daily", "alternate"}
  NoRRule = "-"
  Occurs <- Calendar
  Crons = {c1}
  Clients = {u1}
  Users = {}
  NewTasks <- DailyFrom0
  UserOps = {"complete", "reopen", "reschedule", "rule"}
  DueDates <- SomeDates
  TypesGiven <- Others
  Assignees = {}
  Pools = {}
  BatchSize = 1
  StartTime = 2
  ClockStep = 2
  MaxClock = 6
  MaxSeries = 2
  MaxEdits = 1
  MaxFields = 1
  MaxFaults = 1
SPECIFICATION FairSpec
PROPERTIES BacklogDrains
