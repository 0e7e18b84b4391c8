\* As AS_crons, one cron, one series, a timezone west of UTC.
CONSTANTS
  LastDay = 4
  DayLen = 2
  Offset = 1
  RRules = {"daily"}
  NoRRule = "-"
  Occurs <- Calendar
  Crons = {c1}
  Clients = {}
  Users = {}
  NewTasks <- DailyFrom01
  UserOps = {}
  DueDates = {}
  TypesGiven = {}
  Assignees = {}
  Pools = {}
  BatchSize = 2
  StartTime = 0
  ClockStep = 2
  MaxClock = 8
  MaxSeries = 1
  MaxEdits = 0
  MaxFields = 0
  MaxFaults = 0
SPECIFICATION Spec
INVARIANTS NoDuplicateDue
