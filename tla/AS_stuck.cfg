\* As AS_drain, with tasks that carry a set_status overdue action.
CONSTANTS
  LastDay = 3
  DayLen = 2
  Offset <- OneTickEast
  RRules = {"daily"}
  NoRRule = "-"
  Occurs <- Calendar
  Crons = {c1}
  Clients = {}
  Users = {}
  NewTasks <- WithAction
  UserOps = {}
  DueDates = {}
  TypesGiven = {}
  Assignees = {}
  Pools = {}
  BatchSize = 1
  StartTime = 2
  ClockStep = 2
  MaxClock = 4
  MaxSeries = 2
  MaxEdits = 0
  MaxFields = 0
  MaxFaults = 0
SPECIFICATION FairSpec
PROPERTIES BacklogDrains
