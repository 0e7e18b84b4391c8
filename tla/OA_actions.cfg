\* Every pair of rules, two crons, a client, one edit and one fault.
CONSTANTS
  LastDay = 3
  DayLen = 2
  Offset = 0
  RRules = {"daily", "alternate"}
  NoRRule = "-"
  Occurs <- Calendar
  Tasks = {1, 2}
  NewRows <- NewTasks
  Crons = {c1, c2}
  Clients = {u1}
  UserOps = {"complete", "reopen", "reschedule", "rule", "overdue", "delete"}
  DueDates <- SomeDates
  TypesGiven <- SomeTypes
  ActionsGiven <- SomeActions
  BatchSize = 2
  StartTime = 3
  ClockStep = 2
  MaxClock = 5
  MaxEdits = 1
  MaxFields = 1
  MaxFaults = 1
SPECIFICATION FairSpec
INVARIANTS TypeOK RuleHasDue StaysOnSchedule NothingAheadSkipped
PROPERTIES EndsExhausted ActionsAreTaken
