\* Two PATCHes on a ring of two tasks and a third, and a change of relations.
CONSTANTS
  t1 = t1
  t2 = t2
  t3 = t3
  Tasks = {t1, t2, t3}
  Requests = {r1, r2}
  NoTask = NoTask
  None = None
  PoolSize = 2
  Asks <- AllAsks
  StartTasks <- ThreeTasks
  StartTriggers <- Ring
  MaxChanges = 1
SPECIFICATION Spec
INVARIANT OwnsWhatItWrites
PROPERTIES CompletedOnce PatchIsAtomic RequestsEnd
CHECK_DEADLOCK FALSE
