\* Two PUTs on the statuses, overlapping or one after the other.
CONSTANTS
  todo = todo
  alt = alt
  done = done
  Names = {todo, alt, done}
  None = None
  Statuses = TRUE
  Lists <- ShortLists
  Start <- TodoDone
  Tasks = {t1}
  Requests = {r1, r2}
SPECIFICATION Spec
INVARIANTS AtMostOneInitial TasksKeepLevel CompleteInTurn
PROPERTIES ReplaceIsAssignment
SYMMETRY Requests_
