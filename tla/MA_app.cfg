\* Two accounts, two commands at once, a change of the task and a kill.
CONSTANTS
  Accounts = {ann, bob}
  None = none
  MaxEdits = 1
  MaxQueue = 2
  MaxDeaths = 1
SPECIFICATION Spec
INVARIANTS TypeOK ListsOfAccount NothingLeftBehind AcknowledgedEditStays
CONSTRAINT OneMishap
SYMMETRY Accounts_
