\* Two requests, overlapping or one after the other.
CONSTANTS
  Users = {u1, u2}
  Tasks = {t1, t2}
  Requests = {r1, r2}
  Ops = {"createUser", "updateUser", "deleteUser", "addMember", "setRole", "removeMember", "assign", "spawn"}
SPECIFICATION Spec
INVARIANTS OnlyUsers OwnerLeftInTurn AssigneesInTurn
PROPERTIES AdminKeptInTurn StatusAskedInTurn RosterKept
SYMMETRY Alike
