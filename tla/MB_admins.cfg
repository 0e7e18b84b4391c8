\* Two requests demote or remove the two admins of a space.
CONSTANTS
  Users = {u1, u2}
  Tasks = {t1}
  Requests = {r1, r2}
  Ops = {"setRole", "removeMember"}
SPECIFICATION Spec
PROPERTIES AdminKept
