\* Three commands, any of them at once, on a login of before.
CONSTANTS
  Commands = {c1, c2, c3}
SPECIFICATION Spec
INVARIANTS TypeOK OneRefreshToken StoredLoginLives
PROPERTIES ForgetsOnlyDead
SYMMETRY Commands_
CHECK_DEADLOCK FALSE
