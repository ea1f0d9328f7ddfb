CONSTANTS
  User = {u1, u2}
  Row = {1}
  Uncounted = {}
  Nobody = Nobody
  NoState = NoState
  Absent = Absent
  MaxTime = 2
  MaxLogins = 3
SYMMETRY Symmetry
CONSTRAINT OneTrouble
SPECIFICATION Spec
INVARIANTS KeptApart Mirrors
PROPERTIES NothingLost
CHECK_DEADLOCK FALSE
