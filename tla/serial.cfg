\* One request at a time, through all four gates and back.
SPECIFICATION Spec
CONSTANTS
  Project = {p1}
  Checkpoint = {c1, c2, c3, c4, c5}
  User = {u1, u2}
  Null = Null
  Thread = {t1}
  MaxVersion = 11
  Crashes = "between"
SYMMETRY Interchangeable
INVARIANTS SettledGate DeletedLeavesNothing TurnsInv HandInv
PROPERTIES CurrentIsNewest
CHECK_DEADLOCK FALSE
