\* Two users with a project each, and one message each at a time.
SPECIFICATION ChatSpec
CONSTANTS
  Project = {p1, p2}
  Checkpoint = {c1}
  User = {u1, u2}
  Null = Null
  Thread = {t1, t2}
  MaxVersion = 2
  Crashes = "anywhere"
  Overlap = FALSE
SYMMETRY Interchangeable
INVARIANTS BoundProjectLives UsersKeepApart
CHECK_DEADLOCK FALSE
