\* Two messages of one user at a time, at the early gates of his project.
SPECIFICATION ChatSpec
CONSTANTS
  Project = {p1}
  Checkpoint = {c1, c2}
  User = {u1}
  Null = Null
  Thread = {t1, t2}
  MaxVersion = 5
  Crashes = "never"
  Overlap = TRUE
SYMMETRY Interchangeable
INVARIANTS ChatTypeOK
PROPERTIES ImplementsWorkflow
CHECK_DEADLOCK FALSE
