\* Two feedbacks for one checkpoint.
SPECIFICATION Spec
CONSTANTS
  Project = {p1}
  Checkpoint = {c1, c2, c3}
  User = {}
  Null = Null
  Thread = {t1, t2}
  MaxVersion = 8
  Crashes = "never"
PROPERTIES ActedOnCurrent
CHECK_DEADLOCK FALSE
