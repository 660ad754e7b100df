\* Every request ends: no symmetry, more ids than requests can use.
SPECIFICATION FairSpec
CONSTANTS
  Project = {p1}
  Checkpoint = {c1, c2, c3, c4}
  User = {u1}
  Null = Null
  Thread = {t1, t2}
  MaxVersion = 5
  Crashes = "never"
PROPERTIES RequestsEnd
CHECK_DEADLOCK FALSE
