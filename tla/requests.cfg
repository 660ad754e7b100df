\* Two requests at a time on one project: feedback, chat turns, deletes, crashes.
SPECIFICATION Spec
CONSTANTS
  Project = {p1}
  Checkpoint = {c1, c2, c3}
  User = {u1}
  Null = Null
  Thread = {t1, t2}
  MaxVersion = 8
  Crashes = "anywhere"
SYMMETRY Interchangeable
INVARIANTS TypeOK ReferentialIntegrity VersionToken GatesInOrder
CHECK_DEADLOCK FALSE
