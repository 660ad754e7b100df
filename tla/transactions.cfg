\* Two methods at a time on one project, each a read and a commit.
SPECIFICATION Spec
CONSTANTS
  Project = {p1}
  Checkpoint = {c1, c2}
  User = {}
  Null = Null
  Thread = {t1, t2}
  Gates = {"plan_review"}
  Statuses = {"WAIT_HUMAN_PLAN", "DONE"}
  MaxVersion = 4
SYMMETRY Interchangeable
INVARIANTS CurrentExists VersionNamesOneState
PROPERTIES GoneStaysGone OneStepUnlessOvertaken
CHECK_DEADLOCK FALSE
