\* An answer at the code gate that is no approval.
SPECIFICATION Spec
CONSTANTS
  Project = {p1}
  Checkpoint = {c1, c2, c3, c4}
  User = {}
  Null = Null
  Thread = {t1}
  MaxVersion = 10
  Crashes = "never"
INVARIANTS ApprovedMeansApproved
CHECK_DEADLOCK FALSE
