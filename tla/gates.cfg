\* Two API requests at a time, through all four gates.
SPECIFICATION Spec
CONSTANTS
  Project = {p1}
  Checkpoint = {c1, c2, c3, c4}
  User = {}
  Null = Null
  Thread = {t1, t2}
  MaxVersion = 10
  Crashes = "never"
SYMMETRY Interchangeable
INVARIANTS MemoryTruthful IInv
PROPERTIES ImplementsGates
CHECK_DEADLOCK FALSE
