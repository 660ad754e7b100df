\* One project with two files, with and without a language model.
SPECIFICATION Spec
CONSTANTS
  File = {f1, f2}
  Content = {x1, x2}
  Absent = Absent
SYMMETRY Interchangeable
INVARIANTS WorkTypeOK KeptIsTested GateHasItsWork ConfirmationIsOfAdvice 
  QuestionStaysOpen ChatApprovalsConfirmed WriteNeedsLeave
PROPERTIES ImplementsPromise
