CONSTANTS
  Defect = {"kind", "form", "digest", "long"}
  Discipline = {"close_after_error"}
  MaxBytes = 2
  MaxRequests = 4
SPECIFICATION Spec
INVARIANTS AnswersItsRequest
PROPERTIES CallReturns
CHECK_DEADLOCK FALSE
