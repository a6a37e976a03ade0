CONSTANTS
  Process = {p1, p2, p3}
  Change = {c1, c2, c3}
  MaxGeneration = 3
  Discipline = {"commit_alone", "rollback_refused"}
  Nothing = Nothing
SPECIFICATION Spec
INVARIANTS FileHoldsTheAcknowledged
PROPERTIES CommitsAreSerial
