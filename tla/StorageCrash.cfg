CONSTANTS
  Process = {p1, p2}
  Payload = {v1, v2}
  MaxGeneration = 4
  Faults = {"crash", "stage", "journal", "rename", "unlink"}
  Discipline = {"recover_first", "sole_writer", "drop_after_error"}
  NoFile = NoFile
  Torn = Torn
SPECIFICATION Spec
INVARIANTS DatabaseReadable RecoveredIsIntent AcknowledgedSurvives
PROPERTIES ImplementsAtomicDatabase
